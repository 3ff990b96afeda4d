-------------------------- MODULE DeviceOrderProofs --------------------------
(***************************************************************************)
(* Theorems about DeviceBuffers, for any devices, memory, buffers and      *)
(* workers: the streams do to device memory what the order of the client's *)
(* calls says.  No two of them are at conflicting accesses, what is read   *)
(* is what was written, a ready buffer keeps its contents, and memory that *)
(* was let go is not touched.                                              *)
(***************************************************************************)
EXTENDS DeviceBuffersProofs

-----------------------------------------------------------------------------
(* Places.  The operation at place i of stream s, counted from its head;    *)
(* q stands for the contents of the streams, now or after a step.           *)
Queues == [Streams -> Seq(StreamOp)]

(* It sets the event e; it is a wait for e.                                 *)
At(q, e, s, i) ==
  i \in DOMAIN q[s] /\ q[s][i].op \in {"access", "record"} /\ q[s][i].event = e
WaitsAt(q, e, s, i) ==
  i \in DOMAIN q[s] /\ q[s][i].op = "wait" /\ e \in q[s][i].events

(* It reads, or reads or writes, the contents of the buffer v.              *)
Written(v) == <<"written", v>>
Reads(q, s, i, v) ==
  i \in DOMAIN q[s] /\ q[s][i].op = "access" /\ \E m \in q[s][i].reads : m.val = v
Uses(q, s, i, v) == Reads(q, s, i, v) \/ At(q, Written(v), s, i)

(* How far the streams may have come, a number of operations for each: who  *)
(* has passed a wait waited for all operations that set its events.         *)
Cut(q, n) ==
  \A r \in Streams, k \in Nat, e \in Events, s \in Streams, i \in Nat :
    WaitsAt(q, e, r, k) /\ k <= n[r] /\ At(q, e, s, i) => i <= n[s]

(* The operation at place i of s has been passed whenever place j of r has, *)
(* and whenever r has passed all it has now.                                *)
Precedes(q, s, i, r, j) ==
  \A n \in [Streams -> Nat] : Cut(q, n) /\ j <= n[r] => i <= n[s]
BeforeEnd(q, s, i, r) == Precedes(q, s, i, r, Len(q[r]))

(* The streams q2 are q with something added.                               *)
Longer(q, q2) ==
  /\ q \in Queues /\ q2 \in Queues
  /\ \A s \in Streams : /\ Len(q[s]) <= Len(q2[s])
                        /\ \A i \in 1..Len(q[s]) : q2[s][i] = q[s][i]

(* A stream passes its operations in order.                                 *)
LEMMA PrecedesSame ==
  ASSUME NEW q, NEW s \in Streams, NEW i \in Nat, NEW j \in Nat, i <= j
  PROVE  Precedes(q, s, i, s, j)
<1> SUFFICES ASSUME NEW n \in [Streams -> Nat], j <= n[s] PROVE i <= n[s] BY DEF Precedes
<1>1. n[s] \in Nat OBVIOUS
<1> QED BY <1>1

(* The order is transitive.                                                 *)
LEMMA PrecedesThen ==
  ASSUME NEW q, NEW s \in Streams, NEW i, NEW r \in Streams, NEW j,
         NEW t \in Streams, NEW k, Precedes(q, s, i, r, j), Precedes(q, r, j, t, k)
  PROVE  Precedes(q, s, i, t, k)
BY DEF Precedes

(* Who waits for an event waits for the operation that sets it.             *)
LEMMA PrecedesWait ==
  ASSUME NEW q, NEW s \in Streams, NEW i \in Nat, NEW r \in Streams, NEW k \in Nat,
         NEW j \in Nat, NEW e \in Events, WaitsAt(q, e, r, k), At(q, e, s, i), k <= j
  PROVE  Precedes(q, s, i, r, j)
<1> SUFFICES ASSUME NEW n \in [Streams -> Nat], Cut(q, n), j <= n[r] PROVE i <= n[s]
  BY DEF Precedes
<1>1. n[r] \in Nat OBVIOUS
<1>2. k <= n[r] BY <1>1
<1> QED BY <1>2 DEF Cut

(* What is added to the streams leaves the order of what they have.         *)
LEMMA LongerAt ==
  ASSUME NEW q, NEW q2, Longer(q, q2), NEW s \in Streams, NEW i \in Nat
  PROVE  /\ i \in DOMAIN q[s] => i \in DOMAIN q2[s] /\ q2[s][i] = q[s][i]
         /\ \A e : At(q, e, s, i) => At(q2, e, s, i)
         /\ \A e : WaitsAt(q, e, s, i) => WaitsAt(q2, e, s, i)
         /\ \A v : Reads(q, s, i, v) => Reads(q2, s, i, v)
         /\ \A v : Uses(q, s, i, v) => Uses(q2, s, i, v)
<1>1. q[s] \in Seq(StreamOp) /\ q2[s] \in Seq(StreamOp) BY DEF Longer, Queues
<1>2. Len(q[s]) <= Len(q2[s]) /\ \A k \in 1..Len(q[s]) : q2[s][k] = q[s][k] BY DEF Longer
<1>3. i \in DOMAIN q[s] => i \in DOMAIN q2[s] /\ q2[s][i] = q[s][i] BY <1>1, <1>2
<1> QED BY <1>3 DEF At, WaitsAt, Reads, Uses

LEMMA LongerPrecedes ==
  ASSUME NEW q, NEW q2, Longer(q, q2), NEW s \in Streams, NEW i, NEW r \in Streams, NEW j,
         Precedes(q, s, i, r, j)
  PROVE  Precedes(q2, s, i, r, j)
<1>1. ASSUME NEW n \in [Streams -> Nat], Cut(q2, n) PROVE Cut(q, n)
  BY <1>1, LongerAt DEF Cut
<1> QED BY <1>1 DEF Precedes

(* What was before the end of a stream is before all that is added to it.   *)
LEMMA EndThen ==
  ASSUME NEW q, NEW q2, Longer(q, q2), NEW s \in Streams, NEW i, NEW r \in Streams,
         NEW j \in Nat, BeforeEnd(q, s, i, r), Len(q[r]) <= j
  PROVE  Precedes(q2, s, i, r, j)
<1>1. q[r] \in Seq(StreamOp) BY DEF Longer, Queues
<1>2. Len(q[r]) \in Nat BY <1>1
<1>3. Precedes(q2, r, Len(q[r]), r, j) BY <1>2, PrecedesSame
<1>4. Precedes(q2, s, i, r, Len(q[r])) BY LongerPrecedes DEF BeforeEnd
<1> QED BY <1>3, <1>4, PrecedesThen

LEMMA LongerBeforeEnd ==
  ASSUME NEW q, NEW q2, Longer(q, q2), NEW s \in Streams, NEW i, NEW r \in Streams,
         BeforeEnd(q, s, i, r)
  PROVE  BeforeEnd(q2, s, i, r)
<1>1. q2[r] \in Seq(StreamOp) BY DEF Longer, Queues
<1>2. Len(q2[r]) \in Nat /\ Len(q[r]) <= Len(q2[r]) BY <1>1 DEF Longer
<1> QED BY <1>2, EndThen DEF BeforeEnd

(* An operation is before the end of its stream, and what precedes it too.  *)
LEMMA AtBeforeEnd ==
  ASSUME NEW q \in Queues, NEW s \in Streams, NEW i, NEW r \in Streams, NEW j \in DOMAIN q[r],
         Precedes(q, s, i, r, j)
  PROVE  BeforeEnd(q, s, i, r)
<1>1. q[r] \in Seq(StreamOp) BY DEF Queues
<1>2. j \in Nat /\ Len(q[r]) \in Nat /\ j <= Len(q[r]) BY <1>1
<1>3. Precedes(q, r, j, r, Len(q[r])) BY <1>2, PrecedesSame
<1> QED BY <1>3, PrecedesThen DEF BeforeEnd

(* Nothing is before the end of an empty stream, and nothing but itself     *)
(* before an operation that a stream can take now.                          *)
Passable(q, r) ==
  \A e \in Events, s \in Streams, i \in Nat : ~(WaitsAt(q, e, r, 1) /\ At(q, e, s, i))

LEMMA HeadPrecedes ==
  ASSUME NEW q \in Queues, NEW r \in Streams, Passable(q, r),
         NEW s \in Streams, NEW i \in Nat \ {0}, Precedes(q, s, i, r, 1)
  PROVE  s = r /\ i = 1
<1> DEFINE n == [x \in Streams |-> IF x = r THEN 1 ELSE 0]
<1>1. n \in [Streams -> Nat] OBVIOUS
<1>2. Cut(q, n)
  <2> SUFFICES ASSUME NEW x \in Streams, NEW k \in Nat, NEW e \in Events, NEW y \in Streams,
                      NEW j \in Nat, WaitsAt(q, e, x, k), k <= n[x], At(q, e, y, j)
               PROVE  FALSE
    BY DEF Cut
  <2>1. q[x] \in Seq(StreamOp) BY DEF Queues
  <2>2. k >= 1 BY <2>1 DEF WaitsAt
  <2>3. x = r /\ k = 1 BY <2>2
  <2> QED BY <2>3 DEF Passable
<1>3. n[r] = 1 /\ n[s] = IF s = r THEN 1 ELSE 0 OBVIOUS
<1> HIDE DEF n
<1>4. i <= n[s] BY <1>1, <1>2, <1>3 DEF Precedes
<1> QED BY <1>3, <1>4

LEMMA EmptyBeforeEnd ==
  ASSUME NEW q \in Queues, NEW r \in Streams, q[r] = <<>>,
         NEW s \in Streams, NEW i \in Nat \ {0}
  PROVE  ~BeforeEnd(q, s, i, r)
<1> DEFINE n == [x \in Streams |-> 0]
<1>1. n \in [Streams -> Nat] OBVIOUS
<1>2. Cut(q, n)
  <2> SUFFICES ASSUME NEW x \in Streams, NEW k \in Nat, NEW e \in Events,
                      WaitsAt(q, e, x, k), k <= n[x]
               PROVE  FALSE
    BY DEF Cut
  <2>1. q[x] \in Seq(StreamOp) BY DEF Queues
  <2> QED BY <2>1 DEF WaitsAt
<1>3. n[r] = 0 /\ n[s] = 0 /\ Len(q[r]) = 0 OBVIOUS
<1> HIDE DEF n
<1> QED BY <1>1, <1>2, <1>3 DEF BeforeEnd, Precedes

(* A stream passes its head: the places of its other operations shift.      *)
Shift(s, r, i) == IF r = s THEN i + 1 ELSE i
PassesHead(q, q2, s) ==
  q \in Queues /\ q[s] # <<>> /\ q2 = [q EXCEPT ![s] = Tail(q[s])]

LEMMA TailSeq ==
  ASSUME NEW S, NEW p \in Seq(S), p # <<>>, NEW i \in Nat
  PROVE  /\ Tail(p) \in Seq(S) /\ Len(Tail(p)) \in Nat /\ Len(p) = Len(Tail(p)) + 1
         /\ i \in DOMAIN Tail(p) => i + 1 \in DOMAIN p /\ Tail(p)[i] = p[i + 1]
         /\ i + 1 \in DOMAIN p /\ i # 0 => i \in DOMAIN Tail(p)
OBVIOUS

LEMMA TailAt ==
  ASSUME NEW q, NEW q2, NEW s \in Streams, PassesHead(q, q2, s),
         NEW r \in Streams, NEW i \in Nat
  PROVE  /\ q2 \in Queues
         /\ i \in DOMAIN q2[r] => /\ Shift(s, r, i) \in DOMAIN q[r]
                                  /\ q2[r][i] = q[r][Shift(s, r, i)]
         /\ Shift(s, r, i) \in DOMAIN q[r] /\ i # 0 => i \in DOMAIN q2[r]
         /\ Len(q[r]) = Shift(s, r, Len(q2[r])) /\ Len(q2[r]) \in Nat
<1>0. q \in Queues /\ q[s] # <<>> /\ q2 = [q EXCEPT ![s] = Tail(q[s])] BY DEF PassesHead
<1>1. \A x \in Streams : q[x] \in Seq(StreamOp) BY <1>0 DEF Queues
<1>2. /\ Tail(q[s]) \in Seq(StreamOp) /\ Len(Tail(q[s])) \in Nat
      /\ Len(q[s]) = Len(Tail(q[s])) + 1
      /\ i \in DOMAIN Tail(q[s]) => i + 1 \in DOMAIN q[s] /\ Tail(q[s])[i] = q[s][i + 1]
      /\ i + 1 \in DOMAIN q[s] /\ i # 0 => i \in DOMAIN Tail(q[s])
  BY <1>0, <1>1, TailSeq
<1>3. q2 \in Queues BY <1>0, <1>1, <1>2 DEF Queues
<1>4. CASE r = s
  <2>1. q2[r] = Tail(q[s]) BY <1>0, <1>4 DEF Queues
  <2> QED BY <1>2, <1>3, <1>4, <2>1, Zenon DEF Shift
<1>5. CASE r # s
  <2>1. q2[r] = q[r] BY <1>0, <1>5 DEF Queues
  <2> QED BY <1>1, <1>3, <1>5, <2>1 DEF Shift
<1> QED BY <1>4, <1>5

LEMMA ShiftBack ==
  ASSUME NEW s, NEW r, NEW k \in Nat, k >= 1, ~(r = s /\ k = 1)
  PROVE  \E i \in Nat : i # 0 /\ k = Shift(s, r, i)
<1>1. CASE r = s
  <2>1. k - 1 \in Nat /\ k - 1 # 0 /\ k = (k - 1) + 1 BY <1>1
  <2>2. k = Shift(s, r, k - 1) BY <1>1, <2>1 DEF Shift
  <2> QED BY <2>1, <2>2
<1>2. CASE r # s BY <1>2 DEF Shift
<1> QED BY <1>1, <1>2

LEMMA TailPrecedes ==
  ASSUME NEW q \in Queues, NEW q2, NEW s \in Streams, PassesHead(q, q2, s), Passable(q, s),
         NEW a \in Streams, NEW i \in Nat, NEW b \in Streams, NEW j \in Nat,
         Precedes(q, a, Shift(s, a, i), b, Shift(s, b, j))
  PROVE  Precedes(q2, a, i, b, j)
<1> SUFFICES ASSUME NEW n \in [Streams -> Nat], Cut(q2, n), j <= n[b] PROVE i <= n[a]
  BY DEF Precedes
<1>0. \A x \in Streams, k \in Nat :
        Shift(s, x, k) \in DOMAIN q[x] /\ k # 0 =>
          k \in DOMAIN q2[x] /\ q2[x][k] = q[x][Shift(s, x, k)]
  BY TailAt
<1> DEFINE m == [x \in Streams |-> Shift(s, x, n[x])]
<1>1. \A x \in Streams : n[x] \in Nat /\ m[x] \in Nat /\ m[x] = Shift(s, x, n[x]) BY DEF Shift
<1>2. m \in [Streams -> Nat] BY <1>1
<1>3. Cut(q, m)
  <2> SUFFICES ASSUME NEW r \in Streams, NEW k \in Nat, NEW e \in Events, NEW t \in Streams,
                      NEW h \in Nat, WaitsAt(q, e, r, k), k <= m[r], At(q, e, t, h)
               PROVE  h <= m[t]
    BY DEF Cut
  <2>1. ~(r = s /\ k = 1) BY DEF Passable
  <2>2. q[r] \in Seq(StreamOp) /\ q[t] \in Seq(StreamOp) BY DEF Queues
  <2>3. k >= 1 /\ h >= 1 BY <2>2 DEF WaitsAt, At
  <2>4. CASE t = s /\ h = 1 BY <1>1, <2>4 DEF Shift
  <2>5. CASE ~(t = s /\ h = 1)
    <3>1. PICK k2 \in Nat : k2 # 0 /\ k = Shift(s, r, k2) BY <2>1, <2>3, ShiftBack
    <3>2. PICK h2 \in Nat : h2 # 0 /\ h = Shift(s, t, h2) BY <2>3, <2>5, ShiftBack
    <3>3. WaitsAt(q2, e, r, k2)
      <4>1. Shift(s, r, k2) \in DOMAIN q[r] BY <3>1 DEF WaitsAt
      <4>2. k2 \in DOMAIN q2[r] /\ q2[r][k2] = q[r][k] BY <1>0, <3>1, <4>1
      <4> QED BY <4>2 DEF WaitsAt
    <3>4. At(q2, e, t, h2)
      <4>1. Shift(s, t, h2) \in DOMAIN q[t] BY <3>2 DEF At
      <4>2. h2 \in DOMAIN q2[t] /\ q2[t][h2] = q[t][h] BY <1>0, <3>2, <4>1
      <4> QED BY <4>2 DEF At
    <3>5. k2 <= n[r] BY <1>1, <3>1 DEF Shift
    <3>6. h2 <= n[t] BY <3>3, <3>4, <3>5 DEF Cut
    <3> QED BY <1>1, <3>2, <3>6 DEF Shift
  <2> QED BY <2>4, <2>5
<1>4. Shift(s, b, j) <= m[b] BY <1>1 DEF Shift
<1>5. Shift(s, a, i) <= m[a]
  <2> HIDE DEF m
  <2> QED BY <1>2, <1>3, <1>4 DEF Precedes
<1> QED BY <1>1, <1>5 DEF Shift

-----------------------------------------------------------------------------
(* The invariant.  First what buffers, events, tasks and calls say of each  *)
(* other.  A transfer that has been given to the thread pool is a job: its  *)
(* kind, the buffer it is for and the one it reads.                         *)
Recorded(e) == ev[e].seq > 0

Job(t) == <<t.kind, t.buf, t.src>>
Jobs   == {Job(t) : t \in {u \in tasks : u.kind # "ready"}}
JobEvent(j)  == IF j[1] = "d2h" THEN <<"read", j[2]>> ELSE Written(j[2])
JobStream(j) == <<IF j[1] = "copy" THEN "d2d" ELSE j[1], buf[j[3]].dev>>

OneTask == \A t, u \in tasks : t.kind # "ready" /\ Job(t) = Job(u) => t = u

(* Clients, or a Delete or Release in progress, have the buffer; somebody   *)
(* who will use or hand out its memory has it.                              *)
Active(b) == buf[b].st \in {"making", "live"} \/ call[b].op \in {"delete", "release"}
Holder(b) == Active(b) \/ buf[b].st = "external" \/ \E j \in Jobs : b \in {j[2], j[3]}

Usage(b) == Elems(buf[b].usage)
Loose(b, s) ==
  \E x \in Usage(b) : x.event = Written(b) /\ x.stream = s /\ ~x.reference_held

(* A buffer is defined by the operation that writes it, in its own memory.  *)
ValueFits(b) ==
  Made(b) => /\ buf[b].val = b /\ buf[b].cell[1] = buf[b].dev
             /\ buf[b].defs[1] = Written(b)
             /\ DefinitionEvents(b) \subseteq {Written(b), <<"allocated", b>>}

(* An operation writes the buffer its event says, and reads others.         *)
OpFits(o) ==
  /\ o.op = "record" => o.event[1] \in {"allocated", "joined"}
  /\ o.op = "access" =>
       /\ o.event[1] \in {"written", "read"}
       /\ o.event[1] = "written" => Made(o.event[2]) /\ o.writes = {Contents(o.event[2])}
       /\ o.event[1] = "read" => o.writes = {}
       /\ \A m \in o.reads : /\ m.val \in Buffers /\ Made(m.val) /\ m.cell = buf[m.val].cell
                             /\ Written(m.val) # o.event

ValuesFit ==
  /\ \A b \in Buffers : ValueFits(b) /\ dependency[b] = "none"
  /\ \A s \in Streams, i \in Nat : i \in DOMAIN stream[s] => OpFits(stream[s][i])

(* An event is set by one operation, once, and is done after it; what is    *)
(* read has its write enqueued.                                             *)
EventFits(e) ==
  /\ ev[e].done /\ e[1] # "joined" => Recorded(e)
  /\ Recorded(e) <=> ev[e].status = "ok"
  /\ buf[e[2]].st = "unborn" => ev[e] = NotSet

PlaceFits(e, s, i) ==
  At(stream, e, s, i) =>
    /\ ~ev[e].done /\ buf[e[2]].st # "unborn"
    /\ e[1] # "joined" => Recorded(e) /\ ev[e].stream = s
    /\ \A r \in Streams, j \in Nat : At(stream, e, r, j) => r = s /\ j = i

ReadFits(s, i, v) == Reads(stream, s, i, v) => Recorded(Written(v))

EventsFit ==
  /\ \A e \in Events : EventFits(e)
  /\ \A e \in Events, s \in Streams, i \in Nat : PlaceFits(e, s, i)
  /\ \A s \in Streams, i \in Nat, v \in Buffers : ReadFits(s, i, v)

(* The numbers of the events of a stream grow along it.                     *)
NumberFits(e) == Recorded(e) => ev[e].seq < SequenceNumber(ev, ev[e].stream)

NumbersGrow ==
  \A e, f \in Events, s \in Streams, i \in Nat :
    At(stream, e, s, i) /\ ev[f].stream = s /\ Recorded(e) /\ ev[e].seq <= ev[f].seq =>
      \E j \in Nat : i <= j /\ At(stream, f, s, j)

(* The event of a job is still to be set, by this job alone, and the        *)
(* buffers it uses will know.                                               *)
CopyFits(j) ==
  /\ "copy" \in Ops /\ buf[j[2]].dev # buf[j[3]].dev
  /\ \/ call[j[2]].op = "copy" /\ j[3] \in call[j[2]].ins
     \/ /\ Active(j[2]) /\ Loose(j[2], JobStream(j))
        /\ Active(j[3]) => Written(j[2]) \in UsageEvents(j[3])

JobFits(j) ==
  /\ ev[JobEvent(j)].status = "none"
  /\ \A k \in Jobs : JobEvent(k) = JobEvent(j) => k = j
  /\ j[1] = "d2h" => /\ literal[j[2]] = "pending"
                     /\ Active(j[2]) => <<"read", j[2]>> \in UsageEvents(j[2])
  /\ j[1] = "copy" => CopyFits(j)
  /\ j[1] = "h2d" => Active(j[2]) /\ buf[j[2]].st # "making"

JobsFit == OneTask /\ \A j \in Jobs : JobFits(j)

(* A usage event names the stream its event is recorded on, and says truly  *)
(* whether transfers from the host keep a reference.                        *)
UsageFits(x) ==
  /\ Made(x.event[2]) /\ x.event[1] \in {"written", "read"}
  /\ x.event[1] = "read" => x.stream = <<"d2h", buf[x.event[2]].dev>>
  /\ x.stream[1] = "h2d" /\ x.reference_held => Retain
  /\ Recorded(x.event) => ev[x.event].stream = x.stream
  /\ \A j \in Jobs : x.event = JobEvent(j) => x.stream = JobStream(j)

UsagesFit == \A b \in Buffers : \A x \in Usage(b) : UsageFits(x)

(* The arguments of calls in progress.                                      *)
DonorFits(b) ==
  /\ \A j \in Jobs : j[1] = "h2d" => j[2] # b
  /\ Model # "kComputeSynchronized" => Recorded(Written(b))

ArgumentsFit(x) ==
  /\ call[x].op = "execute" =>
       /\ \A a, b \in call[x].ins : buf[a].dev = buf[b].dev
       /\ \A a, b \in call[x].don : a = b
       /\ \A b \in call[x].don : DonorFits(b)
  /\ call[x].op = "copy" =>
       /\ "copy" \in Ops /\ \A a, b \in call[x].ins : a = b
       /\ \A j \in Jobs : j[1] # "d2h" /\ j[2] = x => j[1] = "copy" /\ j[3] \in call[x].ins
       /\ \A a \in call[x].ins :
            /\ buf[a].dev # buf[x].dev /\ buf[a].st # "making"
            /\ Recorded(Written(x)) => ev[Written(x)].stream = <<"d2d", buf[a].dev>>

(* Whoever will use the memory owns it; its contents are written, will not  *)
(* be, or are still to be written.                                          *)
HolderFits(b) ==
  /\ Holder(b) => buf[b].owns
  /\ Active(b) => \/ Recorded(Written(b)) \/ ev[Written(b)].status = "error"
                  \/ \E j \in Jobs : JobEvent(j) = Written(b)
  /\ literal[b] = "none" => ev[<<"read", b>>].status = "none"
  /\ buf[b].st = "making" => buf[b].usage = <<>>
  /\ ready[b] = "ok" => ev[Written(b)].done

PoolFits ==
  \A p \in pool : p.op = "ready" => ev[Written(p.buf)].done \/ Written(p.buf) \in p.events

Bookkeeping ==
  /\ ValuesFit /\ EventsFit /\ (\A e \in Events : NumberFits(e)) /\ JobsFit /\ UsagesFit
  /\ (\A b \in Buffers : ArgumentsFit(b) /\ HolderFits(b)) /\ PoolFits

-----------------------------------------------------------------------------
(* Then the order of the streams.  streams_defined_on_ is right: an event   *)
(* is set before the end of each of its streams.                            *)
OnFits ==
  \A e \in Events, s \in Streams, i \in Nat : At(stream, e, s, i) =>
    \A r \in ev[e].on : BeforeEnd(stream, s, i, r)

(* The buffers v and w share memory, or did.                                *)
SameCell(v, w) == v # w /\ buf[v].cell = buf[w].cell

(* The contents of a buffer are in memory, or the write is still enqueued   *)
(* and then behind all other uses of the memory.                            *)
WriteArrives(b) ==
  Holder(b) /\ Recorded(Written(b)) =>
    \/ \E r \in Streams, j \in Nat : At(stream, Written(b), r, j)
    \/ mem[buf[b].cell] = b

WriteFollows(b) ==
  Holder(b) /\ Recorded(Written(b)) =>
    \A s \in Streams, i \in Nat, w \in Buffers : Uses(stream, s, i, w) /\ SameCell(w, b) =>
      \E r \in Streams, j \in Nat :
        At(stream, Written(b), r, j) /\ Precedes(stream, s, i, r, j)

(* The write of a job will be enqueued behind all other uses.               *)
JobFollows(j) ==
  j[1] # "d2h" =>
    \A s \in Streams, i \in Nat, w \in Buffers :
      Uses(stream, s, i, w) /\ SameCell(w, j[2]) => BeforeEnd(stream, s, i, JobStream(j))

(* The usage events of a buffer cover all its uses, except a copy whose     *)
(* call has not returned.                                                   *)
CoveredByUsage(s, i, b) ==
  \E e \in UsageEvents(b), r \in Streams, k \in Nat :
    At(stream, e, r, k) /\ Precedes(stream, s, i, r, k)

CoveredByCall(s, i, b) ==
  \E x \in Buffers : /\ call[x].op = "copy" /\ (b = x \/ b \in call[x].ins)
                     /\ At(stream, Written(x), s, i)

UsagesCover(b) ==
  Active(b) => \A s \in Streams, i \in Nat :
    Uses(stream, s, i, b) => CoveredByUsage(s, i, b) \/ CoveredByCall(s, i, b)

(* What is read has been written by then.                                   *)
ReadFollows(s, i, v) ==
  Reads(stream, s, i, v) =>
    /\ \A r \in Streams, j \in Nat : At(stream, Written(v), r, j) =>
         ~(r = s /\ j = i) /\ Precedes(stream, r, j, s, i)
    /\ \/ \E r \in Streams, j \in Nat : At(stream, Written(v), r, j)
       \/ mem[buf[v].cell] = v

(* A use and a write of another buffer in the same memory are ordered, and  *)
(* when the use is second, so is the write it uses.                         *)
InOrder(s, i, v, r, j, w) ==
  Uses(stream, s, i, v) /\ At(stream, Written(w), r, j) /\ SameCell(v, w) =>
    \/ Precedes(stream, s, i, r, j)
    \/ \E t \in Streams, k \in Nat :
         At(stream, Written(v), t, k) /\ Precedes(stream, r, j, t, k)

(* While memory is used, a callback behind the use owns it, or a borrowed   *)
(* stream waits for the use; in the compute-synchronized model the compute  *)
(* stream may be behind it, or the buffer still has the usage event that    *)
(* Delete will find.                                                        *)
Gives(o, c) ==
  o.op = "callback" /\ (c \in o.frees \/ \E b \in o.drops : buf[b].owns /\ buf[b].cell = c)

KeptByCallback(s, i, c) ==
  \E r \in Streams, j \in Nat :
    j \in DOMAIN stream[r] /\ Gives(stream[r][j], c) /\ Precedes(stream, s, i, r, j)

KeptByCompute(s, i, c) == BeforeEnd(stream, s, i, <<"compute", c[1]>>)

KeptByPool(s, i, c) ==
  \E p \in pool, r \in Streams, k \in Nat :
    /\ p.op = "release" /\ buf[p.buf].owns /\ buf[p.buf].cell = c
    /\ \E e \in p.events : At(stream, e, r, k)
    /\ Precedes(stream, s, i, r, k)

KeptByUsage(s, i, w) ==
  /\ At(stream, Written(w), s, i) /\ Active(w)
  /\ s # <<"compute", buf[w].dev>> /\ s # <<"d2d", buf[w].dev>>
  /\ call[w].op = "copy" \/ Loose(w, s)

UseKept(s, i, w) ==
  Uses(stream, s, i, w) /\ Model # "kAsynchronous" =>
    LET c == buf[w].cell IN
    \/ KeptByCallback(s, i, c)
    \/ /\ Model = "kComputeSynchronized"
       /\ KeptByCompute(s, i, c) \/ KeptByPool(s, i, c) \/ KeptByUsage(s, i, w)

(* Without copies memory is used by the streams of its device, and memory   *)
(* that was handed out, or will never be written, is not used.              *)
SameDevice(s, i, w) ==
  Uses(stream, s, i, w) /\ Model # "kComputeSynchronized" => s[2] = buf[w].cell[1]

Out(b) == buf[b].st = "external" \/ (Active(b) /\ ev[Written(b)].status = "error")

HandedOut(b) ==
  Model # "kComputeSynchronized" =>
    /\ buf[b].st = "external" => /\ Recorded(Written(b)) \/ ev[Written(b)].status = "error"
                                 /\ \A j \in Jobs : j[2] # b
    /\ Out(b) => \A s \in Streams, i \in Nat, w \in Buffers :
                   Uses(stream, s, i, w) => buf[w].cell # buf[b].cell

(* All of it.                                                               *)
HoldersFollow ==
  \A b \in Buffers : WriteArrives(b) /\ WriteFollows(b)

UsesFollow ==
  \A s \in Streams, i \in Nat, v \in Buffers :
    /\ ReadFollows(s, i, v) /\ SameDevice(s, i, v)
    /\ \A r \in Streams, j \in Nat, w \in Buffers : InOrder(s, i, v, r, j, w)

JobsFollow  == \A j \in Jobs : JobFollows(j)
UsesCovered == \A b \in Buffers : UsagesCover(b)
UsesKept    == \A s \in Streams, i \in Nat, w \in Buffers : UseKept(s, i, w)
OutIsQuiet  == \A b \in Buffers : HandedOut(b)

OrderInv ==
  /\ DeviceInv /\ Bookkeeping /\ NumbersGrow /\ OnFits /\ HoldersFollow /\ JobsFollow
  /\ UsesFollow /\ UsesCovered /\ UsesKept /\ OutIsQuiet

(* What the theorems assume of the operations clients use: nobody donates   *)
(* with a control dependency and, outside the compute-synchronized model,   *)
(* nobody copies between devices or donates a buffer with an error.         *)
Supported ==
  /\ "control" \notin Ops
  /\ Model # "kComputeSynchronized" => "copy" \notin Ops /\ "donate_error" \notin Ops

-----------------------------------------------------------------------------
(* What places hold.                                                        *)
LEMMA PlaceFacts ==
  ASSUME NEW q \in Queues, NEW s \in Streams
  PROVE  /\ Len(q[s]) \in Nat /\ DOMAIN q[s] = 1..Len(q[s])
         /\ \A i \in DOMAIN q[s] : i \in Nat /\ i # 0 /\ i <= Len(q[s]) /\ q[s][i] \in StreamOp
<1>1. q[s] \in Seq(StreamOp) BY DEF Queues
<1> QED BY <1>1

LEMMA OpFacts ==
  ASSUME NEW o \in StreamOp
  PROVE  /\ o.op \in {"wait", "access", "record", "callback"}
         /\ o.op = "wait" => o.events \in SUBSET Events
         /\ o.op = "access" => /\ o.event \in Events /\ o.reads \in SUBSET Memory
                               /\ o.writes \in SUBSET Memory
         /\ o.op = "record" => o.event \in Events
         /\ o.op = "callback" => o.drops \in SUBSET Buffers /\ o.frees \in SUBSET Cells
BY DEF StreamOp, WaitOp, AccessOp, RecordOp, CallbackOp

LEMMA EventNames ==
  /\ \A e \in Events : e[1] \in {"written", "allocated", "read", "dependency", "joined"}
  /\ \A e \in Events : e = <<e[1], e[2]>> /\ e[2] \in Buffers
  /\ \A v : Written(v)[1] = "written" /\ Written(v)[2] = v
  /\ \A b \in Buffers : Written(b) \in Events
  /\ \A v, w : Written(v) = Written(w) => v = w
  /\ \A v, w : <<"read", v>> # Written(w)
BY DEF Events, Written

(* The streams have their kinds, and what is used was made.                 *)
LEMMA InvQueues == DeviceInv => stream \in Queues
BY DEF DeviceInv, Typed, StreamTyped, Queues

LEMMA AtFacts ==
  ASSUME NEW q \in Queues, NEW e, NEW s \in Streams, NEW i, At(q, e, s, i)
  PROVE  e \in Events /\ i \in Nat /\ i # 0 /\ i \in DOMAIN q[s] /\ i <= Len(q[s])
<1>1. i \in DOMAIN q[s] /\ q[s][i].op \in {"access", "record"} /\ q[s][i].event = e BY DEF At
<1>2. i \in Nat /\ i # 0 /\ i <= Len(q[s]) /\ q[s][i] \in StreamOp BY <1>1, PlaceFacts
<1> QED BY <1>1, <1>2, OpFacts

LEMMA WritesFacts ==
  ASSUME DeviceInv, ValuesFit, NEW s \in Streams, NEW i \in Nat, NEW v \in Buffers,
         At(stream, Written(v), s, i)
  PROVE  /\ Made(v) /\ stream[s][i].op = "access" /\ stream[s][i].event = Written(v)
         /\ stream[s][i].writes = {Contents(v)}
<1>1. /\ i \in DOMAIN stream[s] /\ stream[s][i].op \in {"access", "record"}
      /\ stream[s][i].event = Written(v)
  BY DEF At
<1>2. OpFits(stream[s][i]) BY <1>1 DEF ValuesFit
<1> QED BY <1>1, <1>2, EventNames DEF OpFits

LEMMA UsesFacts ==
  ASSUME DeviceInv, ValuesFit, NEW s \in Streams, NEW i \in Nat, NEW v \in Buffers,
         Uses(stream, s, i, v)
  PROVE  /\ Made(v) /\ i # 0 /\ i \in DOMAIN stream[s]
         /\ stream[s][i].op = "access" /\ stream[s][i] \in StreamOp
<1>1. i \in DOMAIN stream[s] BY DEF Uses, Reads, At
<1>2. i # 0 /\ stream[s][i] \in StreamOp BY <1>1, InvQueues, PlaceFacts
<1>3. CASE Reads(stream, s, i, v)
  <2>1. stream[s][i].op = "access" /\ \E m \in stream[s][i].reads : m.val = v
    BY <1>3 DEF Reads
  <2>2. OpFits(stream[s][i]) BY <1>1 DEF ValuesFit
  <2>3. Made(v) BY <2>1, <2>2 DEF OpFits
  <2> QED BY <1>1, <1>2, <2>1, <2>3
<1>4. CASE At(stream, Written(v), s, i) BY <1>1, <1>2, <1>4, WritesFacts
<1> QED BY <1>3, <1>4 DEF Uses

(* Jobs belong to buffers that were made.                                   *)
LEMMA JobFacts ==
  ASSUME DeviceInv, NEW j \in Jobs
  PROVE  /\ j[1] \in {"h2d", "d2h", "copy"} /\ j[2] \in Buffers /\ j[3] \in Buffers
         /\ Made(j[2]) /\ Made(j[3]) /\ (j[1] # "copy" => j[2] = j[3])
         /\ Alive(j[2]) /\ Alive(j[3]) /\ JobEvent(j) \in Events /\ JobStream(j) \in Streams
         /\ j = <<j[1], j[2], j[3]>>
<1>1. PICK t \in tasks : t.kind # "ready" /\ j = <<t.kind, t.buf, t.src>> BY DEF Jobs, Job
<1>2. t \in Task /\ TaskFits(t) BY DEF DeviceInv, Typed, TasksTyped, TasksFit
<1>3. /\ t.kind \in {"h2d", "d2h", "copy"} /\ t.buf \in Buffers /\ t.src \in Buffers
      /\ Made(t.buf) /\ Made(t.src) /\ (t.kind # "copy" => t.buf = t.src)
  BY <1>1, <1>2 DEF Task, TaskFits
<1>4. Alive(t.buf) /\ Alive(t.src) BY DEF Alive
<1>5. j[1] = t.kind /\ j[2] = t.buf /\ j[3] = t.src BY <1>1
<1>6. buf[j[3]].dev \in Devices BY <1>3, <1>5, MadeFacts DEF DeviceInv
<1>7. JobStream(j) \in Streams BY <1>3, <1>5, <1>6 DEF JobStream, Streams
<1>8. JobEvent(j) \in Events BY <1>3, <1>5, NameFacts DEF JobEvent, Written
<1> QED BY <1>1, <1>3, <1>4, <1>5, <1>7, <1>8

(* Who owns memory was made.                                                *)
LEMMA OwnsMade ==
  ASSUME DeviceInv, NEW b \in Buffers, buf[b].owns
  PROVE  Made(b)
<1>1. buf[b] \in MadeBuffer \cup NoBuffer BY DEF DeviceInv, Typed, BufTyped
<1>2. \A r \in NoBuffer : ~r.owns BY DEF NoBuffer, Unborn
<1> QED BY <1>1, <1>2 DEF Made

LEMMA HolderFacts ==
  ASSUME DeviceInv, NEW b \in Buffers, HolderFits(b), Holder(b)
  PROVE  buf[b].owns /\ Made(b) /\ Alive(b)
<1>1. buf[b].owns BY DEF HolderFits
<1>2. Alive(b)
  <2>1. CASE Active(b) BY <2>1 DEF Active, Alive
  <2>2. CASE buf[b].st = "external" BY <2>2 DEF Alive
  <2>3. CASE \E j \in Jobs : b \in {j[2], j[3]} BY <2>3, JobFacts
  <2> QED BY <2>1, <2>2, <2>3 DEF Holder
<1> QED BY <1>1, <1>2, OwnsMade

(* Two buffers whose memory is still to be used do not share it.            *)
LEMMA HoldersDiffer ==
  ASSUME DeviceInv, NEW a \in Buffers, NEW b \in Buffers, HolderFits(a), HolderFits(b),
         Holder(a), Holder(b), a # b
  PROVE  buf[a].cell # buf[b].cell
BY HolderFacts DEF DeviceInv, OneOwner

(* Nobody takes memory that is still to be used.                            *)
LEMMA HolderNotFree ==
  ASSUME DeviceInv, NEW b \in Buffers, HolderFits(b), Holder(b)
  PROVE  ~Free(buf[b].cell)
BY HolderFacts DEF Free, Owned

-----------------------------------------------------------------------------
(* Steps that enqueue no access.  Buffers stay where they are.              *)
FixedBuffers ==
  \A b \in Buffers :
    /\ Made(b) => /\ (Made(b))' /\ buf'[b].cell = buf[b].cell /\ buf'[b].dev = buf[b].dev
                  /\ buf'[b].val = buf[b].val /\ buf'[b].defs = buf[b].defs
    /\ buf'[b].st = "unborn" => buf[b].st = "unborn"
    /\ Made(b) /\ buf'[b].st = "making" => buf[b].st = "making"

(* Waits, callbacks and records of the events X are enqueued.               *)
Appends(q, q2, X) ==
  /\ Longer(q, q2)
  /\ \A s \in Streams, i \in Nat : i \in DOMAIN q2[s] /\ i \notin DOMAIN q[s] =>
       \/ q2[s][i].op \in {"wait", "callback"}
       \/ q2[s][i].op = "record" /\ q2[s][i].event \in X
  /\ \A e \in X : e[1] \in {"allocated", "joined"}

LEMMA LongerSelf == ASSUME NEW q \in Queues PROVE Longer(q, q)
<1>1. \A s \in Streams : Len(q[s]) \in Nat BY PlaceFacts
<1> QED BY <1>1 DEF Longer

LEMMA LongerThen ==
  ASSUME NEW p, NEW q, NEW r, Longer(p, q), Longer(q, r)
  PROVE  Longer(p, r)
<1>1. p \in Queues /\ q \in Queues /\ r \in Queues BY DEF Longer
<1> SUFFICES ASSUME NEW s \in Streams
             PROVE  Len(p[s]) <= Len(r[s]) /\ \A i \in 1..Len(p[s]) : r[s][i] = p[s][i]
  BY <1>1 DEF Longer
<1>2. Len(p[s]) \in Nat /\ Len(q[s]) \in Nat /\ Len(r[s]) \in Nat BY <1>1, PlaceFacts
<1>3. Len(p[s]) <= Len(q[s]) /\ Len(q[s]) <= Len(r[s]) BY DEF Longer
<1>4. ASSUME NEW i \in 1..Len(p[s]) PROVE r[s][i] = p[s][i]
  <2>1. i \in 1..Len(q[s]) BY <1>2, <1>3
  <2> QED BY <2>1 DEF Longer
<1> QED BY <1>2, <1>3, <1>4

LEMMA AppendsNot == ASSUME NEW q \in Queues PROVE Appends(q, q, {})
BY LongerSelf DEF Appends

LEMMA AppendsThen ==
  ASSUME NEW p, NEW q, NEW r, NEW X, Appends(p, q, X), Appends(q, r, X)
  PROVE  Appends(p, r, X)
<1>1. Longer(p, r) BY LongerThen DEF Appends
<1>2. ASSUME NEW s \in Streams, NEW i \in Nat, i \in DOMAIN r[s], i \notin DOMAIN p[s]
      PROVE  \/ r[s][i].op \in {"wait", "callback"}
             \/ r[s][i].op = "record" /\ r[s][i].event \in X
  <2>1. CASE i \in DOMAIN q[s]
    <3>1. r[s][i] = q[s][i] BY <2>1, LongerAt DEF Appends
    <3> QED BY <1>2, <2>1, <3>1 DEF Appends
  <2>2. CASE i \notin DOMAIN q[s] BY <1>2, <2>2 DEF Appends
  <2> QED BY <2>1, <2>2
<1> QED BY <1>1, <1>2 DEF Appends

LEMMA AppendsAt ==
  ASSUME NEW q, NEW q2, NEW X, Appends(q, q2, X), NEW s \in Streams, NEW i \in Nat
  PROVE  /\ \A e : At(q2, e, s, i) => At(q, e, s, i) \/ (e \in X /\ i \notin DOMAIN q[s])
         /\ \A v : At(q2, Written(v), s, i) <=> At(q, Written(v), s, i)
         /\ \A v : Reads(q2, s, i, v) <=> Reads(q, s, i, v)
         /\ \A v : Uses(q2, s, i, v) <=> Uses(q, s, i, v)
<1>1. Longer(q, q2) BY DEF Appends
<1>2. \A e : At(q2, e, s, i) => At(q, e, s, i) \/ (e \in X /\ i \notin DOMAIN q[s])
  <2>1. CASE i \in DOMAIN q[s] BY <1>1, <2>1, LongerAt DEF At
  <2>2. CASE i \notin DOMAIN q[s] BY <2>2 DEF Appends, At
  <2> QED BY <2>1, <2>2
<1>3. \A v : Written(v) \notin X BY EventNames DEF Appends
<1>4. \A v : At(q2, Written(v), s, i) <=> At(q, Written(v), s, i)
  BY <1>1, <1>2, <1>3, LongerAt
<1>5. \A v : Reads(q2, s, i, v) => Reads(q, s, i, v)
  <2>1. CASE i \in DOMAIN q[s] BY <1>1, <2>1, LongerAt DEF Reads
  <2>2. CASE i \notin DOMAIN q[s] BY <2>2 DEF Appends, Reads
  <2> QED BY <2>1, <2>2
<1>6. \A v : Reads(q2, s, i, v) <=> Reads(q, s, i, v) BY <1>1, <1>5, LongerAt
<1> QED BY <1>2, <1>4, <1>6 DEF Uses

(* Usage events.                                                            *)
LEMMA UsageFacts ==
  ASSUME DeviceInv, NEW b \in Buffers
  PROVE  /\ buf[b].usage \in Seq(UsageEvent) /\ Usage(b) \subseteq UsageEvent
         /\ UsageEvents(b) = {x.event : x \in Usage(b)} /\ UsageEvents(b) \subseteq Events
<1>1. buf[b] \in MadeBuffer \cup NoBuffer BY DEF DeviceInv, Typed, BufTyped
<1>2. \A r \in NoBuffer : r.usage = <<>> BY DEF NoBuffer, Unborn
<1>3. <<>> \in Seq(UsageEvent) OBVIOUS
<1>4. buf[b].usage \in Seq(UsageEvent) BY <1>1, <1>2, <1>3 DEF MadeBuffer
<1>5. Usage(b) \subseteq UsageEvent BY <1>4 DEF Usage, Elems
<1>6. UsageEvents(b) = {x.event : x \in Usage(b)} BY DEF UsageEvents, Usage, Elems
<1> QED BY <1>4, <1>5, <1>6 DEF UsageEvent

(* A step that enqueues no access and writes no memory: contents and order  *)
(* of what is enqueued stay.                                                *)
CalmOrder(X) ==
  /\ OrderInv /\ DeviceInv' /\ Appends(stream, stream', X) /\ FixedBuffers /\ mem' = mem

LEMMA CalmFacts ==
  ASSUME NEW X, CalmOrder(X), NEW s \in Streams, NEW i \in Nat, NEW v \in Buffers
  PROVE  /\ Uses(stream', s, i, v) => /\ Uses(stream, s, i, v) /\ Made(v)
                                      /\ buf'[v].cell = buf[v].cell /\ buf'[v].dev = buf[v].dev
         /\ Reads(stream', s, i, v) => Reads(stream, s, i, v)
         /\ At(stream', Written(v), s, i) <=> At(stream, Written(v), s, i)
         /\ \A r \in Streams : \A j : Precedes(stream, s, i, r, j) => Precedes(stream', s, i, r, j)
         /\ \A r \in Streams : BeforeEnd(stream, s, i, r) => BeforeEnd(stream', s, i, r)
<1>1. Appends(stream, stream', X) /\ DeviceInv /\ ValuesFit /\ FixedBuffers
  BY DEF CalmOrder, OrderInv, Bookkeeping
<1>2. Longer(stream, stream') BY <1>1 DEF Appends
<1>3. /\ At(stream', Written(v), s, i) <=> At(stream, Written(v), s, i)
      /\ Reads(stream', s, i, v) <=> Reads(stream, s, i, v)
      /\ Uses(stream', s, i, v) <=> Uses(stream, s, i, v)
  BY <1>1, AppendsAt
<1>4. Uses(stream, s, i, v) => Made(v) BY <1>1, UsesFacts
<1>5. Made(v) => buf'[v].cell = buf[v].cell /\ buf'[v].dev = buf[v].dev
  BY <1>1 DEF FixedBuffers
<1>6. \A r \in Streams : \A j : Precedes(stream, s, i, r, j) => Precedes(stream', s, i, r, j)
  BY <1>2, LongerPrecedes
<1>7. \A r \in Streams : BeforeEnd(stream, s, i, r) => BeforeEnd(stream', s, i, r)
  BY <1>2, LongerBeforeEnd
<1> QED BY <1>3, <1>4, <1>5, <1>6, <1>7

LEMMA CalmUses ==
  ASSUME NEW X, CalmOrder(X)
  PROVE  UsesFollow'
<1> SUFFICES ASSUME NEW s \in Streams, NEW i \in Nat, NEW v \in Buffers
             PROVE  /\ ReadFollows(s, i, v)' /\ SameDevice(s, i, v)'
                    /\ \A r \in Streams, j \in Nat, w \in Buffers : InOrder(s, i, v, r, j, w)'
  BY DEF UsesFollow
<1>1. /\ ReadFollows(s, i, v) /\ SameDevice(s, i, v)
      /\ \A r \in Streams, j \in Nat, w \in Buffers : InOrder(s, i, v, r, j, w)
  BY DEF CalmOrder, OrderInv, UsesFollow
<1>2. mem' = mem BY DEF CalmOrder
<1>3. ReadFollows(s, i, v)'
  <2> SUFFICES ASSUME Reads(stream', s, i, v)
               PROVE  /\ \A r \in Streams, j \in Nat : At(stream', Written(v), r, j) =>
                           ~(r = s /\ j = i) /\ Precedes(stream', r, j, s, i)
                      /\ \/ \E r \in Streams, j \in Nat : At(stream', Written(v), r, j)
                         \/ mem'[buf'[v].cell] = v
    BY DEF ReadFollows
  <2>1. Reads(stream, s, i, v) /\ buf'[v].cell = buf[v].cell BY CalmFacts DEF Uses
  <2>2. \A r \in Streams, j \in Nat : At(stream', Written(v), r, j) =>
          ~(r = s /\ j = i) /\ Precedes(stream', r, j, s, i)
    BY <1>1, <2>1, CalmFacts DEF ReadFollows
  <2>3. \/ \E r \in Streams, j \in Nat : At(stream, Written(v), r, j)
        \/ mem[buf[v].cell] = v
    BY <1>1, <2>1 DEF ReadFollows
  <2>4. \A r \in Streams, j \in Nat : At(stream, Written(v), r, j) => At(stream', Written(v), r, j)
    BY CalmFacts
  <2> QED BY <1>2, <2>1, <2>2, <2>3, <2>4
<1>4. SameDevice(s, i, v)' BY <1>1, CalmFacts DEF SameDevice
<1>5. ASSUME NEW r \in Streams, NEW j \in Nat, NEW w \in Buffers PROVE InOrder(s, i, v, r, j, w)'
  <2> SUFFICES ASSUME Uses(stream', s, i, v), At(stream', Written(w), r, j), SameCell(v, w)'
               PROVE  \/ Precedes(stream', s, i, r, j)
                      \/ \E t \in Streams, k \in Nat :
                           At(stream', Written(v), t, k) /\ Precedes(stream', r, j, t, k)
    BY DEF InOrder
  <2>1. Uses(stream, s, i, v) /\ buf'[v].cell = buf[v].cell BY CalmFacts
  <2>2. At(stream, Written(w), r, j) /\ buf'[w].cell = buf[w].cell BY CalmFacts DEF Uses
  <2>3. SameCell(v, w) BY <2>1, <2>2 DEF SameCell
  <2>4. CASE Precedes(stream, s, i, r, j) BY <2>4, CalmFacts
  <2>5. ASSUME NEW t \in Streams, NEW k \in Nat, At(stream, Written(v), t, k),
               Precedes(stream, r, j, t, k)
        PROVE  At(stream', Written(v), t, k) /\ Precedes(stream', r, j, t, k)
    BY <2>5, CalmFacts
  <2> QED BY <1>1, <2>1, <2>2, <2>3, <2>4, <2>5 DEF InOrder
<1> QED BY <1>3, <1>4, <1>5

(* If no other buffer becomes one whose write is enqueued, the writes still *)
(* arrive and follow the other uses.                                        *)
LEMMA CalmHolders ==
  ASSUME NEW X, CalmOrder(X),
         \A b \in Buffers : Holder(b)' /\ (Recorded(Written(b)))' =>
           Holder(b) /\ Recorded(Written(b))
  PROVE  HoldersFollow'
<1> SUFFICES ASSUME NEW b \in Buffers, Holder(b)', (Recorded(Written(b)))'
             PROVE  WriteArrives(b)' /\ WriteFollows(b)'
  BY DEF HoldersFollow, WriteArrives, WriteFollows
<1>1. Holder(b) /\ Recorded(Written(b)) /\ WriteArrives(b) /\ WriteFollows(b)
  BY DEF CalmOrder, OrderInv, HoldersFollow
<1>2. Made(b) BY <1>1, HolderFacts DEF CalmOrder, OrderInv, Bookkeeping
<1>3. buf'[b].cell = buf[b].cell /\ mem' = mem BY <1>2 DEF CalmOrder, FixedBuffers
<1>4. \A r \in Streams, j \in Nat : At(stream, Written(b), r, j) => At(stream', Written(b), r, j)
  BY CalmFacts
<1>5. WriteArrives(b)' BY <1>1, <1>3, <1>4 DEF WriteArrives
<1>6. ASSUME NEW s \in Streams, NEW i \in Nat, NEW w \in Buffers, Uses(stream', s, i, w),
             SameCell(w, b)'
      PROVE  \E r \in Streams, j \in Nat :
               At(stream', Written(b), r, j) /\ Precedes(stream', s, i, r, j)
  <2>1. Uses(stream, s, i, w) /\ buf'[w].cell = buf[w].cell BY <1>6, CalmFacts
  <2>2. SameCell(w, b) BY <1>3, <1>6, <2>1 DEF SameCell
  <2>3. PICK r \in Streams, j \in Nat : At(stream, Written(b), r, j) /\ Precedes(stream, s, i, r, j)
    BY <1>1, <2>1, <2>2 DEF WriteFollows
  <2> QED BY <1>4, <2>3, CalmFacts
<1> QED BY <1>5, <1>6 DEF WriteFollows

(* A job that was there still follows.                                      *)
LEMMA CalmJob ==
  ASSUME NEW X, CalmOrder(X), NEW j \in Jobs
  PROVE  JobFollows(j)'
<1>1. DeviceInv /\ JobFollows(j) /\ FixedBuffers BY DEF CalmOrder, OrderInv, JobsFollow
<1>2. /\ j[2] \in Buffers /\ j[3] \in Buffers /\ Made(j[2]) /\ Made(j[3])
      /\ JobStream(j) \in Streams
  BY <1>1, JobFacts
<1>3. buf'[j[2]].cell = buf[j[2]].cell /\ buf'[j[3]].dev = buf[j[3]].dev
  BY <1>1, <1>2 DEF FixedBuffers
<1>4. (JobStream(j))' = JobStream(j) BY <1>3 DEF JobStream
<1> SUFFICES ASSUME j[1] # "d2h", NEW s \in Streams, NEW i \in Nat, NEW w \in Buffers,
                    Uses(stream', s, i, w), SameCell(w, j[2])'
             PROVE  BeforeEnd(stream', s, i, JobStream(j))
  BY <1>4 DEF JobFollows
<1>5. Uses(stream, s, i, w) /\ buf'[w].cell = buf[w].cell BY CalmFacts
<1>6. SameCell(w, j[2]) BY <1>3, <1>5 DEF SameCell
<1>7. BeforeEnd(stream, s, i, JobStream(j)) BY <1>1, <1>5, <1>6 DEF JobFollows
<1> QED BY <1>2, <1>7, CalmFacts

(* Usage events stay.                                                       *)
UsagesStay(b) ==
  /\ Active(b) /\ UsageEvents(b) \subseteq (UsageEvents(b))'
  /\ \A x \in Buffers : call[x].op = "copy" => call'[x] = call[x]

LEMMA CalmCovered ==
  ASSUME NEW X, CalmOrder(X),
         \A b \in Buffers : Active(b)' => ~Made(b) \/ UsagesStay(b)
  PROVE  UsesCovered'
<1> SUFFICES ASSUME NEW b \in Buffers, Active(b)', NEW s \in Streams, NEW i \in Nat,
                    Uses(stream', s, i, b)
             PROVE  CoveredByUsage(s, i, b)' \/ CoveredByCall(s, i, b)'
  BY DEF UsesCovered, UsagesCover
<1>1. Uses(stream, s, i, b) /\ Made(b) BY CalmFacts
<1>2. UsagesStay(b) BY <1>1
<1>3. CoveredByUsage(s, i, b) \/ CoveredByCall(s, i, b)
  BY <1>1, <1>2 DEF CalmOrder, OrderInv, UsesCovered, UsagesCover, UsagesStay
<1>4. Longer(stream, stream') BY DEF CalmOrder, Appends
<1>5. CASE CoveredByUsage(s, i, b)
  <2>1. PICK e \in UsageEvents(b), r \in Streams, k \in Nat :
          At(stream, e, r, k) /\ Precedes(stream, s, i, r, k)
    BY <1>5 DEF CoveredByUsage
  <2>2. At(stream', e, r, k) /\ Precedes(stream', s, i, r, k)
    BY <1>4, <2>1, LongerAt, LongerPrecedes
  <2> QED BY <1>2, <2>2 DEF CoveredByUsage, UsagesStay
<1>6. CASE CoveredByCall(s, i, b)
  <2>1. PICK x \in Buffers : /\ call[x].op = "copy" /\ (b = x \/ b \in call[x].ins)
                             /\ At(stream, Written(x), s, i)
    BY <1>6 DEF CoveredByCall
  <2>2. call'[x] = call[x] BY <1>2, <2>1 DEF UsagesStay
  <2>3. At(stream', Written(x), s, i) BY <2>1, CalmFacts
  <2> QED BY <2>1, <2>2, <2>3 DEF CoveredByCall
<1> QED BY <1>3, <1>5, <1>6

(* Memory in use is still kept.                                             *)
LEMMA CalmKept ==
  ASSUME NEW X, CalmOrder(X),
         \A b \in Buffers : buf[b].owns => buf'[b].owns,
         \A p \in pool : p.op = "release" => p \in pool' \/ \A e \in p.events : ev[e].done,
         \A s \in Streams, i \in Nat, w \in Buffers :
           KeptByUsage(s, i, w) /\ Model = "kComputeSynchronized" =>
             \/ KeptByCompute(s, i, buf[w].cell)' \/ KeptByPool(s, i, buf[w].cell)'
             \/ KeptByUsage(s, i, w)'
  PROVE  UsesKept'
<1> SUFFICES ASSUME NEW s \in Streams, NEW i \in Nat, NEW w \in Buffers, Uses(stream', s, i, w),
                    Model # "kAsynchronous"
             PROVE  UseKept(s, i, w)'
  BY DEF UsesKept, UseKept
<1>1. Uses(stream, s, i, w) /\ Made(w) /\ buf'[w].cell = buf[w].cell BY CalmFacts
<1>2. /\ DeviceInv /\ FixedBuffers /\ UseKept(s, i, w) /\ EventsFit
      /\ Longer(stream, stream')
  BY DEF CalmOrder, OrderInv, Bookkeeping, UsesKept, Appends
<1>3. \A b \in Buffers : buf[b].owns => buf'[b].owns /\ buf'[b].cell = buf[b].cell
  BY <1>2, OwnsMade DEF FixedBuffers
<1>4. buf[w].cell[1] \in Devices
  <2>1. buf[w].cell \in Cells BY <1>1, <1>2, MadeFacts DEF DeviceInv
  <2> QED BY <2>1 DEF Cells
<1>5. ASSUME NEW c, KeptByCallback(s, i, c) PROVE KeptByCallback(s, i, c)'
  <2>1. PICK r \in Streams, j \in Nat : /\ j \in DOMAIN stream[r] /\ Gives(stream[r][j], c)
                                        /\ Precedes(stream, s, i, r, j)
    BY <1>5 DEF KeptByCallback
  <2>2. j \in DOMAIN stream'[r] /\ stream'[r][j] = stream[r][j] BY <1>2, <2>1, LongerAt
  <2>3. stream[r][j] \in StreamOp BY <1>2, <2>1, InvQueues, PlaceFacts
  <2>4. stream[r][j].op = "callback" BY <2>1 DEF Gives
  <2>5. stream[r][j].drops \in SUBSET Buffers BY <2>3, <2>4, OpFacts
  <2>6. Gives(stream[r][j], c)' BY <1>3, <2>1, <2>2, <2>5 DEF Gives
  <2>7. Precedes(stream', s, i, r, j) BY <2>1, CalmFacts
  <2> QED BY <2>2, <2>6, <2>7 DEF KeptByCallback
<1>6. ASSUME NEW c, KeptByPool(s, i, c) PROVE KeptByPool(s, i, c)'
  <2>1. PICK p \in pool, r \in Streams, k \in Nat :
          /\ p.op = "release" /\ buf[p.buf].owns /\ buf[p.buf].cell = c
          /\ \E e \in p.events : At(stream, e, r, k)
          /\ Precedes(stream, s, i, r, k)
    BY <1>6 DEF KeptByPool
  <2>2. PICK e \in p.events : At(stream, e, r, k) BY <2>1
  <2>3. p.buf \in Buffers /\ e \in Events
    BY <2>2 DEF CalmOrder, OrderInv, DeviceInv, Typed, PoolTyped, Wait
  <2>4. ~ev[e].done BY <1>2, <2>2, <2>3 DEF EventsFit, PlaceFits
  <2>5. p \in pool' BY <2>1, <2>4
  <2>6. At(stream', e, r, k) BY <1>2, <2>2, LongerAt
  <2>7. Precedes(stream', s, i, r, k) BY <2>1, CalmFacts
  <2>8. buf'[p.buf].owns /\ buf'[p.buf].cell = c BY <1>3, <2>1, <2>3
  <2> QED BY <2>1, <2>5, <2>6, <2>7, <2>8 DEF KeptByPool
<1>7. ASSUME KeptByCompute(s, i, buf[w].cell) PROVE KeptByCompute(s, i, buf[w].cell)'
  <2>1. <<"compute", buf[w].cell[1]>> \in Streams BY <1>4, NameFacts
  <2>2. BeforeEnd(stream', s, i, <<"compute", buf[w].cell[1]>>)
    BY <1>7, <2>1, CalmFacts DEF KeptByCompute
  <2> QED BY <1>1, <2>2 DEF KeptByCompute
<1>8. KeptByCallback(s, i, buf[w].cell) => KeptByCallback(s, i, buf[w].cell)'
  BY <1>1, <1>5 DEF KeptByCallback, Gives
<1>9. KeptByPool(s, i, buf[w].cell) => KeptByPool(s, i, buf[w].cell)'
  BY <1>1, <1>6 DEF KeptByPool
<1> QED BY <1>1, <1>2, <1>7, <1>8, <1>9 DEF UseKept

(* Memory that was handed out stays quiet.                                  *)
LEMMA CalmOut ==
  ASSUME NEW X, CalmOrder(X),
         \A b \in Buffers : buf'[b].st = "external" /\ Model # "kComputeSynchronized" =>
           /\ (Recorded(Written(b)))' \/ ev'[Written(b)].status = "error"
           /\ \A j \in Jobs' : j[2] # b,
         \A b \in Buffers : Out(b)' /\ Model # "kComputeSynchronized" =>
           \/ Out(b) /\ Made(b)
           \/ \A s \in Streams, i \in Nat, w \in Buffers :
                Uses(stream, s, i, w) => buf[w].cell # buf'[b].cell
  PROVE  OutIsQuiet'
<1> SUFFICES ASSUME NEW b \in Buffers, Out(b)', Model # "kComputeSynchronized",
                    NEW s \in Streams, NEW i \in Nat, NEW w \in Buffers, Uses(stream', s, i, w)
             PROVE  buf'[w].cell # buf'[b].cell
  BY DEF OutIsQuiet, HandedOut
<1>1. Uses(stream, s, i, w) /\ buf'[w].cell = buf[w].cell BY CalmFacts
<1>2. CASE Out(b) /\ Made(b)
  <2>1. buf[w].cell # buf[b].cell BY <1>1, <1>2 DEF CalmOrder, OrderInv, OutIsQuiet, HandedOut
  <2>2. buf'[b].cell = buf[b].cell BY <1>2 DEF CalmOrder, FixedBuffers
  <2> QED BY <1>1, <2>1, <2>2
<1>3. CASE ~(Out(b) /\ Made(b)) BY <1>1, <1>3
<1> QED BY <1>2, <1>3

-----------------------------------------------------------------------------
(* Bookkeeping across a step.  Only the events S, which were unset, are     *)
(* set.                                                                     *)
EvStep(S) ==
  \A e \in Events :
    /\ e \notin S => /\ ev'[e].seq = ev[e].seq /\ ev'[e].stream = ev[e].stream
                     /\ ev'[e].status = ev[e].status /\ (ev[e].done => ev'[e].done)
    /\ e \in S => ev[e].status = "none" /\ ev'[e].status # "none"

(* No event is set at all; waits may be remembered for recorded ones.       *)
EvKept ==
  \A e \in Events :
    /\ ev'[e].seq = ev[e].seq /\ ev'[e].stream = ev[e].stream
    /\ ev'[e].status = ev[e].status /\ ev'[e].done = ev[e].done
    /\ ~Recorded(e) => ev'[e] = ev[e]

LEMMA EvKeptStep == EvKept => EvStep({})
BY DEF EvKept, EvStep

LEMMA EvSame == ev' = ev => EvKept
BY DEF EvKept

(* What an invariant says of one element.                                   *)
LEMMA InvFacts ==
  ASSUME OrderInv
  PROVE  /\ DeviceInv /\ ValuesFit /\ EventsFit /\ JobsFit /\ UsagesFit /\ PoolFits
         /\ OneTask /\ stream \in Queues
         /\ \A b \in Buffers : /\ ValueFits(b) /\ ArgumentsFit(b) /\ HolderFits(b)
                               /\ \A x \in Usage(b) : UsageFits(x)
         /\ \A e \in Events : EventFits(e) /\ NumberFits(e)
         /\ \A j \in Jobs : JobFits(j) /\ JobFollows(j)
         /\ \A e \in Events, s \in Streams, i \in Nat : PlaceFits(e, s, i)
<1>1. DeviceInv /\ Bookkeeping /\ JobsFollow BY DEF OrderInv
<1>2. stream \in Queues BY <1>1, InvQueues
<1> QED BY <1>1, <1>2 DEF Bookkeeping, ValuesFit, EventsFit, JobsFit, UsagesFit, JobsFollow

(* An event with the status "none" has not been recorded.                   *)
LEMMA UnsetFacts ==
  ASSUME OrderInv, NEW e \in Events, ev[e].status # "ok"
  PROVE  /\ ~Recorded(e) /\ ev[e].seq = 0 /\ (e[1] # "joined" => ~ev[e].done)
         /\ \A s \in Streams, i \in Nat : e[1] # "joined" => ~At(stream, e, s, i)
<1>1. EventFits(e) /\ \A s \in Streams, i \in Nat : PlaceFits(e, s, i) BY InvFacts
<1>2. ev[e].seq \in Nat BY DEF OrderInv, DeviceInv, Typed, EvTyped, Event
<1> QED BY <1>1, <1>2 DEF EventFits, PlaceFits, Recorded

(* Buffers and operations that were there.                                  *)
LEMMA ValuesStay ==
  ASSUME OrderInv, FixedBuffers, Longer(stream, stream'), dependency' = dependency,
         \A b \in Buffers : ~Made(b) /\ (Made(b))' => ValueFits(b)',
         \A s \in Streams, i \in Nat : i \in DOMAIN stream'[s] /\ i \notin DOMAIN stream[s] =>
           OpFits(stream[s][i])'
  PROVE  ValuesFit'
<1>1. ValuesFit /\ stream \in Queues BY InvFacts
<1>2. \A b \in Buffers : ValueFits(b)'
  <2> SUFFICES ASSUME NEW b \in Buffers, Made(b) PROVE ValueFits(b)' BY DEF ValueFits
  <2>1. ValueFits(b) BY <1>1 DEF ValuesFit
  <2> QED BY <2>1 DEF ValueFits, FixedBuffers, DefinitionEvents
<1>3. \A b \in Buffers : dependency'[b] = "none" BY <1>1 DEF ValuesFit
<1>4. ASSUME NEW s \in Streams, NEW i \in Nat, i \in DOMAIN stream'[s] PROVE OpFits(stream[s][i])'
  <2>1. CASE i \in DOMAIN stream[s]
    <3>1. stream'[s][i] = stream[s][i] BY <2>1, LongerAt
    <3>2. OpFits(stream[s][i]) BY <1>1, <2>1 DEF ValuesFit
    <3>3. stream[s][i] \in StreamOp BY <1>1, <2>1, PlaceFacts
    <3> DEFINE o == stream[s][i]
    <3>4. o.op \in {"access", "record"} => o.event \in Events BY <3>3, OpFacts
    <3>5. o.op = "access" => o.event[2] \in Buffers BY <3>4, EventNames
    <3>6. o.op = "access" /\ o.event[1] = "written" =>
            (Made(o.event[2]))' /\ o.writes = {(Contents(o.event[2]))'}
      BY <3>1, <3>2, <3>5 DEF OpFits, FixedBuffers, Contents
    <3>7. \A m \in o.reads : o.op = "access" =>
            /\ m.val \in Buffers /\ (Made(m.val))' /\ m.cell = buf'[m.val].cell
            /\ Written(m.val) # o.event
      BY <3>2 DEF OpFits, FixedBuffers
    <3> QED BY <3>1, <3>2, <3>6, <3>7 DEF OpFits
  <2>2. CASE i \notin DOMAIN stream[s] BY <1>4, <2>2
  <2> QED BY <2>1, <2>2
<1> QED BY <1>2, <1>3, <1>4 DEF ValuesFit

LEMMA CalmValues ==
  ASSUME NEW X, CalmOrder(X), dependency' = dependency,
         \A b \in Buffers : ~Made(b) /\ (Made(b))' => ValueFits(b)'
  PROVE  ValuesFit'
<1>1. OrderInv /\ FixedBuffers /\ Longer(stream, stream') BY DEF CalmOrder, Appends
<1>2. ASSUME NEW s \in Streams, NEW i \in Nat, i \in DOMAIN stream'[s], i \notin DOMAIN stream[s]
      PROVE  OpFits(stream[s][i])'
  BY <1>2 DEF CalmOrder, Appends, OpFits
<1> QED BY <1>1, <1>2, ValuesStay

(* No event is recorded or done; one of a buffer may get an error.          *)
EvCalm ==
  \A e \in Events :
    /\ ev'[e].seq = ev[e].seq /\ ev'[e].stream = ev[e].stream /\ ev'[e].done = ev[e].done
    /\ ev'[e].status = "ok" <=> ev[e].status = "ok"
    /\ buf'[e[2]].st = "unborn" => ev'[e] = ev[e]

LEMMA EvKeptCalm ==
  ASSUME OrderInv, FixedBuffers, EvKept
  PROVE  EvCalm
<1> SUFFICES ASSUME NEW e \in Events
             PROVE  buf'[e[2]].st = "unborn" => ev'[e] = ev[e]
  BY DEF EvKept, EvCalm
<1>1. e[2] \in Buffers /\ EventFits(e) BY EventNames, InvFacts
<1>2. NotSet.seq = 0 BY DEF NotSet
<1>3. ev[e] = NotSet => ~Recorded(e) BY <1>2 DEF Recorded
<1> QED BY <1>1, <1>3 DEF EventFits, EvKept, FixedBuffers

(* Events, when none is set; "joined" may be put on the streams once, for a *)
(* new buffer.                                                              *)
LEMMA CalmEvents ==
  ASSUME NEW X \in SUBSET Events, CalmOrder(X), EvCalm,
         \A e \in X : /\ e[1] = "joined" /\ buf[e[2]].st = "unborn"
                      /\ buf'[e[2]].st # "unborn",
         \A e \in X, s \in Streams, i \in Nat, r \in Streams, j \in Nat :
           At(stream', e, s, i) /\ At(stream', e, r, j) => r = s /\ j = i
  PROVE  EventsFit' /\ (\A e \in Events : NumberFits(e)') /\ NumbersGrow'
<1>1. OrderInv /\ FixedBuffers /\ Appends(stream, stream', X) /\ Longer(stream, stream')
  BY DEF CalmOrder, Appends
<1>2. /\ \A e \in Events : EventFits(e) /\ NumberFits(e)
      /\ \A e \in Events, s \in Streams, i \in Nat : PlaceFits(e, s, i)
      /\ \A s \in Streams, i \in Nat, v \in Buffers : ReadFits(s, i, v)
  BY <1>1, InvFacts DEF EventsFit
<1>3. \A e, s, i : s \in Streams /\ i \in Nat /\ e \notin X =>
        (At(stream', e, s, i) <=> At(stream, e, s, i))
  BY <1>1, AppendsAt, LongerAt
<1>4. \A e \in X : ev[e].seq = 0 /\ ~ev[e].done
  <2>1. NotSet.seq = 0 /\ NotSet.done = FALSE BY DEF NotSet
  <2> QED BY <1>2, <2>1 DEF EventFits
<1>5. ASSUME NEW e \in Events PROVE EventFits(e)'
  <2>1. e[2] \in Buffers BY EventNames
  <2>2. EventFits(e) BY <1>2
  <2> QED BY <1>1, <2>1, <2>2 DEF EventFits, EvCalm, FixedBuffers, Recorded
<1>6. ASSUME NEW e \in Events, NEW s \in Streams, NEW i \in Nat PROVE PlaceFits(e, s, i)'
  <2>1. CASE e \in X BY <1>4, <2>1 DEF PlaceFits, EvCalm
  <2>2. CASE e \notin X
    <3>1. e[2] \in Buffers /\ PlaceFits(e, s, i) BY <1>2, EventNames
    <3>2. ~ev[e].done /\ buf[e[2]].st # "unborn" => ~ev'[e].done /\ buf'[e[2]].st # "unborn"
      BY <1>1, <3>1 DEF EvCalm, FixedBuffers
    <3>3. Recorded(e) /\ ev[e].stream = s => Recorded(e)' /\ ev'[e].stream = s
      BY DEF EvCalm, Recorded
    <3> QED BY <1>3, <2>2, <3>1, <3>2, <3>3 DEF PlaceFits
  <2> QED BY <2>1, <2>2
<1>7. ASSUME NEW s \in Streams, NEW i \in Nat, NEW v \in Buffers PROVE ReadFits(s, i, v)'
  <2>1. ReadFits(s, i, v) /\ (Reads(stream', s, i, v) => Reads(stream, s, i, v))
    BY <1>1, <1>2, AppendsAt
  <2>2. Recorded(Written(v)) => (Recorded(Written(v)))' BY EventNames DEF EvCalm, Recorded, Written
  <2> QED BY <2>1, <2>2 DEF ReadFits
<1>8. \A s : SequenceNumber(ev', s) = SequenceNumber(ev, s)
  <2>1. \A s : {e \in Events : ev'[e].seq > 0 /\ ev'[e].stream = s} =
               {e \in Events : ev[e].seq > 0 /\ ev[e].stream = s}
    BY DEF EvCalm
  <2> QED BY <2>1 DEF SequenceNumber
<1>9. \A e \in Events : NumberFits(e)' BY <1>2, <1>8 DEF NumberFits, EvCalm, Recorded
<1>10. NumbersGrow'
  <2> SUFFICES ASSUME NEW e \in Events, NEW f \in Events, NEW s \in Streams, NEW i \in Nat,
                      At(stream', e, s, i), ev'[f].stream = s, ev'[e].seq > 0,
                      ev'[e].seq <= ev'[f].seq
               PROVE  \E j \in Nat : i <= j /\ At(stream', f, s, j)
    BY DEF NumbersGrow, Recorded
  <2>1. e \notin X BY <1>4 DEF EvCalm
  <2>2. At(stream, e, s, i) BY <1>3, <2>1
  <2>3. PICK j \in Nat : i <= j /\ At(stream, f, s, j)
    BY <1>1, <2>2 DEF OrderInv, NumbersGrow, EvCalm, Recorded
  <2> QED BY <1>1, <2>3, LongerAt
<1> QED BY <1>5, <1>6, <1>7, <1>9, <1>10 DEF EventsFit

(* If no wait is remembered, the old ones are right.                        *)
LEMMA CalmOn ==
  ASSUME NEW X, CalmOrder(X), \A e \in Events : ev'[e].on \subseteq ev[e].on,
         \A e \in X \cap Events : ev'[e].on = {}
  PROVE  OnFits'
<1> SUFFICES ASSUME NEW e \in Events, NEW s \in Streams, NEW i \in Nat, At(stream', e, s, i),
                    NEW r \in ev'[e].on
             PROVE  BeforeEnd(stream', s, i, r)
  BY DEF OnFits
<1>1. At(stream, e, s, i)
  <2>1. Appends(stream, stream', X) BY DEF CalmOrder
  <2>2. At(stream, e, s, i) \/ e \in X BY <2>1, AppendsAt
  <2> QED BY <2>2
<1>2. BeforeEnd(stream, s, i, r) BY <1>1 DEF CalmOrder, OrderInv, OnFits
<1>3. ev[e] \in Event BY DEF CalmOrder, OrderInv, DeviceInv, Typed, EvTyped
<1>4. r \in Streams BY <1>3 DEF Event
<1>5. Longer(stream, stream') BY DEF CalmOrder, Appends
<1> QED BY <1>2, <1>4, <1>5, LongerBeforeEnd

(* A job that was there.                                                    *)
UsageStays(b) ==
  Active(b)' => Active(b) /\ \A e \in UsageEvents(b) : ~Recorded(e) => e \in (UsageEvents(b))'

LEMMA JobStays ==
  ASSUME OrderInv, FixedBuffers, NEW S, EvStep(S), NEW j \in Jobs, JobEvent(j) \notin S,
         \A k \in Jobs' : JobEvent(k) = JobEvent(j) => k \in Jobs,
         j[1] = "d2h" => literal'[j[2]] = literal[j[2]] /\ UsageStays(j[2]),
         j[1] = "copy" => CopyFits(j)',
         j[1] = "h2d" => Active(j[2])'
  PROVE  JobFits(j)'
<1>1. JobFits(j) /\ JobEvent(j) \in Events BY InvFacts, JobFacts
<1>2. (JobEvent(j))' = JobEvent(j) /\ \A k : (JobEvent(k))' = JobEvent(k)
  BY DEF JobEvent, Written
<1>3. ev'[JobEvent(j)].status = "none" BY <1>1 DEF JobFits, EvStep
<1>4. \A k \in Jobs' : (JobEvent(k))' = (JobEvent(j))' => k = j BY <1>1, <1>2 DEF JobFits
<1>5. j[1] = "d2h" => /\ literal'[j[2]] = "pending"
                      /\ Active(j[2])' => <<"read", j[2]>> \in (UsageEvents(j[2]))'
  <2>1. ~Recorded(JobEvent(j)) BY <1>1, UnsetFacts DEF JobFits
  <2> QED BY <1>1, <2>1 DEF JobFits, UsageStays, JobEvent
<1>6. j[1] = "h2d" => buf'[j[2]].st # "making"
  BY <1>1, InvFacts, JobFacts DEF JobFits, FixedBuffers
<1> QED BY <1>2, <1>3, <1>4, <1>5, <1>6 DEF JobFits

LEMMA CopyStays ==
  ASSUME OrderInv, FixedBuffers, NEW j \in Jobs, j[1] = "copy",
         call[j[2]].op = "copy" => call'[j[2]] = call[j[2]],
         UsageStays(j[3]),
         Active(j[2]) /\ Loose(j[2], JobStream(j)) => Active(j[2])' /\ Loose(j[2], JobStream(j))'
  PROVE  CopyFits(j)'
<1>1. CopyFits(j) BY InvFacts DEF JobFits
<1>2. j[2] \in Buffers /\ j[3] \in Buffers /\ Made(j[2]) /\ Made(j[3]) BY JobFacts, InvFacts
<1>3. buf'[j[2]].dev = buf[j[2]].dev /\ buf'[j[3]].dev = buf[j[3]].dev BY <1>2 DEF FixedBuffers
<1>4. JobEvent(j) \in Events /\ ev[JobEvent(j)].status = "none" BY JobFacts, InvFacts DEF JobFits
<1>5. ~Recorded(Written(j[2])) BY <1>4, UnsetFacts DEF JobEvent
<1> QED BY <1>1, <1>3, <1>5 DEF CopyFits, UsageStays, Written

(* A usage event that was there.                                            *)
LEMMA UsageFitStays ==
  ASSUME OrderInv, FixedBuffers, NEW S, EvStep(S), NEW b \in Buffers, NEW x \in Usage(b),
         x.event \in S /\ Recorded(x.event)' => ev'[x.event].stream = x.stream,
         \A j \in Jobs' : j \in Jobs \/ JobEvent(j) # x.event \/ x.stream = (JobStream(j))'
  PROVE  UsageFits(x)' /\ x \in UsageEvent
<1>1. UsageFits(x) BY InvFacts
<1>4. x \in UsageEvent BY UsageFacts, InvFacts
<1>5. x.event \in Events BY <1>4 DEF UsageEvent
<1>6. x.event[2] \in Buffers BY <1>5, EventNames
<1>7. (Made(x.event[2]))' /\ buf'[x.event[2]].dev = buf[x.event[2]].dev
  BY <1>1, <1>6 DEF UsageFits, FixedBuffers
<1>8. Recorded(x.event)' => ev'[x.event].stream = x.stream
  BY <1>1, <1>5 DEF UsageFits, EvStep, Recorded
<1>9. ASSUME NEW j \in Jobs', x.event = (JobEvent(j))' PROVE x.stream = (JobStream(j))'
  <2>0. x.event = JobEvent(j) BY <1>9 DEF JobEvent, Written
  <2> SUFFICES ASSUME j \in Jobs PROVE x.stream = (JobStream(j))' BY <2>0
  <2>1. j \in Jobs /\ x.event = JobEvent(j) BY <2>0
  <2>2. Made(j[3]) /\ j[3] \in Buffers BY <2>1, JobFacts, InvFacts
  <2>3. (JobStream(j))' = JobStream(j) BY <2>2 DEF JobStream, FixedBuffers
  <2> QED BY <1>1, <2>1, <2>3 DEF UsageFits
<1> QED BY <1>1, <1>4, <1>7, <1>8, <1>9 DEF UsageFits

(* A call that was in progress.                                             *)
LEMMA ArgumentsStay ==
  ASSUME OrderInv, FixedBuffers, NEW S, EvStep(S), NEW x \in Buffers, call'[x] = call[x],
         \A j \in Jobs' : j[1] # "d2h" => j \in Jobs \/ ~Made(j[2]),
         call[x].op = "copy" /\ Written(x) \in S /\ Recorded(Written(x))' =>
           \A a \in call[x].ins : ev'[Written(x)].stream = <<"d2d", buf[a].dev>>
  PROVE  ArgumentsFit(x)'
<1>1. ArgumentsFit(x) /\ DeviceInv BY InvFacts
<1>2. /\ CallFits(x) /\ call[x].ins \subseteq Buffers /\ call[x].don \subseteq call[x].ins
  BY <1>1, CallFacts
<1>3. \A a \in call[x].ins : a \in Buffers /\ Made(a) BY <1>2 DEF CallFits
<1>4. \A a \in call[x].ins : buf'[a].dev = buf[a].dev BY <1>3 DEF FixedBuffers
<1>5. \A e \in Events : Recorded(e) => Recorded(e)' /\ ev'[e].stream = ev[e].stream
  <2>1. \A e \in Events : Recorded(e) => ev[e].status = "ok" BY InvFacts DEF EventFits
  <2> QED BY <2>1 DEF EvStep, Recorded
<1>6. CASE call[x].op = "execute"
  <2>1. ASSUME NEW b \in call[x].don PROVE DonorFits(b)'
    <3>1. DonorFits(b) /\ b \in Buffers /\ Made(b) BY <1>1, <1>2, <1>3, <1>6 DEF ArgumentsFit
    <3>2. Recorded(Written(b)) => Recorded(Written(b))' BY <1>5, <3>1, EventNames
    <3> QED BY <3>1, <3>2 DEF DonorFits, Written
  <2> QED BY <1>1, <1>2, <1>4, <1>6, <2>1 DEF ArgumentsFit
<1>7. CASE call[x].op = "copy"
  <2>1. buf[x].st = "making" BY <1>2, <1>7 DEF CallFits
  <2>2. Made(x) BY <1>1, <2>1, StMade DEF DeviceInv
  <2>3. buf'[x].dev = buf[x].dev BY <2>2 DEF FixedBuffers
  <2>4. ASSUME NEW a \in call[x].ins, Recorded(Written(x))'
        PROVE  ev'[Written(x)].stream = <<"d2d", buf'[a].dev>>
    <3>1. CASE Written(x) \in S BY <1>4, <1>7, <2>4, <3>1
    <3>2. CASE Written(x) \notin S
      <4>1. Recorded(Written(x)) /\ ev'[Written(x)].stream = ev[Written(x)].stream
        BY <2>4, <3>2, EventNames DEF EvStep, Recorded
      <4> QED BY <1>1, <1>4, <1>7, <4>1 DEF ArgumentsFit
    <3> QED BY <3>1, <3>2
  <2>5. \A a \in call[x].ins : buf'[a].st # "making"
    BY <1>1, <1>3, <1>7 DEF ArgumentsFit, FixedBuffers
  <2>6. \A j \in Jobs' : j[1] # "d2h" /\ j[2] = x => j[1] = "copy" /\ j[3] \in call[x].ins
    BY <1>1, <1>7, <2>2 DEF ArgumentsFit
  <2> QED BY <1>1, <1>4, <1>7, <2>3, <2>4, <2>5, <2>6 DEF ArgumentsFit, Written
<1> QED BY <1>6, <1>7 DEF ArgumentsFit

-----------------------------------------------------------------------------
(* Steps that enqueue waits and callbacks at most, set no event, and leave  *)
(* usage events and who owns what.                                          *)
MildStep ==
  /\ CalmOrder({}) /\ EvKept /\ dependency' = dependency
  /\ Jobs' \subseteq Jobs /\ OneTask'
  /\ \A b \in Buffers : /\ (Made(b))' => Made(b)
                        /\ buf'[b].usage = buf[b].usage /\ buf'[b].owns = buf[b].owns
                        /\ Active(b)' <=> Active(b)
                        /\ buf'[b].st = "external" => buf[b].st = "external"
                        /\ call[b].op = "copy" => call'[b] = call[b]
                        /\ call'[b] = call[b] \/ ArgumentsFit(b)'
                        /\ literal'[b] = "none" => literal[b] = "none"
                        /\ ready'[b] = "ok" => ev[Written(b)].done
  /\ \A j \in Jobs' : j[1] = "d2h" => literal'[j[2]] = literal[j[2]]
  /\ \A j \in Jobs \ Jobs' : j[1] = "d2h"
  /\ \A p \in pool : p.op = "release" => p \in pool' \/ \A e \in p.events : ev[e].done
  /\ PoolFits' /\ OnFits'

LEMMA MildInv ==
  ASSUME MildStep
  PROVE  OrderInv'
<1>1. /\ CalmOrder({}) /\ OrderInv /\ DeviceInv' /\ FixedBuffers /\ EvKept /\ EvStep({})
      /\ dependency' = dependency
  BY EvKeptStep DEF MildStep, CalmOrder
<1>2. ValuesFit' BY <1>1, CalmValues DEF MildStep
<1>3. EventsFit' /\ (\A e \in Events : NumberFits(e)') /\ NumbersGrow'
  <2>1. EvCalm BY <1>1, EvKeptCalm
  <2> QED BY <1>1, <2>1, CalmEvents
<1>4. \A b \in Buffers : /\ Usage(b)' = Usage(b) /\ (UsageEvents(b))' = UsageEvents(b)
                         /\ UsageStays(b) /\ \A s : Loose(b, s)' <=> Loose(b, s)
  <2> SUFFICES ASSUME NEW b \in Buffers
               PROVE  /\ Usage(b)' = Usage(b) /\ (UsageEvents(b))' = UsageEvents(b)
                      /\ UsageStays(b) /\ \A s : Loose(b, s)' <=> Loose(b, s)
    OBVIOUS
  <2>1. buf'[b].usage = buf[b].usage /\ (Active(b)' <=> Active(b)) BY DEF MildStep
  <2>2. Usage(b)' = Usage(b) /\ (UsageEvents(b))' = UsageEvents(b)
    BY <2>1 DEF Usage, UsageEvents, Elems
  <2>3. UsageStays(b) BY <2>1, <2>2 DEF UsageStays
  <2>4. \A s : Loose(b, s)' <=> Loose(b, s) BY <2>2 DEF Loose, Written
  <2> QED BY <2>2, <2>3, <2>4
<1>5. \A b \in Buffers : (Recorded(Written(b)))' <=> Recorded(Written(b))
  BY <1>1, EventNames DEF EvKept, Recorded, Written
<1>6. \A b \in Buffers : Holder(b)' => Holder(b) BY DEF MildStep, Holder
<1>7. JobsFit'
  <2> SUFFICES ASSUME NEW j \in Jobs' PROVE JobFits(j)' BY DEF MildStep, JobsFit
  <2>1. j \in Jobs /\ j[2] \in Buffers /\ j[3] \in Buffers
    BY <1>1, JobFacts, InvFacts DEF MildStep
  <2>2. j[1] = "copy" => CopyFits(j)'
    <3> SUFFICES ASSUME j[1] = "copy" PROVE CopyFits(j)' OBVIOUS
    <3>1. call[j[2]].op = "copy" => call'[j[2]] = call[j[2]] BY <2>1 DEF MildStep
    <3>2. (JobStream(j))' = JobStream(j)
      BY <1>1, <2>1, JobFacts, InvFacts DEF JobStream, FixedBuffers
    <3>3. Active(j[2]) /\ Loose(j[2], JobStream(j)) => Active(j[2])' /\ Loose(j[2], JobStream(j))'
      BY <1>4, <2>1, <3>2 DEF MildStep, Loose
    <3> QED BY <1>1, <1>4, <2>1, <3>1, <3>3, CopyStays
  <2>3. j[1] = "d2h" => literal'[j[2]] = literal[j[2]] /\ UsageStays(j[2])
    BY <1>4, <2>1 DEF MildStep
  <2>4. \A k \in Jobs' : JobEvent(k) = JobEvent(j) => k \in Jobs BY DEF MildStep
  <2>5. JobEvent(j) \notin {} OBVIOUS
  <2>6. j[1] = "h2d" => Active(j[2])' BY <1>1, <2>1, InvFacts DEF JobFits, MildStep
  <2> QED BY <1>1, <2>1, <2>2, <2>3, <2>4, <2>5, <2>6, JobStays
<1>8. UsagesFit'
  <2> SUFFICES ASSUME NEW b \in Buffers, NEW x \in Usage(b) PROVE UsageFits(x)'
    BY <1>4 DEF UsagesFit
  <2>1. \A j \in Jobs' : j \in Jobs BY DEF MildStep
  <2>2. x.event \notin {} OBVIOUS
  <2> QED BY <1>1, <2>1, <2>2, UsageFitStays
<1>9. ASSUME NEW b \in Buffers PROVE ArgumentsFit(b)'
  <2>1. CASE call'[b] = call[b]
    <3>1. \A j \in Jobs' : j \in Jobs BY DEF MildStep
    <3>2. Written(b) \notin {} OBVIOUS
    <3> QED BY <1>1, <2>1, <3>1, <3>2, ArgumentsStay
  <2> QED BY <2>1 DEF MildStep
<1>10. ASSUME NEW b \in Buffers PROVE HolderFits(b)'
  <2>1. HolderFits(b) BY <1>1, InvFacts
  <2>2. Holder(b)' => buf'[b].owns BY <1>6, <2>1 DEF HolderFits, MildStep
  <2>3. ASSUME Active(b)'
        PROVE  \/ (Recorded(Written(b)))' \/ ev'[Written(b)].status = "error"
               \/ \E j \in Jobs' : JobEvent(j) = Written(b)
    <3>1. Active(b) BY <2>3 DEF MildStep
    <3>2. ev'[Written(b)].status = ev[Written(b)].status BY <1>1, EventNames DEF EvKept
    <3>3. ASSUME NEW j \in Jobs, JobEvent(j) = Written(b) PROVE j \in Jobs'
      <4>1. j[1] # "d2h" BY <3>3, EventNames DEF JobEvent
      <4> QED BY <4>1 DEF MildStep
    <3> QED BY <1>5, <2>1, <3>1, <3>2, <3>3 DEF HolderFits
  <2>4. literal'[b] = "none" => ev'[<<"read", b>>].status = "none"
    <3>1. <<"read", b>> \in Events BY NameFacts
    <3> QED BY <1>1, <2>1, <3>1 DEF HolderFits, MildStep, EvKept
  <2>5. ready'[b] = "ok" => ev'[Written(b)].done
    BY <1>1, EventNames DEF MildStep, EvKept
  <2>6. \A j : (JobEvent(j))' = JobEvent(j) /\ (Written(b))' = Written(b)
    BY DEF JobEvent, Written
  <2>7. buf'[b].st = "making" => buf'[b].usage = <<>>
    <3> SUFFICES ASSUME buf'[b].st = "making" PROVE buf'[b].usage = <<>> OBVIOUS
    <3>1. Holder(b) BY DEF MildStep, Active, Holder
    <3>2. Made(b) BY <1>1, <2>1, <3>1, HolderFacts, InvFacts
    <3> QED BY <1>1, <2>1, <3>2 DEF HolderFits, MildStep, FixedBuffers
  <2> QED BY <2>2, <2>3, <2>4, <2>5, <2>6, <2>7 DEF HolderFits
<1>11. Bookkeeping'
  BY <1>2, <1>3, <1>7, <1>8, <1>9, <1>10 DEF Bookkeeping, MildStep
<1>12. UsesFollow' BY <1>1, CalmUses
<1>13. HoldersFollow' BY <1>1, <1>5, <1>6, CalmHolders
<1>14. JobsFollow' BY <1>1, CalmJob DEF JobsFollow, MildStep
<1>15. UsesCovered'
  <2>1. ASSUME NEW b \in Buffers, Active(b)' PROVE UsagesStay(b)
    <3>1. Active(b) BY <2>1 DEF MildStep
    <3> QED BY <1>4, <3>1 DEF UsagesStay, MildStep
  <2> QED BY <1>1, <2>1, CalmCovered
<1>16. UsesKept'
  <2>1. \A b \in Buffers : buf[b].owns => buf'[b].owns BY DEF MildStep
  <2>2. \A p \in pool : p.op = "release" => p \in pool' \/ \A e \in p.events : ev[e].done
    BY DEF MildStep
  <2>3. ASSUME NEW s \in Streams, NEW i \in Nat, NEW w \in Buffers, KeptByUsage(s, i, w)
        PROVE  KeptByUsage(s, i, w)'
    <3>1. At(stream', Written(w), s, i) BY <1>1, <2>3, CalmFacts DEF KeptByUsage
    <3>2. Uses(stream', s, i, w) BY <3>1 DEF Uses
    <3>3. buf'[w].dev = buf[w].dev BY <1>1, <3>2, CalmFacts
    <3>4. Active(w)' /\ (call[w].op = "copy" => call'[w].op = "copy") BY <2>3 DEF MildStep, KeptByUsage
    <3> QED BY <1>4, <2>3, <3>1, <3>3, <3>4 DEF KeptByUsage, Written
  <2> QED BY <1>1, <2>1, <2>2, <2>3, CalmKept
<1>17. OutIsQuiet'
  <2>1. \A b \in Buffers : HandedOut(b) BY <1>1 DEF OrderInv, OutIsQuiet
  <2>2. \A b \in Buffers : ev'[Written(b)].status = ev[Written(b)].status
    BY <1>1, EventNames DEF EvKept
  <2>3. ASSUME NEW b \in Buffers, buf'[b].st = "external", Model # "kComputeSynchronized"
        PROVE  /\ (Recorded(Written(b)))' \/ ev'[Written(b)].status = "error"
               /\ \A j \in Jobs' : j[2] # b
    <3>1. buf[b].st = "external" BY <2>3 DEF MildStep
    <3> QED BY <1>5, <2>1, <2>2, <2>3, <3>1 DEF HandedOut, MildStep
  <2>4. ASSUME NEW b \in Buffers, Out(b)' PROVE Out(b) /\ Made(b)
    <3>1. (Written(b))' = Written(b) BY DEF Written
    <3>2. Out(b) BY <2>2, <2>4, <3>1 DEF Out, MildStep
    <3>3. Holder(b) BY <3>2 DEF Out, Holder
    <3> QED BY <1>1, <3>2, <3>3, HolderFacts, InvFacts
  <2> QED BY <1>1, <2>3, <2>4, CalmOut
<1> QED
  BY <1>1, <1>3, <1>11, <1>12, <1>13, <1>14, <1>15, <1>16, <1>17 DEF OrderInv, MildStep

-----------------------------------------------------------------------------
(* Tasks and jobs.  The tasks ts stay, in whatever state they get.          *)
LEMMA JobsRelabelled ==
  ASSUME OneTask, NEW ts \in SUBSET tasks, NEW f, tasks' = {f[t] : t \in ts},
         \A t \in ts : f[t].kind = t.kind /\ f[t].buf = t.buf /\ f[t].src = t.src
  PROVE  OneTask' /\ Jobs' = {Job(t) : t \in {u \in ts : u.kind # "ready"}}
<1>1. \A t \in ts : Job(f[t]) = Job(t) BY DEF Job
<1>2. \A t : (Job(t))' = Job(t) BY DEF Job
<1>3. OneTask'
  <2> SUFFICES ASSUME NEW u \in tasks', NEW v \in tasks', u.kind # "ready", Job(u) = Job(v)
               PROVE  u = v
    BY <1>2 DEF OneTask
  <2>1. PICK t \in ts : u = f[t] OBVIOUS
  <2>2. PICK x \in ts : v = f[x] OBVIOUS
  <2>3. t = x BY <1>1, <2>1, <2>2 DEF OneTask
  <2> QED BY <2>1, <2>2, <2>3
<1>4. Jobs' = {Job(t) : t \in {u \in ts : u.kind # "ready"}} BY <1>1, <1>2 DEF Jobs
<1> QED BY <1>3, <1>4

(* Tasks stay or are awakened, one may be gone.                             *)
LEMMA JobsSame ==
  ASSUME OneTask, tasks' = tasks
  PROVE  OneTask' /\ Jobs' = Jobs
BY DEF OneTask, Jobs, Job

LEMMA JobsWithout ==
  ASSUME OneTask, NEW t \in tasks,
         \/ tasks' = tasks \ {t}
         \/ tasks \subseteq Task /\ \E e : tasks' = Awakened(tasks \ {t}, e)
  PROVE  /\ OneTask' /\ (t.kind # "ready" => Jobs' = Jobs \ {Job(t)})
         /\ (t.kind = "ready" => Jobs' = Jobs)
<1> DEFINE ts == tasks \ {t}
<1>1. OneTask' /\ Jobs' = {Job(u) : u \in {v \in ts : v.kind # "ready"}}
  <2>1. CASE tasks' = ts
    <3> DEFINE f == [x \in ts |-> x]
    <3>1. tasks' = {f[x] : x \in ts} BY <2>1
    <3>2. \A x \in ts : f[x].kind = x.kind /\ f[x].buf = x.buf /\ f[x].src = x.src OBVIOUS
    <3> HIDE DEF f
    <3> QED BY <3>1, <3>2, JobsRelabelled
  <2>2. CASE tasks \subseteq Task /\ \E e : tasks' = Awakened(ts, e)
    <3>1. PICK e : tasks' = Awakened(ts, e) BY <2>2
    <3> DEFINE f == [x \in ts |-> IF x.at = "deferred" /\ x.on = e
                                    THEN [x EXCEPT !.at = "queued"] ELSE x]
    <3>2. tasks' = {f[x] : x \in ts} BY <3>1 DEF Awakened
    <3>3. ASSUME NEW x \in ts PROVE f[x].kind = x.kind /\ f[x].buf = x.buf /\ f[x].src = x.src
      <4>1. x \in Task BY <2>2
      <4> QED BY <4>1 DEF Task
    <3> HIDE DEF f
    <3> QED BY <3>2, <3>3, JobsRelabelled
  <2> QED BY <2>1, <2>2
<1>2. t.kind = "ready" => {v \in ts : v.kind # "ready"} = {v \in tasks : v.kind # "ready"}
  OBVIOUS
<1>3. t.kind = "ready" => Jobs' = Jobs BY <1>1, <1>2 DEF Jobs
<1>4. ASSUME t.kind # "ready" PROVE Jobs' = Jobs \ {Job(t)}
  <2>1. \A u \in ts : Job(u) # Job(t) BY <1>4 DEF OneTask
  <2> QED BY <1>1, <2>1 DEF Jobs
<1> QED BY <1>1, <1>3, <1>4

LEMMA JobsMore ==
  ASSUME OneTask, NEW t, tasks' = tasks \cup {t}
  PROVE  /\ t.kind = "ready" => OneTask' /\ Jobs' = Jobs
         /\ t.kind # "ready" /\ Job(t) \notin Jobs => OneTask' /\ Jobs' = Jobs \cup {Job(t)}
<1>1. \A u : (Job(u))' = Job(u) BY DEF Job
<1>2. \A u, v : Job(u) = Job(v) => u.kind = v.kind BY DEF Job
<1>3. ASSUME t.kind = "ready" PROVE OneTask' /\ Jobs' = Jobs
  <2>1. {u \in tasks' : u.kind # "ready"} = {u \in tasks : u.kind # "ready"} BY <1>3
  <2>2. Jobs' = Jobs BY <1>1, <2>1 DEF Jobs
  <2> QED BY <1>1, <1>2, <1>3, <2>2 DEF OneTask
<1>4. ASSUME t.kind # "ready", Job(t) \notin Jobs PROVE OneTask' /\ Jobs' = Jobs \cup {Job(t)}
  <2>1. Jobs' = Jobs \cup {Job(t)} BY <1>1, <1>4 DEF Jobs
  <2>2. \A u \in tasks : u.kind # "ready" => Job(u) # Job(t) BY <1>4 DEF Jobs
  <2>3. \A u \in tasks : Job(u) # Job(t) BY <1>2, <1>4, <2>2
  <2> QED BY <1>1, <1>2, <2>1, <2>3 DEF OneTask
<1> QED BY <1>3, <1>4

-----------------------------------------------------------------------------
(* One operation is put on a stream.                                        *)
Puts(q, q2, s, o) == o \in StreamOp /\ q2 = [q EXCEPT ![s] = q[s] \o <<o>>]

LEMMA PutFacts ==
  ASSUME NEW q \in Queues, NEW q2, NEW s \in Streams, NEW o, Puts(q, q2, s, o)
  PROVE  /\ q2 \in Queues /\ Longer(q, q2) /\ Len(q[s]) \in Nat
         /\ Len(q2[s]) = Len(q[s]) + 1 /\ q2[s][Len(q[s]) + 1] = o
         /\ Len(q[s]) + 1 \in DOMAIN q2[s] /\ Len(q[s]) + 1 \notin DOMAIN q[s]
         /\ \A r \in Streams, i \in Nat : i \in DOMAIN q2[r] /\ i \notin DOMAIN q[r] =>
              r = s /\ i = Len(q[s]) + 1
<1>1. q[s] \in Seq(StreamOp) /\ o \in StreamOp /\ q2 = [q EXCEPT ![s] = q[s] \o <<o>>]
  BY DEF Puts, Queues
<1> DEFINE n == q[s] \o <<o>>
<1>2. /\ n \in Seq(StreamOp) /\ Len(n) = Len(q[s]) + 1 /\ n[Len(q[s]) + 1] = o
      /\ Len(q[s]) \in Nat /\ \A i \in 1..Len(q[s]) : n[i] = q[s][i]
  BY <1>1
<1> HIDE DEF n
<1>3. q2 \in Queues /\ q2[s] = n /\ \A r \in Streams : r # s => q2[r] = q[r]
  BY <1>1, <1>2 DEF Queues, n
<1>4. Longer(q, q2)
  <2> SUFFICES ASSUME NEW r \in Streams
               PROVE  /\ Len(q[r]) <= Len(q2[r])
                      /\ \A i \in 1..Len(q[r]) : q2[r][i] = q[r][i]
    BY <1>3 DEF Longer
  <2>1. Len(q[r]) \in Nat BY PlaceFacts
  <2>2. CASE r = s BY <1>2, <1>3, <2>2
  <2>3. CASE r # s BY <1>3, <2>1, <2>3
  <2> QED BY <2>2, <2>3
<1>5. DOMAIN q2[s] = 1..Len(n) /\ DOMAIN q[s] = 1..Len(q[s]) BY <1>1, <1>2, <1>3
<1>6. \A i \in Nat : i \in DOMAIN q2[s] /\ i \notin DOMAIN q[s] => i = Len(q[s]) + 1
  BY <1>2, <1>5
<1>7. Len(q[s]) + 1 \in DOMAIN q2[s] /\ Len(q[s]) + 1 \notin DOMAIN q[s] BY <1>2, <1>5
<1>8. \A r \in Streams, i \in Nat : i \in DOMAIN q2[r] /\ i \notin DOMAIN q[r] =>
        r = s /\ i = Len(q[s]) + 1
  BY <1>3, <1>6
<1> QED BY <1>2, <1>3, <1>4, <1>7, <1>8

LEMMA PutNothing ==
  ASSUME NEW q \in Queues, NEW s \in Streams
  PROVE  [q EXCEPT ![s] = q[s] \o <<>>] = q
<1>1. q[s] \in Seq(StreamOp) BY DEF Queues
<1>2. q[s] \o <<>> = q[s] BY <1>1
<1> QED BY <1>2 DEF Queues

(* A wait, a callback, or the record of an event of X.                      *)
LEMMA PutAppends ==
  ASSUME NEW q \in Queues, NEW q2, NEW s \in Streams, NEW o, Puts(q, q2, s, o), NEW X,
         o.op \in {"wait", "callback"} \/ (o.op = "record" /\ o.event \in X),
         \A e \in X : e[1] \in {"allocated", "joined"}
  PROVE  Appends(q, q2, X)
<1>1. /\ Longer(q, q2) /\ q2[s][Len(q[s]) + 1] = o
      /\ \A r \in Streams, i \in Nat : i \in DOMAIN q2[r] /\ i \notin DOMAIN q[r] =>
              r = s /\ i = Len(q[s]) + 1
  BY PutFacts
<1> QED BY <1>1 DEF Appends

(* WaitForEventOnStream: what sets the events is before the end of the      *)
(* stream then, whether it waits now or did before.                         *)
Waited(q, s, E) == q = [stream EXCEPT ![s] = stream[s] \o Waits(s, E)]

LEMMA WaitFacts ==
  ASSUME OrderInv, NEW s \in Streams, NEW E \in SUBSET Events, NEW q, Waited(q, s, E)
  PROVE  /\ Appends(stream, q, {})
         /\ \A e \in E, r \in Streams, i \in Nat :
              At(stream, e, r, i) => BeforeEnd(q, r, i, s)
<1>1. stream \in Queues BY InvFacts
<1> DEFINE W == {e \in E : s \notin ev[e].on}
<1>2. Waits(s, E) = IF W = {} THEN <<>> ELSE <<[op |-> "wait", events |-> W]>> BY DEF Waits
<1>3. ASSUME NEW e \in E, NEW r \in Streams, NEW i \in Nat, At(stream, e, r, i), s \in ev[e].on
      PROVE  BeforeEnd(stream, r, i, s)
  BY <1>3 DEF OrderInv, OnFits
<1>4. CASE W = {}
  <2>1. q = stream BY <1>1, <1>2, <1>4, PutNothing DEF Waited
  <2>2. \A e \in E : s \in ev[e].on BY <1>4
  <2> QED BY <1>1, <1>3, <2>1, <2>2, AppendsNot
<1>5. CASE W # {}
  <2>1. W \subseteq Events OBVIOUS
  <2> HIDE DEF W
  <2>2. PICK o \in StreamOp : /\ o = [op |-> "wait", events |-> W]
                              /\ o.op = "wait" /\ o.events = W
    <3> DEFINE w == [op |-> "wait", events |-> W]
    <3>1. w \in StreamOp /\ w.op = "wait" /\ w.events = W BY <2>1 DEF StreamOp, WaitOp
    <3> QED BY <3>1
  <2>3. Puts(stream, q, s, o) BY <1>2, <1>5, <2>2 DEF Puts, Waited
  <2>4. Appends(stream, q, {}) BY <1>1, <2>2, <2>3, PutAppends
  <2>5. /\ Longer(stream, q) /\ Len(q[s]) = Len(stream[s]) + 1 /\ q[s][Len(stream[s]) + 1] = o
        /\ Len(stream[s]) + 1 \in DOMAIN q[s] /\ Len(stream[s]) \in Nat
    BY <1>1, <2>3, PutFacts
  <2>6. ASSUME NEW e \in E, NEW r \in Streams, NEW i \in Nat, At(stream, e, r, i)
        PROVE  BeforeEnd(q, r, i, s)
    <3>1. CASE s \in ev[e].on BY <1>3, <2>5, <2>6, <3>1, LongerBeforeEnd
    <3>2. CASE s \notin ev[e].on
      <4>1. e \in W BY <3>2 DEF W
      <4>2. WaitsAt(q, e, s, Len(stream[s]) + 1) BY <2>2, <2>5, <4>1 DEF WaitsAt
      <4>3. At(q, e, r, i) BY <2>5, <2>6, LongerAt
      <4> QED BY <2>5, <4>2, <4>3, PrecedesWait DEF BeforeEnd
    <3> QED BY <3>1, <3>2
  <2> QED BY <2>4, <2>6
<1> QED BY <1>4, <1>5

(* streams_defined_on_ after the wait.                                      *)
LEMMA DefinedFacts ==
  ASSUME OrderInv, NEW s \in Streams, NEW E \in SUBSET Events, NEW e \in Events
  PROVE  /\ DefinedOn(s, E)[e].seq = ev[e].seq /\ DefinedOn(s, E)[e].stream = ev[e].stream
         /\ DefinedOn(s, E)[e].status = ev[e].status /\ DefinedOn(s, E)[e].done = ev[e].done
         /\ DefinedOn(s, E)[e].on \subseteq ev[e].on \cup {s}
         /\ e \notin E => DefinedOn(s, E)[e] = ev[e]
<1>1. ev[e] \in Event BY DEF OrderInv, DeviceInv, Typed, EvTyped
<1>2. DefinedOn(s, E)[e] = IF e \in E THEN [ev[e] EXCEPT !.on = @ \cup {s}] ELSE ev[e]
  BY DEF DefinedOn
<1> QED BY <1>1, <1>2 DEF Event

LEMMA WaitOn ==
  ASSUME OrderInv, NEW s \in Streams, NEW E \in SUBSET Events, \A e \in E : Recorded(e),
         Waited(stream', s, E), ev' = DefinedOn(s, E)
  PROVE  Appends(stream, stream', {}) /\ EvKept /\ OnFits'
<1>1. /\ Appends(stream, stream', {})
      /\ \A e \in E, r \in Streams, i \in Nat : At(stream, e, r, i) => BeforeEnd(stream', r, i, s)
  BY WaitFacts
<1>2. EvKept
  <2> SUFFICES ASSUME NEW e \in Events
               PROVE  /\ ev'[e].seq = ev[e].seq /\ ev'[e].stream = ev[e].stream
                      /\ ev'[e].status = ev[e].status /\ ev'[e].done = ev[e].done
                      /\ ~Recorded(e) => ev'[e] = ev[e]
    BY DEF EvKept
  <2>1. ~Recorded(e) => e \notin E OBVIOUS
  <2> QED BY <2>1, DefinedFacts
<1>3. Longer(stream, stream') BY <1>1 DEF Appends
<1>4. ASSUME NEW e \in Events, NEW r \in Streams, NEW i \in Nat, At(stream', e, r, i),
             NEW t \in ev'[e].on
      PROVE  BeforeEnd(stream', r, i, t)
  <2>1. At(stream, e, r, i) BY <1>1, <1>4, AppendsAt
  <2>2. ev[e] \in Event BY DEF OrderInv, DeviceInv, Typed, EvTyped
  <2>3. t \in Streams
    BY <2>2, DefinedFacts DEF Event
  <2>4. CASE t \in ev[e].on
    <3>1. BeforeEnd(stream, r, i, t) BY <2>1, <2>4 DEF OrderInv, OnFits
    <3> QED BY <1>3, <2>3, <3>1, LongerBeforeEnd
  <2>5. CASE t \notin ev[e].on
    <3>1. t = s /\ e \in E BY <2>5, DefinedFacts
    <3> QED BY <1>1, <2>1, <3>1
  <2> QED BY <2>4, <2>5
<1> QED BY <1>1, <1>2, <1>4 DEF OnFits

-----------------------------------------------------------------------------
(* The steps of the mild kind.  Streams, events and memory stay.            *)
LEMMA StillCalm ==
  ASSUME OrderInv, DeviceInv', FixedBuffers, UNCHANGED <<ev, stream, mem>>
  PROVE  CalmOrder({}) /\ EvKept /\ OnFits'
<1>1. CalmOrder({})
  <2>1. Appends(stream, stream', {}) BY AppendsNot, InvFacts
  <2> QED BY <2>1 DEF CalmOrder
<1>2. OnFits'
  <2>1. \A e \in Events : ev'[e].on \subseteq ev[e].on OBVIOUS
  <2> QED BY <1>1, <2>1, CalmOn
<1> QED BY <1>1, <1>2, EvSame

(* Buffers and calls stay too.                                              *)
LEMMA StillMild ==
  ASSUME OrderInv, DeviceInv', UNCHANGED <<buf, ev, stream, mem, call, dependency>>,
         Jobs' \subseteq Jobs, OneTask',
         \A b \in Buffers : /\ literal'[b] = "none" => literal[b] = "none"
                            /\ ready'[b] = "ok" => ready[b] = "ok" \/ ev[Written(b)].done,
         \A j \in Jobs' : j[1] = "d2h" => literal'[j[2]] = literal[j[2]],
         \A j \in Jobs \ Jobs' : j[1] = "d2h",
         \A p \in pool : p.op = "release" => p \in pool' \/ \A e \in p.events : ev[e].done,
         PoolFits'
  PROVE  OrderInv'
<1>1. FixedBuffers BY DEF FixedBuffers, Made
<1>2. CalmOrder({}) /\ EvKept /\ OnFits' BY <1>1, StillCalm
<1>3. \A b \in Buffers : ready'[b] = "ok" => ev[Written(b)].done BY InvFacts DEF HolderFits
<1>4. \A b \in Buffers : (Active(b)' <=> Active(b)) /\ ((Made(b))' => Made(b)) BY DEF Active, Made
<1>5. MildStep BY <1>2, <1>3, <1>4 DEF MildStep
<1> QED BY <1>5, MildInv

LEMMA PoolSame ==
  ASSUME OrderInv, ev' = ev, \A p \in pool' : p.op = "ready" => p \in pool
  PROVE  PoolFits'
BY InvFacts DEF PoolFits, Written

LEMMA GetReadyFutureOrder ==
  ASSUME OrderInv, DeviceInv', NEW b \in Buffers, GetReadyFuture(b)
  PROVE  OrderInv'
<1>1. /\ UNCHANGED <<buf, ev, stream, mem, call, dependency, pool, literal>>
      /\ ready' = [ready EXCEPT ![b] = "pending"]
      /\ tasks' = tasks \cup {Scheduled(<<"ready", b, b>>, buf[b].defs[1])}
  BY DEF GetReadyFuture
<1>2. Scheduled(<<"ready", b, b>>, buf[b].defs[1]).kind = "ready" BY DEF Scheduled
<1>3. OneTask' /\ Jobs' = Jobs BY <1>1, <1>2, InvFacts, JobsMore
<1>4. \A x \in Buffers : ready'[x] = "ok" => ready[x] = "ok"
  BY <1>1 DEF OrderInv, DeviceInv, Typed, FuturesTyped
<1>5. PoolFits' BY <1>1, PoolSame
<1> QED BY <1>1, <1>3, <1>4, <1>5, StillMild

LEMMA BlockOrder ==
  ASSUME OrderInv, DeviceInv', NEW t \in tasks, Block(t)
  PROVE  OrderInv'
<1>1. /\ UNCHANGED <<buf, ev, stream, mem, call, dependency, pool, literal, ready>>
      /\ tasks' = (tasks \ {t}) \cup {[t EXCEPT !.at = "running"]}
  BY DEF Block
<1>2. OneTask' /\ Jobs' = Jobs
  <2> DEFINE f == [x \in tasks |-> IF x = t THEN [t EXCEPT !.at = "running"] ELSE x]
  <2>1. tasks' = {f[x] : x \in tasks} BY <1>1
  <2>2. ASSUME NEW x \in tasks PROVE f[x].kind = x.kind /\ f[x].buf = x.buf /\ f[x].src = x.src
    <3>1. t \in Task BY TaskFacts, InvFacts
    <3> QED BY <3>1 DEF Task
  <2> HIDE DEF f
  <2>3. OneTask' /\ Jobs' = {Job(u) : u \in {v \in tasks : v.kind # "ready"}}
    BY <2>1, <2>2, InvFacts, JobsRelabelled
  <2> QED BY <2>3 DEF Jobs
<1>3. PoolFits' BY <1>1, PoolSame
<1> QED BY <1>1, <1>2, <1>3, StillMild

LEMMA AsyncToLiteralFailsOrder ==
  ASSUME OrderInv, DeviceInv', NEW t \in tasks, AsyncToLiteralFails(t)
  PROVE  OrderInv'
<1>1. /\ UNCHANGED <<buf, ev, stream, mem, call, dependency, pool, ready>>
      /\ literal' = [literal EXCEPT ![t.buf] = "error"] /\ tasks' = tasks \ {t} /\ t.kind = "d2h"
  BY DEF AsyncToLiteralFails
<1>2. OneTask' /\ Jobs' = Jobs \ {Job(t)} BY <1>1, InvFacts, JobsWithout
<1>3. t.buf \in Buffers /\ literal \in [Buffers -> Future]
  BY TaskFacts, InvFacts DEF DeviceInv, Typed, FuturesTyped
<1>4. Job(t) \in Jobs /\ Job(t)[1] = "d2h" /\ Job(t)[2] = t.buf BY <1>1 DEF Jobs, Job
<1>5. ASSUME NEW j \in Jobs', j[1] = "d2h" PROVE literal'[j[2]] = literal[j[2]]
  <2>1. j \in Jobs /\ j # Job(t) /\ j[2] \in Buffers BY <1>2, InvFacts, JobFacts
  <2>2. JobFits(j) BY <2>1, InvFacts
  <2>3. j[2] # t.buf BY <1>4, <1>5, <2>1, <2>2 DEF JobFits, JobEvent
  <2> QED BY <1>1, <1>3, <2>1, <2>3
<1>6. \A b \in Buffers : literal'[b] = "none" => literal[b] = "none" BY <1>1, <1>3
<1>7. \A j \in Jobs \ Jobs' : j[1] = "d2h" BY <1>2, <1>4
<1>8. PoolFits' BY <1>1, PoolSame
<1> QED BY <1>1, <1>2, <1>5, <1>6, <1>7, <1>8, StillMild

(* The first definition event of a buffer is its write.                     *)
LEMMA FirstDefinition ==
  ASSUME OrderInv, NEW b \in Buffers, Made(b)
  PROVE  buf[b].defs[1] = Written(b) /\ Written(b) \in DefinitionEvents(b)
<1>1. buf[b].defs[1] = Written(b) BY InvFacts DEF ValueFits
<1>2. buf[b].defs \in Seq(Events) /\ buf[b].defs # <<>> BY MadeFacts, InvFacts DEF DeviceInv
<1>3. 1 \in DOMAIN buf[b].defs BY <1>2
<1> QED BY <1>1, <1>3 DEF DefinitionEvents

LEMMA AsyncWaitForEventsOrder ==
  ASSUME OrderInv, DeviceInv', NEW t \in tasks, AsyncWaitForEvents(t)
  PROVE  OrderInv'
<1> DEFINE b == t.buf
           E == {e \in DefinitionEvents(b) : ~ev[e].done}
           p == [op |-> "ready", buf |-> b, events |-> E]
<1>1. /\ UNCHANGED <<buf, ev, stream, mem, call, dependency, literal>>
      /\ tasks' = tasks \ {t} /\ t.kind = "ready"
      /\ \/ E = {} /\ ready' = [ready EXCEPT ![b] = "ok"] /\ pool' = pool
         \/ pool' = pool \cup {p} /\ ready' = ready
         \/ ready' = [ready EXCEPT ![b] = "error"] /\ pool' = pool
  BY DEF AsyncWaitForEvents
<1>2. OneTask' /\ Jobs' = Jobs BY <1>1, InvFacts, JobsWithout
<1>3. b \in Buffers /\ Made(b) /\ ready \in [Buffers -> Future]
  BY TaskFacts, InvFacts DEF DeviceInv, Typed, FuturesTyped
<1>4. Written(b) \in DefinitionEvents(b) BY <1>3, FirstDefinition
<1>5. ev[Written(b)].done \/ Written(b) \in E BY <1>4
<1>6. p.op = "ready" /\ p.buf = b /\ p.events = E OBVIOUS
<1> HIDE DEF E, p
<1>7. \A x \in Buffers : ready'[x] = "ok" => ready[x] = "ok" \/ ev[Written(x)].done
  BY <1>1, <1>3, <1>5
<1>8. PoolFits'
  <2>1. \A x \in pool' : x \in pool \/ x = p BY <1>1
  <2>2. PoolFits BY InvFacts
  <2> QED BY <1>1, <1>5, <1>6, <2>1, <2>2 DEF PoolFits, Written
<1>9. pool \subseteq pool' BY <1>1
<1> QED BY <1>1, <1>2, <1>7, <1>8, <1>9, StillMild

LEMMA PoolStreamDoneOrder ==
  ASSUME OrderInv, DeviceInv', NEW p \in pool, PoolStreamDone(p)
  PROVE  OrderInv'
<1>1. /\ UNCHANGED <<buf, ev, stream, mem, call, dependency, literal, tasks>>
      /\ pool' = pool \ {p} /\ \A e \in p.events : ev[e].done
  BY DEF PoolStreamDone
<1>2. OneTask' /\ Jobs' = Jobs BY <1>1, InvFacts, JobsSame
<1>3. p \in Wait /\ ready \in [Buffers -> Future]
  BY InvFacts DEF DeviceInv, Typed, FuturesTyped, PoolTyped
<1>4. p.buf \in Buffers /\ p.op \in {"release", "ready"} BY <1>3 DEF Wait
<1>5. \A x \in Buffers : ready'[x] = "ok" => ready[x] = "ok" \/ ev[Written(x)].done
  <2>1. CASE p.op = "release" BY <2>1 DEF PoolStreamDone
  <2>2. CASE p.op = "ready"
    <3>1. ev[Written(p.buf)].done
      <4>1. ev[Written(p.buf)].done \/ Written(p.buf) \in p.events BY <2>2, InvFacts DEF PoolFits
      <4> QED BY <1>1, <4>1
    <3>2. \A x \in Buffers : x # p.buf => ready'[x] = ready[x]
      BY <1>3, <1>4, <2>2 DEF PoolStreamDone
    <3> QED BY <3>1, <3>2
  <2> QED BY <1>4, <2>1, <2>2
<1>6. PoolFits' BY <1>1, PoolSame
<1> QED BY <1>1, <1>2, <1>5, <1>6, StillMild

LEMMA RunCallbackOrder ==
  ASSUME OrderInv, DeviceInv', NEW d \in Devices, RunCallback(d)
  PROVE  OrderInv'
<1>1. UNCHANGED <<buf, ev, stream, mem, tasks, call, pool, ready, literal, dependency>>
  BY DEF RunCallback
<1>2. OneTask' /\ Jobs' = Jobs BY <1>1, InvFacts, JobsSame
<1>3. PoolFits' BY <1>1, PoolSame
<1> QED BY <1>1, <1>2, <1>3, StillMild

LEMMA StutterOrder ==
  ASSUME OrderInv, DeviceInv', UNCHANGED vars
  PROVE  OrderInv'
<1>1. UNCHANGED <<buf, ev, stream, mem, tasks, call, pool, ready, literal, dependency>>
  BY DEF vars
<1>2. OneTask' /\ Jobs' = Jobs BY <1>1, InvFacts, JobsSame
<1>3. PoolFits' BY <1>1, PoolSame
<1> QED BY <1>1, <1>2, <1>3, StillMild

(* A call begins or ends, buffers change their state only.                  *)
SameAs(b) ==
  /\ (Made(b))' <=> Made(b)
  /\ buf'[b].cell = buf[b].cell /\ buf'[b].dev = buf[b].dev /\ buf'[b].val = buf[b].val
  /\ buf'[b].defs = buf[b].defs /\ buf'[b].usage = buf[b].usage /\ buf'[b].owns = buf[b].owns
  /\ buf'[b].st = "unborn" => buf[b].st = "unborn"
  /\ Made(b) /\ buf'[b].st = "making" => buf[b].st = "making"

CallMild(b) ==
  /\ SameAs(b) /\ (Active(b)' <=> Active(b))
  /\ buf'[b].st = "external" => buf[b].st = "external"
  /\ call[b].op = "copy" => call'[b] = call[b]
  /\ call'[b] = call[b] \/ ArgumentsFit(b)'

LEMMA CallMildInv ==
  ASSUME OrderInv, DeviceInv', UNCHANGED <<mem, tasks, pool, ready, literal, dependency>>,
         \/ UNCHANGED <<ev, stream>>
         \/ Appends(stream, stream', {}) /\ EvKept /\ OnFits',
         \A b \in Buffers : CallMild(b)
  PROVE  OrderInv'
<1>1. FixedBuffers BY DEF FixedBuffers, CallMild, SameAs
<1>2. CalmOrder({}) /\ EvKept /\ OnFits'
  <2>1. CASE UNCHANGED <<ev, stream>> BY <1>1, <2>1, StillCalm
  <2>2. CASE Appends(stream, stream', {}) /\ EvKept /\ OnFits' BY <1>1, <2>2 DEF CalmOrder
  <2> QED BY <2>1, <2>2
<1>3. \A b \in Buffers : ready'[b] = "ok" => ev[Written(b)].done BY InvFacts DEF HolderFits
<1>4. OneTask' /\ Jobs' = Jobs BY InvFacts, JobsSame
<1>5. PoolFits'
  <2>1. ASSUME NEW p \in pool, p.op = "ready"
        PROVE  ev'[Written(p.buf)].done \/ Written(p.buf) \in p.events
    <3>1. p \in Wait BY InvFacts DEF DeviceInv, Typed, PoolTyped
    <3>2. Written(p.buf) \in Events BY <3>1, EventNames DEF Wait
    <3>3. ev[Written(p.buf)].done \/ Written(p.buf) \in p.events BY <2>1, InvFacts DEF PoolFits
    <3> QED BY <1>2, <3>2, <3>3 DEF EvKept
  <2> QED BY <2>1 DEF PoolFits, Written
<1>6. MildStep BY <1>2, <1>3, <1>4, <1>5 DEF MildStep, CallMild, SameAs
<1> QED BY <1>6, MildInv

(* One buffer changes its state.                                            *)
LEMMA StateChanged ==
  ASSUME DeviceInv, NEW b \in Buffers, Made(b), NEW st \in {"live", "external", "gone"},
         NEW x \in Buffers, buf' = [buf EXCEPT ![b].st = st]
  PROVE  SameAs(x) /\ buf'[x].st = IF x = b THEN st ELSE buf[x].st
<1>1. buf \in [Buffers -> MadeBuffer \cup NoBuffer] BY DEF DeviceInv, Typed, BufTyped
<1>2. CASE x = b
  <2>1. buf'[x] = [buf[b] EXCEPT !.st = st] BY <1>1, <1>2
  <2> QED BY <1>2, <2>1 DEF SameAs, Made, MadeBuffer
<1>3. CASE x # b
  <2>1. buf'[x] = buf[x] BY <1>1, <1>3
  <2> QED BY <1>3, <2>1 DEF SameAs, Made
<1> QED BY <1>2, <1>3

LEMMA ReleaseOrder ==
  ASSUME OrderInv, DeviceInv', NEW b \in Buffers, NEW op \in {"delete", "release"}, NEW from,
         Release(b, op, from)
  PROVE  OrderInv'
<1>1. /\ UNCHANGED <<ev, stream, mem, tasks, pool, ready, literal, dependency>>
      /\ buf[b].st = "live" /\ buf' = [buf EXCEPT ![b].st = "gone"]
      /\ call' = [call EXCEPT ![b].op = op]
  BY DEF Release, Live
<1>2. DeviceInv /\ Made(b) BY <1>1, InvFacts, StMade DEF DeviceInv
<1>3. call[b].op # "copy" BY <1>1, <1>2, CallFacts DEF Awaits
<1>4. \A x \in Buffers : SameAs(x) /\ buf'[x].st = IF x = b THEN "gone" ELSE buf[x].st
  BY <1>1, <1>2, StateChanged
<1>5. /\ call'[b].op = op /\ \A x \in Buffers : x # b => call'[x] = call[x]
  BY <1>1, <1>2 DEF DeviceInv, Typed, CallTyped, Call
<1>6. \A x \in Buffers : CallMild(x)
  <2>1. CallMild(b)
    BY <1>1, <1>3, <1>4, <1>5 DEF CallMild, Active, ArgumentsFit
  <2>2. \A x \in Buffers : x # b => CallMild(x) BY <1>4, <1>5 DEF CallMild, Active
  <2> QED BY <2>1, <2>2
<1> QED BY <1>1, <1>6, CallMildInv

LEMMA AwaitOrder ==
  ASSUME OrderInv, DeviceInv', NEW b \in Buffers, NEW k, WaitsForDonation(b, k)
  PROVE  OrderInv'
<1>1. /\ UNCHANGED <<buf, ev, stream, mem, tasks, pool, ready, literal, dependency>>
      /\ call' = [call EXCEPT ![b] = k] /\ k.op \in {"none"} \cup Awaits
      /\ call[b].op \in {"none"} \cup Awaits
  BY NoCallFacts DEF WaitsForDonation
<1>2. call'[b] = k /\ \A x \in Buffers : x # b => call'[x] = call[x]
  BY <1>1, InvFacts DEF DeviceInv, Typed, CallTyped
<1>3. \A x \in Buffers : SameAs(x) BY <1>1 DEF SameAs, Made
<1>4. CallMild(b) BY <1>1, <1>2, <1>3 DEF CallMild, Active, ArgumentsFit, Awaits
<1>5. \A x \in Buffers : x # b => CallMild(x) BY <1>1, <1>2, <1>3 DEF CallMild, Active
<1> QED BY <1>1, <1>4, <1>5, CallMildInv

LEMMA DropExternalReferenceOrder ==
  ASSUME OrderInv, DeviceInv', NEW b \in Buffers, DropExternalReference(b)
  PROVE  OrderInv'
<1>1. /\ UNCHANGED <<ev, stream, mem, tasks, call, pool, ready, literal, dependency>>
      /\ buf[b].st = "external" /\ buf' = [buf EXCEPT ![b].st = "gone"]
  BY DEF DropExternalReference
<1>2. DeviceInv /\ Made(b) BY <1>1, InvFacts, StMade DEF DeviceInv
<1>3. call[b] = NoCall BY <1>1, <1>2, CallFacts
<1>4. \A x \in Buffers : SameAs(x) /\ buf'[x].st = IF x = b THEN "gone" ELSE buf[x].st
  BY <1>1, <1>2, StateChanged
<1>5. \A x \in Buffers : CallMild(x)
  <2>1. CallMild(b) BY <1>1, <1>3, <1>4, NoCallFacts DEF CallMild, Active
  <2>2. \A x \in Buffers : x # b => CallMild(x) BY <1>1, <1>4 DEF CallMild, Active
  <2> QED BY <2>1, <2>2
<1> QED BY <1>1, <1>5, CallMildInv

(* Fewer than two.                                                          *)
LEMMA AtMostOne ==
  ASSUME NEW S \in SUBSET Buffers, Cardinality(S) <= 1, NEW a \in S, NEW b \in S
  PROVE  a = b
<1> SUFFICES ASSUME a # b PROVE FALSE OBVIOUS
<1>0. IsFiniteSet(Buffers) BY BoundsAssumption, FS_Interval DEF Buffers
<1>1. IsFiniteSet(S) BY <1>0, FS_Subset
<1>2. IsFiniteSet({a}) /\ Cardinality({a}) = 1 BY FS_Singleton
<1>3. IsFiniteSet({a} \cup {b}) /\ Cardinality({a} \cup {b}) = 2
  <2> DEFINE T == {a}
  <2>1. b \notin T /\ Cardinality(T) = 1 /\ IsFiniteSet(T) BY <1>2
  <2> HIDE DEF T
  <2>2. Cardinality(T \cup {b}) = 1 + 1 /\ IsFiniteSet(T \cup {b}) BY <2>1, FS_AddElement
  <2> QED BY <2>2 DEF T
<1>4. Cardinality({a} \cup {b}) <= Cardinality(S) BY <1>1, FS_Subset
<1>5. Cardinality(S) \in Nat BY <1>1, FS_CardinalityType
<1> QED BY <1>3, <1>4, <1>5

(* An argument that may be donated: its write is enqueued, or ordered by    *)
(* the allocation on the compute stream.                                    *)
LEMMA DonorsFit ==
  ASSUME OrderInv, Supported, NEW b \in Buffers, Live(b), ~UsageHold(b),
         "donate_error" \in Ops \/ ev[buf[b].defs[1]].status # "error"
  PROVE  DonorFits(b)
<1>1. DeviceInv /\ Made(b) /\ Active(b) BY InvFacts, StMade DEF DeviceInv, Live, Active
<1>2. ASSUME NEW j \in Jobs, j[1] = "h2d" PROVE j[2] # b
  <2>1. PICK t \in tasks : j = <<t.kind, t.buf, t.src>> BY DEF Jobs, Job
  <2> QED BY <1>2, <2>1 DEF UsageHold
<1>3. ASSUME Model # "kComputeSynchronized" PROVE Recorded(Written(b))
  <2>1. ev[Written(b)].status # "error"
    BY <1>1, <1>3, FirstDefinition DEF Supported
  <2>2. ASSUME NEW j \in Jobs, JobEvent(j) = Written(b) PROVE FALSE
    <3>1. j[2] = b /\ j[1] # "d2h" BY <2>2, EventNames DEF JobEvent
    <3>2. j[1] = "copy" BY <1>1, <1>2, <3>1, JobFacts
    <3>3. "copy" \in Ops BY <3>2, InvFacts DEF JobFits, CopyFits
    <3> QED BY <1>3, <3>3 DEF Supported
  <2> QED BY <1>1, <2>1, <2>2, InvFacts DEF HolderFits
<1> QED BY <1>2, <1>3 DEF DonorFits

LEMMA ExecuteOrder ==
  ASSUME OrderInv, DeviceInv', Supported, NEW d \in Devices, Execute(d)
  PROVE  OrderInv'
<1>1. UNCHANGED <<buf, ev, stream, mem, tasks, pool, ready, literal, dependency>>
  BY DEF Execute
<1>2. DeviceInv BY InvFacts
<1>3. PICK n \in Buffers : n = New /\ ~Used(n)
  BY <1>2, NewFacts DEF Execute, DeviceInv
<1>4. PICK ins \in SUBSET Buffers, don \in SUBSET Buffers :
        /\ don \subseteq ins /\ Cardinality(don) <= 1
        /\ \A b \in ins : Live(b) /\ buf[b].dev = d
        /\ \A b \in don : /\ ~UsageHold(b)
                          /\ "donate_error" \in Ops \/ ev[buf[b].defs[1]].status # "error"
        /\ call' = [call EXCEPT ![n] = [op |-> "execute", ins |-> ins, don |-> don]]
  BY <1>3 DEF Execute
<1>5. call[n] = NoCall BY <1>2, <1>3, UnusedFacts DEF DeviceInv
<1>6. /\ call'[n].op = "execute" /\ call'[n].ins = ins /\ call'[n].don = don
      /\ \A x \in Buffers : x # n => call'[x] = call[x]
  BY <1>2, <1>4 DEF DeviceInv, Typed, CallTyped, Call
<1>7. ArgumentsFit(n)'
  <2>1. \A b \in don : DonorFits(b) BY <1>4, DonorsFit
  <2>2. Jobs' = Jobs BY <1>1, InvFacts, JobsSame
  <2>3. \A b \in don : DonorFits(b)' BY <1>1, <2>1, <2>2 DEF DonorFits, Recorded, Written
  <2>4. \A a, b \in don : a = b BY <1>4, AtMostOne
  <2> QED BY <1>1, <1>4, <1>6, <2>3, <2>4 DEF ArgumentsFit
<1>8. \A x \in Buffers : SameAs(x) BY <1>1 DEF SameAs, Made
<1>9. \A x \in Buffers : CallMild(x)
  <2>1. CallMild(n) BY <1>1, <1>5, <1>6, <1>7, <1>8, NoCallFacts DEF CallMild, Active
  <2>2. \A x \in Buffers : x # n => CallMild(x) BY <1>1, <1>6, <1>8 DEF CallMild, Active
  <2> QED BY <2>1, <2>2
<1> QED BY <1>1, <1>9, CallMildInv

LEMMA ExecuteFailsOrder ==
  ASSUME OrderInv, DeviceInv', NEW out \in Buffers, ExecuteFails(out)
  PROVE  OrderInv'
<1> DEFINE s == <<"compute", buf[CHOOSE b \in call[out].ins : TRUE].dev>>
           E == ExecutionEvents(call[out].ins, call[out].don)
<1>1. /\ UNCHANGED <<mem, tasks, pool, ready, literal, dependency>>
      /\ call[out].op = "execute" /\ (\A e \in E : Recorded(e))
      /\ stream' = [stream EXCEPT ![s] = stream[s] \o Waits(s, E)]
      /\ ev' = DefinedOn(s, E) /\ buf' = [buf EXCEPT ![out].st = "gone"]
      /\ call' = [call EXCEPT ![out] = NoCall]
  BY DEF ExecuteFails, EventHasBeenRecorded, Recorded
<1>2. DeviceInv BY InvFacts
<1>3. buf[out] = Unborn /\ buf[out].st = "unborn" /\ s \in Streams /\ E \in SUBSET Events
  BY <1>1, <1>2, ExecutionFacts, NameFacts
<1> HIDE DEF s, E
<1>4. Waited(stream', s, E) BY <1>1 DEF Waited
<1>5. Appends(stream, stream', {}) /\ EvKept /\ OnFits' BY <1>1, <1>3, <1>4, WaitOn
<1>6. /\ call'[out] = NoCall /\ \A x \in Buffers : x # out => call'[x] = call[x]
  BY <1>1, <1>2 DEF DeviceInv, Typed, CallTyped
<1>7. /\ buf'[out] = [Unborn EXCEPT !.st = "gone"] /\ \A x \in Buffers : x # out => buf'[x] = buf[x]
  BY <1>1, <1>2, <1>3 DEF DeviceInv, Typed, BufTyped
<1>8. CallMild(out)
  <2>1. Unborn.defs = <<>> /\ [Unborn EXCEPT !.st = "gone"].defs = <<>> BY DEF Unborn
  <2>2. ~Made(out) /\ ~(Made(out))' BY <1>3, <1>7, <2>1 DEF Made, MadeBuffer
  <2>3. SameAs(out) BY <1>3, <1>7, <2>2 DEF SameAs, Unborn
  <2>4. buf'[out].st = "gone" BY <1>7 DEF Unborn
  <2> QED BY <1>1, <1>3, <1>6, <2>3, <2>4, NoCallFacts DEF CallMild, Active, ArgumentsFit
<1>9. \A x \in Buffers : x # out => CallMild(x) BY <1>6, <1>7 DEF CallMild, SameAs, Made, Active
<1> QED BY <1>1, <1>5, <1>8, <1>9, CallMildInv

-----------------------------------------------------------------------------
(* Steps that enqueue waits and callbacks at most and record no event, but  *)
(* change usage events or the jobs.                                         *)
SteadyStep(S) ==
  /\ CalmOrder({}) /\ EvCalm /\ EvStep(S) /\ (\A e \in S : e[1] # "read")
  /\ dependency' = dependency /\ OnFits' /\ PoolFits' /\ OneTask'
  /\ \A j \in Jobs' \ Jobs : j[1] = "d2h"
  /\ \A j \in Jobs \ Jobs' : j[1] = "d2h" \/ ev'[JobEvent(j)].status = "error"
  /\ \A b \in Buffers : /\ (Made(b))' => Made(b)
                        /\ buf'[b].owns = buf[b].owns
                        /\ Active(b)' => Active(b)
                        /\ Holder(b)' => Holder(b)
                        /\ buf'[b].st = "making" => buf'[b] = buf[b]
                        /\ literal'[b] = "none" => literal[b] = "none"
                        /\ ready'[b] = "ok" => ready[b] = "ok"

LEMMA SteadyInv ==
  ASSUME NEW S, SteadyStep(S), \A j \in Jobs' : JobFits(j)', UsagesFit',
         \A b \in Buffers : ArgumentsFit(b)', UsesCovered', UsesKept', OutIsQuiet'
  PROVE  OrderInv'
<1>1. /\ CalmOrder({}) /\ OrderInv /\ DeviceInv' /\ FixedBuffers /\ EvCalm /\ EvStep(S)
      /\ dependency' = dependency
  BY DEF SteadyStep, CalmOrder
<1>2. ValuesFit' BY <1>1, CalmValues DEF SteadyStep
<1>3. EventsFit' /\ (\A e \in Events : NumberFits(e)') /\ NumbersGrow'
  BY <1>1, CalmEvents
<1>4. \A b \in Buffers : (Recorded(Written(b)))' <=> Recorded(Written(b))
  BY <1>1, EventNames DEF EvCalm, Recorded, Written
<1>5. ASSUME NEW b \in Buffers PROVE HolderFits(b)'
  <2>1. HolderFits(b) BY <1>1, InvFacts
  <2>2. Holder(b)' => buf'[b].owns BY <2>1 DEF HolderFits, SteadyStep
  <2>3. ASSUME Active(b)'
        PROVE  \/ (Recorded(Written(b)))' \/ ev'[Written(b)].status = "error"
               \/ \E j \in Jobs' : JobEvent(j) = Written(b)
    <3>1. Active(b) BY <2>3 DEF SteadyStep
    <3>2. ev[Written(b)].status = "error" => ev'[Written(b)].status = "error"
      BY <1>1, EventNames DEF EvStep
    <3>3. ASSUME NEW j \in Jobs, JobEvent(j) = Written(b)
          PROVE  j \in Jobs' \/ ev'[Written(b)].status = "error"
      <4>1. j[1] # "d2h" BY <3>3, EventNames DEF JobEvent
      <4> QED BY <3>3, <4>1 DEF SteadyStep
    <3> QED BY <1>4, <2>1, <3>1, <3>2, <3>3 DEF HolderFits
  <2>4. literal'[b] = "none" => ev'[<<"read", b>>].status = "none"
    <3>1. <<"read", b>> \in Events /\ <<"read", b>>[1] = "read" BY NameFacts
    <3>2. <<"read", b>> \notin S BY <3>1 DEF SteadyStep
    <3> QED BY <1>1, <2>1, <3>1, <3>2 DEF HolderFits, SteadyStep, EvStep
  <2>5. ready'[b] = "ok" => ev'[Written(b)].done
    BY <1>1, <2>1, EventNames DEF HolderFits, SteadyStep, EvCalm
  <2>6. buf'[b].st = "making" => buf'[b].usage = <<>>
    BY <2>1 DEF HolderFits, SteadyStep
  <2>7. \A j : (JobEvent(j))' = JobEvent(j) /\ (Written(b))' = Written(b)
    BY DEF JobEvent, Written
  <2> QED BY <2>2, <2>3, <2>4, <2>5, <2>6, <2>7 DEF HolderFits
<1>6. Bookkeeping' BY <1>2, <1>3, <1>5 DEF Bookkeeping, JobsFit, SteadyStep
<1>7. UsesFollow' BY <1>1, CalmUses
<1>8. HoldersFollow' BY <1>1, <1>4, CalmHolders DEF SteadyStep
<1>9. JobsFollow'
  <2> SUFFICES ASSUME NEW j \in Jobs' PROVE JobFollows(j)' BY DEF JobsFollow
  <2>1. CASE j \in Jobs BY <1>1, <2>1, CalmJob
  <2>2. CASE j \notin Jobs BY <2>2 DEF SteadyStep, JobFollows
  <2> QED BY <2>1, <2>2
<1> QED BY <1>1, <1>3, <1>6, <1>7, <1>8, <1>9 DEF OrderInv, SteadyStep

(* Memory stays handed out, or not, if no buffer gets there.                *)
LEMMA SteadyOut ==
  ASSUME NEW S, SteadyStep(S),
         \A b \in Buffers : Model # "kComputeSynchronized" =>
           /\ buf'[b].st = "external" => buf[b].st = "external"
           /\ Written(b) \notin S,
         \A j \in Jobs' \ Jobs : buf'[j[2]].st # "external"
  PROVE  OutIsQuiet'
<1>1. CalmOrder({}) /\ OrderInv /\ EvCalm /\ EvStep(S) BY DEF SteadyStep, CalmOrder
<1>2. \A b \in Buffers : HandedOut(b) BY <1>1 DEF OrderInv, OutIsQuiet
<1>3. \A b \in Buffers : Model # "kComputeSynchronized" =>
        ev'[Written(b)].status = ev[Written(b)].status
  BY <1>1, EventNames DEF EvStep
<1>4. \A b \in Buffers : (Recorded(Written(b)))' <=> Recorded(Written(b))
  BY <1>1, EventNames DEF EvCalm, Recorded, Written
<1>5. ASSUME NEW b \in Buffers, buf'[b].st = "external", Model # "kComputeSynchronized"
      PROVE  /\ (Recorded(Written(b)))' \/ ev'[Written(b)].status = "error"
             /\ \A j \in Jobs' : j[2] # b
  BY <1>2, <1>3, <1>4, <1>5 DEF HandedOut
<1>6. ASSUME NEW b \in Buffers, Out(b)', Model # "kComputeSynchronized" PROVE Out(b) /\ Made(b)
  <2>1. (Written(b))' = Written(b) BY DEF Written
  <2>2. Out(b) BY <1>3, <1>6, <2>1 DEF Out, SteadyStep
  <2>3. Holder(b) BY <2>2 DEF Out, Holder
  <2> QED BY <1>1, <2>2, <2>3, HolderFacts, InvFacts
<1> QED BY <1>1, <1>5, <1>6, CalmOut

(* Usage events that are merged: an entry is left out only for one of the   *)
(* same stream with a later event.                                          *)
Merged(evs, U, U2, new) ==
  /\ U2 \subseteq U \cup {new}
  /\ \A x \in U : \/ x \in U2
                  \/ /\ new \in U2 /\ x.stream = new.stream /\ evs[x.event].seq > 0
                     /\ evs[x.event].seq < evs[new.event].seq
  /\ \/ new \in U2
     \/ /\ evs[new.event].seq # 0
        /\ \E x \in U2 : /\ x.stream = new.stream /\ evs[x.event].seq > 0
                         /\ ~(evs[x.event].seq < evs[new.event].seq)

UsageOf(s, e, held) == [stream |-> s, event |-> e, reference_held |-> held]

(* Numbers have a least one.                                                *)
LEMMA LeastNumber ==
  ASSUME NEW S \in SUBSET Nat, S # {}
  PROVE  \E m \in S : \A j \in S : m <= j
<1>1. IsWellFoundedOn(OpToRel(<, Nat), Nat) BY NatLessThanWellFounded
<1>2. PICK m \in S : \A y \in S : ~(<<y, m>> \in OpToRel(<, Nat)) BY <1>1, WFMin
<1>3. ASSUME NEW j \in S, j < m PROVE FALSE
  <2>1. <<j, m>> \in Nat \X Nat /\ <<j, m>>[1] < <<j, m>>[2] BY <1>3
  <2>2. <<j, m>> \in {p \in Nat \X Nat : p[1] < p[2]} BY <2>1
  <2> QED BY <1>2, <2>2 DEF OpToRel
<1> QED BY <1>3

LEMMA AddUsageMerges ==
  ASSUME NEW evs, NEW u \in Seq(UsageEvent), NEW s, NEW e, NEW held
  PROVE  Merged(evs, Elems(u), Elems(AddUsageEvent(evs, u, s, e, held)), UsageOf(s, e, held))
<1> DEFINE new  == [stream |-> s, event |-> e, reference_held |-> held]
           same == {i \in DOMAIN u : evs[u[i].event].seq > 0 /\ u[i].stream = s}
           i    == CHOOSE i \in same : \A j \in same : i <= j
           u2   == AddUsageEvent(evs, u, s, e, held)
<1>1. evs[e].seq = 0 \/ same = {} => u2 = Append(u, new) BY ZenonT(40) DEF AddUsageEvent
<1>2. ASSUME ~(evs[e].seq = 0 \/ same = {}), evs[u[i].event].seq < evs[e].seq
      PROVE  u2 = [u EXCEPT ![i] = new]
  BY <1>2, ZenonT(40) DEF AddUsageEvent
<1>3. ASSUME ~(evs[e].seq = 0 \/ same = {}), ~(evs[u[i].event].seq < evs[e].seq)
      PROVE  u2 = u
  BY <1>3, ZenonT(40) DEF AddUsageEvent
<1>4. new = UsageOf(s, e, held) /\ new.stream = s /\ new.event = e BY DEF UsageOf
<1>5. same # {} => i \in same
  <2>1. same \subseteq Nat OBVIOUS
  <2> HIDE DEF same
  <2>2. same # {} => \E m \in same : \A j \in same : m <= j BY <2>1, LeastNumber
  <2> QED BY <2>2
<1>6. \A k \in same : k \in DOMAIN u /\ evs[u[k].event].seq > 0 /\ u[k].stream = s OBVIOUS
<1> HIDE DEF new, same, i, u2
<1>7. CASE evs[e].seq = 0 \/ same = {}
  <2>1. Elems(u2) = Elems(u) \cup {new}
    <3>1. u2 = Append(u, new) BY <1>1, <1>7
    <3>2. DOMAIN u2 = DOMAIN u \cup {Len(u) + 1} /\ u2[Len(u) + 1] = new
          /\ \A k \in DOMAIN u : u2[k] = u[k]
      BY <3>1
    <3> QED BY <3>2 DEF Elems
  <2> QED BY <1>4, <2>1 DEF Merged, u2
<1>8. CASE ~(evs[e].seq = 0 \/ same = {}) /\ evs[u[i].event].seq < evs[e].seq
  <2>1. u2 = [u EXCEPT ![i] = new] /\ i \in DOMAIN u BY <1>2, <1>5, <1>6, <1>8
  <2>2. DOMAIN u2 = DOMAIN u /\ u2[i] = new /\ \A k \in DOMAIN u : k # i => u2[k] = u[k]
    BY <2>1
  <2>3. Elems(u2) \subseteq Elems(u) \cup {new} /\ new \in Elems(u2) BY <2>1, <2>2 DEF Elems
  <2>4. \A x \in Elems(u) : x \in Elems(u2) \/ x = u[i] BY <2>2 DEF Elems
  <2>5. evs[u[i].event].seq > 0 /\ u[i].stream = s BY <1>5, <1>6, <1>8
  <2> QED BY <1>4, <1>8, <2>3, <2>4, <2>5 DEF Merged, u2
<1>9. CASE ~(evs[e].seq = 0 \/ same = {}) /\ ~(evs[u[i].event].seq < evs[e].seq)
  <2>1. u2 = u /\ i \in same BY <1>3, <1>5, <1>9
  <2>2. u[i] \in Elems(u2) /\ evs[u[i].event].seq > 0 /\ u[i].stream = s
    BY <1>6, <2>1 DEF Elems
  <2> QED BY <1>4, <1>9, <2>1, <2>2 DEF Merged, u2
<1> QED BY <1>7, <1>8, <1>9, Zenon

(* Streams, events and memory stay: the common part of such a step.         *)
LEMMA StillSteady ==
  ASSUME OrderInv, DeviceInv', FixedBuffers, UNCHANGED <<ev, stream, mem>>,
         \A p \in pool' : p.op = "ready" => p \in pool
  PROVE  /\ CalmOrder({}) /\ EvCalm /\ EvStep({}) /\ OnFits' /\ PoolFits'
         /\ \A e \in {} : e[1] # "read"
<1>1. CalmOrder({}) /\ EvKept /\ OnFits' BY StillCalm
<1> QED BY <1>1, EvKeptStep, EvKeptCalm, PoolSame

(* The usage events of one buffer change.                                   *)
SameButUsage(x) ==
  /\ (Made(x))' <=> Made(x)
  /\ buf'[x].st = buf[x].st /\ buf'[x].cell = buf[x].cell /\ buf'[x].dev = buf[x].dev
  /\ buf'[x].val = buf[x].val /\ buf'[x].defs = buf[x].defs /\ buf'[x].owns = buf[x].owns

LEMMA UsageChanged ==
  ASSUME DeviceInv, NEW b \in Buffers, Made(b), NEW u \in Seq(UsageEvent),
         buf' = [buf EXCEPT ![b].usage = u], NEW x \in Buffers
  PROVE  /\ SameButUsage(x) /\ buf'[x].usage = IF x = b THEN u ELSE buf[x].usage
         /\ (x # b => buf'[x] = buf[x])
<1>1. buf \in [Buffers -> MadeBuffer \cup NoBuffer] BY DEF DeviceInv, Typed, BufTyped
<1>2. CASE x = b
  <2>1. buf'[x] = [buf[b] EXCEPT !.usage = u] BY <1>1, <1>2
  <2> QED BY <1>2, <2>1 DEF SameButUsage, Made, MadeBuffer
<1>3. CASE x # b
  <2>1. buf'[x] = buf[x] BY <1>1, <1>3
  <2> QED BY <1>3, <2>1 DEF SameButUsage, Made
<1> QED BY <1>2, <1>3

(* More usage events.                                                       *)
LEMMA UsageMore ==
  ASSUME NEW b \in Buffers, Usage(b) \subseteq Usage(b)'
  PROVE  /\ UsageEvents(b) \subseteq (UsageEvents(b))'
         /\ \A s : Loose(b, s) => Loose(b, s)'
<1>1. UsageEvents(b) \subseteq (UsageEvents(b))'
  <2> SUFFICES ASSUME NEW i \in DOMAIN buf[b].usage
               PROVE  \E k \in DOMAIN buf'[b].usage : buf'[b].usage[k].event = buf[b].usage[i].event
    BY DEF UsageEvents
  <2>1. buf[b].usage[i] \in Usage(b)' BY DEF Usage, Elems
  <2> QED BY <2>1 DEF Usage, Elems
<1>2. \A s : Loose(b, s) => Loose(b, s)' BY DEF Loose, Written
<1> QED BY <1>1, <1>2

(* An event that was not recorded is added as it is.                        *)
LEMMA MergedUnset ==
  ASSUME OrderInv, NEW b \in Buffers, NEW U2, NEW new, Merged(ev, Usage(b), U2, new),
         ev[new.event].seq = 0
  PROVE  U2 = Usage(b) \cup {new}
<1>1. \A x \in Usage(b) : ev[x.event].seq \in Nat
  <2>1. Usage(b) \subseteq UsageEvent BY UsageFacts, InvFacts
  <2>2. \A e \in Events : ev[e].seq \in Nat BY InvFacts DEF DeviceInv, Typed, EvTyped, Event
  <2> QED BY <2>1, <2>2 DEF UsageEvent
<1>2. \A x \in Usage(b) : ~(ev[x.event].seq > 0 /\ ev[x.event].seq < ev[new.event].seq) BY <1>1
<1> QED BY <1>2 DEF Merged

LEMMA ToLiteralOrder ==
  ASSUME OrderInv, DeviceInv', NEW b \in Buffers, ToLiteral(b)
  PROVE  OrderInv'
<1> DEFINE s == <<"d2h", buf[b].dev>>
           e == <<"read", b>>
           u == AddUsageEvent(ev, buf[b].usage, s, e, TRUE)
           t == Scheduled(<<"d2h", b, b>>, buf[b].defs[1])
           new == UsageOf(s, e, TRUE)
           j0  == <<"d2h", b, b>>
<1>1. /\ UNCHANGED <<ev, stream, mem, call, pool, ready, dependency>>
      /\ buf[b].st = "live" /\ literal[b] = "none" /\ buf' = [buf EXCEPT ![b].usage = u]
      /\ tasks' = tasks \cup {t} /\ literal' = [literal EXCEPT ![b] = "pending"]
  BY DEF ToLiteral, Live
<1>2. DeviceInv /\ Made(b) BY <1>1, InvFacts, StMade DEF DeviceInv
<1>3. /\ s \in Streams /\ e \in Events /\ buf[b].usage \in Seq(UsageEvent)
      /\ u \in Seq(UsageEvent)
  BY <1>2, MadeFacts, NameFacts, AddUsageEventFacts DEF DeviceInv
<1>4. ev[e].status = "none" /\ ev[e].seq = 0
  BY <1>1, <1>3, InvFacts, UnsetFacts DEF HolderFits
<1>5. t.kind = "d2h" /\ Job(t) = j0 BY DEF Scheduled, Job
<1>6. Merged(ev, Usage(b), Elems(u), new) BY <1>3, AddUsageMerges DEF Usage
<1>7. new.stream = s /\ new.event = e BY DEF UsageOf
<1> HIDE DEF u, t, new
<1>8. \A x \in Buffers : /\ SameButUsage(x) /\ (x # b => buf'[x] = buf[x])
                         /\ buf'[x].usage = IF x = b THEN u ELSE buf[x].usage
  BY <1>1, <1>2, <1>3, UsageChanged
<1>9. /\ Usage(b)' = Usage(b) \cup {new}
      /\ \A x \in Buffers : x # b => Usage(x)' = Usage(x)
  <2>1. Usage(b)' = Elems(u) BY <1>8 DEF Usage
  <2>2. Elems(u) = Usage(b) \cup {new} BY <1>4, <1>6, <1>7, MergedUnset
  <2> QED BY <1>8, <2>1, <2>2 DEF Usage
<1>10. \A x \in Buffers : /\ UsageEvents(x) \subseteq (UsageEvents(x))'
                          /\ \A r : Loose(x, r) => Loose(x, r)'
  BY <1>9, UsageMore
<1>11. FixedBuffers BY <1>8 DEF SameButUsage, FixedBuffers
<1>12. /\ CalmOrder({}) /\ EvCalm /\ EvStep({}) /\ OnFits' /\ PoolFits'
       /\ \A x \in {} : x[1] # "read"
  BY <1>1, <1>11, StillSteady
<1>13. \A j \in Jobs : JobEvent(j) # e
  <2> SUFFICES ASSUME NEW j \in Jobs, JobEvent(j) = e PROVE FALSE OBVIOUS
  <2>1. j[1] = "d2h" /\ j[2] = b BY EventNames DEF JobEvent
  <2> QED BY <1>1, <2>1, InvFacts DEF JobFits
<1>14. JobEvent(j0) = e /\ j0[1] = "d2h" /\ j0[2] = b /\ j0[3] = b BY DEF JobEvent
<1> HIDE DEF j0
<1>15. OneTask' /\ Jobs' = Jobs \cup {j0} /\ j0 \notin Jobs
  BY <1>1, <1>5, <1>13, <1>14, InvFacts, JobsMore
<1>16. \A x \in Buffers : (Active(x)' <=> Active(x)) /\ (Holder(x)' => Holder(x))
  <2>1. \A x \in Buffers : Active(x)' <=> Active(x) BY <1>1, <1>8 DEF Active, SameButUsage
  <2>2. Active(b) BY <1>1 DEF Active
  <2> QED BY <1>8, <1>14, <1>15, <2>1, <2>2 DEF Holder, SameButUsage
<1>17. /\ literal'[b] = "pending" /\ \A x \in Buffers : x # b => literal'[x] = literal[x]
  BY <1>1, <1>2 DEF DeviceInv, Typed, FuturesTyped
<1>18. SteadyStep({})
  <2>1. \A x \in Buffers : buf'[x].st = "making" => buf'[x] = buf[x]
    BY <1>1, <1>8 DEF SameButUsage
  <2>2. \A x \in Buffers : ((Made(x))' => Made(x)) /\ buf'[x].owns = buf[x].owns
    BY <1>8 DEF SameButUsage
  <2>3. \A x \in Buffers : literal'[x] = "none" => literal[x] = "none" BY <1>17
  <2>4. \A j \in Jobs' \ Jobs : j[1] = "d2h" BY <1>14, <1>15
  <2> QED BY <1>1, <1>12, <1>15, <1>16, <2>1, <2>2, <2>3, <2>4 DEF SteadyStep
<1>19. \A x \in Buffers : UsageStays(x) BY <1>10, <1>16 DEF UsageStays
<1>20. ASSUME NEW j \in Jobs' PROVE JobFits(j)'
  <2>1. CASE j \in Jobs
    <3>1. j[2] \in Buffers /\ j[3] \in Buffers /\ Made(j[3]) BY <1>2, <2>1, JobFacts
    <3>2. \A k \in Jobs' : JobEvent(k) = JobEvent(j) => k \in Jobs BY <1>13, <1>14, <1>15, <2>1
    <3>3. ASSUME j[1] = "d2h" PROVE literal'[j[2]] = literal[j[2]] /\ UsageStays(j[2])
      <4>1. j[2] # b BY <1>13, <2>1, <3>3 DEF JobEvent
      <4> QED BY <1>17, <1>19, <3>1, <4>1
    <3>4. ASSUME j[1] = "copy" PROVE CopyFits(j)'
      <4>1. (JobStream(j))' = JobStream(j) BY <1>11, <3>1 DEF JobStream, FixedBuffers
      <4>2. Active(j[2]) /\ Loose(j[2], JobStream(j)) =>
              Active(j[2])' /\ Loose(j[2], JobStream(j))'
        BY <1>10, <1>16, <3>1, <4>1 DEF Loose
      <4> QED BY <1>1, <1>11, <1>19, <2>1, <3>1, <3>4, <4>2, CopyStays
    <3>5. j[1] = "h2d" => Active(j[2])' BY <1>16, <2>1, <3>1, InvFacts DEF JobFits
    <3>6. JobEvent(j) \notin {} OBVIOUS
    <3> QED BY <1>11, <1>12, <2>1, <3>2, <3>3, <3>4, <3>5, <3>6, JobStays
  <2>2. CASE j = j0
    <3>1. \A k : (JobEvent(k))' = JobEvent(k) BY DEF JobEvent, Written
    <3>2. \A k \in Jobs' : JobEvent(k) = JobEvent(j) => k = j
      BY <1>13, <1>14, <1>15, <2>2
    <3>3. e \in (UsageEvents(b))'
      <4>1. new \in Usage(b)' BY <1>9
      <4> QED BY <1>7, <4>1 DEF Usage, Elems, UsageEvents
    <3> QED BY <1>1, <1>4, <1>14, <1>17, <2>2, <3>1, <3>2, <3>3 DEF JobFits
  <2> QED BY <1>15, <2>1, <2>2
<1>21. UsagesFit'
  <2> SUFFICES ASSUME NEW y \in Buffers, NEW x \in Usage(y)' PROVE UsageFits(x)'
    BY DEF UsagesFit
  <2>1. CASE x \in Usage(y)
    <3>1. ASSUME NEW j \in Jobs'
          PROVE  j \in Jobs \/ JobEvent(j) # x.event \/ x.stream = (JobStream(j))'
      <4> SUFFICES ASSUME j = j0, x.event = e PROVE x.stream = (JobStream(j))' BY <1>14, <1>15
      <4>1. x.stream = s BY <2>1, InvFacts DEF UsageFits
      <4>2. (JobStream(j))' = s BY <1>8, <1>14 DEF JobStream, SameButUsage
      <4> QED BY <4>1, <4>2
    <3>2. x.event \notin {} OBVIOUS
    <3> QED BY <1>11, <1>12, <2>1, <3>1, <3>2, UsageFitStays
  <2>2. CASE x = new
    <3>1. (Made(b))' /\ buf'[b].dev = buf[b].dev BY <1>2, <1>8 DEF SameButUsage
    <3>2. ASSUME NEW j \in Jobs', x.event = (JobEvent(j))' PROVE x.stream = (JobStream(j))'
      <4>1. JobEvent(j) = e BY <1>7, <2>2, <3>2 DEF JobEvent, Written
      <4>2. j = j0 BY <1>13, <1>15, <4>1
      <4> QED BY <1>7, <1>14, <2>2, <3>1, <4>2 DEF JobStream
    <3>3. x.event[1] = "read" /\ x.event[2] = b /\ ~Recorded(x.event)'
      BY <1>1, <1>4, <1>7, <2>2 DEF Recorded
    <3> QED BY <1>7, <2>2, <3>1, <3>2, <3>3 DEF UsageFits
  <2> QED BY <1>9, <2>1, <2>2
<1>22. ASSUME NEW x \in Buffers PROVE ArgumentsFit(x)'
  <2>1. \A j \in Jobs' : j[1] # "d2h" => j \in Jobs BY <1>14, <1>15
  <2>2. Written(x) \notin {} /\ call'[x] = call[x] BY <1>1
  <2> QED BY <1>11, <1>12, <2>1, <2>2, ArgumentsStay
<1>23. UsesCovered'
  <2>1. \A x \in Buffers : Active(x)' => UsagesStay(x) BY <1>1, <1>10, <1>16 DEF UsagesStay
  <2> QED BY <1>12, <2>1, CalmCovered
<1>24. UsesKept'
  <2>1. \A x \in Buffers : buf[x].owns => buf'[x].owns BY <1>8 DEF SameButUsage
  <2>2. ASSUME NEW r \in Streams, NEW i \in Nat, NEW w \in Buffers, KeptByUsage(r, i, w)
        PROVE  KeptByUsage(r, i, w)'
    BY <1>1, <1>8, <1>10, <1>16, <2>2 DEF KeptByUsage, Written, SameButUsage
  <2> QED BY <1>1, <1>12, <2>1, <2>2, CalmKept
<1>25. OutIsQuiet'
  <2>1. \A x \in Buffers : /\ buf'[x].st = "external" => buf[x].st = "external"
                           /\ Written(x) \notin {}
    BY <1>8 DEF SameButUsage
  <2>2. buf'[b].st = "live" BY <1>1, <1>8 DEF SameButUsage
  <2>3. \A j \in Jobs' \ Jobs : buf'[j[2]].st # "external" BY <1>14, <1>15, <2>2
  <2> QED BY <1>18, <2>1, <2>3, SteadyOut
<1> QED BY <1>18, <1>20, <1>21, <1>22, <1>23, <1>24, <1>25, SteadyInv

(* Delete and Release end: the buffer gives up its usage events.            *)
Finishes(b) ==
  /\ call[b].op \in {"delete", "release"} /\ ~UsageHold(b)
  /\ UNCHANGED <<ev, stream, mem, tasks, ready, literal, dependency>>
  /\ \A x \in Buffers : x # b => buf'[x] = buf[x] /\ call'[x] = call[x]
  /\ (Made(b))' /\ buf'[b].st \in {"gone", "external"} /\ buf'[b].usage = <<>>
  /\ buf'[b].cell = buf[b].cell /\ buf'[b].dev = buf[b].dev /\ buf'[b].val = buf[b].val
  /\ buf'[b].defs = buf[b].defs /\ buf'[b].owns = buf[b].owns
  /\ call'[b] = NoCall
  /\ pool \subseteq pool' /\ \A p \in pool' : p.op = "ready" => p \in pool

(* No host transfer of the buffer is left.                                  *)
LEMMA NoTransfer ==
  ASSUME NEW b, ~UsageHold(b), NEW j \in Jobs, j[1] = "h2d"
  PROVE  j[2] # b
<1>1. PICK t \in tasks : j = <<t.kind, t.buf, t.src>> BY DEF Jobs, Job
<1> QED BY <1>1 DEF UsageHold

LEMMA FinishesFacts ==
  ASSUME OrderInv, DeviceInv', NEW b \in Buffers, Finishes(b)
  PROVE  /\ Made(b) /\ buf[b].st = "gone" /\ Active(b) /\ ~Active(b)'
         /\ FixedBuffers /\ SteadyStep({}) /\ Usage(b)' = {} /\ Jobs' = Jobs
         /\ \A x \in Buffers : x # b => /\ (Active(x)' <=> Active(x)) /\ Usage(x)' = Usage(x)
                                        /\ (UsageEvents(x))' = UsageEvents(x)
<1>1. DeviceInv BY InvFacts
<1>2. Made(b) /\ buf[b].st = "gone" /\ call[b].ins = {} BY <1>1 DEF DeviceInv, CallsFit, CallFits, Finishes
<1>3. Active(b) /\ ~Active(b)' BY NoCallFacts DEF Active, Finishes
<1>4. \A x \in Buffers : x # b => (Made(x))' = Made(x) BY DEF Made, Finishes
<1>5. FixedBuffers
  <2> SUFFICES ASSUME NEW x \in Buffers
               PROVE  /\ Made(x) => /\ (Made(x))' /\ buf'[x].cell = buf[x].cell
                                    /\ buf'[x].dev = buf[x].dev /\ buf'[x].val = buf[x].val
                                    /\ buf'[x].defs = buf[x].defs
                      /\ buf'[x].st = "unborn" => buf[x].st = "unborn"
                      /\ Made(x) /\ buf'[x].st = "making" => buf[x].st = "making"
    BY DEF FixedBuffers
  <2>1. CASE x = b BY <2>1 DEF Finishes
  <2>2. CASE x # b BY <1>4, <2>2 DEF Finishes
  <2> QED BY <2>1, <2>2
<1>6. /\ CalmOrder({}) /\ EvCalm /\ EvStep({}) /\ OnFits' /\ PoolFits'
      /\ \A e \in {} : e[1] # "read"
  BY <1>5, StillSteady DEF Finishes
<1>7. OneTask' /\ Jobs' = Jobs BY InvFacts, JobsSame DEF Finishes
<1>8. \A x \in Buffers : x # b => (Active(x)' <=> Active(x)) BY DEF Active, Finishes
<1>9. \A x \in Buffers : Active(x)' => Active(x) BY <1>3, <1>8
<1>10. \A x \in Buffers : Holder(x)' => Holder(x)
  <2>1. Holder(b) BY <1>3 DEF Holder
  <2>2. \A x \in Buffers : x # b /\ buf'[x].st = "external" => buf[x].st = "external" BY DEF Finishes
  <2> QED BY <1>7, <1>9, <2>1, <2>2 DEF Holder
<1>11. SteadyStep({})
  <2>1. \A x \in Buffers : buf'[x].st = "making" => buf'[x] = buf[x] BY DEF Finishes
  <2>2. \A x \in Buffers : buf'[x].owns = buf[x].owns /\ ((Made(x))' => Made(x))
    BY <1>2, <1>4 DEF Finishes
  <2> QED BY <1>6, <1>7, <1>9, <1>10, <2>1, <2>2 DEF SteadyStep, Finishes
<1>12. Usage(b)' = {} BY DEF Usage, Elems, Finishes
<1>13. \A x \in Buffers : x # b => Usage(x)' = Usage(x) /\ (UsageEvents(x))' = UsageEvents(x)
  BY DEF Usage, UsageEvents, Elems, Finishes
<1> QED BY <1>2, <1>3, <1>5, <1>7, <1>8, <1>11, <1>12, <1>13

LEMMA FinishesInv ==
  ASSUME OrderInv, DeviceInv', NEW b \in Buffers, Finishes(b),
         \A j \in Jobs : j[1] = "copy" /\ j[2] = b => ~Loose(b, JobStream(j)),
         \A s \in Streams, i \in Nat : KeptByUsage(s, i, b) /\ Model = "kComputeSynchronized" =>
           KeptByCompute(s, i, buf[b].cell)' \/ KeptByPool(s, i, buf[b].cell)',
         OutIsQuiet'
  PROVE  OrderInv'
<1>1. /\ Made(b) /\ Active(b) /\ ~Active(b)' /\ FixedBuffers /\ SteadyStep({}) /\ Usage(b)' = {}
      /\ Jobs' = Jobs
      /\ \A x \in Buffers : x # b => /\ (Active(x)' <=> Active(x)) /\ Usage(x)' = Usage(x)
                                     /\ (UsageEvents(x))' = UsageEvents(x)
  BY FinishesFacts
<1>2. DeviceInv /\ CalmOrder({}) /\ EvStep({}) BY <1>1, InvFacts DEF SteadyStep
<1>3. \A x \in Buffers : UsageStays(x) BY <1>1 DEF UsageStays
<1>4. \A x \in Buffers : x # b => \A s : Loose(x, s)' <=> Loose(x, s) BY <1>1 DEF Loose, Written
<1>5. ASSUME NEW j \in Jobs' PROVE JobFits(j)'
  <2>1. /\ j \in Jobs /\ j[2] \in Buffers /\ j[3] \in Buffers /\ Made(j[3])
    BY <1>1, <1>2, JobFacts
  <2>2. \A k \in Jobs' : JobEvent(k) = JobEvent(j) => k \in Jobs BY <1>1
  <2>3. j[1] = "d2h" => literal'[j[2]] = literal[j[2]] /\ UsageStays(j[2])
    BY <1>3, <2>1 DEF Finishes
  <2>4. ASSUME j[1] = "copy" PROVE CopyFits(j)'
    <3>1. (JobStream(j))' = JobStream(j) BY <1>1, <2>1 DEF JobStream, FixedBuffers
    <3>2. call[j[2]].op = "copy" => call'[j[2]] = call[j[2]] BY <2>1 DEF Finishes
    <3>3. Active(j[2]) /\ Loose(j[2], JobStream(j)) =>
            Active(j[2])' /\ Loose(j[2], JobStream(j))'
      <4>1. j[2] = b => ~Loose(j[2], JobStream(j)) BY <2>1, <2>4
      <4>2. j[2] # b => (Loose(j[2], JobStream(j)) => Loose(j[2], JobStream(j))')
        BY <1>4, <2>1, <3>1 DEF Loose
      <4> QED BY <1>1, <2>1, <4>1, <4>2
    <3> QED BY <1>1, <1>3, <2>1, <2>4, <3>2, <3>3, CopyStays
  <2>5. ASSUME j[1] = "h2d" PROVE Active(j[2])'
    <3>1. Active(j[2]) BY <2>1, <2>5, InvFacts DEF JobFits
    <3>2. j[2] # b BY <2>1, <2>5, NoTransfer DEF Finishes
    <3> QED BY <1>1, <2>1, <3>1, <3>2
  <2>6. JobEvent(j) \notin {} OBVIOUS
  <2> QED BY <1>1, <1>2, <2>1, <2>2, <2>3, <2>4, <2>5, <2>6, JobStays
<1>6. UsagesFit'
  <2> SUFFICES ASSUME NEW y \in Buffers, NEW x \in Usage(y)' PROVE UsageFits(x)'
    BY DEF UsagesFit
  <2>1. x \in Usage(y) BY <1>1
  <2>2. x.event \notin {} OBVIOUS
  <2> QED BY <1>1, <1>2, <2>1, <2>2, UsageFitStays
<1>7. ASSUME NEW x \in Buffers PROVE ArgumentsFit(x)'
  <2>1. CASE x = b BY <2>1, NoCallFacts DEF ArgumentsFit, Finishes
  <2>2. CASE x # b
    <3>1. call'[x] = call[x] /\ Written(x) \notin {} BY <2>2 DEF Finishes
    <3> QED BY <1>1, <1>2, <3>1, ArgumentsStay
  <2> QED BY <2>1, <2>2
<1>8. UsesCovered'
  <2>1. \A x \in Buffers : call[x].op = "copy" => call'[x] = call[x] BY DEF Finishes
  <2>2. \A x \in Buffers : Active(x)' => UsagesStay(x) BY <1>1, <2>1 DEF UsagesStay
  <2> QED BY <1>2, <2>2, CalmCovered
<1>9. UsesKept'
  <2>1. \A x \in Buffers : buf[x].owns => buf'[x].owns BY DEF Finishes
  <2>2. ASSUME NEW s \in Streams, NEW i \in Nat, NEW w \in Buffers, KeptByUsage(s, i, w), w # b
        PROVE  KeptByUsage(s, i, w)'
    BY <1>1, <1>4, <2>2 DEF KeptByUsage, Written, Finishes
  <2>3. \A p \in pool : p \in pool' BY DEF Finishes
  <2> QED BY <1>2, <2>1, <2>2, <2>3, CalmKept
<1> QED BY <1>1, <1>5, <1>6, <1>7, <1>8, <1>9, SteadyInv

(* The usage events a buffer has not recorded.                              *)
LEMMA LooseFacts ==
  ASSUME OrderInv, NEW b \in Buffers, NEW s, Loose(b, s)
  PROVE  Written(b) \in UsageEvents(b)
<1>1. UsageEvents(b) = {x.event : x \in Usage(b)} BY UsageFacts, InvFacts
<1> QED BY <1>1 DEF Loose

LEMMA DeleteOrder ==
  ASSUME OrderInv, DeviceInv', Supported, NEW b \in Buffers, Delete(b)
  PROVE  OrderInv'
<1> DEFINE u == {buf[b].usage[i] : i \in DOMAIN buf[b].usage}
           loose == {x.event : x \in {y \in u : ~y.reference_held}}
           E == {e \in loose : <<"compute", buf[b].dev>> \notin ev[e].on /\ ~ev[e].done}
           p == [op |-> "release", buf |-> b, events |-> E]
<1>1. /\ UNCHANGED <<ev, stream, mem, tasks, ready, literal, dependency>>
      /\ call[b].op = "delete" /\ ~UsageHold(b)
      /\ Model = "kComputeSynchronized" => /\ \A e \in loose : Recorded(e)
                                           /\ pool' = IF E = {} THEN pool ELSE pool \cup {p}
      /\ Model # "kComputeSynchronized" => pool' = pool
      /\ buf' = [buf EXCEPT ![b].usage = <<>>] /\ call' = [call EXCEPT ![b] = NoCall]
  BY DEF Delete, EventHasBeenRecorded, Recorded
<1>2. DeviceInv BY InvFacts
<1>3. Made(b) /\ buf[b].st = "gone" BY <1>1, <1>2 DEF DeviceInv, CallsFit, CallFits
<1>4. p.op = "release" /\ p.buf = b /\ p.events = E OBVIOUS
<1>5. loose = {x.event : x \in {y \in Usage(b) : ~y.reference_held}} BY DEF Usage, Elems
<1>6. \A s : Loose(b, s) => Written(b) \in loose BY <1>5 DEF Loose
<1>7. \A e \in loose : e \in E \/ <<"compute", buf[b].dev>> \in ev[e].on \/ ev[e].done OBVIOUS
<1> HIDE DEF p, E, loose
<1>8. Finishes(b)
  <2>1. <<>> \in Seq(UsageEvent) OBVIOUS
  <2>2. \A x \in Buffers : /\ SameButUsage(x) /\ (x # b => buf'[x] = buf[x])
                           /\ buf'[x].usage = IF x = b THEN <<>> ELSE buf[x].usage
    BY <1>1, <1>2, <1>3, <2>1, UsageChanged
  <2>3. call'[b] = NoCall /\ \A x \in Buffers : x # b => call'[x] = call[x]
    BY <1>1, <1>2 DEF DeviceInv, Typed, CallTyped
  <2>4. pool \subseteq pool' /\ \A x \in pool' : x.op = "ready" => x \in pool BY <1>1, <1>4
  <2> QED BY <1>1, <1>3, <2>2, <2>3, <2>4 DEF Finishes, SameButUsage
<1>9. ASSUME NEW j \in Jobs, j[1] = "copy", j[2] = b, Loose(b, JobStream(j)) PROVE FALSE
  <2>1. JobFits(j) /\ "copy" \in Ops BY <1>9, InvFacts DEF JobFits, CopyFits
  <2>2. Recorded(Written(b)) BY <1>1, <1>6, <1>9, <2>1 DEF Supported
  <2>3. ev[Written(b)].status = "none" BY <1>9, <2>1 DEF JobFits, JobEvent
  <2> QED BY <2>2, <2>3, UnsetFacts, EventNames
<1>10. ASSUME NEW s \in Streams, NEW i \in Nat, KeptByUsage(s, i, b), Model = "kComputeSynchronized"
       PROVE  KeptByCompute(s, i, buf[b].cell)' \/ KeptByPool(s, i, buf[b].cell)'
  <2>1. At(stream, Written(b), s, i) /\ Loose(b, s) BY <1>1, <1>10 DEF KeptByUsage
  <2>2. ~ev[Written(b)].done BY <2>1, EventNames, InvFacts DEF PlaceFits
  <2>3. CASE <<"compute", buf[b].dev>> \in ev[Written(b)].on
    <3>1. BeforeEnd(stream, s, i, <<"compute", buf[b].dev>>)
      BY <2>1, <2>3, EventNames DEF OrderInv, OnFits
    <3>2. buf'[b].cell[1] = buf[b].dev BY <1>3, <1>8, InvFacts DEF ValueFits, Finishes
    <3> QED BY <1>1, <1>8, <3>1, <3>2 DEF KeptByCompute, Finishes
  <2>4. CASE <<"compute", buf[b].dev>> \notin ev[Written(b)].on
    <3>1. Written(b) \in E BY <1>6, <1>7, <2>1, <2>2, <2>4
    <3>2. p \in pool' BY <1>1, <1>10, <3>1
    <3>3. buf[b].owns BY <1>1, InvFacts DEF HolderFits, Holder, Active
    <3>4. Precedes(stream', s, i, s, i) BY PrecedesSame
    <3>5. \E e \in p.events : At(stream', e, s, i) BY <1>1, <1>4, <2>1, <3>1
    <3>6. buf'[p.buf].owns /\ buf'[p.buf].cell = buf'[b].cell BY <1>4, <1>8, <3>3 DEF Finishes
    <3> QED BY <1>4, <3>2, <3>4, <3>5, <3>6 DEF KeptByPool
  <2> QED BY <2>3, <2>4
<1>11. OutIsQuiet'
  <2>1. SteadyStep({}) /\ Jobs' = Jobs BY <1>8, FinishesFacts
  <2>2. \A x \in Buffers : /\ buf'[x].st = "external" => buf[x].st = "external"
                           /\ Written(x) \notin {}
    <3>1. buf'[b].st = "gone"
      BY <1>1, <1>2, <1>3 DEF DeviceInv, Typed, BufTyped
    <3> QED BY <1>8, <3>1 DEF Finishes
  <2> QED BY <2>1, <2>2, SteadyOut
<1> QED BY <1>8, <1>9, <1>10, <1>11, FinishesInv

LEMMA ReleaseDeviceMemoryOwnershipOrder ==
  ASSUME OrderInv, DeviceInv', Supported, NEW b \in Buffers, ReleaseDeviceMemoryOwnership(b)
  PROVE  OrderInv'
<1>1. /\ UNCHANGED <<ev, stream, mem, tasks, pool, ready, literal, dependency>>
      /\ call[b].op = "release" /\ ~UsageHold(b) /\ \A e \in UsageEvents(b) : ev[e].done
      /\ buf' = [buf EXCEPT ![b].st = "external", ![b].usage = <<>>]
      /\ call' = [call EXCEPT ![b] = NoCall]
  BY DEF ReleaseDeviceMemoryOwnership
<1>2. DeviceInv BY InvFacts
<1>3. Made(b) /\ buf[b].st = "gone" /\ Active(b)
  BY <1>1, <1>2 DEF DeviceInv, CallsFit, CallFits, Active
<1>4. Finishes(b)
  <2>1. buf \in [Buffers -> MadeBuffer \cup NoBuffer] /\ <<>> \in Seq(UsageEvent)
    BY <1>2 DEF DeviceInv, Typed, BufTyped
  <2>2. buf'[b] = [buf[b] EXCEPT !.st = "external", !.usage = <<>>]
    BY <1>1, <2>1
  <2>3. \A x \in Buffers : x # b => buf'[x] = buf[x] BY <1>1, <2>1
  <2>4. call'[b] = NoCall /\ \A x \in Buffers : x # b => call'[x] = call[x]
    BY <1>1, <1>2 DEF DeviceInv, Typed, CallTyped
  <2>5. /\ (Made(b))' /\ buf'[b].st = "external" /\ buf'[b].usage = <<>>
        /\ buf'[b].cell = buf[b].cell /\ buf'[b].dev = buf[b].dev /\ buf'[b].val = buf[b].val
        /\ buf'[b].defs = buf[b].defs /\ buf'[b].owns = buf[b].owns
    BY <1>3, <2>1, <2>2 DEF Made, MadeBuffer
  <2> QED BY <1>1, <2>3, <2>4, <2>5 DEF Finishes
<1>5. ASSUME NEW e \in UsageEvents(b)
      PROVE  /\ e \in Events /\ ev[e].status = "ok"
             /\ \A s \in Streams, i \in Nat : ~At(stream, e, s, i)
  <2>1. e \in Events /\ ev[e].done BY <1>1, <1>2, UsageFacts
  <2>2. PICK x \in Usage(b) : x.event = e BY <1>2, UsageFacts
  <2>3. e[1] # "joined" BY <2>2, InvFacts DEF UsageFits
  <2>4. ev[e].status = "ok" BY <2>1, <2>3, InvFacts DEF EventFits
  <2> QED BY <2>1, <2>4, InvFacts DEF PlaceFits
<1>6. ASSUME NEW j \in Jobs, j[1] = "copy", j[2] = b, Loose(b, JobStream(j)) PROVE FALSE
  <2>1. ev[Written(b)].status = "none" BY <1>6, InvFacts DEF JobFits, JobEvent
  <2> QED BY <1>5, <1>6, <2>1, LooseFacts
<1>7. ASSUME NEW s \in Streams, NEW i \in Nat, KeptByUsage(s, i, b) PROVE FALSE
  <2>1. At(stream, Written(b), s, i) /\ Loose(b, s) BY <1>1, <1>7 DEF KeptByUsage
  <2> QED BY <1>5, <2>1, LooseFacts
<1>8. SteadyStep({}) /\ CalmOrder({}) /\ Jobs' = Jobs BY <1>4, FinishesFacts DEF SteadyStep
<1>9. ASSUME Model # "kComputeSynchronized"
      PROVE  /\ Recorded(Written(b)) \/ ev[Written(b)].status = "error"
             /\ \A j \in Jobs : j[2] # b
  <2>1. ASSUME NEW j \in Jobs, j[2] = b PROVE FALSE
    <3>1. j[1] \in {"h2d", "d2h", "copy"} /\ JobFits(j) BY <1>2, <2>1, JobFacts, InvFacts
    <3>2. j[1] # "h2d" BY <1>1, <2>1, NoTransfer
    <3>3. j[1] # "copy" BY <1>9, <3>1 DEF JobFits, CopyFits, Supported
    <3>4. <<"read", b>> \in UsageEvents(b) /\ ev[<<"read", b>>].status = "none"
      BY <1>3, <2>1, <3>1, <3>2, <3>3 DEF JobFits, JobEvent
    <3> QED BY <1>5, <3>4
  <2>2. \A j \in Jobs : JobEvent(j) = Written(b) => j[2] = b BY EventNames DEF JobEvent
  <2> QED BY <1>3, <2>1, <2>2, InvFacts DEF HolderFits
<1>10. ASSUME Model # "kComputeSynchronized", NEW s \in Streams, NEW i \in Nat, NEW w \in Buffers,
              Uses(stream, s, i, w), buf[w].cell = buf[b].cell
       PROVE  FALSE
  <2>1. ASSUME NEW r \in Streams, NEW k \in Nat, Uses(stream, r, k, b) PROVE FALSE
    <3>1. CoveredByUsage(r, k, b) \/ CoveredByCall(r, k, b)
      BY <1>3, <2>1 DEF OrderInv, UsesCovered, UsagesCover
    <3>2. ~CoveredByUsage(r, k, b) BY <1>5 DEF CoveredByUsage
    <3>3. ~CoveredByCall(r, k, b)
      BY <1>10, InvFacts DEF CoveredByCall, ArgumentsFit, Supported
    <3> QED BY <3>1, <3>2, <3>3
  <2>2. SameCell(w, b) BY <1>10, <2>1 DEF SameCell
  <2>3. CASE Recorded(Written(b))
    <3>1. WriteFollows(b) /\ Holder(b) BY <1>3 DEF OrderInv, HoldersFollow, Holder
    <3>2. PICK r \in Streams, k \in Nat : At(stream, Written(b), r, k)
      BY <1>10, <2>2, <2>3, <3>1 DEF WriteFollows
    <3> QED BY <2>1, <3>2 DEF Uses
  <2>4. CASE ev[Written(b)].status = "error"
    <3>1. Out(b) BY <1>3, <2>4 DEF Out
    <3> QED BY <1>10, <3>1 DEF OrderInv, OutIsQuiet, HandedOut
  <2> QED BY <1>9, <1>10, <2>3, <2>4
<1>11. OutIsQuiet'
  <2>1. \A x \in Buffers : HandedOut(x) BY DEF OrderInv, OutIsQuiet
  <2>2. ASSUME NEW x \in Buffers, buf'[x].st = "external", Model # "kComputeSynchronized"
        PROVE  /\ (Recorded(Written(x)))' \/ ev'[Written(x)].status = "error"
               /\ \A j \in Jobs' : j[2] # x
    <3>1. CASE x = b BY <1>1, <1>8, <1>9, <2>2, <3>1 DEF Recorded, Written
    <3>2. CASE x # b
      <4>1. buf[x].st = "external" BY <1>4, <2>2, <3>2 DEF Finishes
      <4> QED BY <1>1, <1>8, <2>1, <2>2, <4>1 DEF HandedOut, Recorded, Written
    <3> QED BY <3>1, <3>2
  <2>3. ASSUME NEW x \in Buffers, Out(x)', Model # "kComputeSynchronized"
        PROVE  \/ Out(x) /\ Made(x)
               \/ \A s \in Streams, i \in Nat, w \in Buffers :
                    Uses(stream, s, i, w) => buf[w].cell # buf'[x].cell
    <3>1. CASE x = b
      <4>1. buf'[b].cell = buf[b].cell BY <1>4 DEF Finishes
      <4> QED BY <1>10, <2>3, <3>1, <4>1
    <3>2. CASE x # b
      <4>1. Out(x) BY <1>1, <1>4, <2>3, <3>2 DEF Out, Active, Finishes, Written
      <4>2. Holder(x) BY <4>1 DEF Out, Holder
      <4> QED BY <1>2, <4>1, <4>2, HolderFacts, InvFacts
    <3> QED BY <3>1, <3>2
  <2> QED BY <1>8, <2>2, <2>3, CalmOut
<1> QED BY <1>4, <1>6, <1>7, <1>11, FinishesInv

(* Merged usage events cover what they covered.                             *)
GrowIn(q, evs) ==
  /\ \A e, f \in Events, s \in Streams, i \in Nat :
       At(q, e, s, i) /\ evs[f].stream = s /\ evs[e].seq > 0 /\ evs[e].seq <= evs[f].seq =>
         \E j \in Nat : i <= j /\ At(q, f, s, j)
  /\ \A e \in Events, s \in Streams, i \in Nat :
       At(q, e, s, i) /\ e[1] # "joined" => evs[e].seq > 0 /\ evs[e].stream = s
  /\ \A e \in Events : evs[e].seq \in Nat

LEMMA InvGrows == OrderInv => GrowIn(stream, ev)
<1> SUFFICES ASSUME OrderInv PROVE GrowIn(stream, ev) OBVIOUS
<1>1. \A e \in Events : ev[e].seq \in Nat BY InvFacts DEF DeviceInv, Typed, EvTyped, Event
<1>2. \A e \in Events, s \in Streams, i \in Nat :
        At(stream, e, s, i) /\ e[1] # "joined" => ev[e].seq > 0 /\ ev[e].stream = s
  BY InvFacts DEF PlaceFits, Recorded
<1>3. NumbersGrow BY DEF OrderInv
<1> QED BY <1>1, <1>2, <1>3 DEF GrowIn, NumbersGrow, Recorded

LEMMA MergedCover ==
  ASSUME NEW q \in Queues, NEW evs, GrowIn(q, evs), NEW U, NEW U2, NEW new,
         Merged(evs, U, U2, new),
         \A x \in U \cup {new} : /\ x.event \in Events /\ x.event[1] # "joined"
                                 /\ evs[x.event].seq > 0 => evs[x.event].stream = x.stream,
         NEW x \in U \cup {new}, NEW s \in Streams, NEW i \in Nat, NEW r \in Streams,
         NEW k \in Nat, At(q, x.event, r, k), Precedes(q, s, i, r, k)
  PROVE  \E y \in U2, j \in Nat : At(q, y.event, r, j) /\ Precedes(q, s, i, r, j)
<1>1. CASE x \in U2 BY <1>1
<1>2. CASE x \notin U2
  <2>1. PICK y \in U2 : /\ y \in U \cup {new} /\ y.stream = x.stream
                        /\ evs[y.event].seq > 0 /\ evs[x.event].seq <= evs[y.event].seq
    <3>1. x.event \in Events /\ \A y \in U2 : y \in U \cup {new} /\ y.event \in Events
      BY DEF Merged
    <3>2. evs[x.event].seq \in Nat /\ \A y \in U2 : evs[y.event].seq \in Nat
      BY <3>1 DEF GrowIn
    <3>3. CASE x \in U BY <1>2, <3>1, <3>2, <3>3 DEF Merged
    <3>4. CASE x = new BY <1>2, <3>1, <3>2, <3>4 DEF Merged
    <3> QED BY <3>3, <3>4
  <2>2. x.event \in Events /\ y.event \in Events BY <2>1
  <2>3. evs[x.event].seq > 0 /\ evs[x.event].stream = r BY <2>2 DEF GrowIn
  <2>4. evs[y.event].stream = r BY <2>1, <2>3
  <2>5. PICK j \in Nat : k <= j /\ At(q, y.event, r, j) BY <2>1, <2>2, <2>3, <2>4 DEF GrowIn
  <2>6. Precedes(q, r, k, r, j) BY <2>5, PrecedesSame
  <2> QED BY <2>5, <2>6, PrecedesThen
<1> QED BY <1>1, <1>2

(* The usages of one buffer, merged, as they were.                          *)
LEMMA InvCover ==
  ASSUME OrderInv, NEW b \in Buffers, NEW U2, NEW new, Merged(ev, Usage(b), U2, new),
         new.event \in Events, new.event[1] # "joined",
         Recorded(new.event) => ev[new.event].stream = new.stream,
         NEW x \in Usage(b) \cup {new}, NEW s \in Streams, NEW i \in Nat, NEW r \in Streams,
         NEW k \in Nat, At(stream, x.event, r, k), Precedes(stream, s, i, r, k)
  PROVE  \E y \in U2, j \in Nat : At(stream, y.event, r, j) /\ Precedes(stream, s, i, r, j)
<1>1. stream \in Queues /\ GrowIn(stream, ev) BY InvFacts, InvGrows
<1>2. Usage(b) \subseteq UsageEvent BY UsageFacts, InvFacts
<1>3. ASSUME NEW y \in Usage(b) \cup {new}
      PROVE  /\ y.event \in Events /\ y.event[1] # "joined"
             /\ ev[y.event].seq > 0 => ev[y.event].stream = y.stream
  <2>1. CASE y = new BY <2>1 DEF Recorded
  <2>2. CASE y \in Usage(b) BY <1>2, <2>2, InvFacts DEF UsageEvent, UsageFits, Recorded
  <2> QED BY <2>1, <2>2
<1> QED BY <1>1, <1>3, MergedCover

(* Unrecorded events are never merged away.                                 *)
LEMMA MergedKeeps ==
  ASSUME NEW evs, NEW U, NEW U2, NEW new, Merged(evs, U, U2, new),
         NEW x \in U, ~(evs[x.event].seq > 0)
  PROVE  x \in U2
BY DEF Merged

(* What CopyToDevice's return does to the buffers.                          *)
LEMMA CopyReturnFacts ==
  ASSUME OrderInv, Supported, NEW dst \in Buffers, CopyToDeviceReturn(dst)
  PROVE  /\ Model = "kComputeSynchronized" /\ stream' = stream
         /\ Made(dst) /\ buf[dst].st = "making"
         /\ \E src \in call[dst].ins :
              LET s == <<"d2d", buf[src].dev>>  e == Written(dst) IN
              /\ src \in Buffers /\ src # dst /\ Made(src) /\ s \in Streams
              /\ \E u, v \in Seq(UsageEvent) :
                   /\ buf' = [buf EXCEPT ![dst] = [buf[dst] EXCEPT !.st = "live", !.usage = u],
                                         ![src] = [buf[src] EXCEPT !.usage = v]]
                   /\ Elems(u) = {UsageOf(s, e, FALSE)}
                   /\ Merged(ev, Usage(src), Elems(v), UsageOf(s, e, TRUE))
<1>1. DeviceInv /\ call[dst].op = "copy" /\ "copy" \in Ops
  BY InvFacts DEF CopyToDeviceReturn, ArgumentsFit
<1>2. /\ buf[dst].st = "making" /\ dst \notin call[dst].ins
      /\ call[dst].ins \subseteq Buffers /\ \A i \in call[dst].ins : Made(i)
  BY <1>1, CallFacts DEF CallFits
<1>3. Made(dst) /\ buf[dst].usage = <<>> BY <1>1, <1>2, StMade, InvFacts DEF DeviceInv, HolderFits
<1>4. Model = "kComputeSynchronized" /\ Retain = FALSE BY <1>1 DEF Supported, Retain
<1> DEFINE S(i) == <<"d2d", buf[i].dev>>
           u == [i \in call[dst].ins |-> AddUsageEvent(ev, <<>>, S(i), Written(dst), FALSE)]
           v == [i \in call[dst].ins |-> AddUsageEvent(ev, buf[i].usage, S(i), Written(dst), TRUE)]
<1>5. buf \in [Buffers -> MadeBuffer \cup NoBuffer] BY <1>1 DEF DeviceInv, Typed, BufTyped
<1>6. PICK src \in call[dst].ins :
        /\ buf' = [buf EXCEPT ![dst] = [buf[dst] EXCEPT !.st = "live", !.usage = u[src]],
                              ![src] = [buf[src] EXCEPT !.usage = v[src]]]
        /\ stream' = [stream EXCEPT ![S(src)] = stream[S(src)] \o Callback({}, {})]
  <2>1. PICK src \in call[dst].ins :
          /\ buf' = [buf EXCEPT ![dst].st = "live",
                ![dst].usage = AddUsageEvent(ev, @, S(src), Written(dst), FALSE),
                ![src].usage = AddUsageEvent(ev, @, S(src), Written(dst), TRUE)]
          /\ stream' = [stream EXCEPT ![S(src)] = @ \o Callback({}, {})]
    BY <1>4 DEF CopyToDeviceReturn, Written
  <2>2. src # dst /\ src \in Buffers BY <1>2
  <2>3. buf' = [buf EXCEPT ![dst] = [buf[dst] EXCEPT !.st = "live", !.usage = u[src]],
                           ![src] = [buf[src] EXCEPT !.usage = v[src]]]
    BY <1>3, <1>5, <2>1, <2>2 DEF Made, MadeBuffer
  <2> QED BY <2>1, <2>3
<1>7. src \in Buffers /\ src # dst /\ Made(src) BY <1>2
<1>8. S(src) \in Streams BY <1>1, <1>7, MadeFacts, NameFacts DEF DeviceInv
<1>9. stream' = stream
  <2>1. Callback({}, {}) = <<>> BY DEF Callback
  <2> QED BY <1>6, <1>8, <2>1, PutNothing, InvFacts
<1>10. u[src] = AddUsageEvent(ev, <<>>, S(src), Written(dst), FALSE)
  OBVIOUS
<1>11. v[src] = AddUsageEvent(ev, buf[src].usage, S(src), Written(dst), TRUE) OBVIOUS
<1>12. buf[src].usage \in Seq(UsageEvent) /\ <<>> \in Seq(UsageEvent) /\ Written(dst) \in Events
  BY <1>1, <1>7, MadeFacts, EventNames DEF DeviceInv
<1> HIDE DEF u, v
<1>13. u[src] \in Seq(UsageEvent) /\ v[src] \in Seq(UsageEvent)
  BY <1>8, <1>10, <1>11, <1>12, AddUsageEventFacts
<1>14. Elems(u[src]) = {UsageOf(S(src), Written(dst), FALSE)}
  <2>1. Merged(ev, Elems(<<>>), Elems(u[src]), UsageOf(S(src), Written(dst), FALSE))
    BY <1>10, <1>12, AddUsageMerges
  <2>2. Elems(<<>>) = {} BY DEF Elems
  <2>3. UsageOf(S(src), Written(dst), FALSE).event = Written(dst) BY DEF UsageOf
  <2>4. ev[Written(dst)].seq \in Nat BY <1>1, <1>12 DEF DeviceInv, Typed, EvTyped, Event
  <2> QED BY <2>1, <2>2, <2>3, <2>4 DEF Merged
<1>15. Merged(ev, Usage(src), Elems(v[src]), UsageOf(S(src), Written(dst), TRUE))
  BY <1>11, <1>12, AddUsageMerges DEF Usage
<1> QED BY <1>2, <1>3, <1>4, <1>6, <1>7, <1>8, <1>9, <1>13, <1>14, <1>15

LEMMA CopyToDeviceReturnOrder ==
  ASSUME OrderInv, DeviceInv', Supported, NEW dst \in Buffers, CopyToDeviceReturn(dst)
  PROVE  OrderInv'
<1> DEFINE e == Written(dst)
           S(i) == <<"d2d", buf[i].dev>>
<1>1. /\ call[dst].op = "copy" /\ call' = [call EXCEPT ![dst] = NoCall]
      /\ UNCHANGED <<ev, mem, tasks, pool, ready, literal, dependency>>
  BY DEF CopyToDeviceReturn
<1>2. DeviceInv /\ e \in Events BY InvFacts, EventNames
<1>3. /\ Model = "kComputeSynchronized" /\ stream' = stream /\ Made(dst)
      /\ buf[dst].st = "making"
  BY CopyReturnFacts
<1>4. PICK src \in call[dst].ins :
        /\ src \in Buffers /\ src # dst /\ Made(src) /\ S(src) \in Streams
        /\ \E u, v \in Seq(UsageEvent) :
             /\ buf' = [buf EXCEPT ![dst] = [buf[dst] EXCEPT !.st = "live", !.usage = u],
                                   ![src] = [buf[src] EXCEPT !.usage = v]]
             /\ Elems(u) = {UsageOf(S(src), e, FALSE)}
             /\ Merged(ev, Usage(src), Elems(v), UsageOf(S(src), e, TRUE))
  BY CopyReturnFacts
<1>5. PICK u \in Seq(UsageEvent), v \in Seq(UsageEvent) :
        /\ buf' = [buf EXCEPT ![dst] = [buf[dst] EXCEPT !.st = "live", !.usage = u],
                              ![src] = [buf[src] EXCEPT !.usage = v]]
        /\ Elems(u) = {UsageOf(S(src), e, FALSE)}
        /\ Merged(ev, Usage(src), Elems(v), UsageOf(S(src), e, TRUE))
  BY <1>4
<1> DEFINE n1 == UsageOf(S(src), e, FALSE)
           n2 == UsageOf(S(src), e, TRUE)
<1>6. /\ n1.stream = S(src) /\ n1.event = e /\ n1.reference_held = FALSE
      /\ n2.stream = S(src) /\ n2.event = e
  BY DEF UsageOf
<1> HIDE DEF n1, n2
<1>7. /\ ArgumentsFit(dst) /\ (\A a \in call[dst].ins : a = src)
      /\ \A j \in Jobs : j[1] # "d2h" /\ j[2] = dst => j[1] = "copy" /\ j[3] = src
      /\ buf[src].dev # buf[dst].dev /\ buf[src].st # "making"
      /\ (Recorded(e) => ev[e].stream = S(src))
  <2>1. ArgumentsFit(dst) BY InvFacts
  <2> QED BY <1>1, <1>4, <2>1 DEF ArgumentsFit
<1>8. /\ \A x \in Buffers : /\ (Made(x))' <=> Made(x)
                            /\ buf'[x].cell = buf[x].cell /\ buf'[x].dev = buf[x].dev
                            /\ buf'[x].val = buf[x].val /\ buf'[x].defs = buf[x].defs
                            /\ buf'[x].owns = buf[x].owns
      /\ buf'[dst].st = "live" /\ buf'[dst].usage = u
      /\ buf'[src].st = buf[src].st /\ buf'[src].usage = v
      /\ \A x \in Buffers : x # dst /\ x # src => buf'[x] = buf[x]
  <2>0. u \in Seq(UsageEvent) /\ v \in Seq(UsageEvent) BY <1>5
  <2>1. buf \in [Buffers -> MadeBuffer \cup NoBuffer] BY <1>2 DEF DeviceInv, Typed, BufTyped
  <2>2. buf'[dst] = [buf[dst] EXCEPT !.st = "live", !.usage = u] BY <1>4, <1>5, <2>1
  <2>3. buf'[src] = [buf[src] EXCEPT !.usage = v] BY <1>4, <1>5, <2>1
  <2>4. \A x \in Buffers : x # dst /\ x # src => buf'[x] = buf[x] BY <1>4, <1>5, <2>1
  <2>5. /\ buf'[dst] \in MadeBuffer /\ buf'[dst].cell = buf[dst].cell
        /\ buf'[dst].dev = buf[dst].dev /\ buf'[dst].val = buf[dst].val
        /\ buf'[dst].defs = buf[dst].defs /\ buf'[dst].owns = buf[dst].owns
        /\ buf'[dst].st = "live" /\ buf'[dst].usage = u
    BY <1>3, <2>0, <2>2 DEF Made, MadeBuffer
  <2>6. /\ buf'[src] \in MadeBuffer /\ buf'[src].cell = buf[src].cell
        /\ buf'[src].dev = buf[src].dev /\ buf'[src].val = buf[src].val
        /\ buf'[src].defs = buf[src].defs /\ buf'[src].owns = buf[src].owns
        /\ buf'[src].st = buf[src].st /\ buf'[src].usage = v
    BY <1>4, <2>0, <2>3 DEF Made, MadeBuffer
  <2>7. ASSUME NEW x \in Buffers
        PROVE  /\ (Made(x))' <=> Made(x)
               /\ buf'[x].cell = buf[x].cell /\ buf'[x].dev = buf[x].dev
               /\ buf'[x].val = buf[x].val /\ buf'[x].defs = buf[x].defs
               /\ buf'[x].owns = buf[x].owns
    <3>1. CASE x = dst BY <1>3, <2>5, <3>1 DEF Made
    <3>2. CASE x = src BY <1>4, <2>6, <3>2 DEF Made
    <3>3. CASE x # dst /\ x # src BY <2>4, <3>3 DEF Made
    <3> QED BY <3>1, <3>2, <3>3
  <2> QED BY <2>4, <2>5, <2>6, <2>7
<1>9. /\ Usage(dst) = {} /\ Usage(dst)' = {n1} /\ Merged(ev, Usage(src), Usage(src)', n2)
      /\ \A x \in Buffers : x # dst /\ x # src => Usage(x)' = Usage(x)
  <2>1. Usage(dst)' = {n1} BY <1>5, <1>8 DEF Usage, n1
  <2>2. Merged(ev, Usage(src), Usage(src)', n2) BY <1>5, <1>8 DEF Usage, n2
  <2>3. Usage(dst) = {}
    <3>1. buf[dst].usage = <<>> BY <1>3, InvFacts DEF HolderFits
    <3> QED BY <3>1 DEF Usage, Elems
  <2> QED BY <1>8, <2>1, <2>2, <2>3 DEF Usage
<1>10. \A x \in Buffers : \A y \in Usage(x) : ~Recorded(y.event) => y \in Usage(x)'
  <2>1. \A y \in Usage(src) : ~Recorded(y.event) => y \in Usage(src)'
    BY <1>9, MergedKeeps DEF Recorded
  <2> QED BY <1>9, <2>1
<1>11. \A x \in Buffers : \A f \in UsageEvents(x) : ~Recorded(f) => f \in (UsageEvents(x))'
  <2> SUFFICES ASSUME NEW x \in Buffers, NEW f \in UsageEvents(x), ~Recorded(f)
               PROVE  f \in (UsageEvents(x))'
    OBVIOUS
  <2>1. PICK y \in Usage(x) : y.event = f BY <1>2, UsageFacts
  <2>2. y \in Usage(x)' BY <1>10, <2>1
  <2> QED BY <2>1, <2>2 DEF Usage, Elems, UsageEvents
<1>12. FixedBuffers
  <2>1. \A x \in Buffers : /\ buf'[x].st = "unborn" => buf[x].st = "unborn"
                           /\ buf'[x].st = "making" => buf[x].st = "making"
    BY <1>8
  <2> QED BY <1>8, <2>1 DEF FixedBuffers
<1>13. /\ CalmOrder({}) /\ EvCalm /\ EvStep({}) /\ OnFits' /\ PoolFits'
       /\ \A x \in {} : x[1] # "read"
  BY <1>1, <1>3, <1>12, StillSteady
<1>14. OneTask' /\ Jobs' = Jobs BY <1>1, InvFacts, JobsSame
<1>15. /\ call'[dst] = NoCall /\ call'[dst].op = "none"
       /\ \A x \in Buffers : x # dst => call'[x] = call[x]
  BY <1>1, <1>2, NoCallFacts DEF DeviceInv, Typed, CallTyped
<1>16. \A x \in Buffers : (Active(x)' <=> Active(x)) /\ (Holder(x)' => Holder(x))
  <2>1. \A x \in Buffers : Active(x)' <=> Active(x) BY <1>3, <1>8, <1>15 DEF Active
  <2>2. \A x \in Buffers : buf'[x].st = "external" => buf[x].st = "external" BY <1>8
  <2> QED BY <1>14, <2>1, <2>2 DEF Holder
<1>17. SteadyStep({})
  <2>1. \A x \in Buffers : buf'[x].st = "making" => buf'[x] = buf[x] BY <1>7, <1>8
  <2> QED BY <1>1, <1>8, <1>13, <1>14, <1>16, <2>1 DEF SteadyStep
<1>18. \A x \in Buffers : UsageStays(x) BY <1>11, <1>16 DEF UsageStays
<1>19. ASSUME NEW j \in Jobs' PROVE JobFits(j)'
  <2>1. /\ j \in Jobs /\ j[2] \in Buffers /\ j[3] \in Buffers /\ Made(j[3]) /\ JobFits(j)
    BY <1>2, <1>14, JobFacts, InvFacts
  <2>2. \A k \in Jobs' : JobEvent(k) = JobEvent(j) => k \in Jobs BY <1>14
  <2>3. j[1] = "d2h" => literal'[j[2]] = literal[j[2]] /\ UsageStays(j[2]) BY <1>1, <1>18, <2>1
  <2>4. ASSUME j[1] = "copy" PROVE CopyFits(j)'
    <3>0. (JobStream(j))' = JobStream(j) BY <1>8, <2>1 DEF JobStream
    <3>1. JobEvent(j) = Written(j[2]) /\ JobEvent(j) \in Events BY <1>2, <2>1, <2>4, JobFacts DEF JobEvent
    <3>2. ~Recorded(Written(j[2])) BY <2>1, <3>1, UnsetFacts DEF JobFits
    <3>3. CASE j[2] = dst
      <4>1. j[3] = src BY <1>7, <2>1, <2>4, <3>3
      <4>2. (JobStream(j))' = S(src) BY <2>4, <3>0, <4>1 DEF JobStream
      <4>3. n1 \in Usage(dst)' BY <1>9
      <4>4. Loose(dst, JobStream(j))'
        BY <1>6, <4>2, <4>3 DEF Loose, Written
      <4>5. n2 \in Usage(src)'
        BY <1>6, <1>9, <3>2, <3>3, <1>2, InvGrows DEF Merged, Recorded, GrowIn
      <4>6. Written(dst) \in (UsageEvents(src))'
        BY <1>6, <4>5 DEF Usage, Elems, UsageEvents
      <4>7. "copy" \in Ops /\ buf'[dst].dev # buf'[src].dev BY <1>7, <1>8, <1>4, <2>1, <2>4 DEF JobFits, CopyFits
      <4>8. Active(dst)' BY <1>3, <1>16 DEF Active
      <4> QED BY <3>3, <4>1, <4>4, <4>6, <4>7, <4>8 DEF CopyFits, Written
    <3>4. CASE j[2] # dst
      <4>1. call'[j[2]] = call[j[2]] BY <1>15, <2>1, <3>4
      <4>2. Loose(j[2], JobStream(j)) => Loose(j[2], JobStream(j))'
        BY <1>10, <2>1, <3>0, <3>2 DEF Loose, Written
      <4> QED BY <1>12, <1>16, <1>18, <2>1, <2>4, <4>1, <4>2, CopyStays
    <3> QED BY <3>3, <3>4
  <2>5. j[1] = "h2d" => Active(j[2])' BY <1>16, <2>1 DEF JobFits
  <2>6. JobEvent(j) \notin {} OBVIOUS
  <2> QED BY <1>12, <1>13, <2>1, <2>2, <2>3, <2>4, <2>5, <2>6, JobStays
<1>20. UsagesFit'
  <2>1. ASSUME NEW x, x.event = e, x.stream = S(src) PROVE UsageFits(x)'
    <3>1. (Made(dst))' /\ buf'[src].dev = buf[src].dev BY <1>3, <1>4, <1>8
    <3>2. Recorded(x.event)' => ev'[x.event].stream = x.stream BY <1>1, <1>7, <2>1 DEF Recorded
    <3>3. ASSUME NEW j \in Jobs', x.event = (JobEvent(j))' PROVE x.stream = (JobStream(j))'
      <4>1. JobEvent(j) = Written(dst) /\ j \in Jobs BY <1>14, <2>1, <3>3 DEF JobEvent, Written
      <4>2. j[1] # "d2h" /\ j[2] = dst BY <4>1, EventNames DEF JobEvent
      <4>3. j[1] = "copy" /\ j[3] = src BY <1>7, <4>1, <4>2
      <4> QED BY <2>1, <3>1, <4>3 DEF JobStream
    <3>4. x.event[1] = "written" /\ x.event[2] = dst BY <2>1, EventNames
    <3> QED BY <2>1, <3>1, <3>2, <3>3, <3>4 DEF UsageFits
  <2> SUFFICES ASSUME NEW y \in Buffers, NEW x \in Usage(y)' PROVE UsageFits(x)'
    BY DEF UsagesFit
  <2>2. CASE x \in {n1, n2} BY <1>6, <2>1, <2>2
  <2>3. CASE x \notin {n1, n2}
    <3>1. x \in Usage(y) BY <1>9, <2>3 DEF Merged
    <3>2. \A j \in Jobs' : j \in Jobs BY <1>14
    <3>3. x.event \notin {} OBVIOUS
    <3> QED BY <1>12, <1>13, <3>1, <3>2, <3>3, UsageFitStays
  <2> QED BY <2>2, <2>3
<1>21. ASSUME NEW x \in Buffers PROVE ArgumentsFit(x)'
  <2>1. CASE x = dst BY <1>15, <2>1 DEF ArgumentsFit
  <2>2. CASE x # dst
    <3>1. call'[x] = call[x] /\ Written(x) \notin {} BY <1>15, <2>2
    <3>2. \A j \in Jobs' : j \in Jobs BY <1>14
    <3> QED BY <1>12, <1>13, <3>1, <3>2, ArgumentsStay
  <2> QED BY <2>1, <2>2
<1>22. UsesCovered'
  <2> SUFFICES ASSUME NEW b \in Buffers, Active(b)', NEW s \in Streams, NEW i \in Nat,
                      Uses(stream', s, i, b)
               PROVE  CoveredByUsage(s, i, b)' \/ CoveredByCall(s, i, b)'
    BY DEF UsesCovered, UsagesCover
  <2>1. Active(b) /\ Uses(stream, s, i, b) BY <1>3, <1>16
  <2>2. CoveredByUsage(s, i, b) \/ CoveredByCall(s, i, b)
    BY <2>1 DEF OrderInv, UsesCovered, UsagesCover
  <2>3. ASSUME NEW y \in Usage(b)', NEW r \in Streams, NEW k \in Nat, At(stream, y.event, r, k),
               Precedes(stream, s, i, r, k)
        PROVE  CoveredByUsage(s, i, b)'
    <3>1. y.event \in (UsageEvents(b))' BY DEF Usage, Elems, UsageEvents
    <3> QED BY <1>3, <2>3, <3>1 DEF CoveredByUsage
  <2>4. ASSUME b \in {src, dst}, NEW y \in Usage(b) \cup {n1, n2}, NEW r \in Streams,
               NEW k \in Nat, At(stream, y.event, r, k), Precedes(stream, s, i, r, k)
        PROVE  CoveredByUsage(s, i, b)'
    <3>1. CASE b = dst
      <4>1. y.event = e /\ n1 \in Usage(b)' BY <1>6, <1>9, <2>4, <3>1
      <4> QED BY <1>6, <2>3, <2>4, <4>1
    <3>2. CASE b = src
      <4>0. PICK z \in Usage(src) \cup {n2} : z.event = y.event BY <1>6, <2>4, <3>2
      <4>1. /\ n2.event \in Events /\ n2.event[1] # "joined" /\ At(stream, z.event, r, k)
            /\ (Recorded(n2.event) => ev[n2.event].stream = n2.stream)
            /\ Merged(ev, Usage(src), Usage(src)', n2)
        BY <1>2, <1>6, <1>7, <1>9, <2>4, <4>0, EventNames
      <4>2. \E x \in Usage(src)', j \in Nat : At(stream, x.event, r, j) /\ Precedes(stream, s, i, r, j)
        BY <1>4, <2>4, <4>0, <4>1, InvCover
      <4> QED BY <2>3, <3>2, <4>2
    <3> QED BY <2>4, <3>1, <3>2
  <2>5. CASE CoveredByUsage(s, i, b)
    <3>1. PICK f \in UsageEvents(b), r \in Streams, k \in Nat :
            At(stream, f, r, k) /\ Precedes(stream, s, i, r, k)
      BY <2>5 DEF CoveredByUsage
    <3>2. PICK y \in Usage(b) : y.event = f BY <1>2, UsageFacts
    <3>3. CASE b \in {src, dst} BY <2>4, <3>1, <3>2, <3>3
    <3>4. CASE b \notin {src, dst} BY <1>9, <2>3, <3>1, <3>2, <3>4
    <3> QED BY <3>3, <3>4
  <2>6. CASE CoveredByCall(s, i, b)
    <3>1. PICK x \in Buffers : /\ call[x].op = "copy" /\ (b = x \/ b \in call[x].ins)
                               /\ At(stream, Written(x), s, i)
      BY <2>6 DEF CoveredByCall
    <3>2. CASE x = dst
      <4>1. b \in {src, dst} BY <1>7, <3>1, <3>2
      <4>2. Precedes(stream, s, i, s, i) BY PrecedesSame
      <4> QED BY <1>6, <2>4, <3>1, <3>2, <4>1, <4>2
    <3>3. CASE x # dst
      <4>1. call'[x] = call[x] BY <1>15, <3>3
      <4> QED BY <1>3, <3>1, <4>1 DEF CoveredByCall, Written
    <3> QED BY <3>2, <3>3
  <2> QED BY <2>2, <2>5, <2>6
<1>23. UsesKept'
  <2>1. \A x \in Buffers : buf[x].owns => buf'[x].owns BY <1>8
  <2>2. ASSUME NEW s \in Streams, NEW i \in Nat, NEW w \in Buffers, KeptByUsage(s, i, w)
        PROVE  KeptByUsage(s, i, w)'
    <3>1. /\ At(stream, Written(w), s, i) /\ Active(w)
          /\ s # <<"compute", buf[w].dev>> /\ s # <<"d2d", buf[w].dev>>
          /\ call[w].op = "copy" \/ Loose(w, s)
      BY <2>2 DEF KeptByUsage
    <3>2. call'[w].op = "copy" \/ Loose(w, s)'
      <4>1. CASE w = dst
        <5>1. Recorded(e) /\ ev[e].stream = s
          BY <1>2, <3>1, <4>1, EventNames, InvFacts DEF PlaceFits
        <5>2. s = S(src) /\ n1 \in Usage(dst)' BY <1>7, <1>9, <5>1
        <5> QED BY <1>6, <4>1, <5>2 DEF Loose, Written
      <4>2. CASE w # dst /\ call[w].op = "copy" BY <1>15, <4>2
      <4>3. CASE w # dst /\ Loose(w, s)
        <5>1. PICK y \in Usage(w) : y.event = Written(w) /\ y.stream = s /\ ~y.reference_held
          BY <4>3 DEF Loose
        <5>2. y \in Usage(w)'
          <6>1. CASE w = src BY <1>6, <1>9, <3>1, <5>1, <6>1 DEF Merged
          <6>2. CASE w # src BY <1>9, <4>3, <6>2
          <6> QED BY <6>1, <6>2
        <5> QED BY <5>1, <5>2 DEF Loose, Written
      <4> QED BY <3>1, <4>1, <4>2, <4>3
    <3> QED BY <1>3, <1>8, <1>16, <3>1, <3>2 DEF KeptByUsage, Written
  <2> QED BY <1>1, <1>13, <2>1, <2>2, CalmKept
<1>24. OutIsQuiet'
  <2>1. \A j \in Jobs' \ Jobs : buf'[j[2]].st # "external" BY <1>14
  <2> QED BY <1>3, <1>17, <2>1, SteadyOut
<1> QED BY <1>17, <1>19, <1>20, <1>21, <1>22, <1>23, <1>24, SteadyInv

(* async_copy_to_device finds an error in its source.                       *)
CopyGetsError(t) ==
  LET s == <<"d2d", buf[t.src].dev>>  e == Written(t.buf) IN
  /\ t.kind = "copy"
  /\ stream' = [stream EXCEPT ![s] = stream[s] \o Callback({t.src}, {})]
  /\ ev' = [ev EXCEPT ![e].status = "error"]
  /\ tasks' = Awakened(tasks \ {t}, e)
  /\ UNCHANGED <<buf, mem, call, pool, callbacks, ready, literal, dependency>>

LEMMA CopyGetsErrorOrder ==
  ASSUME OrderInv, DeviceInv', Supported, NEW t \in tasks, CopyGetsError(t)
  PROVE  OrderInv'
<1> DEFINE s == <<"d2d", buf[t.src].dev>>
           e == Written(t.buf)
           j0 == Job(t)
<1>1. /\ UNCHANGED <<buf, mem, call, pool, ready, literal, dependency>> /\ t.kind = "copy"
      /\ stream' = [stream EXCEPT ![s] = stream[s] \o Callback({t.src}, {})]
      /\ ev' = [ev EXCEPT ![e].status = "error"] /\ tasks' = Awakened(tasks \ {t}, e)
  BY DEF CopyGetsError
<1>2. DeviceInv /\ stream \in Queues BY InvFacts
<1>3. /\ t.buf \in Buffers /\ t.src \in Buffers /\ Made(t.buf) /\ Made(t.src)
      /\ e \in Events /\ s \in Streams
  BY <1>2, TaskFacts, MadeFacts, NameFacts, EventNames DEF DeviceInv
<1>4. /\ j0 \in Jobs /\ j0[1] = "copy" /\ j0[2] = t.buf /\ j0[3] = t.src /\ JobEvent(j0) = e
  BY <1>1 DEF Jobs, Job, JobEvent
<1>5. /\ ev[e].status = "none" /\ "copy" \in Ops
      /\ \A k \in Jobs : JobEvent(k) = e => k = j0
  BY <1>4, InvFacts DEF JobFits, CopyFits
<1>6. Model = "kComputeSynchronized" BY <1>5 DEF Supported
<1>7. OneTask' /\ Jobs' = Jobs \ {j0}
  <2>1. tasks \subseteq Task BY <1>2 DEF DeviceInv, Typed, TasksTyped
  <2> QED BY <1>1, <2>1, InvFacts, JobsWithout
<1> HIDE DEF j0
<1>8. Appends(stream, stream', {})
  <2> DEFINE o == [op |-> "callback", drops |-> {t.src}, frees |-> {}]
  <2>1. o \in StreamOp /\ o.op = "callback" BY <1>3 DEF StreamOp, CallbackOp
  <2>2. Callback({t.src}, {}) = <<o>> BY DEF Callback
  <2> HIDE DEF o
  <2>3. Puts(stream, stream', s, o) BY <1>1, <2>1, <2>2 DEF Puts
  <2> QED BY <1>2, <1>3, <2>1, <2>3, PutAppends
<1>9. FixedBuffers BY <1>1 DEF FixedBuffers, Made
<1>10. CalmOrder({}) BY <1>1, <1>8, <1>9 DEF CalmOrder
<1>11. /\ ev'[e] = [ev[e] EXCEPT !.status = "error"] /\ ev[e] \in Event
       /\ \A f \in Events : f # e => ev'[f] = ev[f]
  BY <1>1, <1>2, <1>3 DEF DeviceInv, Typed, EvTyped
<1>12. /\ ev'[e].status = "error" /\ ev'[e].seq = ev[e].seq /\ ev'[e].stream = ev[e].stream
       /\ ev'[e].done = ev[e].done /\ ev'[e].on = ev[e].on
  BY <1>11 DEF Event
<1>13. EvCalm
  <2>1. buf'[e[2]].st # "unborn"
    <3>1. e[2] = t.buf BY EventNames
    <3>2. buf[t.buf].st \in {"making", "live", "external", "gone"} BY <1>2, <1>3, MadeFacts DEF DeviceInv
    <3> QED BY <1>1, <3>1, <3>2
  <2> QED BY <1>5, <1>11, <1>12, <2>1 DEF EvCalm
<1>14. EvStep({e}) BY <1>5, <1>11, <1>12 DEF EvStep
<1>15. OnFits'
  <2>1. \A f \in Events : ev'[f].on \subseteq ev[f].on BY <1>11, <1>12
  <2> QED BY <1>10, <2>1, CalmOn
<1>16. PoolFits'
  <2>1. ASSUME NEW p \in pool, p.op = "ready"
        PROVE  ev'[Written(p.buf)].done \/ Written(p.buf) \in p.events
    <3>1. p \in Wait BY <1>2 DEF DeviceInv, Typed, PoolTyped
    <3>2. Written(p.buf) \in Events BY <3>1, EventNames DEF Wait
    <3>3. ev[Written(p.buf)].done \/ Written(p.buf) \in p.events BY <2>1, InvFacts DEF PoolFits
    <3> QED BY <1>13, <3>2, <3>3 DEF EvCalm
  <2> QED BY <1>1, <2>1 DEF PoolFits, Written
<1>17. \A x \in Buffers : /\ Active(x)' <=> Active(x)
                          /\ Holder(x)' => Holder(x)
                          /\ Usage(x)' = Usage(x) /\ (UsageEvents(x))' = UsageEvents(x)
                          /\ UsageStays(x) /\ \A r : Loose(x, r)' <=> Loose(x, r)
  <2>1. \A x \in Buffers : /\ Active(x)' <=> Active(x)
                           /\ Usage(x)' = Usage(x) /\ (UsageEvents(x))' = UsageEvents(x)
    BY <1>1 DEF Active, Usage, UsageEvents
  <2>2. \A x \in Buffers : Holder(x)' => Holder(x) BY <1>1, <1>7, <2>1 DEF Holder
  <2>3. \A x \in Buffers : \A r : Loose(x, r)' <=> Loose(x, r) BY <2>1 DEF Loose, Written
  <2> QED BY <2>1, <2>2, <2>3 DEF UsageStays
<1>18. SteadyStep({e})
  <2>1. \A f \in {e} : f[1] # "read" BY EventNames
  <2>2. \A x \in Buffers : (Made(x))' => Made(x) BY <1>1 DEF Made
  <2>3. \A j \in Jobs \ Jobs' : ev'[JobEvent(j)].status = "error" BY <1>4, <1>7, <1>12
  <2>4. \A j \in Jobs' : j \in Jobs BY <1>7
  <2> QED BY <1>1, <1>7, <1>10, <1>13, <1>14, <1>15, <1>16, <1>17, <2>1, <2>2, <2>3, <2>4 DEF SteadyStep
<1>19. ASSUME NEW j \in Jobs' PROVE JobFits(j)'
  <2>1. /\ j \in Jobs /\ j # j0 /\ j[2] \in Buffers /\ j[3] \in Buffers
    BY <1>2, <1>7, JobFacts
  <2>2. \A k \in Jobs' : JobEvent(k) = JobEvent(j) => k \in Jobs BY <1>7
  <2>3. j[1] = "d2h" => literal'[j[2]] = literal[j[2]] /\ UsageStays(j[2])
    BY <1>1, <1>17, <2>1
  <2>4. ASSUME j[1] = "copy" PROVE CopyFits(j)'
    <3>1. (JobStream(j))' = JobStream(j) BY <1>1 DEF JobStream
    <3>2. Loose(j[2], JobStream(j)) => Loose(j[2], JobStream(j))'
      BY <1>17, <2>1, <3>1 DEF Loose
    <3>3. call'[j[2]] = call[j[2]] BY <1>1
    <3> QED BY <1>9, <1>17, <2>1, <2>4, <3>2, <3>3, CopyStays
  <2>5. j[1] = "h2d" => Active(j[2])' BY <1>17, <2>1, InvFacts DEF JobFits
  <2>6. JobEvent(j) \notin {e} BY <1>5, <2>1
  <2> QED BY <1>9, <1>14, <2>1, <2>2, <2>3, <2>4, <2>5, <2>6, JobStays
<1>20. ~Recorded(e)' BY <1>3, <1>5, <1>12, UnsetFacts DEF Recorded
<1>21. UsagesFit'
  <2> SUFFICES ASSUME NEW y \in Buffers, NEW x \in Usage(y) PROVE UsageFits(x)'
    BY <1>17 DEF UsagesFit
  <2>1. \A j \in Jobs' : j \in Jobs BY <1>7
  <2>2. x.event \in {e} => ~Recorded(x.event)' BY <1>20 DEF Recorded, Written
  <2> QED BY <1>9, <1>14, <2>1, <2>2, UsageFitStays
<1>22. ASSUME NEW x \in Buffers PROVE ArgumentsFit(x)'
  <2>1. \A j \in Jobs' : j \in Jobs BY <1>7
  <2>2. Written(x) \in {e} => ~Recorded(Written(x))' BY <1>20 DEF Recorded, Written
  <2>3. call'[x] = call[x] BY <1>1
  <2> QED BY <1>9, <1>14, <2>1, <2>2, <2>3, ArgumentsStay
<1>23. UsesCovered'
  <2>1. \A x \in Buffers : Active(x)' => UsagesStay(x) BY <1>1, <1>17 DEF UsagesStay
  <2> QED BY <1>10, <2>1, CalmCovered
<1>24. UsesKept'
  <2>1. ASSUME NEW r \in Streams, NEW i \in Nat, NEW w \in Buffers, KeptByUsage(r, i, w)
        PROVE  KeptByUsage(r, i, w)'
    <3>1. At(stream', Written(w), r, i) BY <1>10, <2>1, CalmFacts DEF KeptByUsage
    <3> QED BY <1>1, <1>17, <2>1, <3>1 DEF KeptByUsage, Written
  <2>2. \A x \in Buffers : buf[x].owns => buf'[x].owns BY <1>1
  <2> QED BY <1>1, <1>10, <2>1, <2>2, CalmKept
<1>25. OutIsQuiet'
  <2>1. \A j \in Jobs' \ Jobs : buf'[j[2]].st # "external" BY <1>7
  <2> QED BY <1>6, <1>18, <2>1, SteadyOut
<1> QED BY <1>18, <1>19, <1>21, <1>22, <1>23, <1>24, <1>25, SteadyInv

-----------------------------------------------------------------------------
(* Memory the allocator hands out: in the compute-synchronized model the    *)
(* compute stream is behind its uses, and in the others there are none.     *)
LEMMA FreeFacts ==
  ASSUME OrderInv, NEW c \in Cells, Free(c), NEW s \in Streams, NEW i \in Nat, NEW w \in Buffers,
         Uses(stream, s, i, w), buf[w].cell = c
  PROVE  Model = "kComputeSynchronized" /\ BeforeEnd(stream, s, i, <<"compute", c[1]>>)
<1>1. DeviceInv /\ ValuesFit /\ stream \in Queues BY InvFacts
<1>2. /\ Made(w) /\ i \in DOMAIN stream[s] /\ stream[s][i].op = "access"
      /\ stream[s][i] \in StreamOp
  BY <1>1, UsesFacts
<1>3. Touches(stream[s][i], c)
  <2>1. CASE Reads(stream, s, i, w)
    <3>1. PICK m \in stream[s][i].reads : m.val = w BY <2>1 DEF Reads
    <3>2. m.cell = buf[w].cell BY <1>1, <1>2, <3>1 DEF ValuesFit, OpFits
    <3> QED BY <1>2, <3>1, <3>2 DEF Touches
  <2>2. CASE At(stream, Written(w), s, i)
    <3>1. stream[s][i].writes = {Contents(w)} BY <1>1, <2>2, WritesFacts
    <3>2. Contents(w) \in stream[s][i].reads \cup stream[s][i].writes BY <3>1
    <3>3. Contents(w).cell = c BY DEF Contents
    <3> QED BY <1>2, <3>2, <3>3 DEF Touches
  <2> QED BY <2>1, <2>2 DEF Uses
<1>4. Model # "kAsynchronous"
  <2> SUFFICES ASSUME Model = "kAsynchronous" PROVE FALSE OBVIOUS
  <2>1. s[2] = c[1] BY DEF OrderInv, UsesFollow, SameDevice
  <2>2. stream[s][i] \in StreamOps(s) BY <1>2 DEF StreamOps
  <2> QED BY <1>3, <2>1, <2>2 DEF Free
<1>5. UseKept(s, i, w) /\ ~Owned(c) BY DEF OrderInv, UsesKept, Free
<1>6. ~KeptByCallback(s, i, c)
  <2> SUFFICES ASSUME NEW r \in Streams, NEW j \in Nat, j \in DOMAIN stream[r],
                      Gives(stream[r][j], c)
               PROVE  FALSE
    BY DEF KeptByCallback
  <2> DEFINE o == stream[r][j]
  <2>1. o \in Callbacks BY DEF Callbacks, Pending, StreamOps, Gives
  <2>2. o \in StreamOp /\ o.op = "callback" BY <1>1, PlaceFacts DEF Gives
  <2>3. o.drops \subseteq Buffers BY <2>2, OpFacts
  <2>4. \A b \in o.drops : Alive(b) BY <2>1 DEF Alive
  <2> QED BY <1>5, <2>1, <2>3, <2>4 DEF Gives, Owned
<1>7. ~KeptByPool(s, i, c)
  <2> SUFFICES ASSUME NEW p \in pool, p.op = "release", buf[p.buf].owns, buf[p.buf].cell = c
               PROVE  FALSE
    BY DEF KeptByPool
  <2>1. p.buf \in Buffers BY <1>1 DEF DeviceInv, Typed, PoolTyped, Wait
  <2>2. Alive(p.buf) BY DEF Alive
  <2> QED BY <1>5, <2>1, <2>2 DEF Owned
<1>8. ~KeptByUsage(s, i, w)
  <2> SUFFICES ASSUME Active(w) PROVE FALSE BY DEF KeptByUsage
  <2>1. Holder(w) BY DEF Holder
  <2> QED BY <2>1, HolderNotFree, InvFacts
<1>9. KeptByCompute(s, i, c) /\ Model = "kComputeSynchronized"
  BY <1>4, <1>5, <1>6, <1>7, <1>8 DEF UseKept
<1> QED BY <1>9 DEF KeptByCompute

(* AllocateDestinationBuffer.                                               *)
Joined(q, d, s, n) == q = Join(d, s, n, <<>>)

LEMMA JoinFacts ==
  ASSUME NEW d \in Devices, NEW s \in Streams, s # <<"compute", d>>, NEW n \in Buffers,
         stream \in Queues, NEW q, Joined(q, d, s, n),
         \A r \in Streams, i \in Nat : ~At(stream, <<"joined", n>>, r, i)
  PROVE  /\ Appends(stream, q, {<<"joined", n>>})
         /\ \A r \in Streams, i \in Nat, t \in Streams, j \in Nat :
              At(q, <<"joined", n>>, r, i) /\ At(q, <<"joined", n>>, t, j) => t = r /\ j = i
         /\ Model = "kComputeSynchronized" =>
              \A r \in Streams, i \in Nat \ {0} :
                BeforeEnd(stream, r, i, <<"compute", d>>) => BeforeEnd(q, r, i, s)
<1> DEFINE c == <<"compute", d>>
           e == <<"joined", n>>
<1>1. c \in Streams /\ e \in Events /\ e[1] = "joined" BY NameFacts
<1>0. \A r \in Streams, i \in Nat : ~At(stream, e, r, i) OBVIOUS
<1>2. CASE q = stream /\ (Model # "kComputeSynchronized" \/ stream[c] = <<>>)
  <2>1. Appends(stream, q, {e}) BY <1>1, <1>2, LongerSelf DEF Appends
  <2>2. stream[c] = <<>> => \A r \in Streams, i \in Nat \ {0} : ~BeforeEnd(stream, r, i, c)
    BY <1>1, EmptyBeforeEnd
  <2> QED BY <1>2, <2>1, <2>2
<1>3. ASSUME Model = "kComputeSynchronized", stream[c] # <<>>,
             q = [stream EXCEPT ![c] = stream[c] \o Record(e),
                                ![s] = stream[s] \o <<[op |-> "wait", events |-> {e}]>>]
      PROVE  /\ Appends(stream, q, {e})
             /\ \A r \in Streams, i \in Nat, t \in Streams, j \in Nat :
                  At(q, e, r, i) /\ At(q, e, t, j) => t = r /\ j = i
             /\ \A r \in Streams, i \in Nat \ {0} :
                  BeforeEnd(stream, r, i, c) => BeforeEnd(q, r, i, s)
  <2> DEFINE o == [op |-> "record", event |-> e]
             w == [op |-> "wait", events |-> {e}]
             q1 == [stream EXCEPT ![c] = stream[c] \o <<o>>]
  <2>1. /\ o \in StreamOp /\ o.op = "record" /\ o.event = e
        /\ w \in StreamOp /\ w.op = "wait" /\ w.events = {e}
    BY <1>1 DEF StreamOp, RecordOp, WaitOp
  <2>2. q1[s] = stream[s] /\ q = [q1 EXCEPT ![s] = q1[s] \o <<w>>]
    BY <1>1, <1>3 DEF Queues, Record
  <2>3. Puts(stream, q1, c, o) BY <2>1 DEF Puts
  <2> HIDE DEF o, w, q1, c, e
  <2>4. Puts(q1, q, s, w) BY <2>1, <2>2 DEF Puts
  <2>5. /\ q1 \in Queues /\ Longer(stream, q1) /\ Len(stream[c]) \in Nat
        /\ q1[c][Len(stream[c]) + 1] = o
        /\ Len(stream[c]) + 1 \in DOMAIN q1[c]
        /\ \A r \in Streams, i \in Nat : i \in DOMAIN q1[r] /\ i \notin DOMAIN stream[r] =>
             r = c /\ i = Len(stream[c]) + 1
    BY <1>1, <2>3, PutFacts
  <2>6. /\ q \in Queues /\ Longer(q1, q) /\ Len(q1[s]) \in Nat
        /\ Len(q[s]) = Len(q1[s]) + 1 /\ q[s][Len(q1[s]) + 1] = w
        /\ Len(q1[s]) + 1 \in DOMAIN q[s]
        /\ \A r \in Streams, i \in Nat : i \in DOMAIN q[r] /\ i \notin DOMAIN q1[r] =>
             r = s /\ i = Len(q1[s]) + 1
    BY <2>4, <2>5, PutFacts
  <2>7. Appends(stream, q, {e})
    <3>1. \A f \in {e} : f[1] \in {"allocated", "joined"} BY <1>1
    <3>2. Appends(stream, q1, {e}) BY <1>1, <2>1, <2>3, <3>1, PutAppends
    <3>3. Appends(q1, q, {e}) BY <2>1, <2>4, <2>5, <3>1, PutAppends
    <3> QED BY <3>2, <3>3, AppendsThen
  <2>8. ASSUME NEW r \in Streams, NEW i \in Nat, At(q, e, r, i)
        PROVE  r = c /\ i = Len(stream[c]) + 1
    <3>1. i \notin DOMAIN stream[r] BY <1>0, <2>7, <2>8, AppendsAt
    <3>2. q[r][i].op \in {"record", "access"} BY <2>8 DEF At
    <3>3. i \in DOMAIN q[r] BY <2>8 DEF At
    <3>4. i \in DOMAIN q1[r]
      <4> SUFFICES ASSUME i \notin DOMAIN q1[r] PROVE FALSE OBVIOUS
      <4>1. q[r][i] = w BY <2>6, <3>3
      <4> QED BY <2>1, <3>2, <4>1
    <3> QED BY <2>5, <3>1, <3>4
  <2>9. ASSUME NEW r \in Streams, NEW i \in Nat \ {0}, BeforeEnd(stream, r, i, c)
        PROVE  BeforeEnd(q, r, i, s)
    <3>1. Longer(stream, q) BY <2>7 DEF Appends
    <3>2. Precedes(q, r, i, c, Len(stream[c]) + 1) BY <1>1, <2>5, <2>9, <3>1, EndThen
    <3>3. At(q1, e, c, Len(stream[c]) + 1) BY <2>1, <2>5 DEF At
    <3>4. At(q, e, c, Len(stream[c]) + 1) BY <1>1, <2>5, <2>6, <3>3, LongerAt
    <3>5. WaitsAt(q, e, s, Len(q1[s]) + 1) BY <2>1, <2>6 DEF WaitsAt
    <3>6. Precedes(q, c, Len(stream[c]) + 1, s, Len(q[s]))
      BY <1>1, <2>5, <2>6, <3>4, <3>5, PrecedesWait
    <3> QED BY <1>1, <3>2, <3>6, PrecedesThen DEF BeforeEnd
  <2> QED BY <2>7, <2>8, <2>9
<1>4. stream[s] \in Seq(StreamOp) BY DEF Queues
<1>5. CASE Model # "kComputeSynchronized" \/ stream[c] = <<>>
  <2>1. q = [stream EXCEPT ![s] = stream[s] \o <<>>] BY <1>5 DEF Join, Joined
  <2>2. q = stream BY <2>1, PutNothing
  <2> QED BY <1>2, <1>5, <2>2
<1>6. CASE ~(Model # "kComputeSynchronized" \/ stream[c] = <<>>)
  <2> DEFINE w == [op |-> "wait", events |-> {e}]
  <2>1. q = [stream EXCEPT ![c] = stream[c] \o Record(e), ![s] = stream[s] \o <<w>> \o <<>>]
    BY <1>6, <1>1 DEF Join, Joined
  <2>2. stream[s] \o <<w>> \o <<>> = stream[s] \o <<w>>
    <3>1. w \in StreamOp BY <1>1 DEF StreamOp, WaitOp
    <3> HIDE DEF w
    <3>2. stream[s] \o <<w>> \in Seq(StreamOp) BY <1>4, <3>1
    <3> QED BY <3>2
  <2> QED BY <1>3, <1>6, <2>1, <2>2
<1> QED BY <1>5, <1>6

-----------------------------------------------------------------------------
(* Steps that set an event: it gets the next number of its stream, the      *)
(* operation that sets it is enqueued at place p, and the other events are  *)
(* as they were, but for an error and for waits that are remembered.        *)
NumberSet(evs, s) == {e \in Events : evs[e].seq > 0 /\ evs[e].stream = s}

LEMMA NumberFacts ==
  ASSUME NEW evs, NEW s
  PROVE  /\ SequenceNumber(evs, s) \in Nat /\ SequenceNumber(evs, s) > 0
         /\ SequenceNumber(evs, s) = 1 + Cardinality(NumberSet(evs, s))
         /\ Cardinality(NumberSet(evs, s)) \in Nat /\ IsFiniteSet(NumberSet(evs, s))
<1>1. IsFiniteSet(NumberSet(evs, s))
  <2>1. NumberSet(evs, s) \subseteq Events BY DEF NumberSet
  <2> QED BY <2>1, EventsFinite, FS_Subset
<1>2. Cardinality(NumberSet(evs, s)) \in Nat BY <1>1, FS_CardinalityType
<1>3. SequenceNumber(evs, s) = 1 + Cardinality(NumberSet(evs, s))
  BY DEF SequenceNumber, NumberSet
<1> QED BY <1>1, <1>2, <1>3

EventSet(e0, s) ==
  /\ e0 \in Events /\ s \in Streams /\ e0[1] # "joined" /\ buf'[e0[2]].st # "unborn"
  /\ ev[e0].status = "none"
  /\ ev'[e0].seq = SequenceNumber(ev, s) /\ ev'[e0].stream = s /\ ev'[e0].status = "ok"
  /\ ev'[e0].on = {s} /\ ~ev'[e0].done
  /\ \A e \in Events : e # e0 =>
       /\ ev'[e].seq = ev[e].seq /\ ev'[e].stream = ev[e].stream /\ ev'[e].done = ev[e].done
       /\ ev'[e].status = "ok" <=> ev[e].status = "ok"
       /\ buf'[e[2]].st = "unborn" => ev'[e] = ev[e]

PlaceAdded(e0, s, p) ==
  /\ Longer(stream, stream') /\ p \in Nat /\ Len(stream[s]) < p /\ p <= Len(stream'[s])
  /\ At(stream', e0, s, p)
  /\ \A e \in Events, r \in Streams, i \in Nat :
       At(stream', e, r, i) => At(stream, e, r, i) \/ (e = e0 /\ r = s /\ i = p)

(* The numbers of a stream are the smaller ones.                            *)
LEMMA SetNumbers ==
  ASSUME OrderInv, NEW e0, NEW s, EventSet(e0, s)
  PROVE  /\ \A e \in Events : NumberFits(e)'
         /\ \A e \in Events : e # e0 => /\ (Recorded(e))' <=> Recorded(e)
                                        /\ ev[e].seq \in Nat
         /\ (Recorded(e0))' /\ ~Recorded(e0)
         /\ \A e \in Events : e # e0 /\ ev[e].stream = s => ev[e].seq < ev'[e0].seq
         /\ ev'[e0].seq \in Nat
<1>1. e0 \in Events /\ ev[e0].status = "none" BY DEF EventSet
<1>2. ~Recorded(e0) BY <1>1, UnsetFacts
<1>3. \A e \in Events : ev[e].seq \in Nat
  BY InvFacts DEF DeviceInv, Typed, EvTyped, Event
<1>4. ev'[e0].seq = SequenceNumber(ev, s) /\ ev'[e0].stream = s BY DEF EventSet
<1>5. (Recorded(e0))' /\ ev'[e0].seq \in Nat BY <1>4, NumberFacts DEF Recorded
<1>6. ASSUME NEW e \in Events, e # e0
      PROVE  /\ (Recorded(e))' <=> Recorded(e)
             /\ ev'[e].seq = ev[e].seq /\ ev'[e].stream = ev[e].stream
  BY <1>6 DEF EventSet, Recorded
<1>7. ASSUME NEW r PROVE SequenceNumber(ev, r) <= SequenceNumber(ev', r)
  <2>1. NumberSet(ev, r) \subseteq NumberSet(ev', r)
    BY <1>2, <1>6 DEF NumberSet, Recorded
  <2>2. Cardinality(NumberSet(ev, r)) <= Cardinality(NumberSet(ev', r))
    BY <2>1, NumberFacts, FS_Subset
  <2> QED BY <2>2, NumberFacts
<1>8. SequenceNumber(ev', s) = SequenceNumber(ev, s) + 1
  <2>1. NumberSet(ev', s) = NumberSet(ev, s) \cup {e0}
    BY <1>1, <1>4, <1>5, <1>6 DEF NumberSet, Recorded
  <2>2. e0 \notin NumberSet(ev, s) BY <1>2 DEF NumberSet, Recorded
  <2>3. Cardinality(NumberSet(ev', s)) = Cardinality(NumberSet(ev, s)) + 1
    BY <2>1, <2>2, NumberFacts, FS_AddElement
  <2> QED BY <2>3, NumberFacts
<1>9. ASSUME NEW e \in Events, e # e0, Recorded(e)
      PROVE  ev[e].seq < SequenceNumber(ev, ev[e].stream)
  BY <1>9, InvFacts DEF NumberFits
<1>10. ASSUME NEW e \in Events PROVE NumberFits(e)'
  <2>1. CASE e = e0
    <3>1. ev'[e].seq < SequenceNumber(ev', ev'[e].stream) BY <1>4, <1>8, <2>1, NumberFacts
    <3> QED BY <3>1 DEF NumberFits
  <2>2. CASE e # e0
    <3> SUFFICES ASSUME (Recorded(e))' PROVE ev'[e].seq < SequenceNumber(ev', ev'[e].stream)
      BY DEF NumberFits
    <3>1. ev[e].seq < SequenceNumber(ev, ev[e].stream) BY <1>6, <1>9, <2>2
    <3> QED BY <1>3, <1>6, <1>7, <2>2, <3>1, NumberFacts
  <2> QED BY <2>1, <2>2
<1>11. ASSUME NEW e \in Events, e # e0, ev[e].stream = s PROVE ev[e].seq < ev'[e0].seq
  <2>1. CASE Recorded(e) BY <1>4, <1>9, <1>11, <2>1
  <2>2. CASE ~Recorded(e)
    <3>1. ev[e].seq = 0 BY <1>3, <2>2 DEF Recorded
    <3> QED BY <1>4, <3>1, NumberFacts
  <2> QED BY <2>1, <2>2
<1> QED BY <1>2, <1>3, <1>5, <1>6, <1>10, <1>11

(* Then events fit and grow along the stream.                               *)
LEMMA SetEvents ==
  ASSUME OrderInv, DeviceInv', FixedBuffers, NEW e0, NEW s, EventSet(e0, s), NEW p, PlaceAdded(e0, s, p),
         \A r \in Streams, i \in Nat, v \in Buffers :
           Reads(stream', r, i, v) => Reads(stream, r, i, v) \/ Recorded(Written(v))
  PROVE  EventsFit' /\ (\A e \in Events : NumberFits(e)') /\ NumbersGrow'
<1>1. /\ e0 \in Events /\ s \in Streams /\ ev[e0].status = "none" /\ e0[1] # "joined"
      /\ buf'[e0[2]].st # "unborn"
      /\ ev'[e0].stream = s /\ ev'[e0].status = "ok" /\ ~ev'[e0].done
  BY DEF EventSet
<1>2. /\ Longer(stream, stream') /\ p \in Nat /\ Len(stream[s]) < p /\ At(stream', e0, s, p)
      /\ stream \in Queues
  BY InvFacts DEF PlaceAdded
<1>3. \A e \in Events, r \in Streams, i \in Nat :
       At(stream', e, r, i) => At(stream, e, r, i) \/ (e = e0 /\ r = s /\ i = p)
  BY DEF PlaceAdded
<1>4. ASSUME NEW e \in Events, e # e0
      PROVE  /\ ev'[e].seq = ev[e].seq /\ ev'[e].stream = ev[e].stream
             /\ ev'[e].done = ev[e].done /\ (ev'[e].status = "ok" <=> ev[e].status = "ok")
             /\ buf'[e[2]].st = "unborn" => ev'[e] = ev[e]
  BY <1>4 DEF EventSet
<1>5. /\ \A e \in Events : e # e0 => ((Recorded(e))' <=> Recorded(e)) /\ ev[e].seq \in Nat
      /\ (Recorded(e0))' /\ ~Recorded(e0) /\ \A e \in Events : NumberFits(e)'
      /\ \A e \in Events : e # e0 /\ ev[e].stream = s => ev[e].seq < ev'[e0].seq
      /\ ev'[e0].seq \in Nat
  BY SetNumbers
<1>6. \A r \in Streams, i \in Nat : ~At(stream, e0, r, i) BY <1>1, UnsetFacts
<1>7. ASSUME NEW e \in Events PROVE EventFits(e)'
  <2>1. CASE e = e0 BY <1>1, <1>5, <2>1 DEF EventFits
  <2>2. CASE e # e0
    <3>1. EventFits(e) BY InvFacts
    <3>2. e[2] \in Buffers BY EventNames
    <3>3. buf'[e[2]].st = "unborn" => ev'[e] = NotSet
      BY <1>4, <2>2, <3>1, <3>2 DEF EventFits, FixedBuffers
    <3> QED BY <1>4, <1>5, <2>2, <3>1, <3>3 DEF EventFits
  <2> QED BY <2>1, <2>2
<1>8. ASSUME NEW e \in Events, NEW r \in Streams, NEW i \in Nat PROVE PlaceFits(e, r, i)'
  <2> SUFFICES ASSUME At(stream', e, r, i)
               PROVE  /\ ~ev'[e].done /\ buf'[e[2]].st # "unborn"
                      /\ e[1] # "joined" => (Recorded(e))' /\ ev'[e].stream = r
                      /\ \A t \in Streams, j \in Nat : At(stream', e, t, j) => t = r /\ j = i
    BY DEF PlaceFits
  <2>1. CASE e = e0 BY <1>1, <1>3, <1>5, <1>6, <2>1
  <2>2. CASE e # e0
    <3>1. At(stream, e, r, i) BY <1>3, <2>2
    <3>2. PlaceFits(e, r, i) /\ e[2] \in Buffers BY InvFacts, EventNames
    <3>3. buf'[e[2]].st # "unborn" BY <3>1, <3>2 DEF PlaceFits, FixedBuffers
    <3> QED BY <1>3, <1>4, <1>5, <2>2, <3>1, <3>2, <3>3 DEF PlaceFits
  <2> QED BY <2>1, <2>2
<1>9. ASSUME NEW r \in Streams, NEW i \in Nat, NEW v \in Buffers PROVE ReadFits(r, i, v)'
  <2> SUFFICES ASSUME Reads(stream', r, i, v) PROVE (Recorded(Written(v)))'
    BY DEF ReadFits, Written
  <2>1. ReadFits(r, i, v) BY InvFacts DEF EventsFit
  <2>2. Recorded(Written(v)) /\ Written(v) \in Events BY <2>1, EventNames DEF ReadFits
  <2> QED BY <1>5, <2>2 DEF Recorded, Written
<1>10. EventsFit' BY <1>7, <1>8, <1>9 DEF EventsFit
<1>11. ASSUME NEW e \in Events, NEW f \in Events, NEW r \in Streams, NEW i \in Nat,
              At(stream', e, r, i), ev'[f].stream = r, (Recorded(e))', ev'[e].seq <= ev'[f].seq
       PROVE  \E j \in Nat : i <= j /\ At(stream', f, r, j)
  <2>1. CASE f = e0
    <3>1. r = s BY <1>1, <1>11, <2>1
    <3>2. At(stream, e, s, i) => i <= Len(stream[s]) BY <1>1, <1>2, AtFacts
    <3>3. Len(stream[s]) \in Nat BY <1>1, <1>2, PlaceFacts
    <3>4. i <= p BY <1>2, <1>3, <1>11, <3>1, <3>2, <3>3
    <3> QED BY <1>2, <2>1, <3>1, <3>4
  <2>2. CASE f # e0 /\ e = e0
    <3>1. r = s BY <1>3, <1>6, <1>11, <2>2
    <3>2. ev[f].stream = s /\ ev'[f].seq = ev[f].seq BY <1>4, <1>11, <2>2, <3>1
    <3> QED BY <1>5, <1>11, <2>2, <3>2
  <2>3. CASE f # e0 /\ e # e0
    <3>1. At(stream, e, r, i) /\ Recorded(e) /\ ev[f].stream = r /\ ev[e].seq <= ev[f].seq
      BY <1>3, <1>4, <1>5, <1>11, <2>3
    <3>2. PICK j \in Nat : i <= j /\ At(stream, f, r, j) BY <3>1 DEF OrderInv, NumbersGrow
    <3> QED BY <1>2, <3>2, LongerAt
  <2> QED BY <2>1, <2>2, <2>3
<1>12. NumbersGrow' BY <1>11 DEF NumbersGrow, Recorded
<1> QED BY <1>5, <1>10, <1>12

(* Waits that are remembered are right.                                     *)
LEMMA SetOn ==
  ASSUME OrderInv, DeviceInv', NEW e0, NEW s, EventSet(e0, s), NEW p, PlaceAdded(e0, s, p),
         \A e \in Events : e # e0 => ev'[e].on \subseteq ev[e].on \cup {s},
         \A e \in Events, r \in Streams, i \in Nat :
           e # e0 /\ s \in ev'[e].on /\ s \notin ev[e].on /\ At(stream, e, r, i) =>
             BeforeEnd(stream', r, i, s)
  PROVE  OnFits'
<1> SUFFICES ASSUME NEW e \in Events, NEW r \in Streams, NEW i \in Nat, At(stream', e, r, i),
                    NEW t \in ev'[e].on
             PROVE  BeforeEnd(stream', r, i, t)
  BY DEF OnFits
<1>1. /\ Longer(stream, stream') /\ p \in Nat /\ p <= Len(stream'[s]) /\ s \in Streams
      /\ ev'[e0].on = {s} /\ ev[e0].status = "none" /\ e0 \in Events /\ e0[1] # "joined"
      /\ At(stream, e, r, i) \/ (e = e0 /\ r = s /\ i = p)
  BY DEF PlaceAdded, EventSet
<1>2. ~At(stream, e0, r, i) BY <1>1, UnsetFacts
<1>3. CASE e = e0
  <2>1. r = s /\ i = p /\ t = s BY <1>1, <1>2, <1>3
  <2>2. stream' \in Queues BY <1>1 DEF Longer
  <2>3. Len(stream'[s]) \in Nat BY <1>1, <2>2, PlaceFacts
  <2> QED BY <1>1, <2>1, <2>3, PrecedesSame DEF BeforeEnd
<1>4. CASE e # e0
  <2>1. At(stream, e, r, i) BY <1>1, <1>4
  <2>2. t \in ev[e].on \/ (t = s /\ s \notin ev[e].on) BY <1>4
  <2>3. CASE t \in ev[e].on
    <3>1. t \in Streams BY <2>3, InvFacts DEF DeviceInv, Typed, EvTyped, Event
    <3>2. BeforeEnd(stream, r, i, t) BY <2>1, <2>3 DEF OrderInv, OnFits
    <3> QED BY <1>1, <3>1, <3>2, LongerBeforeEnd
  <2>4. CASE t = s /\ s \notin ev[e].on BY <1>4, <2>1, <2>4
  <2> QED BY <2>2, <2>3, <2>4
<1> QED BY <1>3, <1>4

-----------------------------------------------------------------------------
(* Steps that make the buffer n in free memory and give the job that writes *)
(* it, if there is one, to the thread pool.                                 *)
Begets(n, S, X) ==
  /\ OrderInv /\ DeviceInv' /\ n \in Buffers /\ ~Used(n)
  /\ Appends(stream, stream', X) /\ EvStep(S) /\ (\A e \in S : e[2] = n /\ e[1] # "read")
  /\ UNCHANGED <<mem, pool, ready, literal, dependency>>
  /\ \A b \in Buffers : b # n => buf'[b] = buf[b] /\ call'[b] = call[b]
  /\ (Made(n))' /\ ValueFits(n)' /\ buf'[n].st \in {"making", "live"} /\ buf'[n].owns
  /\ buf'[n].usage = <<>> /\ buf'[n].cell \in Cells /\ Free(buf'[n].cell)
  /\ ArgumentsFit(n)' /\ ~(Recorded(Written(n)))'
  /\ OneTask' /\ Jobs \subseteq Jobs'
  /\ \A j \in Jobs' \ Jobs : /\ j[1] \in {"h2d", "copy"} /\ j[2] = n
                             /\ j[3] = n \/ (j[3] \in Buffers /\ Holder(j[3]))
                             /\ JobFits(j)' /\ JobFollows(j)'
  /\ ev'[Written(n)].status = "error" \/ \E j \in Jobs' : JobEvent(j) = Written(n)

LEMMA BegetsCalm ==
  ASSUME NEW n, NEW S, NEW X, Begets(n, S, X)
  PROVE  /\ FixedBuffers /\ CalmOrder(X) /\ ~Made(n) /\ buf[n].st = "unborn" /\ ~Active(n)
         /\ call[n].op = "none" /\ n \in Buffers /\ OrderInv /\ DeviceInv
         /\ \A e \in Events : e[2] = n => ev[e] = NotSet
<1>1. /\ OrderInv /\ DeviceInv' /\ n \in Buffers /\ ~Used(n) /\ mem' = mem
      /\ Appends(stream, stream', X) /\ (Made(n))' /\ buf'[n].st \in {"making", "live"}
      /\ \A b \in Buffers : b # n => buf'[b] = buf[b]
  BY DEF Begets
<1>2. DeviceInv BY <1>1, InvFacts
<1>3. ~Made(n) /\ buf[n].st = "unborn" /\ call[n] = NoCall
  BY <1>1, <1>2, UnusedFacts DEF DeviceInv
<1>4. call[n].op = "none" BY <1>3, NoCallFacts
<1>5. FixedBuffers
  <2> SUFFICES ASSUME NEW b \in Buffers
               PROVE  /\ Made(b) => /\ (Made(b))' /\ buf'[b].cell = buf[b].cell
                                    /\ buf'[b].dev = buf[b].dev
                                    /\ buf'[b].val = buf[b].val /\ buf'[b].defs = buf[b].defs
                      /\ buf'[b].st = "unborn" => buf[b].st = "unborn"
                      /\ Made(b) /\ buf'[b].st = "making" => buf[b].st = "making"
    BY DEF FixedBuffers
  <2>1. CASE b = n BY <1>1, <1>3, <2>1
  <2>2. CASE b # n BY <1>1, <2>2 DEF Made
  <2> QED BY <2>1, <2>2
<1>6. ~Active(n) BY <1>3, <1>4 DEF Active
<1>7. \A e \in Events : e[2] = n => ev[e] = NotSet BY <1>1, <1>3, InvFacts DEF EventFits
<1> QED BY <1>1, <1>2, <1>3, <1>4, <1>5, <1>6, <1>7 DEF CalmOrder

LEMMA BegetsInv ==
  ASSUME NEW n, NEW S, NEW X, Begets(n, S, X),
         EventsFit', \A e \in Events : NumberFits(e)', NumbersGrow', OnFits'
  PROVE  OrderInv'
<1>1. /\ FixedBuffers /\ CalmOrder(X) /\ ~Made(n) /\ buf[n].st = "unborn" /\ ~Active(n)
      /\ call[n].op = "none" /\ n \in Buffers /\ OrderInv /\ DeviceInv
      /\ \A e \in Events : e[2] = n => ev[e] = NotSet
  BY BegetsCalm
<1>2. /\ DeviceInv' /\ EvStep(S) /\ (\A e \in S : e[2] = n /\ e[1] # "read")
      /\ UNCHANGED <<mem, pool, ready, literal, dependency>>
      /\ \A b \in Buffers : b # n => buf'[b] = buf[b] /\ call'[b] = call[b]
      /\ OneTask' /\ Jobs \subseteq Jobs'
  BY DEF Begets
<1>3. /\ (Made(n))' /\ ValueFits(n)' /\ buf'[n].st \in {"making", "live"} /\ buf'[n].owns
      /\ buf'[n].usage = <<>> /\ buf'[n].cell \in Cells /\ Free(buf'[n].cell)
      /\ ArgumentsFit(n)' /\ ~(Recorded(Written(n)))'
      /\ ev'[Written(n)].status = "error" \/ \E j \in Jobs' : JobEvent(j) = Written(n)
  BY DEF Begets
<1>4. ASSUME NEW j \in Jobs', j \notin Jobs
      PROVE  /\ j[1] \in {"h2d", "copy"} /\ j[2] = n
             /\ j[3] = n \/ (j[3] \in Buffers /\ Holder(j[3]))
             /\ JobFits(j)' /\ JobFollows(j)' /\ JobEvent(j) = Written(n)
  BY <1>4 DEF Begets, JobEvent
<1>5. ASSUME NEW b \in Buffers, b # n
      PROVE  /\ Written(b) \in Events /\ Written(b) \notin S
             /\ <<"read", b>> \in Events /\ <<"read", b>> \notin S
  <2>1. Written(b) \in Events /\ Written(b)[2] = b /\ <<"read", b>> \in Events
    BY EventNames, NameFacts
  <2>2. <<"read", b>>[2] = b OBVIOUS
  <2> QED BY <1>2, <1>5, <2>1, <2>2
<1>6. <<"read", n>> \in Events /\ <<"read", n>> \notin S /\ Written(n) \in Events
  BY <1>1, <1>2, EventNames, NameFacts
<1>7. ASSUME NEW b \in Buffers, b # n
      PROVE  /\ Active(b)' <=> Active(b)
             /\ Usage(b)' = Usage(b) /\ (UsageEvents(b))' = UsageEvents(b)
             /\ UsageStays(b) /\ \A s : Loose(b, s)' <=> Loose(b, s)
             /\ (Recorded(Written(b)))' <=> Recorded(Written(b))
             /\ ev'[Written(b)].status = ev[Written(b)].status
             /\ Holder(b)' => Holder(b)
  <2>1. buf'[b] = buf[b] /\ call'[b] = call[b] BY <1>2, <1>7
  <2>2. Active(b)' <=> Active(b) BY <2>1 DEF Active
  <2>3. Usage(b)' = Usage(b) /\ (UsageEvents(b))' = UsageEvents(b)
    BY <2>1 DEF Usage, UsageEvents
  <2>4. \A s : Loose(b, s)' <=> Loose(b, s) BY <2>3 DEF Loose, Written
  <2>5. UsageStays(b) BY <2>2, <2>3 DEF UsageStays
  <2>6. /\ (Recorded(Written(b)))' <=> Recorded(Written(b))
        /\ ev'[Written(b)].status = ev[Written(b)].status
    BY <1>2, <1>5, <1>7 DEF EvStep, Recorded, Written
  <2>7. Holder(b)' => Holder(b)
    <3>1. ASSUME NEW j \in Jobs', b \in {j[2], j[3]} PROVE Holder(b)
      <4>1. CASE j \in Jobs BY <3>1, <4>1 DEF Holder
      <4>2. CASE j \notin Jobs BY <1>4, <1>7, <3>1, <4>2
      <4> QED BY <4>1, <4>2
    <3> QED BY <2>1, <2>2, <3>1 DEF Holder
  <2> QED BY <2>2, <2>3, <2>4, <2>5, <2>6, <2>7
<1>8. ASSUME NEW j \in Jobs
      PROVE  /\ j[2] \in Buffers /\ j[3] \in Buffers /\ j[2] # n /\ j[3] # n
             /\ JobEvent(j) \in Events /\ JobEvent(j) \notin S /\ JobEvent(j)[2] # n
  <2>1. j[2] \in Buffers /\ j[3] \in Buffers /\ Made(j[2]) /\ Made(j[3]) /\ JobEvent(j) \in Events
    BY <1>1, JobFacts
  <2>2. JobEvent(j)[2] = j[2] BY DEF JobEvent, Written
  <2> QED BY <1>1, <1>2, <2>1, <2>2
<1>9. ValuesFit'
  <2>1. \A b \in Buffers : ~Made(b) /\ (Made(b))' => ValueFits(b)'
    BY <1>2, <1>3 DEF Made
  <2> QED BY <1>1, <1>2, <2>1, CalmValues
<1>10. JobsFit'
  <2> SUFFICES ASSUME NEW j \in Jobs' PROVE JobFits(j)' BY <1>2 DEF JobsFit
  <2>1. CASE j \notin Jobs BY <1>4, <2>1
  <2>2. CASE j \in Jobs
    <3>1. j[2] \in Buffers /\ j[3] \in Buffers /\ j[2] # n /\ j[3] # n BY <1>8, <2>2
    <3>2. \A k \in Jobs' : JobEvent(k) = JobEvent(j) => k \in Jobs
      BY <1>4, <1>8, <2>2, EventNames
    <3>3. j[1] = "d2h" => literal'[j[2]] = literal[j[2]] /\ UsageStays(j[2])
      BY <1>2, <1>7, <3>1
    <3>4. ASSUME j[1] = "copy" PROVE CopyFits(j)'
      <4>1. (JobStream(j))' = JobStream(j) BY <1>2, <3>1 DEF JobStream
      <4>2. Active(j[2]) /\ Loose(j[2], JobStream(j)) => Active(j[2])' /\ Loose(j[2], JobStream(j))'
        BY <1>7, <3>1, <4>1 DEF Loose
      <4>3. call'[j[2]] = call[j[2]] BY <1>2, <3>1
      <4>4. UsageStays(j[3]) BY <1>7, <3>1
      <4> QED BY <1>1, <2>2, <3>4, <4>2, <4>3, <4>4, CopyStays
    <3>5. j[1] = "h2d" => Active(j[2])' BY <1>1, <1>7, <2>2, <3>1, InvFacts DEF JobFits
    <3>6. JobEvent(j) \notin S BY <1>8, <2>2
    <3> QED BY <1>1, <1>2, <2>2, <3>2, <3>3, <3>4, <3>5, <3>6, JobStays
  <2> QED BY <2>1, <2>2
<1>11. UsagesFit'
  <2>1. Usage(n)' = {} BY <1>3 DEF Usage, Elems
  <2>2. ASSUME NEW b \in Buffers, NEW x \in Usage(b) PROVE UsageFits(x)'
    <3>1. UsageFits(x) /\ x \in UsageEvent BY <1>1, <2>2, InvFacts, UsageFacts
    <3>2. x.event \in Events /\ x.event[2] # n BY <1>1, <3>1 DEF UsageFits, UsageEvent
    <3>3. x.event \notin S BY <1>2, <3>2
    <3>4. \A j \in Jobs' : j \in Jobs \/ JobEvent(j) # x.event BY <1>4, <3>2, EventNames
    <3> QED BY <1>1, <1>2, <2>2, <3>3, <3>4, UsageFitStays
  <2> QED BY <1>7, <2>1, <2>2 DEF UsagesFit
<1>12. ASSUME NEW x \in Buffers PROVE ArgumentsFit(x)'
  <2>1. CASE x = n BY <1>3, <2>1
  <2>2. CASE x # n
    <3>1. \A j \in Jobs' : j[1] # "d2h" => j \in Jobs \/ ~Made(j[2]) BY <1>1, <1>4
    <3>2. Written(x) \notin S /\ call'[x] = call[x] BY <1>2, <1>5, <2>2
    <3> QED BY <1>1, <1>2, <3>1, <3>2, ArgumentsStay
  <2> QED BY <2>1, <2>2
<1>13. ASSUME NEW b \in Buffers PROVE HolderFits(b)'
  <2>0. HolderFits(b) BY <1>1, InvFacts
  <2>1. \A j : (JobEvent(j))' = JobEvent(j) /\ (Written(b))' = Written(b)
    BY DEF JobEvent, Written
  <2>2. CASE b = n
    <3>1. ev[Written(n)] = NotSet /\ ev[<<"read", n>>] = NotSet BY <1>1, <1>6, EventNames
    <3>2. ~ev[Written(n)].done /\ ev[<<"read", n>>].status = "none" BY <3>1 DEF NotSet
    <3>3. ready'[n] # "ok" BY <1>2, <2>0, <2>2, <3>2 DEF HolderFits
    <3>4. ev'[<<"read", n>>].status = "none" BY <1>2, <1>6, <3>2 DEF EvStep
    <3> QED BY <1>3, <2>1, <2>2, <3>3, <3>4 DEF HolderFits
  <2>3. CASE b # n
    <3>1. buf'[b] = buf[b] BY <1>2, <2>3
    <3>2. ev'[<<"read", b>>].status = ev[<<"read", b>>].status /\ (ev[Written(b)].done => ev'[Written(b)].done)
      BY <1>2, <1>5, <2>3 DEF EvStep
    <3>3. Holder(b)' => buf'[b].owns BY <1>7, <2>0, <2>3, <3>1 DEF HolderFits
    <3>4. Active(b)' => \/ (Recorded(Written(b)))' \/ ev'[Written(b)].status = "error"
                        \/ \E j \in Jobs' : JobEvent(j) = Written(b)
      BY <1>2, <1>7, <2>0, <2>3 DEF HolderFits
    <3> QED BY <1>2, <2>0, <2>1, <3>1, <3>2, <3>3, <3>4 DEF HolderFits
  <2> QED BY <2>2, <2>3
<1>14. PoolFits'
  <2>1. ASSUME NEW p \in pool, p.op = "ready"
        PROVE  ev'[Written(p.buf)].done \/ Written(p.buf) \in p.events
    <3>1. p.buf \in Buffers /\ Made(p.buf)
      BY <1>1 DEF DeviceInv, Typed, PoolTyped, Wait, TasksFit
    <3>2. p.buf # n BY <1>1, <3>1
    <3>3. ev[Written(p.buf)].done \/ Written(p.buf) \in p.events
      BY <1>1, <2>1, InvFacts DEF PoolFits
    <3> QED BY <1>2, <1>5, <3>1, <3>2, <3>3 DEF EvStep
  <2> QED BY <1>2, <2>1 DEF PoolFits, Written
<1>15. Bookkeeping'
  BY <1>9, <1>10, <1>11, <1>12, <1>13, <1>14 DEF Bookkeeping
<1>16. UsesFollow' BY <1>1, CalmUses
<1>17. HoldersFollow'
  <2>1. ASSUME NEW b \in Buffers, Holder(b)', (Recorded(Written(b)))'
        PROVE  Holder(b) /\ Recorded(Written(b))
    BY <1>3, <1>7, <2>1
  <2> QED BY <1>1, <2>1, CalmHolders
<1>18. JobsFollow'
  <2>1. ASSUME NEW j \in Jobs' PROVE JobFollows(j)'
    <3>1. CASE j \in Jobs BY <1>1, <3>1, CalmJob
    <3>2. CASE j \notin Jobs BY <1>4, <3>2
    <3> QED BY <3>1, <3>2
  <2> QED BY <2>1 DEF JobsFollow
<1>19. UsesCovered'
  <2>1. ASSUME NEW b \in Buffers, Active(b)', Made(b) PROVE UsagesStay(b)
    <3>1. b # n BY <1>1, <2>1
    <3>2. \A x \in Buffers : call[x].op = "copy" => call'[x] = call[x] BY <1>1, <1>2
    <3> QED BY <1>7, <2>1, <3>1, <3>2 DEF UsagesStay
  <2> QED BY <1>1, <2>1, CalmCovered
<1>20. UsesKept'
  <2>1. ASSUME NEW r \in Streams, NEW i \in Nat, NEW w \in Buffers, KeptByUsage(r, i, w)
        PROVE  KeptByUsage(r, i, w)'
    <3>1. At(stream', Written(w), r, i) BY <1>1, <2>1, CalmFacts DEF KeptByUsage
    <3>2. w # n BY <1>1, <2>1 DEF KeptByUsage
    <3> QED BY <1>2, <1>7, <2>1, <3>1, <3>2 DEF KeptByUsage, Written
  <2>2. \A x \in Buffers : buf[x].owns => buf'[x].owns BY <1>2, <1>3
  <2> QED BY <1>1, <1>2, <2>1, <2>2, CalmKept
<1>21. OutIsQuiet'
  <2>1. \A b \in Buffers : HandedOut(b) BY <1>1 DEF OrderInv, OutIsQuiet
  <2>2. ASSUME NEW b \in Buffers, buf'[b].st = "external", Model # "kComputeSynchronized"
        PROVE  /\ (Recorded(Written(b)))' \/ ev'[Written(b)].status = "error"
               /\ \A j \in Jobs' : j[2] # b
    <3>1. b # n BY <1>3, <2>2
    <3>2. buf[b].st = "external" BY <1>2, <2>2, <3>1
    <3> QED BY <1>4, <1>7, <2>1, <2>2, <3>1, <3>2 DEF HandedOut
  <2>3. ASSUME NEW b \in Buffers, Out(b)', Model # "kComputeSynchronized"
        PROVE  \/ Out(b) /\ Made(b)
               \/ \A s \in Streams, i \in Nat, w \in Buffers :
                    Uses(stream, s, i, w) => buf[w].cell # buf'[b].cell
    <3>1. CASE b = n BY <1>1, <1>3, <2>3, <3>1, FreeFacts
    <3>2. CASE b # n
      <4>1. (Written(b))' = Written(b) BY DEF Written
      <4>2. Out(b) BY <1>2, <1>7, <2>3, <3>2, <4>1 DEF Out
      <4>3. Holder(b) BY <4>2 DEF Out, Holder
      <4> QED BY <1>1, <4>2, <4>3, HolderFacts, InvFacts
    <3> QED BY <3>1, <3>2
  <2> QED BY <1>1, <2>2, <2>3, CalmOut
<1> QED
  BY <1>2, <1>15, <1>16, <1>17, <1>18, <1>19, <1>20, <1>21 DEF OrderInv

(* The buffer that is made, and where.                                      *)
Born(n, st, d, c, defs) == buf' = [buf EXCEPT ![n] = NewBuffer(st, d, c, n, defs)]

LEMMA BornFacts ==
  ASSUME DeviceInv, NEW n \in Buffers, ~Used(n), NEW st \in {"making", "live"}, NEW d \in Devices,
         NEW c \in Cells, c[1] = d, NEW defs \in Seq(Events), defs # <<>>,
         defs[1] = Written(n), Elems(defs) \subseteq {Written(n), <<"allocated", n>>},
         Born(n, st, d, c, defs)
  PROVE  /\ (Made(n))' /\ ValueFits(n)' /\ buf'[n].st = st /\ buf'[n].owns
         /\ buf'[n].usage = <<>> /\ buf'[n].cell = c /\ buf'[n].dev = d /\ FixedBuffers
         /\ \A b \in Buffers : b # n => buf'[b] = buf[b]
<1>1. ~Made(n) /\ buf[n].st = "unborn" BY UnusedFacts DEF DeviceInv
<1>2. n \in 0..NumBuffers BY BufferNumbers
<1>3. PICK r \in MadeBuffer : r = NewBuffer(st, d, c, n, defs) BY <1>2, NewBufferFacts
<1>4. /\ r.st = st /\ r.dev = d /\ r.cell = c /\ r.val = n /\ r.defs = defs
      /\ r.usage = <<>> /\ r.owns
  BY <1>3 DEF NewBuffer
<1>5. buf'[n] = r /\ \A b \in Buffers : b # n => buf'[b] = buf[b] BY <1>1, <1>3, BufferMade DEF Born
<1>6. (Made(n))' BY <1>5 DEF Made
<1>7. ValueFits(n)'
  <2>1. (DefinitionEvents(n))' = Elems(defs) BY <1>4, <1>5 DEF DefinitionEvents, Elems
  <2> QED BY <1>4, <1>5, <2>1 DEF ValueFits, Written
<1>8. FixedBuffers
  <2> SUFFICES ASSUME NEW b \in Buffers
               PROVE  /\ Made(b) => /\ (Made(b))' /\ buf'[b].cell = buf[b].cell
                                    /\ buf'[b].dev = buf[b].dev
                                    /\ buf'[b].val = buf[b].val /\ buf'[b].defs = buf[b].defs
                      /\ buf'[b].st = "unborn" => buf[b].st = "unborn"
                      /\ Made(b) /\ buf'[b].st = "making" => buf[b].st = "making"
    BY DEF FixedBuffers
  <2>1. CASE b = n BY <1>1, <1>4, <1>5, <2>1
  <2>2. CASE b # n BY <1>5, <2>2 DEF Made
  <2> QED BY <2>1, <2>2
<1> QED BY <1>4, <1>5, <1>6, <1>7, <1>8

(* The stream that will write the buffer waits for the other uses of its    *)
(* memory.                                                                  *)
LEMMA JoinFollows ==
  ASSUME OrderInv, DeviceInv', FixedBuffers, NEW n \in Buffers, ~Used(n), buf'[n].st # "unborn",
         NEW d \in Devices, buf'[n].cell \in Cells, buf'[n].cell[1] = d, Free(buf'[n].cell),
         NEW s \in Streams, s # <<"compute", d>>, Joined(stream', d, s, n),
         UNCHANGED <<ev, mem>>
  PROVE  /\ CalmOrder({<<"joined", n>>})
         /\ \A j \in {k \in Jobs' : k[2] = n} : (JobStream(j))' = s => JobFollows(j)'
         /\ EventsFit' /\ (\A e \in Events : NumberFits(e)') /\ NumbersGrow' /\ OnFits'
<1> DEFINE e == <<"joined", n>>
           c == buf'[n].cell
<1>1. stream \in Queues /\ DeviceInv BY InvFacts
<1>2. ~Made(n) /\ buf[n].st = "unborn" BY <1>1, UnusedFacts DEF DeviceInv
<1>3. e \in Events /\ e[1] = "joined" /\ e[2] = n BY NameFacts
<1>4. ev[e] = NotSet BY <1>2, <1>3, InvFacts DEF EventFits
<1>5. \A r \in Streams, i \in Nat : ~At(stream, e, r, i)
  BY <1>2, <1>3, InvFacts DEF PlaceFits
<1>6. /\ Appends(stream, stream', {e})
      /\ \A r \in Streams, i \in Nat, t \in Streams, j \in Nat :
           At(stream', e, r, i) /\ At(stream', e, t, j) => t = r /\ j = i
      /\ Model = "kComputeSynchronized" =>
           \A r \in Streams, i \in Nat \ {0} :
             BeforeEnd(stream, r, i, <<"compute", d>>) => BeforeEnd(stream', r, i, s)
  BY <1>1, <1>5, JoinFacts
<1>7. CalmOrder({e}) BY <1>6 DEF CalmOrder
<1>8. EventsFit' /\ (\A f \in Events : NumberFits(f)') /\ NumbersGrow'
  <2>1. EvCalm BY EvSame, EvKeptCalm
  <2>2. {e} \in SUBSET Events BY <1>3
  <2>3. \A f \in {e} : f[1] = "joined" /\ buf[f[2]].st = "unborn" /\ buf'[f[2]].st # "unborn"
    BY <1>2, <1>3
  <2>4. \A f \in {e}, r \in Streams, i \in Nat, t \in Streams, j \in Nat :
          At(stream', f, r, i) /\ At(stream', f, t, j) => t = r /\ j = i
    BY <1>6
  <2> HIDE DEF e
  <2> QED BY <1>7, <2>1, <2>2, <2>3, <2>4, CalmEvents
<1>9. OnFits'
  <2>1. \A f \in {e} \cap Events : ev'[f].on = {} BY <1>4 DEF NotSet
  <2>2. \A f \in Events : ev'[f].on \subseteq ev[f].on OBVIOUS
  <2> HIDE DEF e
  <2> QED BY <1>7, <2>1, <2>2, CalmOn
<1>10. ASSUME NEW j \in Jobs', j[2] = n, (JobStream(j))' = s PROVE JobFollows(j)'
  <2> SUFFICES ASSUME NEW r \in Streams, NEW i \in Nat, NEW w \in Buffers,
                      Uses(stream', r, i, w), w # n, buf'[w].cell = c
               PROVE  BeforeEnd(stream', r, i, s)
    BY <1>10 DEF JobFollows, SameCell
  <2>1. Uses(stream, r, i, w) /\ Made(w) /\ buf[w].cell = c BY <1>7, CalmFacts
  <2>2. i # 0 BY <1>1, <2>1, UsesFacts, InvFacts
  <2>3. Model = "kComputeSynchronized" /\ BeforeEnd(stream, r, i, <<"compute", c[1]>>)
    BY <2>1, FreeFacts
  <2> QED BY <1>6, <2>2, <2>3
<1> QED BY <1>7, <1>8, <1>9, <1>10

(* Nothing of the new buffer is set yet, and nobody has a job for it.       *)
LEMMA UnbornFacts ==
  ASSUME OrderInv, NEW n \in Buffers, ~Used(n)
  PROVE  /\ ~Made(n) /\ call[n] = NoCall /\ call[n].op = "none"
         /\ \A e \in Events : e[2] = n => /\ ev[e] = NotSet /\ ev[e].status = "none"
                                          /\ ev[e].seq = 0 /\ ~ev[e].done /\ ev[e].on = {}
         /\ \A j \in Jobs : j[2] # n /\ j[3] # n /\ JobEvent(j)[2] # n
<1>1. DeviceInv BY InvFacts
<1>2. ~Made(n) /\ buf[n].st = "unborn" /\ call[n] = NoCall BY <1>1, UnusedFacts DEF DeviceInv
<1>3. \A e \in Events : e[2] = n => ev[e] = NotSet BY <1>2, InvFacts DEF EventFits
<1>4. \A j \in Jobs : j[2] # n /\ j[3] # n BY <1>1, <1>2, JobFacts
<1>5. \A j \in Jobs : JobEvent(j)[2] = j[2] BY DEF JobEvent, Written
<1>6. NotSet.status = "none" /\ NotSet.seq = 0 /\ ~NotSet.done /\ NotSet.on = {} BY DEF NotSet
<1> QED BY <1>2, <1>3, <1>4, <1>5, <1>6, NoCallFacts

LEMMA BufferFromHostBufferOrder ==
  ASSUME OrderInv, DeviceInv', NEW d \in Devices, BufferFromHostBuffer(d)
  PROVE  OrderInv'
<1>0. PICK n : n = New OBVIOUS
<1> DEFINE s == <<"h2d", d>>
           j0 == <<"h2d", n, n>>
           t0 == [kind |-> "h2d", buf |-> n, src |-> n, on |-> Written(n), at |-> "queued"]
<1>1. /\ CanCreate /\ Joined(stream', d, s, n) /\ tasks' = tasks \cup {t0}
      /\ UNCHANGED <<ev, mem, call, pool, ready, literal, dependency>>
  BY <1>0 DEF BufferFromHostBuffer, Written, Joined
<1>2. PICK c \in Cells : /\ c[1] = d /\ Free(c)
                         /\ Born(n, "live", d, c, <<Written(n)>>)
  BY <1>0 DEF BufferFromHostBuffer, Written, Born
<1>3. DeviceInv BY InvFacts
<1>4. n \in Buffers /\ ~Used(n) BY <1>0, <1>1, <1>3, NewFacts DEF DeviceInv
<1>5. Written(n) \in Events /\ s \in Streams /\ s # <<"compute", d>> /\ Written(n)[2] = n
  BY <1>4, EventNames, NameFacts
<1>6. /\ ~Made(n) /\ call[n] = NoCall /\ call[n].op = "none"
      /\ \A e \in Events : e[2] = n => ev[e].status = "none" /\ ev[e].seq = 0
      /\ \A j \in Jobs : j[2] # n /\ j[3] # n /\ JobEvent(j)[2] # n
  BY <1>4, UnbornFacts
<1>7. /\ (Made(n))' /\ ValueFits(n)' /\ buf'[n].st = "live" /\ buf'[n].owns
      /\ buf'[n].usage = <<>> /\ buf'[n].cell = c /\ buf'[n].dev = d /\ FixedBuffers
      /\ \A b \in Buffers : b # n => buf'[b] = buf[b]
  <2> DEFINE defs == <<Written(n)>>
  <2>1. /\ defs \in Seq(Events) /\ defs # <<>> /\ defs[1] = Written(n)
        /\ Elems(defs) \subseteq {Written(n), <<"allocated", n>>}
    BY <1>5 DEF Elems
  <2>2. "live" \in {"making", "live"} /\ Born(n, "live", d, c, defs) BY <1>2
  <2> HIDE DEF defs
  <2> QED BY <1>2, <1>3, <1>4, <2>1, <2>2, BornFacts
<1>8. /\ CalmOrder({<<"joined", n>>})
      /\ \A j \in {k \in Jobs' : k[2] = n} : (JobStream(j))' = s => JobFollows(j)'
      /\ EventsFit' /\ (\A e \in Events : NumberFits(e)') /\ NumbersGrow' /\ OnFits'
  <2>1. buf'[n].st # "unborn" /\ buf'[n].cell \in Cells /\ buf'[n].cell[1] = d /\ Free(buf'[n].cell)
    BY <1>2, <1>7
  <2> QED BY <1>1, <1>4, <1>5, <1>7, <2>1, JoinFollows
<1>9. OneTask' /\ Jobs' = Jobs \cup {j0}
  <2>1. t0.kind # "ready" /\ Job(t0) = j0 BY DEF Job
  <2>2. j0 \notin Jobs BY <1>6
  <2> HIDE DEF t0, j0
  <2> QED BY <1>1, <2>1, <2>2, JobsMore, InvFacts
<1>10. /\ j0[1] = "h2d" /\ j0[2] = n /\ j0[3] = n /\ JobEvent(j0) = Written(n)
       /\ (JobStream(j0))' = s /\ (JobEvent(j0))' = Written(n)
  BY <1>7 DEF JobEvent, JobStream, Written
<1> HIDE DEF j0
<1>11. JobFits(j0)'
  <2>1. ev'[Written(n)].status = "none" BY <1>1, <1>5, <1>6
  <2>2. \A k \in Jobs' : JobEvent(k) = Written(n) => k = j0 BY <1>5, <1>6, <1>9
  <2>3. \A k : (JobEvent(k))' = JobEvent(k) BY DEF JobEvent, Written
  <2>4. Active(n)' BY <1>7 DEF Active
  <2>5. buf'[n].st # "making" BY <1>7
  <2> QED BY <1>10, <2>1, <2>2, <2>3, <2>4, <2>5 DEF JobFits
<1>12. JobFollows(j0)' BY <1>8, <1>9, <1>10
<1>13. EvStep({}) BY <1>1 DEF EvStep
<1>14. Begets(n, {}, {<<"joined", n>>})
  <2>1. ArgumentsFit(n)' BY <1>1, <1>6 DEF ArgumentsFit
  <2>2. ~(Recorded(Written(n)))' BY <1>1, <1>5, <1>6 DEF Recorded, Written
  <2>3. \E j \in Jobs' : JobEvent(j) = Written(n) BY <1>9, <1>10
  <2>4. Appends(stream, stream', {<<"joined", n>>}) BY <1>8 DEF CalmOrder
  <2>5. buf'[n].st \in {"making", "live"} /\ buf'[n].cell \in Cells /\ Free(buf'[n].cell)
    BY <1>2, <1>7
  <2>6. \A b \in Buffers : b # n => buf'[b] = buf[b] /\ call'[b] = call[b] BY <1>1, <1>7
  <2>7. \A j \in Jobs' \ Jobs : j = j0 BY <1>9
  <2>8. Jobs \subseteq Jobs' BY <1>9
  <2> QED BY <1>1, <1>4, <1>7, <1>9, <1>10, <1>11, <1>12, <1>13, <2>1, <2>2, <2>3, <2>4, <2>5,
             <2>6, <2>7, <2>8 DEF Begets
<1> QED BY <1>8, <1>14, BegetsInv

LEMMA CopyToDeviceOrder ==
  ASSUME OrderInv, DeviceInv', NEW src \in Buffers, NEW d \in Devices, CopyToDevice(src, d)
  PROVE  OrderInv'
<1>0. PICK n : n = New OBVIOUS
<1> DEFINE s == <<"d2d", buf[src].dev>>
           j0 == <<"copy", n, src>>
           t0 == Scheduled(<<"copy", n, src>>, buf[src].defs[1])
           k0 == [op |-> "copy", ins |-> {src}, don |-> {}]
<1>1. /\ CanCreate /\ Joined(stream', d, s, n) /\ tasks' = tasks \cup {t0} /\ Live(src)
      /\ "copy" \in Ops /\ buf[src].dev # d /\ call' = [call EXCEPT ![n] = k0]
      /\ UNCHANGED <<ev, mem, pool, ready, literal, dependency>>
  BY <1>0 DEF CopyToDevice, Joined
<1>2. PICK c \in Cells : /\ c[1] = d /\ Free(c)
                         /\ Born(n, "making", d, c, <<Written(n)>>)
  BY <1>0 DEF CopyToDevice, Written, Born
<1>3. DeviceInv BY InvFacts
<1>4. n \in Buffers /\ ~Used(n) BY <1>0, <1>1, <1>3, NewFacts DEF DeviceInv
<1>5. Made(src) /\ buf[src].st = "live" /\ buf[src].dev \in Devices /\ buf[src].defs[1] \in Events
  BY <1>1, <1>3, StMade, MadeFacts DEF Live, DeviceInv
<1>6. Written(n) \in Events /\ s \in Streams /\ s # <<"compute", d>> /\ Written(n)[2] = n
  BY <1>4, <1>5, EventNames, NameFacts
<1>7. /\ ~Made(n) /\ call[n] = NoCall /\ call[n].op = "none"
      /\ \A e \in Events : e[2] = n => ev[e].status = "none" /\ ev[e].seq = 0
      /\ \A j \in Jobs : j[2] # n /\ j[3] # n /\ JobEvent(j)[2] # n
  BY <1>4, UnbornFacts
<1>8. src # n BY <1>5, <1>7
<1>9. /\ (Made(n))' /\ ValueFits(n)' /\ buf'[n].st = "making" /\ buf'[n].owns
      /\ buf'[n].usage = <<>> /\ buf'[n].cell = c /\ buf'[n].dev = d /\ FixedBuffers
      /\ \A b \in Buffers : b # n => buf'[b] = buf[b]
  <2> DEFINE defs == <<Written(n)>>
  <2>1. /\ defs \in Seq(Events) /\ defs # <<>> /\ defs[1] = Written(n)
        /\ Elems(defs) \subseteq {Written(n), <<"allocated", n>>}
    BY <1>6 DEF Elems
  <2>2. "making" \in {"making", "live"} /\ Born(n, "making", d, c, defs) BY <1>2
  <2> HIDE DEF defs
  <2> QED BY <1>2, <1>3, <1>4, <2>1, <2>2, BornFacts
<1>10. call'[n] = k0 /\ \A b \in Buffers : b # n => call'[b] = call[b]
  BY <1>1, <1>3, <1>4 DEF DeviceInv, Typed, CallTyped
<1>11. /\ CalmOrder({<<"joined", n>>})
       /\ \A j \in {k \in Jobs' : k[2] = n} : (JobStream(j))' = s => JobFollows(j)'
       /\ EventsFit' /\ (\A e \in Events : NumberFits(e)') /\ NumbersGrow' /\ OnFits'
  <2>1. buf'[n].st # "unborn" /\ buf'[n].cell \in Cells /\ buf'[n].cell[1] = d /\ Free(buf'[n].cell)
    BY <1>2, <1>9
  <2> HIDE DEF s
  <2> QED BY <1>1, <1>4, <1>6, <1>9, <2>1, JoinFollows
<1>12. OneTask' /\ Jobs' = Jobs \cup {j0}
  <2>1. t0.kind # "ready" /\ Job(t0) = j0 BY DEF Job, Scheduled
  <2>2. j0 \notin Jobs BY <1>7
  <2> HIDE DEF t0, j0
  <2> QED BY <1>1, <2>1, <2>2, JobsMore, InvFacts
<1>13. /\ j0[1] = "copy" /\ j0[2] = n /\ j0[3] = src /\ JobEvent(j0) = Written(n)
       /\ (JobStream(j0))' = s
  <2>1. buf'[src].dev = buf[src].dev BY <1>8, <1>9
  <2> QED BY <2>1 DEF JobEvent, JobStream
<1> HIDE DEF j0
<1>14. /\ buf'[n].dev # buf'[src].dev /\ call'[n].op = "copy" /\ call'[n].ins = {src}
       /\ call'[n].don = {} /\ buf'[src] = buf[src]
  BY <1>1, <1>8, <1>9, <1>10
<1>15. ~(Recorded(Written(n)))' BY <1>1, <1>6, <1>7 DEF Recorded, Written
<1>16. JobFits(j0)'
  <2>1. ev'[Written(n)].status = "none" BY <1>1, <1>6, <1>7
  <2>2. \A k \in Jobs' : JobEvent(k) = Written(n) => k = j0 BY <1>6, <1>7, <1>12
  <2>3. \A k : (JobEvent(k))' = JobEvent(k) BY DEF JobEvent, Written
  <2>4. CopyFits(j0)' BY <1>1, <1>13, <1>14 DEF CopyFits
  <2> QED BY <1>13, <2>1, <2>2, <2>3, <2>4 DEF JobFits
<1>17. JobFollows(j0)' BY <1>11, <1>12, <1>13
<1>18. EvStep({}) BY <1>1 DEF EvStep
<1>19. ArgumentsFit(n)'
  <2>1. \A j \in Jobs' : j[2] = n => j = j0 BY <1>7, <1>12
  <2>2. buf'[src].st # "making" BY <1>5, <1>14
  <2> QED BY <1>1, <1>13, <1>14, <1>15, <2>1, <2>2 DEF ArgumentsFit
<1>20. Holder(src) BY <1>5 DEF Holder, Active
<1>21. Begets(n, {}, {<<"joined", n>>})
  <2>3. \E j \in Jobs' : JobEvent(j) = Written(n) BY <1>12, <1>13
  <2>4. Appends(stream, stream', {<<"joined", n>>}) BY <1>11 DEF CalmOrder
  <2>5. buf'[n].st \in {"making", "live"} /\ buf'[n].cell \in Cells /\ Free(buf'[n].cell)
    BY <1>2, <1>9
  <2>6. \A b \in Buffers : b # n => buf'[b] = buf[b] /\ call'[b] = call[b] BY <1>9, <1>10
  <2>7. \A j \in Jobs' \ Jobs : j = j0 BY <1>12
  <2>8. Jobs \subseteq Jobs' BY <1>12
  <2> QED BY <1>1, <1>4, <1>9, <1>12, <1>13, <1>15, <1>16, <1>17, <1>18, <1>19, <1>20, <2>3,
             <2>4, <2>5, <2>6, <2>7, <2>8 DEF Begets
<1> QED BY <1>11, <1>21, BegetsInv

(* What CreateErrorBuffer does to the events, with and without the one on   *)
(* the compute stream.                                                      *)
Erred(err, n) == err = [ev EXCEPT ![<<"written", n>>].status = "error"]

LEMMA ErrorEvents ==
  ASSUME OrderInv, NEW n \in Buffers, ~Used(n), NEW err, Erred(err, n)
  PROVE  /\ err[Written(n)].status = "error" /\ err[Written(n)].seq = 0 /\ err \in [Events -> Event]
         /\ \A e \in Events : e # Written(n) => err[e] = ev[e]
         /\ \A e \in Events : /\ err[e].seq = ev[e].seq /\ err[e].stream = ev[e].stream
                              /\ err[e].done = ev[e].done /\ err[e].on = ev[e].on
                              /\ err[e].status = "ok" <=> ev[e].status = "ok"
         /\ \A s : SequenceNumber(err, s) = SequenceNumber(ev, s)
<1>1. Written(n) \in Events /\ Written(n)[2] = n BY EventNames
<1>2. ev \in [Events -> Event] BY InvFacts DEF DeviceInv, Typed, EvTyped
<1>3. ev[Written(n)].status = "none" /\ ev[Written(n)].seq = 0 BY <1>1, UnbornFacts
<1>4. /\ err[Written(n)] = [ev[Written(n)] EXCEPT !.status = "error"]
      /\ \A e \in Events : e # Written(n) => err[e] = ev[e]
  BY <1>1, <1>2 DEF Written, Erred
<1>5. ev[Written(n)] \in Event BY <1>1, <1>2
<1>6. err[Written(n)] \in Event BY <1>4, <1>5 DEF Event
<1>7. err \in [Events -> Event]
  <2>1. err = [e \in Events |-> err[e]] BY <1>2 DEF Erred
  <2> QED BY <1>2, <1>4, <1>6, <2>1
<1>8. ASSUME NEW e \in Events
      PROVE  /\ err[e].seq = ev[e].seq /\ err[e].stream = ev[e].stream
             /\ err[e].done = ev[e].done /\ err[e].on = ev[e].on
             /\ err[e].status = "ok" <=> ev[e].status = "ok"
  <2>1. CASE e = Written(n) BY <1>3, <1>4, <1>5, <2>1 DEF Event
  <2>2. CASE e # Written(n) BY <1>4, <2>2
  <2> QED BY <2>1, <2>2
<1>9. ASSUME NEW s PROVE SequenceNumber(err, s) = SequenceNumber(ev, s)
  <2>1. NumberSet(err, s) = NumberSet(ev, s) BY <1>8 DEF NumberSet
  <2> QED BY <2>1, NumberFacts
<1>10. err[Written(n)].status = "error" /\ err[Written(n)].seq = 0
  BY <1>1, <1>3, <1>4, <1>5, <1>8 DEF Event
<1> QED BY <1>4, <1>7, <1>8, <1>9, <1>10

LEMMA CreateErrorBufferOrder ==
  ASSUME OrderInv, DeviceInv', NEW d \in Devices, CreateErrorBuffer(d)
  PROVE  OrderInv'
<1>0. PICK n : n = New OBVIOUS
<1> DEFINE s == <<"compute", d>>
           e == Written(n)
           a == <<"allocated", n>>
<1>1. PICK err : Erred(err, n) BY DEF Erred
<1>2. CanCreate /\ UNCHANGED <<mem, tasks, call, pool, ready, literal, dependency>>
  BY DEF CreateErrorBuffer
<1>3. PICK c \in Cells :
        /\ c[1] = d /\ Free(c)
        /\ \/ /\ Model = "kComputeSynchronized" /\ Born(n, "live", d, c, <<e, a>>)
              /\ ev' = SetSequencingEvent(err, a, s)
              /\ stream' = [stream EXCEPT ![s] = stream[s] \o Record(a)]
           \/ /\ Model # "kComputeSynchronized" /\ Born(n, "live", d, c, <<e>>)
              /\ ev' = err /\ UNCHANGED stream
  BY <1>0, <1>1 DEF CreateErrorBuffer, Written, Born, Erred
<1>4. DeviceInv /\ stream \in Queues BY InvFacts
<1>5. n \in Buffers /\ ~Used(n) BY <1>0, <1>2, <1>4, NewFacts DEF DeviceInv
<1>6. /\ e \in Events /\ a \in Events /\ s \in Streams /\ e[2] = n /\ a[2] = n /\ a # e
      /\ a[1] = "allocated" /\ e[1] = "written"
  BY <1>5, EventNames, NameFacts DEF Written
<1>7. /\ ~Made(n) /\ call[n] = NoCall /\ call[n].op = "none"
      /\ \A f \in Events : f[2] = n => ev[f].status = "none" /\ ev[f].seq = 0
  BY <1>5, UnbornFacts
<1>8. /\ err[e].status = "error" /\ err[e].seq = 0 /\ err \in [Events -> Event]
      /\ \A f \in Events : f # e => err[f] = ev[f]
      /\ \A f \in Events : /\ err[f].seq = ev[f].seq /\ err[f].stream = ev[f].stream
                           /\ err[f].done = ev[f].done /\ err[f].on = ev[f].on
                           /\ err[f].status = "ok" <=> ev[f].status = "ok"
      /\ SequenceNumber(err, s) = SequenceNumber(ev, s)
  BY <1>1, <1>5, ErrorEvents
<1>9. /\ (Made(n))' /\ ValueFits(n)' /\ buf'[n].st = "live" /\ buf'[n].owns
      /\ buf'[n].usage = <<>> /\ buf'[n].cell = c /\ FixedBuffers
      /\ \A b \in Buffers : b # n => buf'[b] = buf[b]
  <2>1. ASSUME NEW defs \in {<<e>>, <<e, a>>}, Born(n, "live", d, c, defs)
        PROVE  /\ (Made(n))' /\ ValueFits(n)' /\ buf'[n].st = "live" /\ buf'[n].owns
               /\ buf'[n].usage = <<>> /\ buf'[n].cell = c /\ FixedBuffers
               /\ \A b \in Buffers : b # n => buf'[b] = buf[b]
    <3>1. /\ defs \in Seq(Events) /\ defs # <<>> /\ defs[1] = e
          /\ Elems(defs) \subseteq {e, a}
      <4> HIDE DEF e, a
      <4>1. CASE defs = <<e>> BY <1>6, <4>1 DEF Elems
      <4>2. CASE defs = <<e, a>> BY <1>6, <4>2 DEF Elems
      <4> QED BY <4>1, <4>2
    <3>2. "live" \in {"making", "live"} OBVIOUS
    <3> QED BY <1>3, <1>4, <1>5, <2>1, <3>1, <3>2, BornFacts
  <2>2. PICK defs \in {<<e>>, <<e, a>>} : Born(n, "live", d, c, defs) BY <1>3
  <2> QED BY <2>1, <2>2
<1>10. OneTask' /\ Jobs' = Jobs BY <1>2, JobsSame, InvFacts
<1>11. buf'[n].st \in {"making", "live"} /\ buf'[n].st # "unborn" /\ buf'[n].cell \in Cells
       /\ Free(buf'[n].cell)
  BY <1>3, <1>9
<1>12. ArgumentsFit(n)' BY <1>2, <1>7 DEF ArgumentsFit
<1> HIDE DEF a, e, s
<1>13. ASSUME NEW S, NEW X, EvStep(S), \A f \in S : f[2] = n /\ f[1] # "read",
              Appends(stream, stream', X), ev'[e].status = "error", ev'[e].seq = 0
       PROVE  Begets(n, S, X)
  <2>1. ~(Recorded(Written(n)))' BY <1>13 DEF Recorded, e, Written
  <2>2. \A b \in Buffers : b # n => buf'[b] = buf[b] /\ call'[b] = call[b] BY <1>2, <1>9
  <2>3. ev'[Written(n)].status = "error" BY <1>13 DEF e
  <2>4. \A j \in Jobs' \ Jobs : FALSE BY <1>10
  <2>5. Jobs \subseteq Jobs' BY <1>10
  <2> QED BY <1>2, <1>5, <1>9, <1>10, <1>11, <1>12, <1>13, <2>1, <2>2, <2>3, <2>4, <2>5 DEF Begets
<1>14. CASE Model # "kComputeSynchronized"
  <2>1. ev' = err /\ UNCHANGED stream BY <1>3, <1>14
  <2>2. EvStep({e}) BY <1>6, <1>7, <1>8, <2>1 DEF EvStep
  <2>3. Appends(stream, stream', {}) BY <1>4, <2>1, AppendsNot
  <2>4. CalmOrder({}) BY <1>2, <1>9, <2>3 DEF CalmOrder
  <2>5. EvCalm
    <3>1. ASSUME NEW f \in Events, buf'[f[2]].st = "unborn" PROVE ev'[f] = ev[f]
      <4>1. f # e BY <1>6, <1>11, <3>1
      <4> QED BY <1>8, <2>1, <4>1
    <3> QED BY <1>8, <2>1, <3>1 DEF EvCalm
  <2>6. EventsFit' /\ (\A f \in Events : NumberFits(f)') /\ NumbersGrow'
    BY <2>4, <2>5, CalmEvents
  <2>7. OnFits' BY <1>8, <2>1, <2>4, CalmOn
  <2>8. Begets(n, {e}, {}) BY <1>6, <1>8, <1>13, <2>1, <2>2, <2>3
  <2> QED BY <2>6, <2>7, <2>8, BegetsInv
<1>15. CASE Model = "kComputeSynchronized"
  <2>1. ev' = SetSequencingEvent(err, a, s) /\ stream' = [stream EXCEPT ![s] = stream[s] \o Record(a)]
    BY <1>3, <1>15
  <2>2. /\ ev'[a] = [seq |-> SequenceNumber(err, s), stream |-> s, status |-> "ok", on |-> {s},
                     done |-> FALSE]
        /\ \A f \in Events : f # a => ev'[f] = err[f]
    BY <1>6, <1>8, <2>1 DEF SetSequencingEvent
  <2>3. EventSet(a, s)
    <3>1. ASSUME NEW f \in Events, f # a, buf'[f[2]].st = "unborn" PROVE ev'[f] = ev[f]
      <4>1. f # e BY <1>6, <1>11, <3>1
      <4> QED BY <1>8, <2>2, <3>1, <4>1
    <3> QED BY <1>6, <1>7, <1>8, <1>11, <2>2, <3>1 DEF EventSet
  <2> DEFINE o == [op |-> "record", event |-> a]
  <2>4. o \in StreamOp /\ o.op = "record" /\ o.event = a BY <1>6 DEF StreamOp, RecordOp
  <2>5. Puts(stream, stream', s, o) BY <2>1, <2>4 DEF Puts, Record
  <2> HIDE DEF o
  <2>6. Appends(stream, stream', {a})
    <3>1. \A f \in {a} : f[1] \in {"allocated", "joined"} BY <1>6
    <3> QED BY <1>4, <1>6, <2>4, <2>5, <3>1, PutAppends
  <2>7. PlaceAdded(a, s, Len(stream[s]) + 1)
    <3>1. /\ Longer(stream, stream') /\ Len(stream[s]) \in Nat
          /\ Len(stream'[s]) = Len(stream[s]) + 1 /\ stream'[s][Len(stream[s]) + 1] = o
          /\ Len(stream[s]) + 1 \in DOMAIN stream'[s]
          /\ \A r \in Streams, i \in Nat : i \in DOMAIN stream'[r] /\ i \notin DOMAIN stream[r] =>
               r = s /\ i = Len(stream[s]) + 1
      BY <1>4, <1>6, <2>5, PutFacts
    <3>2. At(stream', a, s, Len(stream[s]) + 1) BY <2>4, <3>1 DEF At
    <3>3. ASSUME NEW f \in Events, NEW r \in Streams, NEW i \in Nat, At(stream', f, r, i),
                 ~At(stream, f, r, i)
          PROVE  f = a /\ r = s /\ i = Len(stream[s]) + 1
      <4>1. f \in {a} /\ i \notin DOMAIN stream[r] BY <2>6, <3>3, AppendsAt
      <4>2. i \in DOMAIN stream'[r] BY <3>3 DEF At
      <4> QED BY <3>1, <4>1, <4>2
    <3> QED BY <3>1, <3>2, <3>3 DEF PlaceAdded
  <2>8. EventsFit' /\ (\A f \in Events : NumberFits(f)') /\ NumbersGrow'
    <3>1. \A r \in Streams, i \in Nat, v \in Buffers :
            Reads(stream', r, i, v) => Reads(stream, r, i, v)
      BY <2>6, AppendsAt
    <3> QED BY <1>9, <2>3, <2>7, <3>1, SetEvents
  <2>9. OnFits'
    <3>1. \A f \in Events : f # a => ev'[f].on = ev[f].on BY <1>8, <2>2
    <3> QED BY <2>3, <2>7, <3>1, SetOn
  <2>10. EvStep({e, a}) BY <1>6, <1>7, <1>8, <2>2 DEF EvStep
  <2>11. \A f \in {e, a} : f[2] = n /\ f[1] # "read" BY <1>6
  <2>12. ev'[e].status = "error" /\ ev'[e].seq = 0 BY <1>6, <1>8, <2>2
  <2>13. Begets(n, {e, a}, {a}) BY <1>13, <2>6, <2>10, <2>11, <2>12
  <2> QED BY <2>8, <2>9, <2>13, BegetsInv
<1> QED BY <1>14, <1>15

-----------------------------------------------------------------------------
(* Steps that enqueue an access.  It is at place p of s; waits may be       *)
(* before it and a callback behind it.                                      *)
TakesPart(o, v) == o.event = Written(v) \/ \E m \in o.reads : m.val = v

Enqueued(s, p, o) ==
  /\ s \in Streams /\ p \in Nat /\ o \in StreamOp /\ o.op = "access"
  /\ Longer(stream, stream')
  /\ p \in DOMAIN stream'[s] /\ p \notin DOMAIN stream[s] /\ stream'[s][p] = o
  /\ \A r \in Streams, i \in Nat : i \in DOMAIN stream'[r] /\ i \notin DOMAIN stream[r] =>
       (r = s /\ i = p) \/ stream'[r][i].op \in {"wait", "callback"}

LEMMA EnqueuedFacts ==
  ASSUME NEW s, NEW p, NEW o, Enqueued(s, p, o), NEW r \in Streams, NEW i \in Nat
  PROVE  /\ \A e : At(stream', e, r, i) <=>
                     At(stream, e, r, i) \/ (r = s /\ i = p /\ e = o.event)
         /\ \A v : Reads(stream', r, i, v) <=>
                     \/ Reads(stream, r, i, v)
                     \/ r = s /\ i = p /\ \E m \in o.reads : m.val = v
         /\ \A v : Uses(stream', r, i, v) <=>
                     Uses(stream, r, i, v) \/ (r = s /\ i = p /\ TakesPart(o, v))
         /\ \A e : At(stream, e, r, i) => ~(r = s /\ i = p)
         /\ \A v : Uses(stream, r, i, v) => ~(r = s /\ i = p)
<1>1. /\ Longer(stream, stream') /\ o.op = "access"
      /\ p \in DOMAIN stream'[s] /\ p \notin DOMAIN stream[s] /\ stream'[s][p] = o
  BY DEF Enqueued
<1>2. CASE i \in DOMAIN stream[r]
  <2>1. i \in DOMAIN stream'[r] /\ stream'[r][i] = stream[r][i] /\ ~(r = s /\ i = p)
    BY <1>1, <1>2, LongerAt
  <2>2. \A e : At(stream', e, r, i) <=> At(stream, e, r, i) BY <1>2, <2>1 DEF At
  <2>3. \A v : Reads(stream', r, i, v) <=> Reads(stream, r, i, v) BY <1>2, <2>1 DEF Reads
  <2> QED BY <2>1, <2>2, <2>3 DEF Uses
<1>3. CASE r = s /\ i = p
  <2>1. \A e : ~At(stream, e, r, i) BY <1>1, <1>3 DEF At
  <2>2. \A v : ~Reads(stream, r, i, v) BY <1>1, <1>3 DEF Reads
  <2>3. \A e : At(stream', e, r, i) <=> e = o.event BY <1>1, <1>3 DEF At
  <2>4. \A v : Reads(stream', r, i, v) <=> \E m \in o.reads : m.val = v
    BY <1>1, <1>3 DEF Reads
  <2> QED BY <1>3, <2>1, <2>2, <2>3, <2>4 DEF Uses, TakesPart
<1>4. CASE i \notin DOMAIN stream[r] /\ ~(r = s /\ i = p)
  <2>1. i \in DOMAIN stream'[r] => stream'[r][i].op \in {"wait", "callback"}
    BY <1>4 DEF Enqueued
  <2>2. \A e : ~At(stream', e, r, i) /\ ~At(stream, e, r, i) BY <1>4, <2>1 DEF At
  <2>3. \A v : ~Reads(stream', r, i, v) /\ ~Reads(stream, r, i, v) BY <1>4, <2>1 DEF Reads
  <2> QED BY <1>4, <2>2, <2>3 DEF Uses
<1> QED BY <1>2, <1>3, <1>4

LEMMA EnqueuedPlace ==
  ASSUME stream \in Queues, NEW s, NEW p, NEW o, Enqueued(s, p, o)
  PROVE  PlaceAdded(o.event, s, p)
<1>1. /\ Longer(stream, stream') /\ o.op = "access" /\ s \in Streams /\ p \in Nat
      /\ p \in DOMAIN stream'[s] /\ p \notin DOMAIN stream[s]
  BY DEF Enqueued
<1>2. stream' \in Queues BY <1>1 DEF Longer
<1>3. /\ Len(stream[s]) \in Nat /\ DOMAIN stream[s] = 1..Len(stream[s])
      /\ Len(stream'[s]) \in Nat /\ DOMAIN stream'[s] = 1..Len(stream'[s])
  BY <1>1, <1>2, PlaceFacts
<1>4. Len(stream[s]) < p /\ p <= Len(stream'[s]) BY <1>1, <1>3
<1> QED BY <1>1, <1>4, EnqueuedFacts DEF PlaceAdded

(* What is waited for, and what was before the end of the stream, precedes  *)
(* the access, and the access precedes the callback.                        *)
Sends(s, E, o, D, F) ==
  stream' = [stream EXCEPT ![s] = ((stream[s] \o Waits(s, E)) \o <<o>>) \o Callback(D, F)]
CallbackOf(D, F) == [op |-> "callback", drops |-> D, frees |-> F]

Sent(s, p, E, D, F) ==
  /\ \A e \in E, r \in Streams, i \in Nat : At(stream, e, r, i) => Precedes(stream', r, i, s, p)
  /\ \A r \in Streams, i \in Nat : BeforeEnd(stream, r, i, s) => Precedes(stream', r, i, s, p)
  /\ D # {} \/ F # {} =>
       \E j \in Nat : /\ j \in DOMAIN stream'[s] /\ stream'[s][j] = CallbackOf(D, F)
                      /\ Precedes(stream', s, p, s, j)

LEMMA SendFacts ==
  ASSUME OrderInv, NEW s \in Streams, NEW E \in SUBSET Events, NEW o \in StreamOp,
         o.op = "access", NEW D \in SUBSET Buffers, NEW F \in SUBSET Cells, Sends(s, E, o, D, F)
  PROVE  \E p \in Nat : Enqueued(s, p, o) /\ Sent(s, p, E, D, F)
<1>1. stream \in Queues BY InvFacts
<1>2. PICK q1 : Waited(q1, s, E) BY DEF Waited
<1>3. /\ Appends(stream, q1, {})
      /\ \A e \in E, r \in Streams, i \in Nat : At(stream, e, r, i) => BeforeEnd(q1, r, i, s)
  BY <1>2, WaitFacts
<1>4. q1 \in Queues /\ Longer(stream, q1) BY <1>3 DEF Appends, Longer
<1>5. PICK q2 : q2 = [q1 EXCEPT ![s] = q1[s] \o <<o>>] OBVIOUS
<1>6. Puts(q1, q2, s, o) BY <1>5 DEF Puts
<1>7. /\ q2 \in Queues /\ Longer(q1, q2) /\ Len(q1[s]) \in Nat
      /\ Len(q2[s]) = Len(q1[s]) + 1 /\ q2[s][Len(q1[s]) + 1] = o
      /\ Len(q1[s]) + 1 \in DOMAIN q2[s] /\ Len(q1[s]) + 1 \notin DOMAIN q1[s]
      /\ \A r \in Streams, i \in Nat : i \in DOMAIN q2[r] /\ i \notin DOMAIN q1[r] =>
           r = s /\ i = Len(q1[s]) + 1
  BY <1>4, <1>6, PutFacts
<1>8. q1[s] = stream[s] \o Waits(s, E) /\ q1 = [stream EXCEPT ![s] = q1[s]]
  BY <1>1, <1>2 DEF Waited, Queues
<1>9. q2[s] = q1[s] \o <<o>> /\ q2 = [stream EXCEPT ![s] = q2[s]]
  BY <1>1, <1>4, <1>5, <1>8 DEF Queues
<1>10. stream' = [q2 EXCEPT ![s] = q2[s] \o Callback(D, F)]
  BY <1>1, <1>8, <1>9 DEF Sends, Queues
<1> DEFINE c == CallbackOf(D, F)
<1>11. c \in StreamOp /\ c.op = "callback" BY DEF CallbackOf, StreamOp, CallbackOp
<1> HIDE DEF c
<1>12. \/ stream' = q2 /\ D = {} /\ F = {}
       \/ Puts(q2, stream', s, c)
  <2>1. CASE D = {} /\ F = {}
    <3>1. Callback(D, F) = <<>> BY <2>1 DEF Callback
    <3>2. stream' = [q2 EXCEPT ![s] = q2[s] \o <<>>] BY <1>10, <3>1
    <3> QED BY <1>7, <2>1, <3>2, PutNothing
  <2>2. CASE ~(D = {} /\ F = {})
    <3>1. Callback(D, F) = <<c>> BY <2>2 DEF Callback, c, CallbackOf
    <3> QED BY <1>10, <1>11, <3>1 DEF Puts
  <2> QED BY <2>1, <2>2
<1> HIDE DEF Sends
<1>13. /\ stream' \in Queues /\ Longer(q2, stream')
       /\ \A r \in Streams, i \in Nat : i \in DOMAIN stream'[r] /\ i \notin DOMAIN q2[r] =>
            stream'[r][i].op = "callback"
       /\ D # {} \/ F # {} => \E j \in Nat : j \in DOMAIN stream'[s] /\ stream'[s][j] = c /\ Len(q2[s]) < j
  <2>1. CASE stream' = q2 /\ D = {} /\ F = {} BY <1>7, <2>1, LongerSelf
  <2>2. CASE Puts(q2, stream', s, c)
    <3>1. /\ stream' \in Queues /\ Longer(q2, stream') /\ Len(q2[s]) \in Nat
          /\ stream'[s][Len(q2[s]) + 1] = c /\ Len(q2[s]) + 1 \in DOMAIN stream'[s]
          /\ \A r \in Streams, i \in Nat : i \in DOMAIN stream'[r] /\ i \notin DOMAIN q2[r] =>
               r = s /\ i = Len(q2[s]) + 1
      BY <1>7, <2>2, PutFacts
    <3>2. Len(q2[s]) + 1 \in Nat /\ Len(q2[s]) < Len(q2[s]) + 1 BY <3>1
    <3> QED BY <1>11, <3>1, <3>2
  <2> QED BY <1>12, <2>1, <2>2
<1> DEFINE p == Len(q1[s]) + 1
<1>14. p \in Nat /\ p = Len(q2[s]) /\ Len(q1[s]) <= p BY <1>7
<1>15. Longer(q1, stream') /\ Longer(stream, stream') BY <1>4, <1>7, <1>13, LongerThen
<1>16. p \in DOMAIN q2[s] /\ p \in DOMAIN stream'[s] /\ stream'[s][p] = o
  BY <1>7, <1>13, <1>14, LongerAt
<1>17. p \notin DOMAIN stream[s] BY <1>4, <1>7, <1>14, LongerAt
<1> HIDE DEF p
<1>18. ASSUME NEW r \in Streams, NEW i \in Nat, i \in DOMAIN stream'[r], i \notin DOMAIN stream[r]
       PROVE  (r = s /\ i = p) \/ stream'[r][i].op \in {"wait", "callback"}
  <2>1. CASE i \notin DOMAIN q2[r] BY <1>13, <1>18, <2>1
  <2>2. CASE i \in DOMAIN q2[r] /\ i \notin DOMAIN q1[r] BY <1>7, <2>2 DEF p
  <2>3. CASE i \in DOMAIN q1[r]
    <3>1. q1[r][i].op \in {"wait", "callback"} BY <1>3, <1>18, <2>3 DEF Appends
    <3>2. stream'[r][i] = q1[r][i] BY <1>15, <2>3, LongerAt
    <3> QED BY <3>1, <3>2
  <2> QED BY <2>1, <2>2, <2>3
<1>19. Enqueued(s, p, o) BY <1>14, <1>15, <1>16, <1>17, <1>18 DEF Enqueued
<1>20. ASSUME NEW r \in Streams, NEW i \in Nat, BeforeEnd(q1, r, i, s)
       PROVE  Precedes(stream', r, i, s, p)
  BY <1>14, <1>15, <1>20, EndThen
<1>21. ASSUME NEW r \in Streams, NEW i \in Nat, BeforeEnd(stream, r, i, s)
       PROVE  Precedes(stream', r, i, s, p)
  BY <1>4, <1>20, <1>21, LongerBeforeEnd
<1>22. D # {} \/ F # {} =>
         \E j \in Nat : j \in DOMAIN stream'[s] /\ stream'[s][j] = c /\ Precedes(stream', s, p, s, j)
  <2>1. \A j \in Nat : Len(q2[s]) < j => p <= j BY <1>14
  <2> QED BY <1>13, <1>14, <2>1, PrecedesSame
<1> QED BY <1>3, <1>14, <1>19, <1>20, <1>21, <1>22 DEF Sent, c

(* Two buffers whose memory is still to be used do not share it, after the  *)
(* step.                                                                    *)
LEMMA HoldersDifferThen ==
  ASSUME DeviceInv', NEW a \in Buffers, NEW b \in Buffers, HolderFits(a)', HolderFits(b)',
         Holder(a)', Holder(b)', a # b
  PROVE  buf'[a].cell # buf'[b].cell
<1>1. ASSUME NEW x \in Buffers, Holder(x)' PROVE (Alive(x))'
  <2>1. CASE Active(x)' BY <2>1 DEF Active, Alive
  <2>2. CASE buf'[x].st = "external" BY <2>2 DEF Alive
  <2>3. CASE \E j \in Jobs' : x \in {j[2], j[3]}
    <3>1. PICK t \in tasks' : x \in {Job(t)[2], Job(t)[3]} BY <2>3 DEF Jobs
    <3>2. x \in {t.buf, t.src} BY <3>1 DEF Job
    <3> QED BY <3>2 DEF Alive
  <2> QED BY <1>1, <2>1, <2>2, <2>3 DEF Holder
<1>2. buf'[a].owns /\ buf'[b].owns BY DEF HolderFits
<1>3. (Alive(a))' /\ (Alive(b))' BY <1>1
<1> QED BY <1>2, <1>3 DEF DeviceInv, OneOwner

(* The access o is enqueued at place p of s.  What it reads has its write   *)
(* enqueued before; all other uses of the memory it writes are before; who  *)
(* takes part will know, and keeps the memory.                              *)
ReadsBehind(s, p, v) ==
  /\ v \in Buffers /\ Holder(v) /\ Recorded(Written(v))
  /\ \A r \in Streams, j \in Nat : At(stream, Written(v), r, j) => Precedes(stream', r, j, s, p)

WritesBehind(s, p, w) ==
  /\ Holder(w)'
  /\ \A r \in Streams, i \in Nat, v \in Buffers :
       Uses(stream, r, i, v) /\ v # w /\ buf[v].cell = buf'[w].cell => Precedes(stream', r, i, s, p)

PartFits(s, p, v) ==
  /\ Model # "kComputeSynchronized" => s[2] = buf'[v].cell[1] /\ buf'[v].st # "external"
  /\ Active(v)' => CoveredByUsage(s, p, v)' \/ CoveredByCall(s, p, v)'
  /\ UseKept(s, p, v)'

(* The usage events of b still cover what they covered.                     *)
StillCovers(b) ==
  \A e \in UsageEvents(b), t \in Streams, k \in Nat, r \in Streams, i \in Nat :
    At(stream, e, t, k) /\ Precedes(stream', r, i, t, k) => CoveredByUsage(r, i, b)'

(* The buffer b gives its memory away: the access is behind all uses.       *)
GivesAway(s, p, b) ==
  /\ \A r \in Streams, i \in Nat, v \in Buffers :
       Uses(stream, r, i, v) /\ buf[v].cell = buf[b].cell => Precedes(stream', r, i, s, p)
  /\ \/ Model = "kAsynchronous" \/ KeptByCallback(s, p, buf[b].cell)'
     \/ Model = "kComputeSynchronized" /\ KeptByCompute(s, p, buf[b].cell)'

Launch(s, p, o) ==
  /\ OrderInv /\ DeviceInv' /\ FixedBuffers /\ Enqueued(s, p, o) /\ EventSet(o.event, s)
  /\ EvStep({o.event}) /\ UNCHANGED <<mem, pool>>
  /\ o.event[1] \in {"written", "read"} /\ OpFits(o)'
  /\ \A m \in o.reads : ReadsBehind(s, p, m.val)
  /\ \A v \in Buffers :
       /\ o.event = Written(v) => WritesBehind(s, p, v)
       /\ TakesPart(o, v) => PartFits(s, p, v)
       /\ o.event # Written(v) => /\ Holder(v)' => Holder(v)
                                  /\ Active(v)' => Active(v) /\ StillCovers(v)
                                  /\ buf'[v].st = "external" => buf[v].st = "external"
       /\ buf[v].owns /\ ~buf'[v].owns => GivesAway(s, p, v)
       /\ call[v].op = "copy" => call'[v] = call[v]
       /\ \A r \in Streams, i \in Nat : KeptByUsage(r, i, v) /\ buf'[v].owns => KeptByUsage(r, i, v)'
  /\ Jobs' \subseteq Jobs /\ \A j \in Jobs' : JobEvent(j) # o.event

LEMMA LaunchFacts ==
  ASSUME NEW s, NEW p, NEW o, Launch(s, p, o)
  PROVE  /\ OrderInv /\ DeviceInv' /\ FixedBuffers /\ Enqueued(s, p, o) /\ EventSet(o.event, s)
         /\ EvStep({o.event}) /\ UNCHANGED <<mem, pool>> /\ s \in Streams /\ p \in Nat
         /\ Longer(stream, stream') /\ stream \in Queues /\ stream' \in Queues
         /\ o.event[1] \in {"written", "read"} /\ OpFits(o)' /\ o.event \in Events
         /\ ~Recorded(o.event) /\ ev[o.event].status = "none"
         /\ \A m \in o.reads : ReadsBehind(s, p, m.val)
         /\ DeviceInv /\ ValuesFit
<1>1. /\ OrderInv /\ Enqueued(s, p, o) /\ EventSet(o.event, s) BY DEF Launch
<1>2. o.event \in Events /\ ev[o.event].status = "none" BY <1>1 DEF EventSet
<1>3. Longer(stream, stream') /\ s \in Streams /\ p \in Nat BY <1>1 DEF Enqueued
<1>4. ~Recorded(o.event) BY <1>1, <1>2, UnsetFacts
<1>5. stream \in Queues /\ stream' \in Queues BY <1>3 DEF Longer
<1>6. DeviceInv /\ ValuesFit BY <1>1, InvFacts
<1> QED BY <1>1, <1>2, <1>3, <1>4, <1>5, <1>6 DEF Launch

(* Uses and writes that were there.                                         *)
LEMMA LaunchOld ==
  ASSUME NEW s, NEW p, NEW o, Launch(s, p, o), NEW r \in Streams, NEW i \in Nat, NEW v \in Buffers,
         Uses(stream, r, i, v)
  PROVE  /\ Made(v) /\ buf'[v].cell = buf[v].cell /\ buf'[v].dev = buf[v].dev
         /\ Recorded(Written(v)) /\ o.event # Written(v) /\ i \in Nat \ {0}
<1>1. /\ OrderInv /\ FixedBuffers /\ ~Recorded(o.event) /\ DeviceInv /\ ValuesFit BY LaunchFacts
<1>2. Made(v) /\ i # 0 BY <1>1, UsesFacts
<1>3. Recorded(Written(v))
  <2>1. ReadFits(r, i, v) BY <1>1, InvFacts DEF EventsFit
  <2>2. PlaceFits(Written(v), r, i) /\ Written(v)[1] = "written" BY <1>1, InvFacts, EventNames
  <2> QED BY <2>1, <2>2 DEF Uses, ReadFits, PlaceFits
<1> QED BY <1>1, <1>2, <1>3 DEF FixedBuffers

LEMMA LaunchPrecedes ==
  ASSUME NEW s, NEW p, NEW o, Launch(s, p, o), NEW r \in Streams, NEW i \in Nat, NEW t \in Streams, NEW j
  PROVE  /\ Precedes(stream, r, i, t, j) => Precedes(stream', r, i, t, j)
         /\ BeforeEnd(stream, r, i, t) => BeforeEnd(stream', r, i, t)
BY LaunchFacts, LongerPrecedes, LongerBeforeEnd

(* Who takes part in the access is still to be used, and so are others who  *)
(* then have other memory.                                                  *)
LEMMA LaunchOthers ==
  ASSUME NEW s, NEW p, NEW o, Launch(s, p, o), \A x \in Buffers : HolderFits(x)',
         NEW v \in Buffers, TakesPart(o, v), NEW b \in Buffers, b # v, o.event # Written(b), Holder(b)'
  PROVE  buf'[v].cell # buf'[b].cell
<1>1. OrderInv /\ DeviceInv' /\ FixedBuffers /\ DeviceInv BY LaunchFacts
<1>2. CASE o.event = Written(v)
  <2>1. Holder(v)' BY <1>2 DEF Launch, WritesBehind
  <2> QED BY <1>1, <2>1, HoldersDifferThen
<1>3. CASE o.event # Written(v)
  <2>1. PICK m \in o.reads : m.val = v BY <1>3 DEF TakesPart
  <2>2. ReadsBehind(s, p, v) BY <2>1, LaunchFacts
  <2>3. Holder(v) /\ Holder(b) BY <2>2 DEF ReadsBehind, Launch
  <2>4. buf[v].cell # buf[b].cell BY <1>1, <2>3, HoldersDiffer, InvFacts
  <2>5. Made(v) /\ Made(b) BY <1>1, <2>3, HolderFacts, InvFacts
  <2> QED BY <1>1, <2>4, <2>5 DEF FixedBuffers
<1> QED BY <1>2, <1>3

LEMMA LaunchUses ==
  ASSUME NEW s, NEW p, NEW o, Launch(s, p, o)
  PROVE  UsesFollow'
<1>1. /\ OrderInv /\ Enqueued(s, p, o) /\ s \in Streams /\ p \in Nat /\ mem' = mem /\ FixedBuffers
      /\ ~Recorded(o.event)
  BY LaunchFacts
<1>2. \A r \in Streams, i \in Nat, v \in Buffers :
        /\ ReadFollows(r, i, v) /\ SameDevice(r, i, v)
        /\ \A t \in Streams, j \in Nat, w \in Buffers : InOrder(r, i, v, t, j, w)
  BY <1>1 DEF OrderInv, UsesFollow
<1>3. ASSUME NEW r \in Streams, NEW i \in Nat, NEW v \in Buffers PROVE ReadFollows(r, i, v)'
  <2> SUFFICES ASSUME Reads(stream', r, i, v)
               PROVE  /\ \A t \in Streams, j \in Nat : At(stream', Written(v), t, j) =>
                           ~(t = r /\ j = i) /\ Precedes(stream', t, j, r, i)
                      /\ \/ \E t \in Streams, j \in Nat : At(stream', Written(v), t, j)
                         \/ mem[buf'[v].cell] = v
    BY <1>1 DEF ReadFollows, Written
  <2>1. CASE Reads(stream, r, i, v)
    <3>1. Uses(stream, r, i, v) BY <2>1 DEF Uses
    <3>2. o.event # Written(v) /\ buf'[v].cell = buf[v].cell BY <3>1, LaunchOld
    <3>3. ASSUME NEW t \in Streams, NEW j \in Nat, At(stream', Written(v), t, j)
          PROVE  ~(t = r /\ j = i) /\ Precedes(stream', t, j, r, i)
      <4>1. At(stream, Written(v), t, j) BY <1>1, <3>2, <3>3, EnqueuedFacts
      <4>2. ~(t = r /\ j = i) /\ Precedes(stream, t, j, r, i) BY <1>2, <2>1, <4>1 DEF ReadFollows
      <4> QED BY <4>2, LaunchPrecedes
    <3>4. \/ \E t \in Streams, j \in Nat : At(stream', Written(v), t, j)
          \/ mem[buf'[v].cell] = v
      <4>1. (\E t \in Streams, j \in Nat : At(stream, Written(v), t, j)) \/ mem[buf[v].cell] = v
        BY <1>2, <2>1 DEF ReadFollows
      <4>2. \A t \in Streams, j \in Nat : At(stream, Written(v), t, j) => At(stream', Written(v), t, j)
        BY <1>1, EnqueuedFacts
      <4> QED BY <3>2, <4>1, <4>2
    <3> QED BY <3>3, <3>4
  <2>2. CASE r = s /\ i = p /\ \E m \in o.reads : m.val = v
    <3>1. ReadsBehind(s, p, v) BY <2>2, LaunchFacts
    <3>2. Holder(v) /\ Recorded(Written(v)) BY <3>1 DEF ReadsBehind
    <3>3. o.event # Written(v) BY <1>1, <3>2
    <3>4. ASSUME NEW t \in Streams, NEW j \in Nat, At(stream', Written(v), t, j)
          PROVE  ~(t = r /\ j = i) /\ Precedes(stream', t, j, r, i)
      <4>1. At(stream, Written(v), t, j) BY <1>1, <3>3, <3>4, EnqueuedFacts
      <4>2. ~(t = s /\ j = p) BY <1>1, <4>1, EnqueuedFacts
      <4> QED BY <2>2, <3>1, <4>1, <4>2 DEF ReadsBehind
    <3>5. Made(v) BY <1>1, <3>2, HolderFacts, InvFacts
    <3>6. WriteArrives(v) BY <1>1 DEF OrderInv, HoldersFollow
    <3>7. \/ \E t \in Streams, j \in Nat : At(stream, Written(v), t, j)
          \/ mem[buf'[v].cell] = v
      BY <1>1, <3>2, <3>5, <3>6 DEF WriteArrives, FixedBuffers
    <3>8. \/ \E t \in Streams, j \in Nat : At(stream', Written(v), t, j)
          \/ mem[buf'[v].cell] = v
      BY <1>1, <3>7, EnqueuedFacts
    <3> QED BY <3>4, <3>8
  <2> QED BY <1>1, <2>1, <2>2, EnqueuedFacts
<1>4. ASSUME NEW r \in Streams, NEW i \in Nat, NEW v \in Buffers PROVE SameDevice(r, i, v)'
  <2> SUFFICES ASSUME Uses(stream', r, i, v), Model # "kComputeSynchronized"
               PROVE  r[2] = buf'[v].cell[1]
    BY DEF SameDevice
  <2>1. CASE Uses(stream, r, i, v)
    <3>1. r[2] = buf[v].cell[1] BY <1>2, <2>1 DEF SameDevice
    <3> QED BY <2>1, <3>1, LaunchOld
  <2>2. CASE r = s /\ i = p /\ TakesPart(o, v) BY <2>2 DEF Launch, PartFits
  <2> QED BY <1>1, <2>1, <2>2, EnqueuedFacts
<1>5. ASSUME NEW r \in Streams, NEW i \in Nat, NEW v \in Buffers,
             NEW t \in Streams, NEW j \in Nat, NEW w \in Buffers
      PROVE  InOrder(r, i, v, t, j, w)'
  <2> SUFFICES ASSUME Uses(stream', r, i, v), At(stream', Written(w), t, j), v # w,
                      buf'[v].cell = buf'[w].cell
               PROVE  \/ Precedes(stream', r, i, t, j)
                      \/ \E x \in Streams, k \in Nat :
                           At(stream', Written(v), x, k) /\ Precedes(stream', t, j, x, k)
    BY DEF InOrder, SameCell, Written
  <2>1. Uses(stream, r, i, v) \/ (r = s /\ i = p /\ TakesPart(o, v)) BY <1>1, EnqueuedFacts
  <2>2. At(stream, Written(w), t, j) \/ (t = s /\ j = p /\ o.event = Written(w))
    BY <1>1, EnqueuedFacts
  <2>3. CASE Uses(stream, r, i, v) /\ At(stream, Written(w), t, j)
    <3>1. Uses(stream, t, j, w) BY <2>3 DEF Uses
    <3>2. SameCell(v, w) BY <2>3, <3>1, LaunchOld DEF SameCell
    <3>3. \/ Precedes(stream, r, i, t, j)
          \/ \E x \in Streams, k \in Nat :
               At(stream, Written(v), x, k) /\ Precedes(stream, t, j, x, k)
      BY <1>2, <2>3, <3>2 DEF InOrder
    <3> QED BY <1>1, <3>3, EnqueuedFacts, LaunchPrecedes
  <2>4. CASE Uses(stream, r, i, v) /\ t = s /\ j = p /\ o.event = Written(w)
    <3>1. buf[v].cell = buf'[w].cell BY <2>4, LaunchOld
    <3> QED BY <2>4, <3>1 DEF Launch, WritesBehind
  <2>5. CASE r = s /\ i = p /\ t = s /\ j = p BY <1>1, <2>5, PrecedesSame
  <2>6. CASE r = s /\ i = p /\ TakesPart(o, v) /\ At(stream, Written(w), t, j)
    <3>1. Uses(stream, t, j, w) BY <2>6 DEF Uses
    <3>2. Made(w) /\ buf'[w].cell = buf[w].cell BY <3>1, LaunchOld
    <3>3. CASE o.event = Written(v)
      <4>1. Precedes(stream', t, j, s, p) BY <3>1, <3>2, <3>3 DEF Launch, WritesBehind
      <4>2. At(stream', Written(v), s, p) BY <1>1, <3>3, EnqueuedFacts
      <4> QED BY <1>1, <4>1, <4>2
    <3>4. CASE o.event # Written(v)
      <4>1. PICK m \in o.reads : m.val = v BY <2>6, <3>4 DEF TakesPart
      <4>2. ReadsBehind(s, p, v) BY <4>1, LaunchFacts
      <4>3. Holder(v) /\ Recorded(Written(v)) BY <4>2 DEF ReadsBehind
      <4>4. Made(v) BY <1>1, <4>3, HolderFacts, InvFacts
      <4>5. SameCell(w, v) BY <1>1, <3>2, <4>4 DEF SameCell, FixedBuffers
      <4>6. WriteFollows(v) BY <1>1 DEF OrderInv, HoldersFollow
      <4>7. PICK x \in Streams, k \in Nat :
              At(stream, Written(v), x, k) /\ Precedes(stream, t, j, x, k)
        BY <3>1, <4>3, <4>5, <4>6 DEF WriteFollows
      <4> QED BY <1>1, <4>7, EnqueuedFacts, LaunchPrecedes
    <3> QED BY <3>3, <3>4
  <2> QED BY <2>1, <2>2, <2>3, <2>4, <2>5, <2>6
<1> QED BY <1>3, <1>4, <1>5 DEF UsesFollow

LEMMA LaunchHolders ==
  ASSUME NEW s, NEW p, NEW o, Launch(s, p, o), \A b \in Buffers : HolderFits(b)'
  PROVE  HoldersFollow' /\ JobsFollow'
<1>1. /\ OrderInv /\ Enqueued(s, p, o) /\ s \in Streams /\ p \in Nat /\ mem' = mem /\ FixedBuffers
      /\ EventSet(o.event, s) /\ DeviceInv
  BY LaunchFacts
<1>2. \A b \in Buffers : WriteArrives(b) /\ WriteFollows(b) BY <1>1 DEF OrderInv, HoldersFollow
<1>3. ASSUME NEW b \in Buffers, Holder(b)', (Recorded(Written(b)))', o.event # Written(b)
      PROVE  Holder(b) /\ Recorded(Written(b)) /\ Made(b) /\ buf'[b].cell = buf[b].cell
  <2>1. Holder(b) BY <1>3 DEF Launch
  <2>2. Recorded(Written(b))
    BY <1>1, <1>3, EventNames DEF EventSet, Recorded, Written
  <2>3. Made(b) BY <1>1, <2>1, HolderFacts, InvFacts
  <2> QED BY <1>1, <2>1, <2>2, <2>3 DEF FixedBuffers
<1>4. ASSUME NEW b \in Buffers, Holder(b)', (Recorded(Written(b)))'
      PROVE  \/ \E r \in Streams, j \in Nat : At(stream', Written(b), r, j)
             \/ mem[buf'[b].cell] = b
  <2>1. CASE o.event = Written(b) BY <1>1, <2>1, EnqueuedFacts
  <2>2. CASE o.event # Written(b)
    BY <1>1, <1>2, <1>3, <1>4, <2>2, EnqueuedFacts DEF WriteArrives
  <2> QED BY <2>1, <2>2
<1>5. ASSUME NEW b \in Buffers, Holder(b)', (Recorded(Written(b)))', NEW r \in Streams, NEW i \in Nat,
             NEW v \in Buffers, Uses(stream', r, i, v), v # b, buf'[v].cell = buf'[b].cell
      PROVE  \E t \in Streams, j \in Nat :
               At(stream', Written(b), t, j) /\ Precedes(stream', r, i, t, j)
  <2>1. Uses(stream, r, i, v) \/ (r = s /\ i = p /\ TakesPart(o, v)) BY <1>1, <1>5, EnqueuedFacts
  <2>2. CASE o.event = Written(b)
    <3>1. At(stream', Written(b), s, p) BY <1>1, <2>2, EnqueuedFacts
    <3>2. Precedes(stream', r, i, s, p)
      <4>1. CASE r = s /\ i = p BY <1>1, <4>1, PrecedesSame
      <4>2. CASE Uses(stream, r, i, v)
        <5>1. buf[v].cell = buf'[b].cell BY <1>5, <4>2, LaunchOld
        <5> QED BY <1>5, <2>2, <4>2, <5>1 DEF Launch, WritesBehind
      <4> QED BY <2>1, <4>1, <4>2
    <3> QED BY <1>1, <3>1, <3>2
  <2>3. CASE o.event # Written(b)
    <3>1. ~(r = s /\ i = p /\ TakesPart(o, v)) BY <1>5, <2>3, LaunchOthers
    <3>2. Uses(stream, r, i, v) BY <2>1, <3>1
    <3>3. Holder(b) /\ Recorded(Written(b)) /\ buf'[b].cell = buf[b].cell BY <1>3, <1>5, <2>3
    <3>4. SameCell(v, b) BY <1>5, <3>2, <3>3, LaunchOld DEF SameCell
    <3>5. PICK t \in Streams, j \in Nat :
            At(stream, Written(b), t, j) /\ Precedes(stream, r, i, t, j)
      BY <1>2, <3>2, <3>3, <3>4 DEF WriteFollows
    <3> QED BY <1>1, <3>5, EnqueuedFacts, LaunchPrecedes
  <2> QED BY <2>2, <2>3
<1>6. HoldersFollow'
  BY <1>1, <1>4, <1>5 DEF HoldersFollow, WriteArrives, WriteFollows, SameCell, Written
<1>7. ASSUME NEW j \in Jobs', j[1] # "d2h", NEW r \in Streams, NEW i \in Nat, NEW v \in Buffers,
             Uses(stream', r, i, v), v # j[2], buf'[v].cell = buf'[j[2]].cell
      PROVE  BeforeEnd(stream', r, i, (JobStream(j))')
  <2>1. j \in Jobs BY DEF Launch
  <2>2. /\ j[2] \in Buffers /\ j[3] \in Buffers /\ Made(j[2]) /\ Made(j[3]) /\ JobStream(j) \in Streams
    BY <1>1, <2>1, JobFacts
  <2>3. (JobStream(j))' = JobStream(j) BY <1>1, <2>2 DEF JobStream, FixedBuffers
  <2>4. Holder(j[2])' BY DEF Holder
  <2>5. CASE Uses(stream, r, i, v)
    <3>1. SameCell(v, j[2]) BY <1>1, <1>7, <2>2, <2>5, LaunchOld DEF SameCell, FixedBuffers
    <3>2. JobFollows(j) BY <1>1, <2>1, InvFacts
    <3>3. BeforeEnd(stream, r, i, JobStream(j)) BY <1>7, <2>5, <3>1, <3>2 DEF JobFollows
    <3> QED BY <2>2, <2>3, <3>3, LaunchPrecedes
  <2>6. CASE r = s /\ i = p /\ TakesPart(o, v)
    <3>1. CASE o.event = Written(j[2])
      <4>1. JobEvent(j) = Written(j[2]) BY <1>7 DEF JobEvent
      <4> QED BY <3>1, <4>1 DEF Launch
    <3>2. CASE o.event # Written(j[2]) BY <1>7, <2>2, <2>4, <2>6, <3>2, LaunchOthers
    <3> QED BY <3>1, <3>2
  <2> QED BY <1>1, <1>7, <2>5, <2>6, EnqueuedFacts
<1>8. JobsFollow'
  <2>1. ASSUME NEW j \in Jobs' PROVE JobFollows(j)'
    BY <1>7 DEF JobFollows, SameCell
  <2> QED BY <2>1 DEF JobsFollow
<1> QED BY <1>6, <1>8

LEMMA LaunchCovered ==
  ASSUME NEW s, NEW p, NEW o, Launch(s, p, o)
  PROVE  UsesCovered'
<1>1. OrderInv /\ Enqueued(s, p, o) /\ s \in Streams /\ p \in Nat BY LaunchFacts
<1> SUFFICES ASSUME NEW b \in Buffers, Active(b)', NEW r \in Streams, NEW i \in Nat,
                    Uses(stream', r, i, b)
             PROVE  CoveredByUsage(r, i, b)' \/ CoveredByCall(r, i, b)'
  BY DEF UsesCovered, UsagesCover
<1>2. CASE r = s /\ i = p /\ TakesPart(o, b) BY <1>2 DEF Launch, PartFits
<1>3. CASE Uses(stream, r, i, b)
  <2>1. o.event # Written(b) BY <1>3, LaunchOld
  <2>2. Active(b) /\ StillCovers(b) BY <2>1 DEF Launch
  <2>3. CoveredByUsage(r, i, b) \/ CoveredByCall(r, i, b)
    BY <1>1, <1>3, <2>2 DEF OrderInv, UsesCovered, UsagesCover
  <2>4. CASE CoveredByUsage(r, i, b)
    <3>1. PICK e \in UsageEvents(b), t \in Streams, k \in Nat :
            At(stream, e, t, k) /\ Precedes(stream, r, i, t, k)
      BY <2>4 DEF CoveredByUsage
    <3>2. Precedes(stream', r, i, t, k) BY <3>1, LaunchPrecedes
    <3> QED BY <2>2, <3>1, <3>2 DEF StillCovers
  <2>5. CASE CoveredByCall(r, i, b)
    <3>1. PICK x \in Buffers : /\ call[x].op = "copy" /\ (b = x \/ b \in call[x].ins)
                               /\ At(stream, Written(x), r, i)
      BY <2>5 DEF CoveredByCall
    <3>2. call'[x] = call[x] BY <3>1 DEF Launch
    <3>3. At(stream', Written(x), r, i) BY <1>1, <3>1, EnqueuedFacts
    <3> QED BY <3>1, <3>2, <3>3 DEF CoveredByCall, Written
  <2> QED BY <2>3, <2>4, <2>5
<1> QED BY <1>1, <1>2, <1>3, EnqueuedFacts

(* What precedes the access is kept by what keeps the access.               *)
LEMMA KeptThen ==
  ASSUME NEW s \in Streams, NEW p, NEW r \in Streams, NEW i, Precedes(stream', r, i, s, p), NEW c
  PROVE  /\ KeptByCallback(s, p, c)' => KeptByCallback(r, i, c)'
         /\ c[1] \in Devices /\ KeptByCompute(s, p, c)' => KeptByCompute(r, i, c)'
<1>1. ASSUME KeptByCallback(s, p, c)' PROVE KeptByCallback(r, i, c)'
  <2>1. PICK t \in Streams, j \in Nat :
          j \in DOMAIN stream'[t] /\ Gives(stream[t][j], c)' /\ Precedes(stream', s, p, t, j)
    BY <1>1 DEF KeptByCallback
  <2>2. Precedes(stream', r, i, t, j) BY <2>1, PrecedesThen
  <2> QED BY <2>1, <2>2 DEF KeptByCallback
<1>2. ASSUME c[1] \in Devices, KeptByCompute(s, p, c)' PROVE KeptByCompute(r, i, c)'
  <2>1. <<"compute", c[1]>> \in Streams BY <1>2, NameFacts
  <2>2. Precedes(stream', s, p, <<"compute", c[1]>>, Len(stream'[<<"compute", c[1]>>]))
    BY <1>2 DEF KeptByCompute, BeforeEnd
  <2>3. Precedes(stream', r, i, <<"compute", c[1]>>, Len(stream'[<<"compute", c[1]>>]))
    BY <2>1, <2>2, PrecedesThen
  <2> QED BY <2>3 DEF KeptByCompute, BeforeEnd
<1> QED BY <1>1, <1>2

LEMMA LaunchKept ==
  ASSUME NEW s, NEW p, NEW o, Launch(s, p, o)
  PROVE  UsesKept'
<1>1. /\ OrderInv /\ Enqueued(s, p, o) /\ s \in Streams /\ p \in Nat /\ FixedBuffers /\ DeviceInv
      /\ Longer(stream, stream') /\ pool' = pool /\ stream \in Queues
  BY LaunchFacts
<1> SUFFICES ASSUME NEW r \in Streams, NEW i \in Nat, NEW w \in Buffers, Uses(stream', r, i, w),
                    Model # "kAsynchronous"
             PROVE  UseKept(r, i, w)'
  BY DEF UsesKept, UseKept
<1>2. CASE r = s /\ i = p /\ TakesPart(o, w) BY <1>2 DEF Launch, PartFits
<1>3. CASE Uses(stream, r, i, w)
  <2>1. /\ Made(w) /\ buf'[w].cell = buf[w].cell BY <1>3, LaunchOld
  <2>2. PICK c : c = buf[w].cell OBVIOUS
  <2>3. c[1] \in Devices
    <3>1. buf[w].cell \in Cells BY <1>1, <2>1, MadeFacts DEF DeviceInv
    <3> QED BY <2>2, <3>1 DEF Cells
  <2>4. SUFFICES \/ KeptByCallback(r, i, c)'
                 \/ Model = "kComputeSynchronized" /\ KeptByCompute(r, i, c)'
                 \/ Model = "kComputeSynchronized" /\ KeptByPool(r, i, c)'
                 \/ Model = "kComputeSynchronized" /\ KeptByUsage(r, i, w)'
    <3>1. buf'[w].cell = c BY <2>1, <2>2
    <3>2. /\ KeptByCallback(r, i, c)' => KeptByCallback(r, i, buf[w].cell)'
          /\ KeptByCompute(r, i, c)' => KeptByCompute(r, i, buf[w].cell)'
          /\ KeptByPool(r, i, c)' => KeptByPool(r, i, buf[w].cell)'
      BY <3>1 DEF KeptByCallback, KeptByCompute, KeptByPool, Gives
    <3> QED BY <2>4, <3>2 DEF UseKept
  <2>5. CASE \E b \in Buffers : buf[b].owns /\ ~buf'[b].owns /\ buf[b].cell = c
    <3>1. PICK b \in Buffers : buf[b].owns /\ ~buf'[b].owns /\ buf[b].cell = c BY <2>5
    <3>2. GivesAway(s, p, b) BY <3>1 DEF Launch
    <3>3. Precedes(stream', r, i, s, p) BY <1>3, <2>2, <3>1, <3>2 DEF GivesAway
    <3>4. Made(b) BY <1>1, <3>1, OwnsMade
    <3>5. \/ KeptByCallback(s, p, buf[b].cell)'
          \/ Model = "kComputeSynchronized" /\ KeptByCompute(s, p, buf[b].cell)'
      BY <3>2 DEF GivesAway
    <3>6. buf'[b].cell = c BY <1>1, <3>1, <3>4 DEF FixedBuffers
    <3>7. \/ KeptByCallback(s, p, c)'
          \/ Model = "kComputeSynchronized" /\ KeptByCompute(s, p, c)'
      BY <3>5, <3>6 DEF KeptByCallback, KeptByCompute, Gives
    <3> QED BY <1>1, <2>3, <3>3, <3>7, KeptThen
  <2>6. CASE \A b \in Buffers : buf[b].owns /\ buf[b].cell = c => buf'[b].owns
    <3>1. \A b \in Buffers : buf[b].owns /\ buf[b].cell = c => buf'[b].owns /\ buf'[b].cell = c
      BY <1>1, <2>6, OwnsMade DEF FixedBuffers
    <3>2. ASSUME KeptByCallback(r, i, c) PROVE KeptByCallback(r, i, c)'
      <4>1. PICK t \in Streams, j \in Nat : /\ j \in DOMAIN stream[t] /\ Gives(stream[t][j], c)
                                            /\ Precedes(stream, r, i, t, j)
        BY <3>2 DEF KeptByCallback
      <4>2. j \in DOMAIN stream'[t] /\ stream'[t][j] = stream[t][j] BY <1>1, <4>1, LongerAt
      <4>3. stream[t][j] \in StreamOp BY <1>1, <4>1, PlaceFacts
      <4>4. stream[t][j].op = "callback" BY <4>1 DEF Gives
      <4>5. stream[t][j].drops \in SUBSET Buffers BY <4>3, <4>4, OpFacts
      <4>6. Gives(stream[t][j], c)' BY <3>1, <4>1, <4>2, <4>5 DEF Gives
      <4>7. Precedes(stream', r, i, t, j) BY <4>1, LaunchPrecedes
      <4> QED BY <4>2, <4>6, <4>7 DEF KeptByCallback
    <3>3. ASSUME KeptByPool(r, i, c) PROVE KeptByPool(r, i, c)'
      <4>1. PICK y \in pool, t \in Streams, k \in Nat :
              /\ y.op = "release" /\ buf[y.buf].owns /\ buf[y.buf].cell = c
              /\ \E e \in y.events : At(stream, e, t, k)
              /\ Precedes(stream, r, i, t, k)
        BY <3>3 DEF KeptByPool
      <4>2. PICK e \in y.events : At(stream, e, t, k) BY <4>1
      <4>3. y.buf \in Buffers BY <1>1 DEF DeviceInv, Typed, PoolTyped, Wait
      <4>4. At(stream', e, t, k) BY <1>1, <4>2, LongerAt
      <4>5. Precedes(stream', r, i, t, k) BY <4>1, LaunchPrecedes
      <4>6. buf'[y.buf].owns /\ buf'[y.buf].cell = c BY <3>1, <4>1, <4>3
      <4>7. y \in pool' BY <1>1
      <4> QED BY <4>1, <4>2, <4>4, <4>5, <4>6, <4>7 DEF KeptByPool
    <3>4. ASSUME KeptByCompute(r, i, c) PROVE KeptByCompute(r, i, c)'
      <4>1. <<"compute", c[1]>> \in Streams BY <2>3, NameFacts
      <4> QED BY <3>4, <4>1, LaunchPrecedes DEF KeptByCompute
    <3>5. ASSUME KeptByUsage(r, i, w) PROVE KeptByUsage(r, i, w)'
      <4>1. Holder(w) BY <3>5 DEF KeptByUsage, Holder
      <4>2. buf[w].owns BY <1>1, <4>1, InvFacts, HolderFacts
      <4>3. buf'[w].owns BY <2>2, <3>1, <4>2
      <4> QED BY <3>5, <4>3 DEF Launch
    <3>6. UseKept(r, i, w) BY <1>1 DEF OrderInv, UsesKept
    <3>7. \/ KeptByCallback(r, i, c)
          \/ /\ Model = "kComputeSynchronized"
             /\ KeptByCompute(r, i, c) \/ KeptByPool(r, i, c) \/ KeptByUsage(r, i, w)
      BY <1>3, <2>2, <3>6 DEF UseKept
    <3> QED BY <3>2, <3>3, <3>4, <3>5, <3>7
  <2> QED BY <2>5, <2>6
<1> QED BY <1>1, <1>2, <1>3, EnqueuedFacts

LEMMA LaunchOut ==
  ASSUME NEW s, NEW p, NEW o, Launch(s, p, o), \A x \in Buffers : HolderFits(x)'
  PROVE  OutIsQuiet'
<1>1. /\ OrderInv /\ Enqueued(s, p, o) /\ s \in Streams /\ p \in Nat /\ FixedBuffers /\ DeviceInv
      /\ EvStep({o.event}) /\ EventSet(o.event, s)
  BY LaunchFacts
<1> SUFFICES ASSUME NEW b \in Buffers, Model # "kComputeSynchronized" PROVE HandedOut(b)'
  BY DEF OutIsQuiet, HandedOut
<1>2. HandedOut(b) BY <1>1 DEF OrderInv, OutIsQuiet
<1>3. Written(b) \in Events /\ (Written(b))' = Written(b) BY EventNames DEF Written
<1>4. o.event = Written(b) => ~Out(b)'
  <2> SUFFICES ASSUME o.event = Written(b) PROVE ~Out(b)' OBVIOUS
  <2>1. ev'[Written(b)].status = "ok" BY <1>1 DEF EventSet
  <2>2. TakesPart(o, b) BY DEF TakesPart
  <2>3. buf'[b].st # "external" BY <2>2 DEF Launch, PartFits
  <2> QED BY <1>3, <2>1, <2>3 DEF Out
<1>5. ASSUME o.event # Written(b)
      PROVE  /\ ev'[Written(b)].seq = ev[Written(b)].seq
             /\ ev'[Written(b)].status = ev[Written(b)].status
  BY <1>1, <1>3, <1>5 DEF EvStep
<1>6. Out(b)' => Out(b) /\ o.event # Written(b)
  <2> SUFFICES ASSUME Out(b)' PROVE Out(b) /\ o.event # Written(b) OBVIOUS
  <2>1. o.event # Written(b) BY <1>4
  <2>2. /\ Active(b)' => Active(b)
        /\ buf'[b].st = "external" => buf[b].st = "external"
    BY <2>1 DEF Launch
  <2> QED BY <1>3, <1>5, <2>1, <2>2 DEF Out
<1>7. ASSUME buf'[b].st = "external"
      PROVE  /\ (Recorded(Written(b)))' \/ ev'[Written(b)].status = "error"
             /\ \A j \in Jobs' : j[2] # b
  <2>1. Out(b)' BY <1>7 DEF Out
  <2>2. o.event # Written(b) BY <1>6, <2>1
  <2>3. buf[b].st = "external" BY <1>7, <2>2 DEF Launch
  <2>4. Recorded(Written(b)) \/ ev[Written(b)].status = "error" BY <1>2, <2>3 DEF HandedOut
  <2>5. \A j \in Jobs : j[2] # b BY <1>2, <2>3 DEF HandedOut
  <2>6. Jobs' \subseteq Jobs BY DEF Launch
  <2> QED BY <1>3, <1>5, <2>2, <2>4, <2>5, <2>6 DEF Recorded
<1>8. ASSUME Out(b)', NEW r \in Streams, NEW i \in Nat, NEW w \in Buffers, Uses(stream', r, i, w)
      PROVE  buf'[w].cell # buf'[b].cell
  <2>1. Out(b) /\ o.event # Written(b) BY <1>6, <1>8
  <2>2. Holder(b) /\ Holder(b)' BY <1>8, <2>1 DEF Out, Holder
  <2>3. Made(b) BY <1>1, <2>2, HolderFacts, InvFacts
  <2>4. buf'[b].cell = buf[b].cell BY <1>1, <2>3 DEF FixedBuffers
  <2>5. CASE Uses(stream, r, i, w)
    <3>1. buf[w].cell # buf[b].cell BY <1>2, <2>1, <2>5 DEF HandedOut
    <3> QED BY <2>4, <2>5, <3>1, LaunchOld
  <2>6. CASE r = s /\ i = p /\ TakesPart(o, w)
    <3>1. CASE w = b
      <4>1. PICK m \in o.reads : m.val = b BY <2>1, <2>6, <3>1 DEF TakesPart
      <4>2. ReadsBehind(s, p, b) BY <4>1, LaunchFacts
      <4>3. Recorded(Written(b)) BY <4>2 DEF ReadsBehind
      <4>4. ev[Written(b)].status = "ok" BY <1>1, <1>3, <4>3, InvFacts DEF EventFits
      <4>5. buf'[b].st = "external" BY <1>3, <1>5, <1>8, <2>1, <4>4 DEF Out
      <4>6. buf'[b].st # "external" BY <2>6, <3>1 DEF Launch, PartFits
      <4> QED BY <4>5, <4>6
    <3>2. CASE w # b BY <2>1, <2>2, <2>6, <3>2, LaunchOthers
    <3> QED BY <3>1, <3>2
  <2> QED BY <1>1, <1>8, <2>5, <2>6, EnqueuedFacts
<1> QED BY <1>3, <1>7, <1>8 DEF HandedOut

-----------------------------------------------------------------------------
(* The event of the access is set, and the waits before it are remembered.  *)
SetsEvent(s, E, e0) == ev' = SetSequencingEvent(DefinedOn(s, E), e0, s)

Remembers(s, E, e0) ==
  \A e \in Events : e # e0 => /\ ev'[e].on \subseteq ev[e].on \cup {s}
                              /\ s \in ev'[e].on /\ s \notin ev[e].on => e \in E

LEMMA RecordFacts ==
  ASSUME OrderInv, FixedBuffers, NEW s \in Streams, NEW E \in SUBSET Events, \A e \in E : Recorded(e),
         NEW e0 \in Events, ev[e0].status = "none", e0[1] # "joined", buf'[e0[2]].st # "unborn",
         SetsEvent(s, E, e0)
  PROVE  EventSet(e0, s) /\ EvStep({e0}) /\ Remembers(s, E, e0)
<1>1. EvTyped BY InvFacts DEF DeviceInv, Typed
<1>2. PICK evs : evs = DefinedOn(s, E) OBVIOUS
<1>3. evs \in [Events -> Event] BY <1>1, <1>2, DefinedOnFacts
<1>4. ASSUME NEW e \in Events
      PROVE  /\ evs[e].seq = ev[e].seq /\ evs[e].stream = ev[e].stream
             /\ evs[e].status = ev[e].status /\ evs[e].done = ev[e].done
             /\ evs[e].on \subseteq ev[e].on \cup {s} /\ (e \notin E => evs[e] = ev[e])
  BY <1>2, DefinedFacts
<1>5. NumberSet(evs, s) = NumberSet(ev, s) BY <1>4 DEF NumberSet
<1>6. SequenceNumber(evs, s) = SequenceNumber(ev, s) BY <1>5, NumberFacts
<1>7. PICK n : n = SequenceNumber(evs, s) OBVIOUS
<1>8. ev' = [evs EXCEPT ![e0] = [seq |-> n, stream |-> s, status |-> "ok", on |-> {s}, done |-> FALSE]]
  BY <1>2, <1>7 DEF SetsEvent, SetSequencingEvent
<1>9. ev'[e0] = [seq |-> n, stream |-> s, status |-> "ok", on |-> {s}, done |-> FALSE]
  BY <1>3, <1>8
<1>10. /\ ev'[e0].seq = SequenceNumber(ev, s) /\ ev'[e0].stream = s /\ ev'[e0].status = "ok"
       /\ ev'[e0].on = {s} /\ ~ev'[e0].done
  BY <1>6, <1>7, <1>9
<1>11. \A e \in Events : e # e0 => ev'[e] = evs[e] BY <1>3, <1>8
<1>12. ASSUME NEW e \in Events, buf'[e[2]].st = "unborn" PROVE e \notin E
  <2>1. e[2] \in Buffers BY EventNames
  <2>2. buf[e[2]].st = "unborn" BY <1>12, <2>1 DEF FixedBuffers
  <2>3. ev[e] = NotSet BY <2>2, InvFacts DEF EventFits
  <2> QED BY <2>3 DEF Recorded, NotSet
<1> HIDE DEF SetsEvent
<1>13. EventSet(e0, s) BY <1>4, <1>10, <1>11, <1>12 DEF EventSet
<1>14. EvStep({e0}) BY <1>4, <1>10, <1>11 DEF EvStep
<1>15. Remembers(s, E, e0) BY <1>4, <1>11 DEF Remembers
<1> QED BY <1>13, <1>14, <1>15

(* What is common to all steps that enqueue an access.                      *)
Emits(s, p, o) ==
  /\ OrderInv /\ DeviceInv' /\ FixedBuffers /\ Enqueued(s, p, o) /\ EventSet(o.event, s)
  /\ EvStep({o.event})
  /\ \A m \in o.reads : m.val \in Buffers /\ Recorded(Written(m.val))
  /\ \A b \in Buffers : \A x \in Usage(b) : x.event = o.event => x.stream = s

LEMMA EmitsEvents ==
  ASSUME NEW s, NEW p, NEW o, Emits(s, p, o)
  PROVE  /\ EventsFit' /\ (\A e \in Events : NumberFits(e)') /\ NumbersGrow'
         /\ GrowIn(stream', ev') /\ stream' \in Queues
<1>1. /\ OrderInv /\ DeviceInv' /\ FixedBuffers /\ Enqueued(s, p, o) /\ EventSet(o.event, s)
      /\ \A m \in o.reads : m.val \in Buffers /\ Recorded(Written(m.val))
  BY DEF Emits
<1>2. stream \in Queues BY <1>1, InvFacts
<1>3. stream' \in Queues BY <1>1 DEF Enqueued, Longer
<1>4. PlaceAdded(o.event, s, p) BY <1>1, <1>2, EnqueuedPlace
<1>5. \A r \in Streams, i \in Nat, v \in Buffers :
        Reads(stream', r, i, v) => Reads(stream, r, i, v) \/ Recorded(Written(v))
  BY <1>1, EnqueuedFacts
<1>6. EventsFit' /\ (\A e \in Events : NumberFits(e)') /\ NumbersGrow'
  BY <1>1, <1>4, <1>5, SetEvents
<1>7. \A e \in Events : ev'[e].seq \in Nat BY <1>1 DEF DeviceInv, Typed, EvTyped, Event
<1>8. \A e \in Events, r \in Streams, i \in Nat :
        At(stream', e, r, i) /\ e[1] # "joined" => ev'[e].seq > 0 /\ ev'[e].stream = r
  BY <1>6 DEF EventsFit, PlaceFits, Recorded
<1>9. GrowIn(stream', ev') BY <1>6, <1>7, <1>8 DEF GrowIn, NumbersGrow, Recorded
<1> QED BY <1>3, <1>6, <1>9

LEMMA EmitsOn ==
  ASSUME NEW s, NEW p, NEW o, Emits(s, p, o), NEW E \in SUBSET Events, Remembers(s, E, o.event),
         \A e \in E, r \in Streams, i \in Nat : At(stream, e, r, i) => Precedes(stream', r, i, s, p)
  PROVE  OnFits'
<1>1. /\ OrderInv /\ DeviceInv' /\ Enqueued(s, p, o) /\ EventSet(o.event, s) BY DEF Emits
<1>2. stream \in Queues /\ stream' \in Queues BY <1>1, InvFacts DEF Enqueued, Longer
<1>3. PlaceAdded(o.event, s, p) BY <1>1, <1>2, EnqueuedPlace
<1>4. p \in DOMAIN stream'[s] /\ s \in Streams BY <1>1 DEF Enqueued
<1>5. ASSUME NEW e \in Events, NEW r \in Streams, NEW i \in Nat, e # o.event,
             s \in ev'[e].on, s \notin ev[e].on, At(stream, e, r, i)
      PROVE  BeforeEnd(stream', r, i, s)
  <2>1. e \in E BY <1>5 DEF Remembers
  <2>2. Precedes(stream', r, i, s, p) BY <1>5, <2>1
  <2> QED BY <1>2, <1>4, <2>2, AtBeforeEnd
<1>6. \A e \in Events : e # o.event => ev'[e].on \subseteq ev[e].on \cup {s} BY DEF Remembers
<1> QED BY <1>1, <1>3, <1>5, <1>6, SetOn

(* The usage event of the access may be added to those of a buffer.         *)
Adds(b, s, e, h) == Merged(ev', Usage(b), Usage(b)', UsageOf(s, e, h))
UsageGrows(b, s, e) ==
  \/ Usage(b)' = Usage(b)
  \/ e[1] = "written" /\ \E h \in BOOLEAN : Adds(b, s, e, h) /\ (s[1] = "h2d" /\ h => Retain)

LEMMA AddsFacts ==
  ASSUME NEW s, NEW p, NEW o, Emits(s, p, o), NEW b \in Buffers, NEW h \in BOOLEAN, Adds(b, s, o.event, h)
  PROVE  CoveredByUsage(s, p, b)' /\ StillCovers(b)
<1>1. /\ OrderInv /\ DeviceInv' /\ FixedBuffers /\ Enqueued(s, p, o) /\ EventSet(o.event, s)
      /\ EvStep({o.event}) /\ \A x \in Usage(b) : x.event = o.event => x.stream = s
  BY DEF Emits
<1>2. /\ s \in Streams /\ p \in Nat /\ Longer(stream, stream') BY <1>1 DEF Enqueued
<1>3. GrowIn(stream', ev') /\ stream' \in Queues BY EmitsEvents
<1>4. PICK new : new = UsageOf(s, o.event, h) OBVIOUS
<1>5. new.event = o.event /\ new.stream = s BY <1>4 DEF UsageOf
<1>6. Usage(b) \subseteq UsageEvent BY <1>1, UsageFacts, InvFacts
<1>7. ASSUME NEW y \in Usage(b) \cup {new}
      PROVE  /\ y.event \in Events /\ y.event[1] # "joined"
             /\ ev'[y.event].seq > 0 => ev'[y.event].stream = y.stream
  <2>1. CASE y.event = o.event
    <3>1. y.stream = s BY <1>1, <1>5, <2>1
    <3> QED BY <1>1, <2>1, <3>1 DEF EventSet
  <2>2. CASE y.event # o.event
    <3>1. y \in Usage(b) BY <1>5, <2>2
    <3>2. UsageFits(y) /\ y.event \in Events BY <1>1, <1>6, <3>1, InvFacts DEF UsageEvent
    <3>3. y.event[1] # "joined" BY <3>2 DEF UsageFits
    <3>4. ev'[y.event].seq = ev[y.event].seq /\ ev'[y.event].stream = ev[y.event].stream
      BY <1>1, <2>2, <3>2 DEF EvStep
    <3> QED BY <3>2, <3>3, <3>4 DEF UsageFits, Recorded
  <2> QED BY <2>1, <2>2
<1>8. Merged(ev', Usage(b), Usage(b)', new) BY <1>4 DEF Adds
<1>9. ASSUME NEW x \in Usage(b) \cup {new}, NEW r \in Streams, NEW i \in Nat, NEW t \in Streams,
             NEW k \in Nat, At(stream', x.event, t, k), Precedes(stream', r, i, t, k)
      PROVE  CoveredByUsage(r, i, b)'
  <2>1. PICK U, U2, evs, q : U = Usage(b) /\ U2 = Usage(b)' /\ evs = ev' /\ q = stream' OBVIOUS
  <2>2. /\ q \in Queues /\ GrowIn(q, evs) /\ Merged(evs, U, U2, new) /\ x \in U \cup {new}
        /\ At(q, x.event, t, k) /\ Precedes(q, r, i, t, k)
    BY <1>3, <1>8, <1>9, <2>1
  <2>3. \A y \in U \cup {new} : /\ y.event \in Events /\ y.event[1] # "joined"
                                /\ evs[y.event].seq > 0 => evs[y.event].stream = y.stream
    BY <1>7, <2>1
  <2>4. \E y \in U2, j \in Nat : At(q, y.event, t, j) /\ Precedes(q, r, i, t, j)
    BY <2>2, <2>3, MergedCover
  <2>5. PICK y \in Usage(b)', j \in Nat : At(stream', y.event, t, j) /\ Precedes(stream', r, i, t, j)
    BY <2>1, <2>4
  <2>6. y.event \in (UsageEvents(b))' BY <2>5 DEF UsageEvents, Usage, Elems
  <2> QED BY <2>5, <2>6 DEF CoveredByUsage
<1>10. CoveredByUsage(s, p, b)'
  <2>1. At(stream', new.event, s, p) BY <1>1, <1>2, <1>5, EnqueuedFacts
  <2>2. Precedes(stream', s, p, s, p) BY <1>2, PrecedesSame
  <2> QED BY <1>2, <1>9, <2>1, <2>2
<1>11. StillCovers(b)
  <2> SUFFICES ASSUME NEW e \in UsageEvents(b), NEW t \in Streams, NEW k \in Nat, NEW r \in Streams,
                      NEW i \in Nat, At(stream, e, t, k), Precedes(stream', r, i, t, k)
               PROVE  CoveredByUsage(r, i, b)'
    BY DEF StillCovers
  <2>1. PICK x \in Usage(b) : x.event = e BY <1>1, UsageFacts, InvFacts
  <2>2. At(stream', x.event, t, k) BY <1>2, <2>1, LongerAt
  <2> QED BY <1>9, <2>1, <2>2
<1> QED BY <1>10, <1>11

LEMMA UsageGrowsFacts ==
  ASSUME NEW s, NEW p, NEW o, Emits(s, p, o), NEW b \in Buffers, UsageGrows(b, s, o.event)
  PROVE  /\ StillCovers(b)
         /\ \A e \in UsageEvents(b) : ~Recorded(e) => e \in (UsageEvents(b))'
         /\ \A x \in Usage(b)' : \/ x \in Usage(b)
                                 \/ /\ x.event = o.event /\ x.stream = s /\ o.event[1] = "written"
                                    /\ x.stream[1] = "h2d" /\ x.reference_held => Retain
         /\ \A t : Loose(b, t) /\ (t # s \/ (~Recorded(Written(b)) /\ o.event # Written(b))) =>
                     Loose(b, t)'
<1>1. /\ OrderInv /\ DeviceInv' /\ FixedBuffers /\ Enqueued(s, p, o) /\ EventSet(o.event, s)
      /\ EvStep({o.event}) /\ Longer(stream, stream')
  BY DEF Emits, Enqueued
<1>2. Usage(b) \subseteq UsageEvent /\ UsageEvents(b) = {x.event : x \in Usage(b)}
  BY <1>1, UsageFacts, InvFacts
<1>3. (UsageEvents(b))' = {x.event : x \in Usage(b)'} BY DEF UsageEvents, Usage, Elems
<1>4. CASE Usage(b)' = Usage(b)
  <2>1. (UsageEvents(b))' = UsageEvents(b) BY <1>2, <1>3, <1>4
  <2>2. StillCovers(b) BY <1>1, <2>1, LongerAt DEF StillCovers, CoveredByUsage
  <2>3. \A t : Loose(b, t) => Loose(b, t)' BY <1>4 DEF Loose, Written
  <2> QED BY <1>4, <2>1, <2>2, <2>3
<1>5. ASSUME o.event[1] = "written", NEW h \in BOOLEAN, Adds(b, s, o.event, h), s[1] = "h2d" /\ h => Retain
      PROVE  /\ StillCovers(b)
             /\ \A e \in UsageEvents(b) : ~Recorded(e) => e \in (UsageEvents(b))'
             /\ \A x \in Usage(b)' : \/ x \in Usage(b)
                                     \/ /\ x.event = o.event /\ x.stream = s /\ o.event[1] = "written"
                                        /\ x.stream[1] = "h2d" /\ x.reference_held => Retain
             /\ \A t : Loose(b, t) /\ (t # s \/ (~Recorded(Written(b)) /\ o.event # Written(b))) =>
                         Loose(b, t)'
  <2>1. StillCovers(b) BY <1>5, AddsFacts
  <2>2. PICK new : new = UsageOf(s, o.event, h) OBVIOUS
  <2>3. new.event = o.event /\ new.stream = s /\ new.reference_held = h BY <2>2 DEF UsageOf
  <2>4. Merged(ev', Usage(b), Usage(b)', new) BY <1>5, <2>2 DEF Adds
  <2>5. ASSUME NEW x \in Usage(b), ~Recorded(x.event), x.event # o.event PROVE x \in Usage(b)'
    <3>1. x.event \in Events BY <1>2 DEF UsageEvent
    <3>2. ev'[x.event].seq = ev[x.event].seq BY <1>1, <2>5, <3>1 DEF EvStep
    <3> QED BY <2>4, <2>5, <3>2 DEF Merged, Recorded
  <2>6. ASSUME NEW e \in UsageEvents(b), ~Recorded(e) PROVE e \in (UsageEvents(b))'
    <3>1. PICK x \in Usage(b) : x.event = e BY <1>2
    <3>2. CASE e = o.event
      <4>1. x \in Usage(b)' \/ new \in Usage(b)' BY <2>4, <3>1 DEF Merged
      <4> QED BY <1>3, <2>3, <3>1, <3>2, <4>1
    <3>3. CASE e # o.event BY <1>3, <2>5, <2>6, <3>1, <3>3
    <3> QED BY <3>2, <3>3
  <2>7. \A x \in Usage(b)' : x \in Usage(b) \/ x = new BY <2>4 DEF Merged
  <2>8. ASSUME NEW t, Loose(b, t), t # s \/ (~Recorded(Written(b)) /\ o.event # Written(b))
        PROVE  Loose(b, t)'
    <3>1. PICK x \in Usage(b) : x.event = Written(b) /\ x.stream = t /\ ~x.reference_held
      BY <2>8 DEF Loose
    <3>2. x \in Usage(b)'
      <4>1. CASE t # s BY <2>3, <2>4, <3>1, <4>1 DEF Merged
      <4>2. CASE t = s BY <2>5, <2>8, <3>1, <4>2
      <4> QED BY <4>1, <4>2
    <3> QED BY <3>1, <3>2 DEF Loose, Written
  <2>9. \A x \in Usage(b)' : \/ x \in Usage(b)
                             \/ /\ x.event = o.event /\ x.stream = s /\ o.event[1] = "written"
                                /\ x.stream[1] = "h2d" /\ x.reference_held => Retain
    BY <1>5, <2>3, <2>7
  <2> QED BY <2>1, <2>6, <2>8, <2>9
<1> QED BY <1>4, <1>5 DEF UsageGrows

(* The books after the step: a job is done, a call may end, who donated a   *)
(* buffer has no usage events left.                                         *)
BufferBooked(b, s, o) ==
  /\ ~Made(b) /\ (Made(b))' => ValueFits(b)'
  /\ o.event = <<"read", b>> => literal[b] # "none"
  /\ buf'[b].st = "making" => buf'[b].usage = <<>>
  /\ Holder(b)' => buf'[b].owns
  /\ Made(b) \/ o.event # Written(b) => (Active(b)' => Active(b))
  /\ UsageGrows(b, s, o.event) \/ (~Active(b)' /\ Usage(b)' = {})
  /\ call'[b] = call[b] \/ (call[b].op # "copy" /\ call'[b].op = "none")
  /\ call[b].op = "copy" /\ o.event = Written(b) =>
       \A a \in call[b].ins : s = <<"d2d", buf[a].dev>>

Booked(s, p, o, E) ==
  /\ Emits(s, p, o) /\ UNCHANGED <<mem, pool, ready, literal, dependency>> /\ OpFits(o)'
  /\ E \in SUBSET Events /\ Remembers(s, E, o.event)
  /\ \A e \in E, r \in Streams, i \in Nat : At(stream, e, r, i) => Precedes(stream', r, i, s, p)
  /\ OneTask' /\ Jobs' \subseteq Jobs
  /\ \A j \in Jobs : j \in Jobs' <=> JobEvent(j) # o.event
  /\ \A b \in Buffers : BufferBooked(b, s, o)
  /\ \A j \in Jobs' : Active(j[2]) => Active(j[2])' /\ UsageGrows(j[2], s, o.event)

LEMMA BookedValues ==
  ASSUME NEW s, NEW p, NEW o, NEW E, Booked(s, p, o, E)
  PROVE  ValuesFit' /\ PoolFits'
<1>1. Emits(s, p, o) /\ UNCHANGED <<pool, dependency>> /\ OpFits(o)' BY DEF Booked
<1>2. /\ OrderInv /\ FixedBuffers /\ Enqueued(s, p, o) /\ EvStep({o.event}) /\ EventSet(o.event, s)
  BY <1>1 DEF Emits
<1>3. Longer(stream, stream') BY <1>2 DEF Enqueued
<1>4. \A b \in Buffers : ~Made(b) /\ (Made(b))' => ValueFits(b)' BY DEF Booked, BufferBooked
<1>5. ASSUME NEW r \in Streams, NEW i \in Nat, i \in DOMAIN stream'[r], i \notin DOMAIN stream[r]
      PROVE  OpFits(stream[r][i])'
  <2>1. (r = s /\ i = p) \/ stream'[r][i].op \in {"wait", "callback"} BY <1>2, <1>5 DEF Enqueued
  <2>2. CASE r = s /\ i = p
    <3>1. stream'[r][i] = o BY <1>2, <2>2 DEF Enqueued
    <3> QED BY <1>1, <3>1 DEF OpFits, Made, Contents
  <2>3. CASE stream'[r][i].op \in {"wait", "callback"} BY <2>3 DEF OpFits
  <2> QED BY <2>1, <2>2, <2>3
<1>6. ValuesFit' BY <1>1, <1>2, <1>3, <1>4, <1>5, ValuesStay
<1>7. PoolFits'
  <2>1. ASSUME NEW y \in pool, y.op = "ready"
        PROVE  ev'[Written(y.buf)].done \/ Written(y.buf) \in y.events
    <3>1. y.buf \in Buffers BY <1>2, InvFacts DEF DeviceInv, Typed, PoolTyped, Wait
    <3>2. Written(y.buf) \in Events /\ Written(y.buf)[1] = "written" BY <3>1, EventNames
    <3>3. ev[Written(y.buf)].done \/ Written(y.buf) \in y.events
      BY <1>2, <2>1, InvFacts DEF PoolFits
    <3>4. CASE Written(y.buf) = o.event
      <4>1. ~ev[Written(y.buf)].done BY <1>2, <3>2, <3>4, UnsetFacts DEF EventSet
      <4> QED BY <3>3, <4>1
    <3>5. CASE Written(y.buf) # o.event BY <1>2, <3>2, <3>3, <3>5 DEF EvStep
    <3> QED BY <3>4, <3>5
  <2> QED BY <1>1, <2>1 DEF PoolFits, Written
<1> QED BY <1>6, <1>7

LEMMA BookedJobs ==
  ASSUME NEW s, NEW p, NEW o, NEW E, Booked(s, p, o, E)
  PROVE  JobsFit'
<1>1. /\ Emits(s, p, o) /\ UNCHANGED <<literal>> /\ OneTask' /\ Jobs' \subseteq Jobs
      /\ (\A j \in Jobs : j \in Jobs' <=> JobEvent(j) # o.event)
      /\ \A b \in Buffers : BufferBooked(b, s, o)
      /\ \A j \in Jobs' : Active(j[2]) => Active(j[2])' /\ UsageGrows(j[2], s, o.event)
  BY DEF Booked
<1>2. OrderInv /\ FixedBuffers /\ EvStep({o.event}) BY <1>1 DEF Emits
<1> SUFFICES ASSUME NEW j \in Jobs' PROVE JobFits(j)' BY <1>1 DEF JobsFit
<1>3. j \in Jobs /\ JobEvent(j) # o.event BY <1>1
<1>4. j[2] \in Buffers /\ j[3] \in Buffers /\ Made(j[2]) /\ Made(j[3]) BY <1>2, <1>3, JobFacts, InvFacts
<1>5. ASSUME NEW b \in Buffers, Made(b) PROVE UsageStays(b)
  <2>1. BufferBooked(b, s, o) BY <1>1
  <2>2. Active(b)' => Active(b) BY <1>5, <2>1 DEF BufferBooked
  <2>3. UsageGrows(b, s, o.event) \/ ~Active(b)' BY <2>1 DEF BufferBooked
  <2> QED BY <1>1, <2>2, <2>3, UsageGrowsFacts DEF UsageStays
<1>6. \A k \in Jobs' : JobEvent(k) = JobEvent(j) => k \in Jobs BY <1>1
<1>7. j[1] = "d2h" => literal'[j[2]] = literal[j[2]] /\ UsageStays(j[2]) BY <1>1, <1>4, <1>5
<1>8. ASSUME j[1] = "copy" PROVE CopyFits(j)'
  <2>1. call[j[2]].op = "copy" => call'[j[2]] = call[j[2]] BY <1>1, <1>4 DEF BufferBooked
  <2>2. UsageStays(j[3]) BY <1>4, <1>5
  <2>3. ASSUME Active(j[2]), Loose(j[2], JobStream(j))
        PROVE  Active(j[2])' /\ Loose(j[2], JobStream(j))'
    <3>1. Active(j[2])' /\ UsageGrows(j[2], s, o.event) BY <1>1, <2>3
    <3>2. JobEvent(j) = Written(j[2]) BY <1>8 DEF JobEvent
    <3>3. ev[JobEvent(j)].status = "none" /\ JobEvent(j) \in Events
      BY <1>2, <1>3, InvFacts, JobFacts DEF JobFits
    <3>4. ~Recorded(Written(j[2])) BY <1>2, <3>2, <3>3, UnsetFacts
    <3>5. PICK t : t = JobStream(j) OBVIOUS
    <3>6. Loose(j[2], t)' BY <1>1, <1>3, <1>4, <2>3, <3>1, <3>2, <3>4, <3>5, UsageGrowsFacts
    <3>7. (JobStream(j))' = JobStream(j) BY <1>2, <1>4 DEF JobStream, FixedBuffers
    <3> QED BY <3>1, <3>5, <3>6, <3>7 DEF Loose
  <2> QED BY <1>2, <1>3, <1>8, <2>1, <2>2, <2>3, CopyStays
<1>9. j[1] = "h2d" => Active(j[2])' BY <1>1, <1>2, <1>3, InvFacts DEF JobFits
<1>10. JobEvent(j) \notin {o.event} BY <1>3
<1> QED BY <1>2, <1>3, <1>6, <1>7, <1>8, <1>9, <1>10, JobStays

LEMMA BookedUsages ==
  ASSUME NEW s, NEW p, NEW o, NEW E, Booked(s, p, o, E)
  PROVE  UsagesFit'
<1>1. /\ Emits(s, p, o) /\ Jobs' \subseteq Jobs
      /\ (\A j \in Jobs : j \in Jobs' <=> JobEvent(j) # o.event)
      /\ \A b \in Buffers : BufferBooked(b, s, o)
  BY DEF Booked
<1>2. /\ OrderInv /\ FixedBuffers /\ EvStep({o.event}) /\ EventSet(o.event, s) /\ DeviceInv'
      /\ \A b \in Buffers : \A x \in Usage(b) : x.event = o.event => x.stream = s
  BY <1>1 DEF Emits
<1> SUFFICES ASSUME NEW b \in Buffers, NEW x \in Usage(b)' PROVE UsageFits(x)' BY DEF UsagesFit
<1>3. UsageGrows(b, s, o.event) BY <1>1 DEF BufferBooked
<1>4. \/ x \in Usage(b)
      \/ /\ x.event = o.event /\ x.stream = s /\ o.event[1] = "written"
         /\ x.stream[1] = "h2d" /\ x.reference_held => Retain
  BY <1>1, <1>3, UsageGrowsFacts
<1>5. ev'[o.event].stream = s /\ o.event \in Events BY <1>2 DEF EventSet
<1>6. CASE x \in Usage(b)
  <2>1. x.event \in {o.event} => x.stream = s BY <1>2, <1>6
  <2>2. x.event \in {o.event} /\ Recorded(x.event)' => ev'[x.event].stream = x.stream
    BY <1>5, <2>1
  <2>3. \A j \in Jobs' : j \in Jobs BY <1>1
  <2> QED BY <1>2, <1>6, <2>2, <2>3, UsageFitStays
<1>7. CASE x \notin Usage(b)
  <2>1. x.event = o.event /\ x.stream = s /\ o.event[1] = "written" BY <1>4, <1>7
  <2>2. o.event[2] \in Buffers /\ buf'[o.event[2]].st # "unborn"
    BY <1>2, <1>5, EventNames DEF EventSet
  <2>3. (OpFits(o))' /\ o.op = "access" BY <1>1 DEF Booked, Emits, Enqueued
  <2>4. (Made(o.event[2]))' BY <2>1, <2>3 DEF OpFits
  <2>5. \A j \in Jobs' : x.event # (JobEvent(j))' BY <1>1, <2>1 DEF JobEvent, Written
  <2> QED BY <1>4, <1>5, <1>7, <2>1, <2>4, <2>5 DEF UsageFits
<1> QED BY <1>6, <1>7

LEMMA BookedHolders ==
  ASSUME NEW s, NEW p, NEW o, NEW E, Booked(s, p, o, E)
  PROVE  \A b \in Buffers : ArgumentsFit(b)' /\ HolderFits(b)'
<1>1. /\ Emits(s, p, o) /\ Jobs' \subseteq Jobs /\ UNCHANGED <<ready, literal>>
      /\ (\A j \in Jobs : j \in Jobs' <=> JobEvent(j) # o.event)
      /\ \A b \in Buffers : BufferBooked(b, s, o)
  BY DEF Booked
<1>2. /\ OrderInv /\ FixedBuffers /\ EvStep({o.event}) /\ EventSet(o.event, s)
  BY <1>1 DEF Emits
<1>3. /\ ev'[o.event].stream = s /\ o.event \in Events /\ ev[o.event].status = "none"
      /\ o.event[1] # "joined"
  BY <1>2 DEF EventSet
<1> TAKE b \in Buffers
<1>4. BufferBooked(b, s, o) BY <1>1
<1>5. ArgumentsFit(b)'
  <2>1. CASE call'[b] = call[b]
    <3>1. \A j \in Jobs' : j[1] # "d2h" => j \in Jobs \/ ~Made(j[2]) BY <1>1
    <3>2. call[b].op = "copy" /\ Written(b) \in {o.event} /\ Recorded(Written(b))' =>
            \A a \in call[b].ins : ev'[Written(b)].stream = <<"d2d", buf[a].dev>>
      BY <1>3, <1>4 DEF BufferBooked
    <3> QED BY <1>2, <2>1, <3>1, <3>2, ArgumentsStay
  <2>2. CASE call'[b].op = "none" BY <2>2 DEF ArgumentsFit
  <2> QED BY <1>4, <2>1, <2>2 DEF BufferBooked
<1>6. HolderFits(b) BY <1>2, InvFacts
<1>7. /\ (Written(b))' = Written(b) /\ Written(b) \in Events /\ <<"read", b>> \in Events
      /\ \A j : (JobEvent(j))' = JobEvent(j)
  BY EventNames, NameFacts DEF JobEvent, Written
<1>8. Active(b)' => \/ (Recorded(Written(b)))' \/ ev'[Written(b)].status = "error"
                    \/ \E j \in Jobs' : JobEvent(j) = Written(b)
  <2> SUFFICES ASSUME Active(b)', o.event # Written(b)
               PROVE  \/ (Recorded(Written(b)))' \/ ev'[Written(b)].status = "error"
                      \/ \E j \in Jobs' : JobEvent(j) = Written(b)
    <3>1. o.event = Written(b) => (Recorded(Written(b)))'
      BY <1>2, <1>7, NumberFacts DEF EventSet, Recorded
    <3> QED BY <3>1
  <2>1. Active(b) BY <1>4 DEF BufferBooked
  <2>2. \/ Recorded(Written(b)) \/ ev[Written(b)].status = "error"
        \/ \E j \in Jobs : JobEvent(j) = Written(b)
    BY <1>6, <2>1 DEF HolderFits
  <2>3. ev'[Written(b)].seq = ev[Written(b)].seq /\ ev'[Written(b)].status = ev[Written(b)].status
    BY <1>2, <1>7 DEF EvStep
  <2> QED BY <1>1, <1>7, <2>2, <2>3 DEF Recorded
<1>9. literal'[b] = "none" => ev'[<<"read", b>>].status = "none"
  <2> SUFFICES ASSUME literal[b] = "none" PROVE ev'[<<"read", b>>].status = "none" BY <1>1
  <2>1. o.event # <<"read", b>> BY <1>4 DEF BufferBooked
  <2> QED BY <1>2, <1>6, <1>7, <2>1 DEF HolderFits, EvStep
<1>10. ready'[b] = "ok" => ev'[Written(b)].done
  <2> SUFFICES ASSUME ready[b] = "ok" PROVE ev'[Written(b)].done BY <1>1
  <2>1. ev[Written(b)].done BY <1>6 DEF HolderFits
  <2>2. o.event # Written(b) BY <1>2, <1>3, <2>1, UnsetFacts
  <2> QED BY <1>2, <1>7, <2>1, <2>2 DEF EvStep
<1>11. HolderFits(b)' BY <1>4, <1>7, <1>8, <1>9, <1>10 DEF HolderFits, BufferBooked
<1> QED BY <1>5, <1>11

LEMMA LaunchInv ==
  ASSUME NEW s, NEW p, NEW o, NEW E, Launch(s, p, o), Booked(s, p, o, E)
  PROVE  OrderInv'
<1>1. /\ Emits(s, p, o) /\ E \in SUBSET Events /\ Remembers(s, E, o.event)
      /\ \A e \in E, r \in Streams, i \in Nat : At(stream, e, r, i) => Precedes(stream', r, i, s, p)
  BY DEF Booked
<1>2. EventsFit' /\ (\A e \in Events : NumberFits(e)') /\ NumbersGrow' BY <1>1, EmitsEvents
<1>3. OnFits' BY <1>1, EmitsOn
<1>4. ValuesFit' /\ PoolFits' BY BookedValues
<1>5. JobsFit' BY BookedJobs
<1>6. UsagesFit' BY BookedUsages
<1>7. \A b \in Buffers : ArgumentsFit(b)' /\ HolderFits(b)' BY BookedHolders
<1>8. Bookkeeping' BY <1>2, <1>4, <1>5, <1>6, <1>7 DEF Bookkeeping
<1>9. HoldersFollow' /\ JobsFollow' BY <1>7, LaunchHolders
<1>10. UsesFollow' BY LaunchUses
<1>11. UsesCovered' BY LaunchCovered
<1>12. UsesKept' BY LaunchKept
<1>13. OutIsQuiet' BY <1>7, LaunchOut
<1>14. DeviceInv' BY LaunchFacts
<1> QED BY <1>2, <1>3, <1>8, <1>9, <1>10, <1>11, <1>12, <1>13, <1>14 DEF OrderInv

-----------------------------------------------------------------------------
(* Transfers: the job of the task t is done by the access o.                *)
Transfers(t, s, p, o, E, D) ==
  /\ OrderInv /\ DeviceInv' /\ t \in tasks /\ t.kind # "ready"
  /\ s = JobStream(Job(t)) /\ o.event = JobEvent(Job(t))
  /\ Enqueued(s, p, o) /\ Sent(s, p, E, D, {})
  /\ E \in SUBSET Events /\ (\A e \in E : Recorded(e)) /\ SetsEvent(s, E, o.event)
  /\ OneTask' /\ Jobs' = Jobs \ {Job(t)}
  /\ UNCHANGED <<mem, call, pool, ready, literal, dependency>>
  /\ \A b \in Buffers :
       /\ SameButUsage(b)
       /\ \/ buf'[b] = buf[b]
          \/ o.event = Written(b) /\ Job(t)[1] = "h2d" /\ \E h \in BOOLEAN : Adds(b, s, o.event, h) /\ (h => Retain)
  /\ \A m \in o.reads : m.val \in Buffers /\ Recorded(Written(m.val))

LEMMA TransferFacts ==
  ASSUME NEW t, NEW s, NEW p, NEW o, NEW E, NEW D, Transfers(t, s, p, o, E, D)
  PROVE  /\ Job(t) \in Jobs /\ JobFits(Job(t)) /\ JobFollows(Job(t)) /\ FixedBuffers /\ OrderInv /\ DeviceInv
         /\ o.event[1] \in {"written", "read"} /\ EventSet(o.event, s) /\ EvStep({o.event})
         /\ Remembers(s, E, o.event) /\ Emits(s, p, o) /\ ~Recorded(o.event)
         /\ (\A j \in Jobs : j \in Jobs' <=> JobEvent(j) # o.event)
         /\ \A b \in Buffers : (Active(b)' <=> Active(b)) /\ (Holder(b)' => Holder(b))
<1>1. /\ OrderInv /\ DeviceInv' /\ t \in tasks /\ t.kind # "ready"
      /\ s = JobStream(Job(t)) /\ o.event = JobEvent(Job(t))
      /\ Enqueued(s, p, o) /\ SetsEvent(s, E, o.event)
      /\ E \in SUBSET Events /\ (\A e \in E : Recorded(e))
      /\ Jobs' = Jobs \ {Job(t)} /\ call' = call
      /\ (\A b \in Buffers : SameButUsage(b))
      /\ \A m \in o.reads : m.val \in Buffers /\ Recorded(Written(m.val))
  BY DEF Transfers
<1>2. Job(t) \in Jobs BY <1>1 DEF Jobs
<1>3. JobFits(Job(t)) /\ JobFollows(Job(t)) /\ DeviceInv BY <1>1, <1>2, InvFacts
<1>4. FixedBuffers BY <1>1 DEF FixedBuffers, SameButUsage
<1>5. PICK j0 : j0 = Job(t) OBVIOUS
<1>6. /\ j0[2] \in Buffers /\ Made(j0[2]) /\ o.event \in Events /\ s \in Streams
      /\ o.event[2] = j0[2] /\ o.event[1] \in {"written", "read"}
  <2>1. j0[2] \in Buffers /\ Made(j0[2]) /\ JobEvent(j0) \in Events /\ JobStream(j0) \in Streams
    BY <1>2, <1>3, <1>5, JobFacts
  <2>2. JobEvent(j0)[2] = j0[2] /\ JobEvent(j0)[1] \in {"written", "read"} BY DEF JobEvent, Written
  <2> QED BY <1>1, <1>5, <2>1, <2>2
<1>7. ev[o.event].status = "none" BY <1>1, <1>3 DEF JobFits
<1>8. buf'[j0[2]].st # "unborn"
  <2>1. (Made(j0[2]))' BY <1>4, <1>6 DEF FixedBuffers
  <2> QED BY <2>1 DEF Made, MadeBuffer
<1>9. EventSet(o.event, s) /\ EvStep({o.event}) /\ Remembers(s, E, o.event)
  BY <1>1, <1>4, <1>6, <1>7, <1>8, RecordFacts
<1>10. ~Recorded(o.event) BY <1>1, <1>6, <1>7, UnsetFacts
<1>11. ASSUME NEW b \in Buffers, NEW x \in Usage(b), x.event = o.event PROVE x.stream = s
  <2>1. UsageFits(x) BY <1>1, InvFacts
  <2> QED BY <1>1, <1>2, <1>11, <2>1 DEF UsageFits
<1>12. Emits(s, p, o) BY <1>1, <1>4, <1>9, <1>11 DEF Emits
<1>13. \A j \in Jobs : j \in Jobs' <=> JobEvent(j) # o.event BY <1>1, <1>3 DEF JobFits
<1>14. ASSUME NEW b \in Buffers PROVE (Active(b)' <=> Active(b)) /\ (Holder(b)' => Holder(b))
  <2>1. buf'[b].st = buf[b].st BY <1>1 DEF SameButUsage
  <2>2. Active(b)' <=> Active(b) BY <1>1, <2>1 DEF Active
  <2> QED BY <1>1, <2>1, <2>2 DEF Holder
<1> QED BY <1>1, <1>2, <1>3, <1>4, <1>6, <1>9, <1>10, <1>12, <1>13, <1>14

LEMMA TransferBooked ==
  ASSUME NEW t, NEW s, NEW p, NEW o, NEW E, NEW D, Transfers(t, s, p, o, E, D), OpFits(o)'
  PROVE  Booked(s, p, o, E)
<1>1. /\ OneTask' /\ Jobs' = Jobs \ {Job(t)} /\ s = JobStream(Job(t)) /\ o.event = JobEvent(Job(t))
      /\ UNCHANGED <<mem, call, pool, ready, literal, dependency>> /\ E \in SUBSET Events
      /\ Sent(s, p, E, D, {})
      /\ \A b \in Buffers :
           /\ SameButUsage(b)
           /\ \/ buf'[b] = buf[b]
              \/ o.event = Written(b) /\ Job(t)[1] = "h2d" /\ \E h \in BOOLEAN : Adds(b, s, o.event, h) /\ (h => Retain)
  BY DEF Transfers
<1>2. /\ Job(t) \in Jobs /\ JobFits(Job(t)) /\ FixedBuffers /\ OrderInv /\ DeviceInv
      /\ Remembers(s, E, o.event) /\ Emits(s, p, o)
      /\ (\A j \in Jobs : j \in Jobs' <=> JobEvent(j) # o.event)
      /\ \A b \in Buffers : (Active(b)' <=> Active(b)) /\ (Holder(b)' => Holder(b))
  BY TransferFacts
<1>3. ASSUME NEW b \in Buffers PROVE UsageGrows(b, s, o.event)
  <2>1. CASE buf'[b] = buf[b] BY <2>1 DEF UsageGrows, Usage, Elems
  <2>2. CASE o.event = Written(b) /\ Job(t)[1] = "h2d" /\ \E h \in BOOLEAN : Adds(b, s, o.event, h) /\ (h => Retain)
    BY <2>2, EventNames DEF UsageGrows
  <2> QED BY <1>1, <2>1, <2>2
<1>4. ASSUME NEW b \in Buffers PROVE BufferBooked(b, s, o)
  <2>1. SameButUsage(b) /\ HolderFits(b) /\ ArgumentsFit(b) BY <1>1, <1>2, InvFacts
  <2>2. ~(~Made(b) /\ (Made(b))') BY <2>1 DEF SameButUsage
  <2>3. ASSUME o.event = <<"read", b>> PROVE literal[b] # "none"
    <3>1. Job(t)[1] = "d2h" /\ Job(t)[2] = b BY <1>1, <2>3 DEF JobEvent, Written
    <3>2. literal[Job(t)[2]] = "pending" BY <1>2, <3>1 DEF JobFits
    <3> QED BY <3>1, <3>2
  <2>4. ASSUME buf'[b].st = "making" PROVE buf'[b].usage = <<>>
    <3>1. buf[b].st = "making" BY <2>1, <2>4 DEF SameButUsage
    <3>2. buf[b].usage = <<>> BY <2>1, <3>1 DEF HolderFits
    <3>3. CASE buf'[b] = buf[b] BY <3>2, <3>3
    <3>4. CASE o.event = Written(b) /\ Job(t)[1] = "h2d" /\ \E h \in BOOLEAN : Adds(b, s, o.event, h) /\ (h => Retain)
      <4>1. Job(t)[2] = b BY <1>1, <3>4, EventNames DEF JobEvent
      <4> QED BY <1>2, <3>1, <3>4, <4>1 DEF JobFits
    <3> QED BY <1>1, <3>3, <3>4
  <2>5. Holder(b)' => buf'[b].owns BY <1>2, <2>1 DEF HolderFits, SameButUsage
  <2>6. ASSUME call[b].op = "copy", o.event = Written(b), NEW a \in call[b].ins
        PROVE  s = <<"d2d", buf[a].dev>>
    <3>1. Job(t)[1] # "d2h" /\ Job(t)[2] = b BY <1>1, <2>6, EventNames DEF JobEvent
    <3>2. Job(t)[1] = "copy" /\ Job(t)[3] \in call[b].ins BY <1>2, <2>1, <2>6, <3>1 DEF ArgumentsFit
    <3>3. Job(t)[3] = a BY <2>1, <2>6, <3>2 DEF ArgumentsFit
    <3> QED BY <1>1, <3>2, <3>3 DEF JobStream
  <2>7. call'[b] = call[b] BY <1>1
  <2> QED BY <1>2, <1>3, <2>2, <2>3, <2>4, <2>5, <2>6, <2>7 DEF BufferBooked
<1>5. \A j \in Jobs' : Active(j[2]) => Active(j[2])' /\ UsageGrows(j[2], s, o.event)
  BY <1>1, <1>2, <1>3, JobFacts
<1>6. Jobs' \subseteq Jobs BY <1>1
<1> QED BY <1>1, <1>2, <1>4, <1>5, <1>6 DEF Booked, Sent

LEMMA TransferInv ==
  ASSUME NEW t, NEW s, NEW p, NEW o, NEW E, NEW D, Transfers(t, s, p, o, E, D), OpFits(o)',
         \A m \in o.reads : ReadsBehind(s, p, m.val),
         \A v \in Buffers : /\ o.event = Written(v) => WritesBehind(s, p, v)
                            /\ TakesPart(o, v) => PartFits(s, p, v)
  PROVE  OrderInv'
<1>1. /\ UNCHANGED <<mem, call, pool>> /\ Jobs' = Jobs \ {Job(t)} /\ DeviceInv' /\ Enqueued(s, p, o)
      /\ \A b \in Buffers :
           /\ SameButUsage(b)
           /\ \/ buf'[b] = buf[b]
              \/ o.event = Written(b) /\ Job(t)[1] = "h2d" /\ \E h \in BOOLEAN : Adds(b, s, o.event, h) /\ (h => Retain)
  BY DEF Transfers
<1>2. /\ FixedBuffers /\ OrderInv /\ DeviceInv /\ EventSet(o.event, s) /\ EvStep({o.event})
      /\ o.event[1] \in {"written", "read"} /\ Emits(s, p, o) /\ ~Recorded(o.event)
      /\ (\A j \in Jobs : j \in Jobs' <=> JobEvent(j) # o.event)
      /\ \A b \in Buffers : (Active(b)' <=> Active(b)) /\ (Holder(b)' => Holder(b))
  BY TransferFacts
<1>3. Booked(s, p, o, E) BY TransferBooked
<1>4. ASSUME NEW v \in Buffers, o.event # Written(v) PROVE StillCovers(v)
  <2>1. buf'[v] = buf[v] BY <1>1, <1>4
  <2>2. UsageGrows(v, s, o.event) BY <2>1 DEF UsageGrows, Usage, Elems
  <2> QED BY <1>2, <2>2, UsageGrowsFacts
<1>5. ASSUME NEW v \in Buffers, NEW r \in Streams, NEW i \in Nat, KeptByUsage(r, i, v)
      PROVE  KeptByUsage(r, i, v)'
  <2>1. At(stream, Written(v), r, i) BY <1>5 DEF KeptByUsage
  <2>2. PlaceFits(Written(v), r, i) /\ Written(v)[1] = "written" BY <1>2, InvFacts, EventNames
  <2>3. o.event # Written(v) BY <1>2, <2>1, <2>2 DEF PlaceFits
  <2>4. buf'[v] = buf[v] BY <1>1, <2>3
  <2>5. At(stream', Written(v), r, i) BY <1>1, <2>1, EnqueuedFacts
  <2>6. \A x : Loose(v, x)' <=> Loose(v, x) BY <2>4 DEF Loose, Usage, Elems, Written
  <2>7. call'[v] = call[v] /\ (Active(v)' <=> Active(v)) BY <1>1, <1>2
  <2> QED BY <1>5, <2>4, <2>5, <2>6, <2>7 DEF KeptByUsage, Written
<1>6. ASSUME NEW v \in Buffers
      PROVE  /\ o.event # Written(v) => /\ Holder(v)' => Holder(v)
                                        /\ Active(v)' => Active(v) /\ StillCovers(v)
                                        /\ buf'[v].st = "external" => buf[v].st = "external"
             /\ ~(buf[v].owns /\ ~buf'[v].owns)
             /\ call[v].op = "copy" => call'[v] = call[v]
  <2>1. buf'[v].st = buf[v].st /\ buf'[v].owns = buf[v].owns BY <1>1 DEF SameButUsage
  <2> QED BY <1>1, <1>2, <1>4, <2>1
<1>7. Launch(s, p, o) BY <1>1, <1>2, <1>5, <1>6 DEF Launch
<1> QED BY <1>3, <1>7, LaunchInv

(* The callback of the access keeps the memory of what it drops.            *)
LEMMA SentKeeps ==
  ASSUME NEW s \in Streams, NEW p, NEW E, NEW D, NEW F, Sent(s, p, E, D, F), NEW c,
         c \in F \/ \E b \in D : buf'[b].owns /\ buf'[b].cell = c
  PROVE  KeptByCallback(s, p, c)'
<1>1. PICK j \in Nat : /\ j \in DOMAIN stream'[s] /\ stream'[s][j] = CallbackOf(D, F)
                       /\ Precedes(stream', s, p, s, j)
  BY DEF Sent
<1>2. Gives(stream[s][j], c)' BY <1>1 DEF Gives, CallbackOf
<1> QED BY <1>1, <1>2 DEF KeptByCallback

(* An access on a stream, as the actions put it.                            *)
AccessOf(reads, writes, e) == [op |-> "access", reads |-> reads, writes |-> writes, event |-> e]

LEMMA AccessFacts ==
  ASSUME NEW reads \in SUBSET Memory, NEW writes \in SUBSET Memory, NEW e \in Events,
         NEW o, o = AccessOf(reads, writes, e)
  PROVE  /\ o \in StreamOp /\ o.op = "access" /\ o.reads = reads /\ o.writes = writes /\ o.event = e
BY DEF AccessOf, StreamOp, AccessOp

LEMMA AccessSends ==
  ASSUME NEW s, NEW E, NEW reads, NEW writes, NEW e, NEW D, NEW F,
         stream' = [stream EXCEPT ![s] =
           ((stream[s] \o Waits(s, E)) \o Access(reads, writes, e)) \o Callback(D, F)]
  PROVE  Sends(s, E, AccessOf(reads, writes, e), D, F)
BY DEF Sends, AccessOf, Access

(* The access is covered, or kept, by what belongs to it.                   *)
LEMMA CoveredByEvent ==
  ASSUME NEW s \in Streams, NEW p \in Nat, NEW o, Enqueued(s, p, o), NEW b, o.event \in (UsageEvents(b))'
  PROVE  CoveredByUsage(s, p, b)'
<1>1. At(stream', o.event, s, p) BY EnqueuedFacts
<1>2. Precedes(stream', s, p, s, p) BY PrecedesSame
<1>3. \A e : At(stream', e, s, p) <=> At(stream, e, s, p)' BY DEF At
<1> QED BY <1>1, <1>2 DEF CoveredByUsage

LEMMA CallbackKeeps ==
  ASSUME NEW s, NEW p, NEW v, NEW c, buf'[v].cell = c, KeptByCallback(s, p, c)'
  PROVE  UseKept(s, p, v)'
<1>1. KeptByCallback(s, p, buf[v].cell)' BY DEF KeptByCallback, Gives
<1> QED BY <1>1 DEF UseKept

LEMMA AsyncToLiteralOrder ==
  ASSUME OrderInv, DeviceInv', NEW t \in tasks, AsyncToLiteral(t)
  PROVE  OrderInv'
<1>1. PICK b : b = t.buf OBVIOUS
<1>2. PICK s : s = <<"d2h", buf[b].dev>> OBVIOUS
<1>3. PICK E : E = DefinitionEvents(b) OBVIOUS
<1>4. PICK o : o = AccessOf({Contents(b)}, {}, <<"read", b>>) OBVIOUS
<1>5. /\ t.kind = "d2h" /\ AllRecorded(t) /\ Sends(s, E, o, {b}, {}) /\ SetsEvent(s, E, <<"read", b>>)
      /\ tasks' = tasks \ {t}
      /\ UNCHANGED <<buf, mem, call, pool, ready, literal, dependency>>
  BY <1>1, <1>2, <1>3, <1>4, AccessSends DEF AsyncToLiteral, SetsEvent
<1>6. DeviceInv /\ tasks \subseteq Task BY InvFacts DEF DeviceInv, Typed, TasksTyped
<1>7. b \in Buffers /\ Made(b) /\ t.src = b BY <1>1, <1>5, <1>6, TaskFacts DEF TaskFits
<1>8. /\ E \in SUBSET Events /\ buf[b].dev \in Devices /\ Contents(b) \in Memory
      /\ buf[b].cell \in Cells
  BY <1>3, <1>6, <1>7, MadeFacts DEF DeviceInv
<1>9. s \in Streams /\ s[2] = buf[b].dev BY <1>2, <1>8, NameFacts
<1>10. ValueFits(b) /\ HolderFits(b) BY <1>7, InvFacts
<1>11. /\ o \in StreamOp /\ o.op = "access" /\ o.reads = {Contents(b)} /\ o.writes = {}
       /\ o.event = <<"read", b>> /\ <<"read", b>> \in Events
  <2>1. <<"read", b>> \in Events BY <1>7, NameFacts
  <2> QED BY <1>4, <1>8, <2>1, AccessFacts
<1>12. /\ Contents(b).val = b /\ Contents(b).cell = buf[b].cell /\ buf[b].cell[1] = buf[b].dev
  BY <1>7, <1>10 DEF Contents, ValueFits
<1>13. PICK p \in Nat : Enqueued(s, p, o) /\ Sent(s, p, E, {b}, {})
  BY <1>5, <1>7, <1>8, <1>9, <1>11, SendFacts
<1>14. /\ Job(t) \in Jobs /\ Job(t)[1] = "d2h" /\ Job(t)[2] = b /\ Job(t)[3] = b
       /\ JobEvent(Job(t)) = <<"read", b>> /\ JobStream(Job(t)) = s
  BY <1>1, <1>2, <1>5, <1>7 DEF Jobs, Job, JobEvent, JobStream
<1>15. (\A e \in E : Recorded(e)) /\ Written(b) \in E
  BY <1>3, <1>5, <1>7, FirstDefinition DEF AllRecorded, EventHasBeenRecorded, Recorded
<1>16. Transfers(t, s, p, o, E, {b})
  <2>1. OneTask' /\ Jobs' = Jobs \ {Job(t)} BY <1>5, InvFacts, JobsWithout
  <2>2. \A x \in Buffers : SameButUsage(x) /\ buf'[x] = buf[x] BY <1>5 DEF SameButUsage, Made
  <2>3. \A m \in o.reads : m.val \in Buffers /\ Recorded(Written(m.val)) BY <1>7, <1>11, <1>12, <1>15
  <2> QED BY <1>5, <1>8, <1>11, <1>13, <1>14, <1>15, <2>1, <2>2, <2>3 DEF Transfers
<1>17. OpFits(o)'
  <2>1. (Made(b))' /\ buf' = buf BY <1>5, <1>7 DEF Made
  <2> QED BY <1>7, <1>11, <1>12, <2>1, EventNames DEF OpFits, Written
<1>18. Holder(b) /\ buf'[b].owns BY <1>5, <1>10, <1>14 DEF Holder, HolderFits
<1>19. ReadsBehind(s, p, b) BY <1>7, <1>13, <1>15, <1>18 DEF ReadsBehind, Sent
<1>20. PartFits(s, p, b)
  <2>1. Model # "kComputeSynchronized" => s[2] = buf'[b].cell[1] /\ buf'[b].st # "external"
    <3>1. HandedOut(b) BY <1>7 DEF OrderInv, OutIsQuiet
    <3> QED BY <1>5, <1>9, <1>12, <1>14, <3>1 DEF HandedOut
  <2>2. Active(b)' => CoveredByUsage(s, p, b)'
    <3>1. JobFits(Job(t)) BY <1>14, InvFacts
    <3>2. Active(b)' => Active(b) BY <1>5 DEF Active
    <3>3. Active(b) => <<"read", b>> \in UsageEvents(b) BY <1>14, <3>1 DEF JobFits
    <3>4. Active(b)' => o.event \in (UsageEvents(b))' BY <1>5, <1>11, <3>2, <3>3 DEF UsageEvents
    <3> QED BY <1>9, <1>13, <3>4, CoveredByEvent
  <2>3. UseKept(s, p, b)'
    <3>1. PICK c : c = buf'[b].cell OBVIOUS
    <3>2. KeptByCallback(s, p, c)' BY <1>9, <1>13, <1>18, <3>1, SentKeeps
    <3> QED BY <3>1, <3>2, CallbackKeeps
  <2> QED BY <2>1, <2>2, <2>3 DEF PartFits
<1>21. \A m \in o.reads : ReadsBehind(s, p, m.val) BY <1>11, <1>12, <1>19
<1>22. \A v \in Buffers : /\ o.event = Written(v) => WritesBehind(s, p, v)
                          /\ TakesPart(o, v) => PartFits(s, p, v)
  <2>1. \A v : o.event # Written(v) BY <1>11, EventNames
  <2>2. \A v : TakesPart(o, v) => v = b BY <1>11, <1>12, <2>1 DEF TakesPart
  <2> QED BY <1>20, <2>1, <2>2
<1> QED BY <1>16, <1>17, <1>21, <1>22, TransferInv

(* The usage event of the access is there, if only as it was before.        *)
LEMMA AddsEntry ==
  ASSUME NEW s, NEW p, NEW o, Emits(s, p, o), NEW b \in Buffers, NEW h, Adds(b, s, o.event, h)
  PROVE  \E x \in Usage(b)' : /\ x.event = o.event /\ x.stream = s
                              /\ x \in Usage(b) \/ x = UsageOf(s, o.event, h)
<1>1. /\ OrderInv /\ EventSet(o.event, s) /\ FixedBuffers BY DEF Emits
<1>2. PICK new : new = UsageOf(s, o.event, h) OBVIOUS
<1>3. new.event = o.event /\ new.stream = s BY <1>2 DEF UsageOf
<1>4. Merged(ev', Usage(b), Usage(b)', new) BY <1>2 DEF Adds
<1>5. CASE new \in Usage(b)' BY <1>2, <1>3, <1>5
<1>6. CASE new \notin Usage(b)'
  <2>1. PICK x \in Usage(b)' : x.stream = new.stream /\ ev'[x.event].seq > 0
                               /\ ~(ev'[x.event].seq < ev'[new.event].seq)
    BY <1>4, <1>6 DEF Merged
  <2>2. x \in Usage(b) BY <1>4, <1>6, <2>1 DEF Merged
  <2>3. UsageFits(x) /\ x.event \in Events
    <3>1. x \in UsageEvent BY <1>1, <2>2, UsageFacts, InvFacts
    <3> QED BY <1>1, <2>2, <3>1, InvFacts DEF UsageEvent
  <2>4. x.event = o.event
    <3> SUFFICES ASSUME x.event # o.event PROVE FALSE OBVIOUS
    <3>1. ev'[x.event].seq = ev[x.event].seq /\ ev'[x.event].stream = ev[x.event].stream
      BY <1>1, <2>3 DEF EventSet
    <3>2. ev[x.event].stream = s BY <1>3, <2>1, <2>3, <3>1 DEF UsageFits, Recorded
    <3>3. ev[x.event].seq < ev'[o.event].seq BY <1>1, <2>3, <3>2, SetNumbers
    <3> QED BY <1>3, <2>1, <3>1, <3>3
  <2> QED BY <1>3, <2>1, <2>2, <2>4
<1> QED BY <1>5, <1>6

(* Nothing is waited for.                                                   *)
LEMMA WaitsForNothing ==
  ASSUME DeviceInv, NEW s \in Streams
  PROVE  stream[s] \o Waits(s, {}) = stream[s] /\ DefinedOn(s, {}) = ev
<1>1. stream[s] \in Seq(StreamOp) /\ ev \in [Events -> Event]
  BY DEF DeviceInv, Typed, StreamTyped, EvTyped
<1>2. Waits(s, {}) = <<>> BY DEF Waits
<1>3. stream[s] \o <<>> = stream[s] BY <1>1
<1>4. DefinedOn(s, {}) = ev BY <1>1 DEF DefinedOn
<1> QED BY <1>2, <1>3, <1>4

LEMMA TransferH2DOrder ==
  ASSUME OrderInv, DeviceInv', NEW t \in tasks, TransferH2D(t)
  PROVE  OrderInv'
<1>1. PICK b : b = t.buf OBVIOUS
<1>2. PICK s : s = <<"h2d", buf[b].dev>> OBVIOUS
<1>3. PICK e : e = Written(b) OBVIOUS
<1>4. PICK o : o = AccessOf({}, {Contents(b)}, e) OBVIOUS
<1>5. PICK D : D = IF Retain THEN {b} ELSE {} OBVIOUS
<1>6. DeviceInv /\ tasks \subseteq Task BY InvFacts DEF DeviceInv, Typed, TasksTyped
<1>7. t.kind = "h2d" BY DEF TransferH2D
<1>8. b \in Buffers /\ Made(b) /\ t.src = b BY <1>1, <1>6, <1>7, TaskFacts DEF TaskFits
<1>9. /\ buf[b].dev \in Devices /\ Contents(b) \in Memory /\ buf[b].cell \in Cells
      /\ buf[b].usage \in Seq(UsageEvent)
  BY <1>6, <1>8, MadeFacts DEF DeviceInv
<1>10. /\ s \in Streams /\ s[2] = buf[b].dev /\ s[1] = "h2d" BY <1>2, <1>9, NameFacts
<1>11. e \in Events /\ e[1] = "written" BY <1>3, <1>8, EventNames
<1>12. stream[s] \o Waits(s, {}) = stream[s] /\ DefinedOn(s, {}) = ev BY <1>6, <1>10, WaitsForNothing
<1>13. PICK u : u = AddUsageEvent(ev', buf[b].usage, s, e, Retain) OBVIOUS
<1>14. /\ Sends(s, {}, o, D, {}) /\ SetsEvent(s, {}, e) /\ buf' = [buf EXCEPT ![b].usage = u]
       /\ tasks' = Awakened(tasks \ {t}, e)
       /\ UNCHANGED <<mem, call, pool, ready, literal, dependency>>
  <2>1. /\ ev' = SetSequencingEvent(ev, e, s)
        /\ stream' = [stream EXCEPT ![s] = (stream[s] \o Access({}, {Contents(b)}, e)) \o Callback(D, {})]
        /\ buf' = [buf EXCEPT ![b].usage =
                     AddUsageEvent(SetSequencingEvent(ev, e, s), buf[b].usage, s, e, Retain)]
        /\ tasks' = Awakened(tasks \ {t}, e)
        /\ UNCHANGED <<mem, call, pool, ready, literal, dependency>>
    BY <1>1, <1>2, <1>3, <1>5 DEF TransferH2D, Written
  <2>2. Sends(s, {}, o, D, {}) BY <1>4, <1>12, <2>1 DEF Sends, AccessOf, Access
  <2>3. SetsEvent(s, {}, e) BY <1>12, <2>1 DEF SetsEvent
  <2> QED BY <1>13, <2>1, <2>2, <2>3
<1>15. Retain \in BOOLEAN BY DEF Retain
<1>16. u \in Seq(UsageEvent) BY <1>9, <1>10, <1>11, <1>13, <1>15, AddUsageEventFacts
<1>17. ValueFits(b) /\ HolderFits(b) BY <1>8, InvFacts
<1>18. /\ o \in StreamOp /\ o.op = "access" /\ o.reads = {} /\ o.writes = {Contents(b)} /\ o.event = e
  BY <1>4, <1>9, <1>11, AccessFacts
<1>19. PICK p \in Nat : Enqueued(s, p, o) /\ Sent(s, p, {}, D, {})
  <2>1. D \in SUBSET Buffers BY <1>5, <1>8
  <2> QED BY <1>10, <1>14, <1>18, <2>1, SendFacts
<1>20. /\ Job(t) \in Jobs /\ Job(t)[1] = "h2d" /\ Job(t)[2] = b
       /\ JobEvent(Job(t)) = e /\ JobStream(Job(t)) = s
  BY <1>1, <1>2, <1>3, <1>7, <1>8 DEF Jobs, Job, JobEvent, JobStream
<1>21. \A x \in Buffers : /\ SameButUsage(x) /\ buf'[x].usage = IF x = b THEN u ELSE buf[x].usage
                          /\ (x # b => buf'[x] = buf[x])
  BY <1>6, <1>8, <1>14, <1>16, UsageChanged
<1>22. Adds(b, s, e, Retain)
  <2>1. PICK evs : evs = ev' OBVIOUS
  <2>2. Merged(evs, Elems(buf[b].usage), Elems(u), UsageOf(s, e, Retain))
    BY <1>9, <1>13, <2>1, AddUsageMerges
  <2>3. buf'[b].usage = u BY <1>8, <1>21
  <2> QED BY <2>1, <2>2, <2>3 DEF Adds, Usage
<1>23. Transfers(t, s, p, o, {}, D)
  <2>1. OneTask' /\ Jobs' = Jobs \ {Job(t)} BY <1>6, <1>7, <1>14, InvFacts, JobsWithout
  <2>2. \A x \in Buffers :
          \/ buf'[x] = buf[x]
          \/ /\ o.event = Written(x) /\ Job(t)[1] = "h2d"
             /\ \E h \in BOOLEAN : Adds(x, s, o.event, h) /\ (h => Retain)
    BY <1>3, <1>15, <1>18, <1>20, <1>21, <1>22
  <2> QED BY <1>7, <1>14, <1>18, <1>19, <1>20, <1>21, <2>1, <2>2 DEF Transfers
<1>24. /\ (Made(b))' /\ buf'[b].cell = buf[b].cell /\ buf'[b].val = buf[b].val /\ buf'[b].st = buf[b].st
       /\ buf'[b].owns = buf[b].owns /\ buf'[b].dev = buf[b].dev
  BY <1>8, <1>21 DEF SameButUsage
<1>25. OpFits(o)'
  <2>1. o.writes = {(Contents(b))'} BY <1>18, <1>24 DEF Contents
  <2> QED BY <1>3, <1>11, <1>18, <1>24, <2>1, EventNames DEF OpFits
<1>26. /\ JobFits(Job(t)) /\ JobFollows(Job(t)) /\ Emits(s, p, o) /\ (Active(b)' <=> Active(b))
  BY <1>8, <1>23, TransferFacts
<1>27. Active(b) /\ Active(b)' /\ buf[b].owns
  <2>1. Active(b) BY <1>20, <1>26 DEF JobFits
  <2> QED BY <1>8, <1>17, <1>23, <2>1, TransferFacts DEF HolderFits, Holder
<1>28. WritesBehind(s, p, b)
  <2>1. Holder(b)' BY <1>27 DEF Holder
  <2>2. ASSUME NEW r \in Streams, NEW i \in Nat, NEW v \in Buffers, Uses(stream, r, i, v), v # b,
               buf[v].cell = buf'[b].cell
        PROVE  Precedes(stream', r, i, s, p)
    <3>1. BeforeEnd(stream, r, i, s) BY <1>20, <1>24, <1>26, <2>2 DEF JobFollows, SameCell
    <3> QED BY <1>19, <3>1 DEF Sent
  <2> QED BY <2>1, <2>2 DEF WritesBehind
<1>29. PartFits(s, p, b)
  <2>1. buf[b].st # "external"
    <3>1. CallFits(b) BY <1>6, <1>8 DEF DeviceInv, CallsFit
    <3> QED BY <1>27, <3>1 DEF Active, CallFits
  <2>2. s[2] = buf'[b].cell[1] BY <1>8, <1>10, <1>17, <1>24 DEF ValueFits
  <2>3. CoveredByUsage(s, p, b)' BY <1>8, <1>15, <1>18, <1>22, <1>26, AddsFacts
  <2>4. ASSUME Retain PROVE UseKept(s, p, b)'
    <3>1. PICK c : c = buf'[b].cell OBVIOUS
    <3>2. KeptByCallback(s, p, c)' BY <1>5, <1>10, <1>19, <1>24, <1>27, <2>4, <3>1, SentKeeps
    <3> QED BY <3>1, <3>2, CallbackKeeps
  <2>5. ASSUME Model = "kComputeSynchronized" PROVE UseKept(s, p, b)'
    <3>1. ~Retain BY <2>5 DEF Retain
    <3>2. PICK x \in Usage(b)' : /\ x.event = e /\ x.stream = s
                                 /\ x \in Usage(b) \/ x = UsageOf(s, e, Retain)
      BY <1>8, <1>18, <1>22, <1>26, AddsEntry
    <3>3. ~x.reference_held
      <4>1. CASE x = UsageOf(s, e, Retain) BY <3>1, <4>1 DEF UsageOf
      <4>2. CASE x \in Usage(b)
        <5>1. UsageFits(x) /\ x \in UsageEvent BY <1>6, <1>8, <4>2, UsageFacts, InvFacts
        <5> QED BY <1>10, <3>1, <3>2, <5>1 DEF UsageFits
      <4> QED BY <3>2, <4>1, <4>2
    <3>4. Loose(b, s)' BY <1>3, <3>2, <3>3 DEF Loose, Written
    <3>5. At(stream', Written(b), s, p) BY <1>3, <1>10, <1>18, <1>19, EnqueuedFacts
    <3>6. s # <<"compute", buf'[b].dev>> /\ s # <<"d2d", buf'[b].dev>> BY <1>10
    <3>7. KeptByUsage(s, p, b)' BY <1>27, <3>4, <3>5, <3>6 DEF KeptByUsage, Written
    <3> QED BY <2>5, <3>7 DEF UseKept
  <2>6. UseKept(s, p, b)'
    <3>1. CASE Model = "kAsynchronous" BY <3>1 DEF UseKept
    <3> QED BY <2>4, <2>5, <3>1, ModelAssumption DEF Retain
  <2> QED BY <1>24, <2>1, <2>2, <2>3, <2>6 DEF PartFits
<1>30. \A v \in Buffers : /\ o.event = Written(v) => WritesBehind(s, p, v)
                          /\ TakesPart(o, v) => PartFits(s, p, v)
  <2>1. \A v : TakesPart(o, v) \/ o.event = Written(v) => v = b BY <1>3, <1>18, EventNames DEF TakesPart
  <2> QED BY <1>28, <1>29, <2>1
<1>31. \A m \in o.reads : ReadsBehind(s, p, m.val) BY <1>18
<1> QED BY <1>23, <1>25, <1>30, <1>31, TransferInv

LEMMA CopyTransferOrder ==
  ASSUME OrderInv, DeviceInv', Supported, NEW t \in tasks, NEW s, NEW E, NEW o,
         s = <<"d2d", buf[t.src].dev>>, E = DefinitionEvents(t.src),
         o = AccessOf({Contents(t.src)}, {Contents(t.buf)}, Written(t.buf)),
         t.kind = "copy", AllRecorded(t), Sends(s, E, o, {t.src}, {}), SetsEvent(s, E, Written(t.buf)),
         tasks' = Awakened(tasks \ {t}, Written(t.buf)),
         UNCHANGED <<buf, mem, call, pool, ready, literal, dependency>>
  PROVE  OrderInv'
<1>1. PICK a : a = t.src OBVIOUS
<1>2. PICK b : b = t.buf OBVIOUS
<1>3. DeviceInv /\ tasks \subseteq Task BY InvFacts DEF DeviceInv, Typed, TasksTyped
<1>4. a \in Buffers /\ b \in Buffers /\ Made(a) /\ Made(b) BY <1>1, <1>2, <1>3, TaskFacts
<1>5. /\ E \in SUBSET Events /\ buf[a].dev \in Devices /\ Contents(a) \in Memory /\ Contents(b) \in Memory
  BY <1>1, <1>3, <1>4, MadeFacts DEF DeviceInv
<1>6. s \in Streams /\ s = <<"d2d", buf[a].dev>> BY <1>1, <1>5, NameFacts
<1>7. /\ Job(t) \in Jobs /\ Job(t)[1] = "copy" /\ Job(t)[2] = b /\ Job(t)[3] = a
      /\ JobEvent(Job(t)) = Written(b) /\ JobStream(Job(t)) = s
  BY <1>1, <1>2 DEF Jobs, Job, JobEvent, JobStream
<1>8. CopyFits(Job(t)) /\ JobFollows(Job(t)) BY <1>7, InvFacts DEF JobFits
<1>9. /\ "copy" \in Ops /\ buf[b].dev # buf[a].dev
      /\ \/ call[b].op = "copy" /\ a \in call[b].ins
         \/ /\ Active(b) /\ Loose(b, s)
            /\ Active(a) => Written(b) \in UsageEvents(a)
  BY <1>7, <1>8 DEF CopyFits
<1>10. Model = "kComputeSynchronized" /\ a # b BY <1>9 DEF Supported
<1>11. /\ o \in StreamOp /\ o.op = "access" /\ o.reads = {Contents(a)} /\ o.writes = {Contents(b)}
       /\ o.event = Written(b)
  BY <1>1, <1>2, <1>4, <1>5, AccessFacts, EventNames
<1>12. Contents(a).val = a /\ Contents(a).cell = buf[a].cell
  BY <1>4, InvFacts DEF Contents, ValueFits
<1>13. PICK p \in Nat : Enqueued(s, p, o) /\ Sent(s, p, E, {a}, {})
  BY <1>1, <1>4, <1>5, <1>6, <1>11, SendFacts
<1>14. (\A e \in E : Recorded(e)) /\ Written(a) \in E
  BY <1>1, <1>4, FirstDefinition DEF AllRecorded, EventHasBeenRecorded, Recorded
<1>15. Transfers(t, s, p, o, E, {a})
  <2>1. OneTask' /\ Jobs' = Jobs \ {Job(t)} BY <1>3, InvFacts, JobsWithout
  <2>2. \A x \in Buffers : SameButUsage(x) /\ buf'[x] = buf[x] BY DEF SameButUsage, Made
  <2>3. \A m \in o.reads : m.val \in Buffers /\ Recorded(Written(m.val)) BY <1>4, <1>11, <1>12, <1>14
  <2>4. SetsEvent(s, E, o.event) BY <1>2, <1>11
  <2> QED BY <1>5, <1>7, <1>11, <1>13, <1>14, <2>1, <2>2, <2>3, <2>4 DEF Transfers
<1>16. OpFits(o)'
  <2>1. (Made(a))' /\ (Made(b))' /\ buf' = buf BY <1>4 DEF Made
  <2>2. Written(a) # Written(b) BY <1>10, EventNames
  <2>3. (Contents(b))' = Contents(b) BY DEF Contents
  <2>4. \A m \in o.reads : /\ m.val \in Buffers /\ (Made(m.val))' /\ m.cell = buf'[m.val].cell
                           /\ Written(m.val) # o.event
    BY <1>4, <1>11, <1>12, <2>1, <2>2
  <2>5. o.event[1] = "written" /\ o.event[2] = b BY <1>11, EventNames
  <2> QED BY <1>11, <2>1, <2>3, <2>4, <2>5 DEF OpFits, Written
<1>17. Active(b) /\ \A x \in Buffers : Active(x)' <=> Active(x)
  <2>1. CallFits(b) BY <1>3, <1>4 DEF DeviceInv, CallsFit
  <2>2. Active(b) BY <1>9, <2>1 DEF CallFits, Active
  <2> QED BY <2>2 DEF Active
<1>18. Holder(a) /\ Holder(b)' /\ buf'[a].owns
  <2>1. Holder(a) BY <1>7 DEF Holder
  <2>2. HolderFits(a) BY <1>4, InvFacts
  <2> QED BY <1>4, <1>17, <2>1, <2>2 DEF Holder, HolderFits
<1>19. ReadsBehind(s, p, a) BY <1>4, <1>13, <1>14, <1>18 DEF ReadsBehind, Sent
<1>20. WritesBehind(s, p, b)
  <2>1. ASSUME NEW r \in Streams, NEW i \in Nat, NEW v \in Buffers, Uses(stream, r, i, v), v # b,
               buf[v].cell = buf'[b].cell
        PROVE  Precedes(stream', r, i, s, p)
    <3>1. BeforeEnd(stream, r, i, s) BY <1>7, <1>8, <2>1 DEF JobFollows, SameCell
    <3> QED BY <1>13, <3>1 DEF Sent
  <2> QED BY <1>18, <2>1 DEF WritesBehind
<1>21. At(stream', Written(b), s, p) BY <1>6, <1>11, <1>13, EnqueuedFacts
<1>22. ASSUME call[b].op = "copy", a \in call[b].ins, NEW v \in {a, b} PROVE CoveredByCall(s, p, v)'
  BY <1>4, <1>21, <1>22 DEF CoveredByCall, Written
<1>23. PartFits(s, p, a)
  <2>1. ASSUME Active(a), ~(call[b].op = "copy" /\ a \in call[b].ins) PROVE CoveredByUsage(s, p, a)'
    <3>1. o.event \in (UsageEvents(a))' BY <1>9, <1>11, <2>1 DEF UsageEvents
    <3> QED BY <1>6, <1>13, <3>1, CoveredByEvent
  <2>2. UseKept(s, p, a)'
    <3>1. PICK c : c = buf'[a].cell OBVIOUS
    <3>2. KeptByCallback(s, p, c)' BY <1>6, <1>13, <1>18, <3>1, SentKeeps
    <3> QED BY <3>1, <3>2, CallbackKeeps
  <2>3. Active(a)' => CoveredByUsage(s, p, a)' \/ CoveredByCall(s, p, a)'
    BY <1>4, <1>17, <1>22, <2>1
  <2> QED BY <1>10, <2>2, <2>3 DEF PartFits
<1>24. PartFits(s, p, b)
  <2>1. ASSUME Loose(b, s) PROVE CoveredByUsage(s, p, b)'
    <3>1. Written(b) \in UsageEvents(b) BY <1>4, <2>1, LooseFacts
    <3>2. o.event \in (UsageEvents(b))' BY <1>11, <3>1 DEF UsageEvents
    <3> QED BY <1>6, <1>13, <3>2, CoveredByEvent
  <2>2. KeptByUsage(s, p, b)'
    <3>1. s # <<"compute", buf[b].dev>> /\ s # <<"d2d", buf[b].dev>> BY <1>6, <1>9
    <3>2. Loose(b, s)' <=> Loose(b, s) BY DEF Loose, Usage, Elems, Written
    <3>3. call'[b].op = "copy" \/ Loose(b, s)' BY <1>9, <3>2
    <3>4. Active(b)' /\ buf'[b].dev = buf[b].dev BY <1>4, <1>17
    <3> QED BY <1>21, <3>1, <3>3, <3>4 DEF KeptByUsage, Written
  <2>3. UseKept(s, p, b)' BY <1>10, <2>2 DEF UseKept
  <2> QED BY <1>9, <1>10, <1>22, <2>1, <2>3 DEF PartFits
<1>25. \A v \in Buffers : /\ o.event = Written(v) => WritesBehind(s, p, v)
                          /\ TakesPart(o, v) => PartFits(s, p, v)
  <2>1. \A v : o.event = Written(v) => v = b BY <1>11, EventNames
  <2>2. \A v : TakesPart(o, v) => v \in {a, b} BY <1>11, <1>12, <2>1 DEF TakesPart
  <2> QED BY <1>20, <1>23, <1>24, <2>1, <2>2
<1>26. \A m \in o.reads : ReadsBehind(s, p, m.val) BY <1>11, <1>12, <1>19, Zenon
<1> QED BY <1>15, <1>16, <1>25, <1>26, TransferInv

LEMMA AsyncCopyToDeviceOrder ==
  ASSUME OrderInv, DeviceInv', Supported, NEW t \in tasks, AsyncCopyToDevice(t)
  PROVE  OrderInv'
<1>1. PICK s, E, o : /\ s = <<"d2d", buf[t.src].dev>> /\ E = DefinitionEvents(t.src)
                     /\ o = AccessOf({Contents(t.src)}, {Contents(t.buf)}, Written(t.buf))
  BY Zenon
<1>2. /\ t.kind = "copy" /\ tasks' = Awakened(tasks \ {t}, Written(t.buf))
      /\ UNCHANGED <<buf, mem, call, pool, callbacks, ready, literal, dependency>>
  BY Zenon DEF AsyncCopyToDevice, Written
<1>3. CASE /\ DefinedStatus(t) = "ok" /\ AllRecorded(t)
           /\ stream' = [stream EXCEPT ![s] = ((stream[s] \o Waits(s, E))
                \o Access({Contents(t.src)}, {Contents(t.buf)}, Written(t.buf))) \o Callback({t.src}, {})]
           /\ ev' = SetSequencingEvent(DefinedOn(s, E), Written(t.buf), s)
  <2>1. AllRecorded(t) /\ SetsEvent(s, E, Written(t.buf)) BY <1>3 DEF SetsEvent
  <2>2. Sends(s, E, o, {t.src}, {}) BY <1>1, <1>3, AccessSends
  <2> QED BY <1>1, <1>2, <2>1, <2>2, CopyTransferOrder
<1>4. CASE /\ stream' = [stream EXCEPT ![s] = stream[s] \o Callback({t.src}, {})]
           /\ ev' = [ev EXCEPT ![Written(t.buf)].status = "error"]
  <2>1. CopyGetsError(t) BY <1>1, <1>2, <1>4 DEF CopyGetsError
  <2> QED BY <2>1, CopyGetsErrorOrder
<1> QED BY <1>1, <1>3, <1>4, Zenon DEF AsyncCopyToDevice, Written

-----------------------------------------------------------------------------
(* ExecuteHelper: the execution for the buffer x runs on the compute stream *)
(* s and puts its output into c.                                            *)
RunBuffer(b, x, s, c) ==
  /\ b = x => /\ (Made(b))' /\ buf'[b].st = "live" /\ buf'[b].dev = s[2] /\ buf'[b].cell = c
              /\ buf'[b].val = x /\ buf'[b].defs = <<Written(x)>> /\ buf'[b].owns
              /\ Adds(b, s, Written(x), Retain)
  /\ b \in call[x].don => buf'[b] = ConfirmDonation(b)
  /\ b \in call[x].ins \ call[x].don => SameButUsage(b) /\ Adds(b, s, Written(x), Retain)
  /\ b \notin call[x].ins \cup {x} => buf'[b] = buf[b]

Runs(x, s, c, E, D, F, o) ==
  /\ OrderInv /\ DeviceInv' /\ x \in Buffers /\ call[x].op = "execute"
  /\ s \in Streams /\ s = <<"compute", s[2]>> /\ c \in Cells /\ c[1] = s[2]
  /\ \A a \in call[x].ins : buf[a].dev = s[2]
  /\ E = ExecutionEvents(call[x].ins, call[x].don) /\ \A e \in E : Recorded(e)
  /\ D \in SUBSET Buffers /\ F \in SUBSET Cells
  /\ (\E b \in call[x].don : buf[b].cell = c) \/ Free(c)
  /\ Retain => /\ D = {x} \cup (call[x].ins \ call[x].don)
               /\ \/ \E b \in call[x].don : buf[b].cell = c
                  \/ F = {buf[b].cell : b \in call[x].don}
  /\ o = AccessOf({Contents(b) : b \in call[x].ins}, {[cell |-> c, val |-> x]}, Written(x))
  /\ Sends(s, E, o, D, F) /\ SetsEvent(s, E, Written(x))
  /\ call'[x] = NoCall /\ (\A b \in Buffers : b # x => call'[b] = call[b])
  /\ UNCHANGED <<mem, tasks, pool, ready, literal, dependency>>
  /\ \A b \in Buffers : RunBuffer(b, x, s, c)

(* The parts of the buffer an execution makes.                              *)
RunMakes(x, d, c, u, defs) == buf'[x] = [NewBuffer("live", d, c, x, defs) EXCEPT !.usage = u]

LEMMA MadeByRun ==
  ASSUME NEW x \in Buffers, NEW d \in Devices, NEW c \in Cells, NEW u \in Seq(UsageEvent),
         NEW defs \in Seq(Events), defs # <<>>,
         RunMakes(x, d, c, u, defs)
  PROVE  /\ (Made(x))' /\ buf'[x].st = "live" /\ buf'[x].dev = d /\ buf'[x].cell = c
         /\ buf'[x].val = x /\ buf'[x].defs = defs /\ buf'[x].owns /\ buf'[x].usage = u
<1>1. x \in 0..NumBuffers BY BufferNumbers
<1>2. PICK r : r = [st |-> "live", dev |-> d, cell |-> c, val |-> x, defs |-> defs,
                    usage |-> u, owns |-> TRUE]
  OBVIOUS
<1>3. r \in MadeBuffer BY <1>1, <1>2 DEF MadeBuffer
<1>4. buf'[x] = r BY <1>2 DEF RunMakes, NewBuffer
<1> QED BY <1>2, <1>3, <1>4 DEF Made

LEMMA ExecuteRuns ==
  ASSUME OrderInv, DeviceInv', NEW x \in Buffers, ExecuteHelper(x)
  PROVE  \E s, c, E, D, F, o : Runs(x, s, c, E, D, F, o)
<1> DEFINE ins == call[x].ins
           don == call[x].don
           d   == buf[CHOOSE b \in ins : TRUE].dev
           s   == <<"compute", d>>
           e   == <<"written", x>>
           E   == ExecutionEvents(ins, don)
           evs == SetSequencingEvent(DefinedOn(s, E), e, s)
           D   == IF Retain THEN {x} \cup (ins \ don) ELSE {}
           used(b) == [buf[b] EXCEPT !.usage = AddUsageEvent(evs, buf[b].usage, s, e, Retain)]
           reads == {Contents(b) : b \in ins}
<1>1. call[x].op = "execute" /\ \A y \in E : Recorded(y)
  BY Zenon DEF ExecuteHelper, EventHasBeenRecorded, Recorded
<1>2. DeviceInv BY InvFacts
<1>3. /\ ins \subseteq Buffers /\ don \subseteq ins /\ d \in Devices /\ E \in SUBSET Events
      /\ \A b \in ins : Made(b) /\ b # x
  BY <1>1, <1>2, ExecutionFacts
<1>4. \A b \in ins : buf[b].cell \in Cells BY <1>2, <1>3, MadeFacts DEF DeviceInv
<1>5. PICK c \in Cells, F \in SUBSET Cells :
        /\ c[1] = d /\ ((\E b \in don : buf[b].cell = c) \/ Free(c))
        /\ Retain => (\E b \in don : buf[b].cell = c) \/ F = {buf[b].cell : b \in don}
        /\ buf' = [b \in Buffers |->
             CASE b = x -> [NewBuffer("live", d, c, x, <<e>>) EXCEPT !.usage =
                              AddUsageEvent(evs, <<>>, s, e, Retain)]
               [] b \in don -> ConfirmDonation(b)
               [] b \in ins \ don -> used(b)
               [] OTHER -> buf[b]]
        /\ stream' = [stream EXCEPT ![s] =
             ((stream[s] \o Waits(s, E)) \o Access(reads, {[cell |-> c, val |-> x]}, e))
               \o Callback(D, F)]
  <2>1. PICK c \in Cells :
          LET alias == \E b \in don : buf[b].cell = c
              back  == IF Retain /\ ~alias THEN {buf[b].cell : b \in don} ELSE {}
              made  == NewBuffer("live", d, c, x, <<e>>)
          IN  /\ c[1] = d /\ (alias \/ Free(c))
              /\ buf' = [b \in Buffers |->
                   CASE b = x -> [made EXCEPT !.usage = AddUsageEvent(evs, <<>>, s, e, Retain)]
                     [] b \in don -> ConfirmDonation(b)
                     [] b \in ins \ don -> used(b)
                     [] OTHER -> buf[b]]
              /\ stream' = [stream EXCEPT ![s] =
                   ((stream[s] \o Waits(s, E))
                      \o Access(reads, {[cell |-> c, val |-> x]}, e))
                     \o Callback(D, back)]
    BY Zenon DEF ExecuteHelper
  <2> DEFINE back == IF Retain /\ ~(\E b \in don : buf[b].cell = c)
                     THEN {buf[b].cell : b \in don} ELSE {}
  <2>2. back \in SUBSET Cells
    <3> HIDE DEF ins, don
    <3> QED BY <1>3, <1>4
  <2>3. Retain => (\E b \in don : buf[b].cell = c) \/ back = {buf[b].cell : b \in don}
    BY Zenon
  <2> QED BY <2>1, <2>2, <2>3, Zenon
<1>6. /\ ev' = evs /\ call' = [call EXCEPT ![x] = NoCall]
      /\ UNCHANGED <<mem, tasks, pool, ready, literal, dependency>>
  BY Zenon DEF ExecuteHelper
<1>7. s \in Streams /\ s = <<"compute", s[2]>> /\ s[2] = d /\ e = Written(x) /\ e \in Events
  <2>1. s[2] = d OBVIOUS
  <2> QED BY <1>3, <2>1, NameFacts DEF Written
<1>8. \A a \in ins : buf[a].dev = d
  <2>1. ArgumentsFit(x) /\ ins # {} BY <1>1, <1>2, InvFacts, CallFacts DEF CallFits
  <2>2. (CHOOSE b \in ins : TRUE) \in ins BY <2>1
  <2> QED BY <1>1, <2>1, <2>2 DEF ArgumentsFit
<1>9. /\ call'[x] = NoCall /\ \A b \in Buffers : b # x => call'[b] = call[b]
  <2>1. DOMAIN call = Buffers BY <1>2 DEF DeviceInv, Typed, CallTyped
  <2>2. call' = [call EXCEPT ![x] = NoCall] BY <1>6
  <2> HIDE DEF ins, don, d, s, e, E, evs, reads, used, D
  <2> QED BY <2>1, <2>2
<1> DEFINE o == AccessOf(reads, {[cell |-> c, val |-> x]}, Written(x))
<1>10. Sends(s, E, o, D, F) /\ SetsEvent(s, E, Written(x))
  BY <1>5, <1>6, <1>7, AccessSends, ZenonT(30) DEF SetsEvent
<1>11. D \in SUBSET Buffers /\ (Retain => D = {x} \cup (ins \ don)) BY <1>3
<1>12. Retain \in BOOLEAN BY DEF Retain
<1>13. ASSUME NEW b \in Buffers PROVE RunBuffer(b, x, s, c)
  <2>0. PICK ev2 : ev2 = ev' OBVIOUS
  <2>1. ASSUME b = x
        PROVE  /\ (Made(b))' /\ buf'[b].st = "live" /\ buf'[b].dev = s[2] /\ buf'[b].cell = c
               /\ buf'[b].val = x /\ buf'[b].defs = <<Written(x)>> /\ buf'[b].owns
               /\ Adds(b, s, Written(x), Retain)
    <3>1. PICK u : u = AddUsageEvent(evs, <<>>, s, e, Retain) OBVIOUS
    <3>2. buf'[x] = [NewBuffer("live", d, c, x, <<e>>) EXCEPT !.usage = u]
      <4>1. x \notin don /\ x \notin ins \ don BY <1>3
      <4> QED BY <1>5, <3>1, <4>1, Zenon
    <3>9. PICK defs : defs = <<Written(x)>> OBVIOUS
    <3>10. <<e>> = defs BY <1>7, <3>9
    <3> HIDE DEF ins, don, d, s, e, E, evs, D, used, reads, o
    <3>3. <<>> \in Seq(UsageEvent) OBVIOUS
    <3>4. u \in Seq(UsageEvent) BY <1>7, <1>12, <3>1, <3>3, AddUsageEventFacts
    <3>5. /\ (Made(x))' /\ buf'[x].st = "live" /\ buf'[x].dev = d /\ buf'[x].cell = c
          /\ buf'[x].val = x /\ buf'[x].defs = <<Written(x)>> /\ buf'[x].owns /\ buf'[x].usage = u
      <4>1. defs \in Seq(Events) /\ defs # <<>> BY <3>9, EventNames
      <4>2. RunMakes(x, d, c, u, defs) BY <3>2, <3>10 DEF RunMakes
      <4>3. /\ (Made(x))' /\ buf'[x].st = "live" /\ buf'[x].dev = d /\ buf'[x].cell = c
            /\ buf'[x].val = x /\ buf'[x].defs = defs /\ buf'[x].owns /\ buf'[x].usage = u
        BY <1>3, <3>4, <4>1, <4>2, MadeByRun
      <4> QED BY <3>9, <4>3
    <3>6. Merged(ev2, Elems(<<>>), Elems(u), UsageOf(s, e, Retain))
      BY <1>6, <2>0, <3>1, <3>3, AddUsageMerges
    <3>7. buf[x].usage = <<>> BY <1>1, <1>2, ExecutionFacts DEF Unborn
    <3>8. Adds(x, s, Written(x), Retain) BY <1>7, <2>0, <3>5, <3>6, <3>7 DEF Adds, Usage
    <3> QED BY <1>7, <2>1, <3>5, <3>8
  <2>2. ASSUME b \in don PROVE buf'[b] = ConfirmDonation(b)
    <3>1. b # x BY <1>3, <2>2
    <3> QED BY <1>5, <2>2, <3>1, Zenon
  <2>3. ASSUME b \in ins \ don PROVE SameButUsage(b) /\ Adds(b, s, Written(x), Retain)
    <3>1. b # x /\ b \in ins /\ b \notin don BY <1>3, <2>3
    <3>2. PICK u : u = AddUsageEvent(evs, buf[b].usage, s, e, Retain) OBVIOUS
    <3>3. buf'[b] = [buf[b] EXCEPT !.usage = u] BY <1>5, <3>1, <3>2, Zenon
    <3> HIDE DEF ins, don, d, s, e, E, evs, D, used, reads, o
    <3>4. Made(b) /\ buf[b].usage \in Seq(UsageEvent) BY <1>2, <1>3, <3>1, MadeFacts DEF DeviceInv
    <3>5. u \in Seq(UsageEvent) BY <1>7, <1>12, <3>2, <3>4, AddUsageEventFacts
    <3>6. Merged(ev2, Elems(buf[b].usage), Elems(u), UsageOf(s, e, Retain))
      BY <1>6, <2>0, <3>2, <3>4, AddUsageMerges
    <3>7. /\ (Made(b))' /\ buf'[b].usage = u
          /\ buf'[b].st = buf[b].st /\ buf'[b].cell = buf[b].cell /\ buf'[b].dev = buf[b].dev
          /\ buf'[b].val = buf[b].val /\ buf'[b].defs = buf[b].defs /\ buf'[b].owns = buf[b].owns
      BY <3>3, <3>4, <3>5 DEF Made, MadeBuffer
    <3>8. SameButUsage(b) BY <3>4, <3>7 DEF SameButUsage
    <3>9. Adds(b, s, Written(x), Retain) BY <1>7, <2>0, <3>6, <3>7 DEF Adds, Usage
    <3> QED BY <3>8, <3>9
  <2>4. ASSUME b \notin ins \cup {x} PROVE buf'[b] = buf[b]
    <3>1. b # x /\ b \notin don /\ b \notin ins \ don BY <1>3, <2>4
    <3> QED BY <1>5, <3>1, Zenon
  <2> HIDE DEF s, e, E, evs, D, used, reads, o, d
  <2> QED BY <2>1, <2>2, <2>3, <2>4 DEF RunBuffer
<1>14. Runs(x, s, c, E, D, F, o)
  <2>1. s[2] = d BY <1>7
  <2>2. o = AccessOf({Contents(b) : b \in call[x].ins}, {[cell |-> c, val |-> x]}, Written(x))
    OBVIOUS
  <2>3. E = ExecutionEvents(call[x].ins, call[x].don) OBVIOUS
  <2>4. /\ c[1] = d /\ ((\E b \in call[x].don : buf[b].cell = c) \/ Free(c))
        /\ Retain => (\E b \in call[x].don : buf[b].cell = c) \/ F = {buf[b].cell : b \in call[x].don}
    BY <1>5, Zenon
  <2>5. D \in SUBSET Buffers /\ (Retain => D = {x} \cup (call[x].ins \ call[x].don)) BY <1>11
  <2>6. \A a \in call[x].ins : buf[a].dev = s[2] BY <1>8, <2>1
  <2> HIDE DEF s, e, E, evs, D, used, reads, o, d, ins, don
  <2>7. c[1] = s[2] BY <2>1, <2>4
  <2>8. UNCHANGED <<mem, tasks, pool, ready, literal, dependency>> BY <1>6
  <2> QED BY <1>1, <1>7, <1>9, <1>10, <1>13, <2>2, <2>3, <2>4, <2>5, <2>6, <2>7, <2>8, Zenon DEF Runs
<1> QED BY <1>14

(* The arguments of the execution, and what becomes of the buffers.         *)
LEMMA RunsFacts ==
  ASSUME NEW x, NEW s, NEW c, NEW E, NEW D, NEW F, NEW o, Runs(x, s, c, E, D, F, o)
  PROVE  /\ OrderInv /\ DeviceInv /\ DeviceInv' /\ x \in Buffers /\ ~Made(x) /\ buf[x].st = "unborn"
         /\ s \in Streams /\ E \in SUBSET Events /\ (\A e \in E : Recorded(e))
         /\ call[x].ins \subseteq Buffers /\ call[x].don \subseteq call[x].ins
         /\ \A a \in call[x].ins : /\ a \in Buffers /\ Made(a) /\ a # x /\ Active(a) /\ Holder(a) /\ buf[a].owns
                                   /\ Recorded(Written(a)) /\ buf[a].st \in {"live", "gone"}
                                   /\ buf[a].cell[1] = s[2] /\ buf[a].dev = s[2]
<1>1. OrderInv /\ DeviceInv' /\ x \in Buffers /\ call[x].op = "execute" /\ s \in Streams
  BY DEF Runs
<1>2. /\ E = ExecutionEvents(call[x].ins, call[x].don) /\ (\A e \in E : Recorded(e))
      /\ \A a \in call[x].ins : buf[a].dev = s[2]
  BY DEF Runs
<1>3. DeviceInv BY <1>1, InvFacts
<1>4. /\ buf[x].st = "unborn" /\ ~Made(x) /\ call[x].ins \subseteq Buffers
      /\ call[x].don \subseteq call[x].ins /\ E \in SUBSET Events
      /\ \A b \in call[x].ins : Made(b) /\ b # x
  BY <1>1, <1>2, <1>3, ExecutionFacts
<1>5. HoldFits(x) /\ ArgumentsFit(x) BY <1>1, <1>3, CallFacts, InvFacts
<1>6. ASSUME NEW a \in call[x].ins
      PROVE  /\ Active(a) /\ Holder(a) /\ buf[a].owns /\ Recorded(Written(a))
             /\ buf[a].st \in {"live", "gone"} /\ buf[a].cell[1] = s[2]
  <2>1. a \in Buffers /\ CallFits(a) /\ HolderFits(a) /\ ValueFits(a) /\ Made(a)
    BY <1>1, <1>3, <1>4, CallFacts, InvFacts
  <2>2. buf[a].st = "live" \/ call[a].op \in {"delete", "release"} BY <1>1, <1>5 DEF HoldFits
  <2>3. Active(a) /\ Holder(a) /\ buf[a].owns BY <2>1, <2>2 DEF Active, Holder, HolderFits
  <2>4. buf[a].st \in {"live", "gone"} BY <2>1, <2>2 DEF CallFits
  <2>5. Recorded(Written(a))
    <3>1. CASE Model = "kComputeSynchronized" \/ a \notin call[x].don
      <4>1. Written(a) \in DefinitionEvents(a) BY <1>1, <2>1, FirstDefinition
      <4>2. Written(a) \in E BY <1>2, <3>1, <4>1 DEF ExecutionEvents
      <4> QED BY <1>2, <4>2
    <3>2. CASE Model # "kComputeSynchronized" /\ a \in call[x].don
      BY <1>1, <1>5, <3>2 DEF ArgumentsFit, DonorFits
    <3> QED BY <3>1, <3>2
  <2>6. buf[a].cell[1] = s[2] BY <1>2, <2>1 DEF ValueFits
  <2> QED BY <2>3, <2>4, <2>5, <2>6
<1> QED BY <1>1, <1>2, <1>3, <1>4, <1>6

(* What a donor's usage events are for: it is in no other call, and no job  *)
(* is left for it.                                                          *)
LEMMA DonorFacts ==
  ASSUME NEW x, NEW s, NEW c, NEW E, NEW D, NEW F, NEW o, Runs(x, s, c, E, D, F, o), NEW b \in call[x].don
  PROVE  /\ b \in Buffers /\ b \in call[x].ins /\ buf[b].st = "live"
         /\ call[b].op \in {"none"} \cup Awaits /\ call[b].ins = {}
         /\ UsageEvents(b) \subseteq E /\ (\A a \in call[x].don : a = b)
         /\ \A y \in Buffers : y # x => b \notin call[y].ins
         /\ \A j \in Jobs : j[2] # b /\ j[3] # b
<1>1. /\ OrderInv /\ DeviceInv /\ x \in Buffers /\ ~Made(x) /\ E \in SUBSET Events
      /\ (\A e \in E : Recorded(e)) /\ b \in call[x].ins /\ b \in Buffers /\ Active(b)
  BY RunsFacts
<1>2. call[x].op = "execute" /\ E = ExecutionEvents(call[x].ins, call[x].don) BY DEF Runs
<1>3. HoldFits(x) /\ ArgumentsFit(x) BY <1>1, CallFacts, InvFacts
<1>4. /\ buf[b].st = "live" /\ (\A y \in Buffers : y # x => b \notin call[y].ins)
      /\ DonorFits(b) /\ (\A a \in call[x].don : a = b)
  BY <1>2, <1>3 DEF HoldFits, ArgumentsFit
<1>5. call[b].op \in {"none"} \cup Awaits /\ call[b].ins = {} BY <1>1, <1>4, CallFacts
<1>6. UsageEvents(b) \subseteq E BY <1>2 DEF ExecutionEvents
<1>7. \A e \in UsageEvents(b) : e \in Events /\ ev[e].status # "none"
  <2>1. \A e \in E : EventFits(e) BY <1>1, InvFacts
  <2> QED BY <1>1, <1>6, <2>1 DEF EventFits
<1>8. ASSUME NEW j \in Jobs, j[2] = b \/ j[3] = b PROVE FALSE
  <2>1. JobFits(j) BY <1>1, InvFacts
  <2>2. /\ j[1] \in {"h2d", "d2h", "copy"} /\ j[2] \in Buffers /\ j[3] \in Buffers /\ Made(j[2])
        /\ (j[1] # "copy" => j[2] = j[3])
    BY <1>1, JobFacts
  <2>3. CASE j[1] = "h2d" BY <1>4, <1>8, <2>2, <2>3 DEF DonorFits
  <2>4. CASE j[1] = "d2h"
    <3>1. j[2] = b BY <1>8, <2>2, <2>4
    <3>2. <<"read", b>> \in UsageEvents(b) BY <1>1, <2>1, <2>4, <3>1 DEF JobFits
    <3>3. JobEvent(j) = <<"read", b>> BY <2>4, <3>1 DEF JobEvent
    <3> QED BY <1>7, <2>1, <3>2, <3>3 DEF JobFits
  <2>5. CASE j[1] = "copy"
    <3>1. CopyFits(j) BY <2>1, <2>5 DEF JobFits
    <3>2. JobEvent(j) = Written(j[2]) BY <2>5 DEF JobEvent
    <3>3. CASE call[j[2]].op = "copy" /\ j[3] \in call[j[2]].ins
      <4>1. j[2] # x BY <1>1, <2>2
      <4>2. j[2] # b BY <1>5, <3>3
      <4> QED BY <1>4, <1>8, <2>2, <3>3, <4>1, <4>2
    <3>4. CASE /\ Active(j[2]) /\ Loose(j[2], JobStream(j))
               /\ Active(j[3]) => Written(j[2]) \in UsageEvents(j[3])
      <4>1. Written(j[2]) \in UsageEvents(j[2]) BY <1>1, <2>2, <3>4, LooseFacts
      <4>2. Written(j[2]) \in UsageEvents(b) BY <1>1, <1>8, <3>4, <4>1
      <4> QED BY <1>7, <2>1, <3>2, <4>2 DEF JobFits
    <3> QED BY <3>1, <3>3, <3>4 DEF CopyFits
  <2> QED BY <2>2, <2>3, <2>4, <2>5
<1> QED BY <1>1, <1>4, <1>5, <1>6, <1>8

(* All uses of a donor's memory come before the execution.                  *)
LEMMA DonorUses ==
  ASSUME NEW x, NEW s, NEW c, NEW E, NEW D, NEW F, NEW o, Runs(x, s, c, E, D, F, o), NEW b \in call[x].don,
         NEW p \in Nat, Enqueued(s, p, o), Sent(s, p, E, D, F),
         NEW r \in Streams, NEW i \in Nat, NEW v \in Buffers, Uses(stream, r, i, v), buf[v].cell = buf[b].cell
  PROVE  Precedes(stream', r, i, s, p)
<1>1. /\ OrderInv /\ DeviceInv /\ x \in Buffers /\ s \in Streams /\ b \in Buffers /\ Active(b)
      /\ Holder(b) /\ Recorded(Written(b)) /\ Longer(stream, stream') /\ b \in call[x].ins
  BY RunsFacts DEF Enqueued
<1>2. /\ buf[b].st = "live" /\ call[b].op \in {"none"} \cup Awaits /\ UsageEvents(b) \subseteq E
      /\ \A y \in Buffers : y # x => b \notin call[y].ins
  BY DonorFacts
<1>3. ASSUME NEW t \in Streams, NEW k \in Nat, Uses(stream, t, k, b) PROVE Precedes(stream', t, k, s, p)
  <2>1. ~CoveredByCall(t, k, b)
    <3>1. call[x].op # "copy" BY DEF Runs
    <3> QED BY <1>2, <3>1 DEF CoveredByCall, Awaits
  <2>2. UsagesCover(b) BY <1>1 DEF OrderInv, UsesCovered
  <2>3. CoveredByUsage(t, k, b) BY <1>1, <1>3, <2>1, <2>2 DEF UsagesCover
  <2>4. PICK e \in UsageEvents(b), y \in Streams, n \in Nat :
          At(stream, e, y, n) /\ Precedes(stream, t, k, y, n)
    BY <2>3 DEF CoveredByUsage
  <2>5. Precedes(stream', y, n, s, p) BY <1>2, <2>4 DEF Sent
  <2>6. Precedes(stream', t, k, y, n) BY <1>1, <2>4, LongerPrecedes
  <2> QED BY <1>1, <2>5, <2>6, PrecedesThen
<1>4. CASE v = b BY <1>3, <1>4
<1>5. CASE v # b
  <2>1. WriteFollows(b) BY <1>1 DEF OrderInv, HoldersFollow
  <2>2. SameCell(v, b) BY <1>5 DEF SameCell
  <2>3. PICK t \in Streams, k \in Nat : At(stream, Written(b), t, k) /\ Precedes(stream, r, i, t, k)
    BY <1>1, <2>1, <2>2 DEF WriteFollows
  <2>4. Precedes(stream', t, k, s, p) BY <1>3, <2>3 DEF Uses
  <2>5. Precedes(stream', r, i, t, k) BY <1>1, <2>3, LongerPrecedes
  <2> QED BY <1>1, <2>3, <2>4, <2>5, PrecedesThen
<1> QED BY <1>4, <1>5

(* What becomes of the buffers.                                             *)
LEMMA RunFates ==
  ASSUME NEW x, NEW s, NEW c, NEW E, NEW D, NEW F, NEW o, Runs(x, s, c, E, D, F, o)
  PROVE  /\ Jobs' = Jobs /\ OneTask' /\ FixedBuffers
         /\ \A b \in Buffers :
              /\ b = x => /\ ValueFits(b)' /\ Active(b)' /\ Holder(b)' /\ buf'[b].st = "live"
                          /\ buf'[b].owns /\ buf'[b].cell = c /\ buf'[b].val = x /\ (Made(b))'
              /\ b \in call[x].don => /\ buf'[b].st = "gone" /\ buf'[b].usage = <<>> /\ ~buf'[b].owns
                                      /\ buf'[b].cell = buf[b].cell /\ ~Active(b)' /\ ~Holder(b)'
              /\ b # x /\ b \notin call[x].don =>
                   SameButUsage(b) /\ (Active(b)' <=> Active(b)) /\ (Holder(b)' => Holder(b))
              /\ b # x => (Active(b)' => Active(b)) /\ (Holder(b)' => Holder(b))
<1>1. /\ OrderInv /\ DeviceInv /\ DeviceInv' /\ x \in Buffers /\ ~Made(x) /\ buf[x].st = "unborn"
      /\ call[x].ins \subseteq Buffers /\ call[x].don \subseteq call[x].ins /\ s \in Streams
      /\ \A a \in call[x].ins : a \in Buffers /\ Made(a) /\ a # x
  BY RunsFacts
<1>2. /\ call'[x] = NoCall /\ (\A b \in Buffers : b # x => call'[b] = call[b])
      /\ tasks' = tasks /\ (\A b \in Buffers : RunBuffer(b, x, s, c)) /\ c[1] = s[2]
  BY DEF Runs
<1>3. Jobs' = Jobs /\ OneTask' BY <1>1, <1>2, JobsSame, InvFacts
<1>4. /\ ValueFits(x)' /\ Active(x)' /\ Holder(x)' /\ buf'[x].st = "live"
      /\ buf'[x].owns /\ buf'[x].cell = c /\ buf'[x].val = x /\ (Made(x))'
  <2>1. /\ (Made(x))' /\ buf'[x].st = "live" /\ buf'[x].dev = s[2] /\ buf'[x].cell = c
        /\ buf'[x].val = x /\ buf'[x].defs = <<Written(x)>> /\ buf'[x].owns
    BY <1>1, <1>2 DEF RunBuffer
  <2>2. Active(x)' /\ Holder(x)' BY <2>1 DEF Active, Holder
  <2>3. ValueFits(x)'
    <3>1. buf'[x].defs[1] = Written(x) BY <2>1
    <3>2. (DefinitionEvents(x))' \subseteq {Written(x)} BY <2>1 DEF DefinitionEvents
    <3> QED BY <1>2, <2>1, <3>1, <3>2 DEF ValueFits, Written
  <2> QED BY <2>1, <2>2, <2>3
<1>5. ASSUME NEW b \in call[x].don
      PROVE  /\ buf'[b].st = "gone" /\ buf'[b].usage = <<>> /\ ~buf'[b].owns /\ (Made(b))'
             /\ buf'[b].cell = buf[b].cell /\ ~Active(b)' /\ ~Holder(b)'
             /\ buf'[b].dev = buf[b].dev /\ buf'[b].val = buf[b].val /\ buf'[b].defs = buf[b].defs
  <2>1. /\ b \in Buffers /\ call[b].op \in {"none"} \cup Awaits /\ \A j \in Jobs : j[2] # b /\ j[3] # b BY DonorFacts
  <2>2. b # x /\ Made(b) BY <1>1
  <2>3. buf'[b] = ConfirmDonation(b) BY <1>2, <2>1 DEF RunBuffer
  <2>4. /\ buf'[b].st = "gone" /\ buf'[b].usage = <<>> /\ ~buf'[b].owns /\ (Made(b))'
        /\ buf'[b].cell = buf[b].cell /\ buf'[b].dev = buf[b].dev /\ buf'[b].val = buf[b].val
        /\ buf'[b].defs = buf[b].defs
    <3>1. PICK u \in Seq(UsageEvent) : u = <<>>
      <4>1. <<>> \in Seq(UsageEvent) OBVIOUS
      <4> QED BY <4>1
    <3>2. buf'[b] = [buf[b] EXCEPT !.st = "gone", !.usage = u, !.owns = FALSE]
      BY <2>3, <3>1 DEF ConfirmDonation
    <3>3. /\ buf'[b].st = "gone" /\ buf'[b].usage = u /\ ~buf'[b].owns /\ (Made(b))'
          /\ buf'[b].cell = buf[b].cell /\ buf'[b].dev = buf[b].dev /\ buf'[b].val = buf[b].val
          /\ buf'[b].defs = buf[b].defs
      BY <2>2, <3>2 DEF Made, MadeBuffer
    <3> QED BY <3>1, <3>3
  <2>5. ~Active(b)' BY <1>2, <2>1, <2>2, <2>4 DEF Active, Awaits
  <2>6. ~Holder(b)' BY <1>3, <2>1, <2>4, <2>5 DEF Holder
  <2> QED BY <2>4, <2>5, <2>6
<1>6. ASSUME NEW b \in Buffers, b # x, b \notin call[x].don
      PROVE  SameButUsage(b) /\ (Active(b)' <=> Active(b)) /\ (Holder(b)' => Holder(b))
  <2>1. SameButUsage(b)
    <3>1. CASE b \in call[x].ins BY <1>2, <1>6, <3>1 DEF RunBuffer
    <3>2. CASE b \notin call[x].ins
      <4>1. buf'[b] = buf[b] BY <1>2, <1>6, <3>2 DEF RunBuffer
      <4> QED BY <4>1 DEF SameButUsage, Made
    <3> QED BY <3>1, <3>2
  <2>2. buf'[b].st = buf[b].st /\ call'[b] = call[b] BY <1>2, <1>6, <2>1 DEF SameButUsage
  <2>3. Active(b)' <=> Active(b) BY <2>2 DEF Active
  <2> QED BY <1>3, <2>1, <2>2, <2>3 DEF Holder
<1>7. FixedBuffers
  <2> SUFFICES ASSUME NEW b \in Buffers
               PROVE  /\ Made(b) => /\ (Made(b))' /\ buf'[b].cell = buf[b].cell /\ buf'[b].dev = buf[b].dev
                                    /\ buf'[b].val = buf[b].val /\ buf'[b].defs = buf[b].defs
                      /\ buf'[b].st = "unborn" => buf[b].st = "unborn"
                      /\ Made(b) /\ buf'[b].st = "making" => buf[b].st = "making"
    BY DEF FixedBuffers
  <2>1. CASE b = x BY <1>1, <1>4, <2>1
  <2>2. CASE b \in call[x].don BY <1>5, <2>2
  <2>3. CASE b # x /\ b \notin call[x].don BY <1>6, <2>3 DEF SameButUsage
  <2> QED BY <2>1, <2>2, <2>3
<1>8. ASSUME NEW b \in Buffers, b # x PROVE (Active(b)' => Active(b)) /\ (Holder(b)' => Holder(b))
  BY <1>5, <1>6, <1>8
<1> QED BY <1>3, <1>4, <1>5, <1>6, <1>7, <1>8

(* The access of the execution.                                             *)
LEMMA RunAccess ==
  ASSUME NEW x, NEW s, NEW c, NEW E, NEW D, NEW F, NEW o, Runs(x, s, c, E, D, F, o)
  PROVE  /\ o \in StreamOp /\ o.op = "access" /\ o.event = Written(x) /\ OpFits(o)'
         /\ \A m \in o.reads : m.val \in call[x].ins
         /\ \A a \in call[x].ins : \E m \in o.reads : m.val = a
         /\ \A v : TakesPart(o, v) <=> v = x \/ v \in call[x].ins
<1>1. /\ OrderInv /\ DeviceInv /\ x \in Buffers /\ call[x].ins \subseteq Buffers /\ ~Made(x)
      /\ \A a \in call[x].ins : a \in Buffers /\ Made(a) /\ a # x
  BY RunsFacts
<1>2. /\ o = AccessOf({Contents(b) : b \in call[x].ins}, {[cell |-> c, val |-> x]}, Written(x)) /\ c \in Cells
  BY DEF Runs
<1>3. PICK R : R = {Contents(b) : b \in call[x].ins} OBVIOUS
<1>4. PICK W : W = {[cell |-> c, val |-> x]} OBVIOUS
<1>5. \A a \in call[x].ins : /\ Contents(a) \in Memory /\ Contents(a).val = a
                             /\ Contents(a).cell = buf[a].cell
  <2> SUFFICES ASSUME NEW a \in call[x].ins
               PROVE  Contents(a) \in Memory /\ Contents(a).val = a /\ Contents(a).cell = buf[a].cell
    OBVIOUS
  <2>1. a \in Buffers /\ Made(a) /\ ValueFits(a) BY <1>1, InvFacts
  <2>2. Contents(a) \in Memory BY <1>1, <2>1, MadeFacts DEF DeviceInv
  <2> QED BY <2>1, <2>2 DEF Contents, ValueFits
<1>6. R \in SUBSET Memory BY <1>3, <1>5
<1>7. W \in SUBSET Memory
  <2>1. x \in 0..NumBuffers BY <1>1, BufferNumbers
  <2> QED BY <1>2, <1>4, <2>1 DEF Memory
<1>8. Written(x) \in Events BY <1>1, EventNames
<1>9. o = AccessOf(R, W, Written(x)) BY <1>2, <1>3, <1>4
<1>10. o \in StreamOp /\ o.op = "access" /\ o.reads = R /\ o.writes = W /\ o.event = Written(x)
  BY <1>6, <1>7, <1>8, <1>9, AccessFacts
<1>11. \A m \in o.reads : \E a \in call[x].ins : m = Contents(a) BY <1>3, <1>10
<1>12. \A m \in o.reads : m.val \in call[x].ins /\ m.cell = buf[m.val].cell BY <1>5, <1>11
<1>13. \A a \in call[x].ins : \E m \in o.reads : m.val = a BY <1>3, <1>5, <1>10
<1>14. \A v : TakesPart(o, v) <=> v = x \/ v \in call[x].ins
  BY <1>10, <1>12, <1>13, EventNames DEF TakesPart
<1>15. OpFits(o)'
  <2>1. /\ FixedBuffers /\ buf'[x].cell = c /\ buf'[x].val = x /\ (Made(x))' BY <1>1, RunFates
  <2>2. \A m \in o.reads : /\ m.val \in Buffers /\ (Made(m.val))' /\ m.cell = buf'[m.val].cell
                           /\ Written(m.val) # o.event
    BY <1>1, <1>10, <1>12, <2>1, EventNames DEF FixedBuffers
  <2>3. o.event[1] = "written" /\ o.event[2] = x BY <1>10, EventNames
  <2>4. o.writes = {(Contents(x))'} BY <1>4, <1>10, <2>1 DEF Contents
  <2> QED BY <1>10, <2>1, <2>2, <2>3, <2>4 DEF OpFits, Written
<1> QED BY <1>10, <1>12, <1>13, <1>14, <1>15

LEMMA RunEmits ==
  ASSUME NEW x, NEW s, NEW c, NEW E, NEW D, NEW F, NEW o, Runs(x, s, c, E, D, F, o),
         NEW p \in Nat, Enqueued(s, p, o)
  PROVE  /\ Emits(s, p, o) /\ EventSet(o.event, s) /\ EvStep({o.event}) /\ Remembers(s, E, o.event)
         /\ \A j \in Jobs : JobEvent(j) # o.event
<1>1. /\ OrderInv /\ DeviceInv /\ DeviceInv' /\ x \in Buffers /\ ~Made(x) /\ buf[x].st = "unborn"
      /\ s \in Streams /\ E \in SUBSET Events /\ (\A e \in E : Recorded(e))
      /\ \A a \in call[x].ins : a \in Buffers /\ Recorded(Written(a))
  BY RunsFacts
<1>2. o.event = Written(x) /\ \A m \in o.reads : m.val \in call[x].ins BY RunAccess
<1>3. FixedBuffers /\ buf'[x].st = "live" BY <1>1, RunFates
<1>4. Written(x) \in Events /\ Written(x)[1] = "written" /\ Written(x)[2] = x BY <1>1, EventNames
<1>5. ev[Written(x)].status = "none"
  <2>1. EventFits(Written(x)) BY <1>1, <1>4, InvFacts
  <2> QED BY <1>1, <1>4, <2>1 DEF EventFits, NotSet
<1>6. SetsEvent(s, E, Written(x)) BY DEF Runs
<1>7. EventSet(Written(x), s) /\ EvStep({Written(x)}) /\ Remembers(s, E, Written(x))
  BY <1>1, <1>3, <1>4, <1>5, <1>6, RecordFacts
<1>8. \A j \in Jobs : JobEvent(j) # o.event
  <2> SUFFICES ASSUME NEW j \in Jobs, JobEvent(j) = Written(x) PROVE FALSE BY <1>2
  <2>1. j[2] = x BY DEF JobEvent, Written
  <2> QED BY <1>1, <2>1, JobFacts
<1>9. \A b \in Buffers : \A y \in Usage(b) : y.event # o.event
  <2> SUFFICES ASSUME NEW b \in Buffers, NEW y \in Usage(b), y.event = Written(x) PROVE FALSE BY <1>2
  <2>1. UsageFits(y) BY <1>1, InvFacts
  <2> QED BY <1>1, <1>4, <2>1 DEF UsageFits
<1>10. Emits(s, p, o) BY <1>1, <1>2, <1>3, <1>7, <1>9 DEF Emits
<1> QED BY <1>2, <1>7, <1>8, <1>10

(* The usage event of the execution is added to those of its output and of  *)
(* the arguments that were not donated.                                     *)
LEMMA RunUsage ==
  ASSUME NEW x, NEW s, NEW c, NEW E, NEW D, NEW F, NEW o, Runs(x, s, c, E, D, F, o), NEW b \in Buffers,
         b \notin call[x].don
  PROVE  UsageGrows(b, s, o.event) /\ (b = x \/ b \in call[x].ins => Adds(b, s, o.event, Retain))
<1>1. RunBuffer(b, x, s, c) BY DEF Runs
<1>2. o.event = Written(x) /\ o.event[1] = "written" BY RunAccess, EventNames
<1>3. CASE b = x \/ b \in call[x].ins
  <2>1. Adds(b, s, o.event, Retain) BY <1>1, <1>2, <1>3 DEF RunBuffer
  <2>2. Retain \in BOOLEAN BY DEF Retain
  <2> QED BY <1>2, <2>1, <2>2 DEF UsageGrows
<1>4. CASE b # x /\ b \notin call[x].ins
  <2>1. buf'[b] = buf[b] BY <1>1, <1>4 DEF RunBuffer
  <2>2. Usage(b)' = Usage(b) BY <2>1 DEF Usage, Elems
  <2> QED BY <1>4, <2>2 DEF UsageGrows
<1> QED BY <1>3, <1>4

LEMMA RunBooked ==
  ASSUME NEW x, NEW s, NEW c, NEW E, NEW D, NEW F, NEW o, Runs(x, s, c, E, D, F, o),
         NEW p \in Nat, Enqueued(s, p, o), Sent(s, p, E, D, F)
  PROVE  Booked(s, p, o, E)
<1>1. /\ OrderInv /\ DeviceInv /\ x \in Buffers /\ ~Made(x) /\ s \in Streams /\ E \in SUBSET Events
      /\ \A a \in call[x].ins : /\ a \in Buffers /\ Made(a) /\ a # x /\ buf[a].st \in {"live", "gone"}
  BY RunsFacts
<1>2. /\ Jobs' = Jobs /\ OneTask' /\ FixedBuffers
      /\ \A b \in Buffers :
           /\ b = x => ValueFits(b)' /\ buf'[b].st = "live" /\ buf'[b].owns
           /\ b \in call[x].don => /\ buf'[b].st = "gone" /\ buf'[b].usage = <<>>
                                   /\ ~Active(b)' /\ ~Holder(b)'
           /\ b # x /\ b \notin call[x].don => SameButUsage(b) /\ (Active(b)' <=> Active(b))
           /\ b # x => (Active(b)' => Active(b)) /\ (Holder(b)' => Holder(b))
  BY RunFates
<1>3. o.event = Written(x) /\ OpFits(o)' BY RunAccess
<1>4. /\ Emits(s, p, o) /\ Remembers(s, E, o.event) /\ \A j \in Jobs : JobEvent(j) # o.event BY RunEmits
<1>5. /\ call'[x] = NoCall /\ call[x].op = "execute" /\ (\A b \in Buffers : b # x => call'[b] = call[b])
      /\ (\A b \in Buffers : RunBuffer(b, x, s, c))
      /\ UNCHANGED <<mem, pool, ready, literal, dependency>>
  BY DEF Runs
<1>6. call[x].don \subseteq call[x].ins BY RunsFacts
<1>7. ASSUME NEW b \in Buffers PROVE BufferBooked(b, s, o)
  <2>1. HolderFits(b) BY <1>1, InvFacts
  <2>2. ~Made(b) /\ (Made(b))' => ValueFits(b)' BY <1>1, <1>2, <1>6 DEF SameButUsage
  <2>3. o.event # <<"read", b>> BY <1>3, EventNames
  <2>4. ASSUME buf'[b].st = "making" PROVE buf'[b].usage = <<>>
    <3>1. b # x /\ b \notin call[x].don BY <1>2, <2>4
    <3>2. buf[b].st = "making" BY <1>2, <2>4, <3>1 DEF SameButUsage
    <3>3. b \notin call[x].ins BY <1>1, <3>2
    <3>4. buf'[b] = buf[b] BY <1>5, <3>1, <3>3 DEF RunBuffer
    <3> QED BY <2>1, <3>2, <3>4 DEF HolderFits
  <2>5. ASSUME Holder(b)' PROVE buf'[b].owns
    <3>1. b \notin call[x].don BY <1>2, <2>5
    <3>2. CASE b = x BY <1>2, <3>2
    <3>3. CASE b # x BY <1>2, <2>1, <2>5, <3>1, <3>3 DEF HolderFits, SameButUsage
    <3> QED BY <3>2, <3>3
  <2>6. Made(b) \/ o.event # Written(b) => (Active(b)' => Active(b))
    <3>1. Made(b) \/ o.event # Written(b) => b # x BY <1>1, <1>3
    <3> QED BY <1>2, <3>1
  <2>7. UsageGrows(b, s, o.event) \/ (~Active(b)' /\ Usage(b)' = {})
    <3>1. CASE b \in call[x].don
      <4>1. buf'[b].usage = <<>> /\ ~Active(b)' BY <1>2, <3>1
      <4>2. Usage(b)' = {} BY <4>1 DEF Usage, Elems
      <4> QED BY <4>1, <4>2
    <3>2. CASE b \notin call[x].don BY <3>2, RunUsage
    <3> QED BY <3>1, <3>2
  <2>8. call'[b] = call[b] \/ (call[b].op # "copy" /\ call'[b].op = "none") BY <1>5, NoCallFacts
  <2>9. ~(call[b].op = "copy" /\ o.event = Written(b)) BY <1>3, <1>5, EventNames
  <2> QED BY <2>2, <2>3, <2>4, <2>5, <2>6, <2>7, <2>8, <2>9 DEF BufferBooked
<1>8. ASSUME NEW j \in Jobs PROVE Active(j[2]) => Active(j[2])' /\ UsageGrows(j[2], s, o.event)
  <2>1. j[2] \in Buffers /\ j[2] # x BY <1>1, JobFacts
  <2>2. j[2] \notin call[x].don BY DonorFacts
  <2> QED BY <1>2, <2>1, <2>2, RunUsage
<1> QED BY <1>1, <1>2, <1>3, <1>4, <1>5, <1>7, <1>8 DEF Booked, Sent

(* The order the execution keeps to: its arguments are written before it,   *)
(* and the other uses of the memory of its output come before it.           *)
LEMMA RunOrder ==
  ASSUME NEW x, NEW s, NEW c, NEW E, NEW D, NEW F, NEW o, Runs(x, s, c, E, D, F, o),
         NEW p \in Nat, Enqueued(s, p, o), Sent(s, p, E, D, F)
  PROVE  (\A a \in call[x].ins : ReadsBehind(s, p, a)) /\ WritesBehind(s, p, x)
<1>1. /\ OrderInv /\ DeviceInv /\ x \in Buffers /\ s \in Streams
      /\ \A a \in call[x].ins : /\ a \in Buffers /\ Made(a) /\ Holder(a) /\ Recorded(Written(a))
  BY RunsFacts
<1>2. /\ E = ExecutionEvents(call[x].ins, call[x].don) /\ c \in Cells /\ c[1] = s[2]
      /\ s = <<"compute", s[2]>> /\ ((\E b \in call[x].don : buf[b].cell = c) \/ Free(c))
  BY DEF Runs
<1>3. ASSUME NEW a \in call[x].ins PROVE ReadsBehind(s, p, a)
  <2>1. ASSUME NEW r \in Streams, NEW j \in Nat, At(stream, Written(a), r, j) PROVE Precedes(stream', r, j, s, p)
    <3>1. CASE a \in call[x].don
      <4>1. Uses(stream, r, j, a) BY <2>1 DEF Uses
      <4> QED BY <1>1, <3>1, <4>1, DonorUses
    <3>2. CASE a \notin call[x].don
      <4>1. Written(a) \in DefinitionEvents(a) BY <1>1, FirstDefinition
      <4>2. Written(a) \in E BY <1>2, <3>2, <4>1 DEF ExecutionEvents
      <4> QED BY <2>1, <4>2 DEF Sent
    <3> QED BY <3>1, <3>2
  <2> QED BY <1>1, <2>1 DEF ReadsBehind
<1>4. WritesBehind(s, p, x)
  <2>1. Holder(x)' /\ buf'[x].cell = c BY <1>1, RunFates
  <2>2. ASSUME NEW r \in Streams, NEW i \in Nat, NEW v \in Buffers, Uses(stream, r, i, v), buf[v].cell = c
        PROVE  Precedes(stream', r, i, s, p)
    <3>1. CASE \E b \in call[x].don : buf[b].cell = c BY <2>2, <3>1, DonorUses
    <3>2. CASE Free(c)
      <4>1. BeforeEnd(stream, r, i, <<"compute", c[1]>>) BY <1>1, <1>2, <2>2, <3>2, FreeFacts
      <4>2. BeforeEnd(stream, r, i, s) BY <1>2, <4>1
      <4> QED BY <4>2 DEF Sent
    <3> QED BY <1>2, <3>1, <3>2
  <2> QED BY <2>1, <2>2 DEF WritesBehind
<1> QED BY <1>3, <1>4

(* The memory the execution touches is kept until it is done.               *)
LEMMA RunKeeps ==
  ASSUME NEW x, NEW s, NEW c, NEW E, NEW D, NEW F, NEW o, Runs(x, s, c, E, D, F, o),
         NEW p \in Nat, Enqueued(s, p, o), Sent(s, p, E, D, F), NEW v, v = x \/ v \in call[x].ins
  PROVE  \/ Model = "kAsynchronous" \/ KeptByCallback(s, p, buf[v].cell)'
         \/ Model = "kComputeSynchronized" /\ KeptByCompute(s, p, buf[v].cell)'
<1>0. PICK w : w = buf'[v].cell OBVIOUS
<1>1. /\ x \in Buffers /\ s \in Streams /\ FixedBuffers /\ buf'[x].cell = c /\ buf'[x].owns
      /\ call[x].don \subseteq call[x].ins
      /\ \A a \in call[x].ins : /\ a \in Buffers /\ Made(a) /\ buf[a].cell[1] = s[2] /\ buf[a].owns
  BY RunsFacts, RunFates
<1>2. /\ c[1] = s[2] /\ s = <<"compute", s[2]>>
      /\ Retain => /\ D = {x} \cup (call[x].ins \ call[x].don)
                   /\ \/ \E b \in call[x].don : buf[b].cell = c
                      \/ F = {buf[b].cell : b \in call[x].don}
  BY DEF Runs
<1>3. v = x \/ (v \in call[x].ins /\ w = buf[v].cell) BY <1>0, <1>1 DEF FixedBuffers
<1>4. w[1] = s[2] BY <1>0, <1>1, <1>2, <1>3
<1>5. CASE Model = "kComputeSynchronized"
  <2>1. stream' \in Queues /\ p \in DOMAIN stream'[s] BY DEF Enqueued, Longer
  <2>2. Precedes(stream', s, p, s, p) BY <1>1, PrecedesSame
  <2>3. BeforeEnd(stream', s, p, s) BY <1>1, <2>1, <2>2, AtBeforeEnd
  <2>4. BeforeEnd(stream', s, p, <<"compute", w[1]>>) BY <1>2, <1>4, <2>3
  <2>5. KeptByCompute(s, p, w)' BY <2>4 DEF KeptByCompute
  <2>6. KeptByCompute(s, p, buf[v].cell)' BY <1>0, <2>5 DEF KeptByCompute
  <2> QED BY <1>5, <2>6
<1>6. CASE Model = "kSynchronous"
  <2>1. Retain BY <1>6 DEF Retain
  <2>2. w \in F \/ \E b \in D : buf'[b].owns /\ buf'[b].cell = w
    <3>1. CASE v = x BY <1>0, <1>1, <1>2, <2>1, <3>1
    <3>2. CASE v \in call[x].ins \ call[x].don
      <4>1. v \in D BY <1>2, <2>1, <3>2
      <4>2. v # x BY <3>2, RunsFacts
      <4>3. SameButUsage(v) BY <1>1, <3>2, <4>2, RunFates
      <4>4. buf'[v].owns BY <1>1, <3>2, <4>3 DEF SameButUsage
      <4> QED BY <1>0, <4>1, <4>4
    <3>3. CASE v \in call[x].don
      <4>1. \A a \in call[x].don : a = v BY <3>3, DonorFacts
      <4>2. w = buf[v].cell
        <5>1. v \in Buffers /\ Made(v) BY <1>1, <3>3
        <5> QED BY <1>0, <1>1, <5>1 DEF FixedBuffers
      <4>3. CASE \E b \in call[x].don : buf[b].cell = c
        <5>1. w = c /\ x \in D BY <1>2, <2>1, <4>1, <4>2, <4>3
        <5> QED BY <1>1, <5>1
      <4>4. CASE F = {buf[b].cell : b \in call[x].don} BY <3>3, <4>2, <4>4
      <4> QED BY <1>2, <2>1, <4>3, <4>4
    <3> QED BY <1>3, <3>1, <3>2, <3>3
  <2>3. KeptByCallback(s, p, w)' BY <1>1, <2>2, SentKeeps
  <2>4. KeptByCallback(s, p, buf[v].cell)' BY <1>0, <2>3 DEF KeptByCallback, Gives
  <2> QED BY <2>4
<1> QED BY <1>5, <1>6, ModelAssumption

LEMMA RunLaunch ==
  ASSUME NEW x, NEW s, NEW c, NEW E, NEW D, NEW F, NEW o, Runs(x, s, c, E, D, F, o),
         NEW p \in Nat, Enqueued(s, p, o), Sent(s, p, E, D, F)
  PROVE  Launch(s, p, o)
<1>1. /\ OrderInv /\ DeviceInv /\ DeviceInv' /\ x \in Buffers /\ ~Made(x) /\ s \in Streams
      /\ call[x].don \subseteq call[x].ins
      /\ \A a \in call[x].ins : /\ a \in Buffers /\ Made(a) /\ a # x /\ buf[a].cell[1] = s[2]
                                /\ buf[a].st \in {"live", "gone"} /\ buf[a].owns
  BY RunsFacts
<1>2. /\ Jobs' = Jobs /\ FixedBuffers
      /\ \A b \in Buffers :
           /\ b = x => buf'[b].st = "live" /\ buf'[b].owns /\ buf'[b].cell = c /\ Active(b)'
           /\ b \in call[x].don => /\ buf'[b].st = "gone" /\ ~buf'[b].owns /\ ~Active(b)' /\ ~Holder(b)'
           /\ b # x /\ b \notin call[x].don => SameButUsage(b) /\ (Active(b)' <=> Active(b))
           /\ b # x => (Active(b)' => Active(b)) /\ (Holder(b)' => Holder(b))
  BY RunFates
<1>3. /\ o.event = Written(x) /\ OpFits(o)' /\ (\A m \in o.reads : m.val \in call[x].ins)
      /\ \A v : TakesPart(o, v) <=> v = x \/ v \in call[x].ins
  BY RunAccess
<1>4. /\ Emits(s, p, o) /\ EventSet(o.event, s) /\ EvStep({o.event})
      /\ \A j \in Jobs : JobEvent(j) # o.event
  BY RunEmits
<1>5. /\ call[x].op = "execute" /\ (\A b \in Buffers : b # x => call'[b] = call[b])
      /\ UNCHANGED <<mem, pool>> /\ c[1] = s[2] /\ s = <<"compute", s[2]>>
  BY DEF Runs
<1>6. (\A a \in call[x].ins : ReadsBehind(s, p, a)) /\ WritesBehind(s, p, x) BY RunOrder
<1>7. Retain \in BOOLEAN BY DEF Retain
<1>8. ASSUME NEW v \in Buffers, v = x \/ v \in call[x].ins PROVE PartFits(s, p, v)
  <2>1. Model # "kComputeSynchronized" => s[2] = buf'[v].cell[1] /\ buf'[v].st # "external"
    <3>1. CASE v = x BY <1>2, <1>5, <3>1
    <3>2. CASE v \in call[x].ins
      <4>1. buf'[v].cell = buf[v].cell /\ v # x BY <1>1, <1>2, <3>2 DEF FixedBuffers
      <4>2. buf'[v].st # "external"
        <5>1. CASE v \in call[x].don BY <1>2, <5>1
        <5>2. CASE v \notin call[x].don BY <1>1, <1>2, <3>2, <4>1, <5>2 DEF SameButUsage
        <5> QED BY <5>1, <5>2
      <4> QED BY <1>1, <3>2, <4>1, <4>2
    <3> QED BY <1>8, <3>1, <3>2
  <2>2. Active(v)' => CoveredByUsage(s, p, v)'
    <3>1. Active(v)' => v \notin call[x].don BY <1>2
    <3>2. v \notin call[x].don => Adds(v, s, o.event, Retain) BY <1>8, RunUsage
    <3>3. Adds(v, s, o.event, Retain) => CoveredByUsage(s, p, v)' BY <1>4, <1>7, AddsFacts
    <3> QED BY <3>1, <3>2, <3>3
  <2>3. \/ Model = "kAsynchronous" \/ KeptByCallback(s, p, buf[v].cell)'
        \/ Model = "kComputeSynchronized" /\ KeptByCompute(s, p, buf[v].cell)'
    BY <1>8, RunKeeps
  <2>4. UseKept(s, p, v)' BY <2>3 DEF UseKept
  <2> QED BY <2>1, <2>2, <2>4 DEF PartFits
<1>9. ASSUME NEW v \in Buffers, buf[v].owns, ~buf'[v].owns PROVE GivesAway(s, p, v)
  <2>1. v \in call[x].don BY <1>2, <1>9 DEF SameButUsage
  <2>2. \A r \in Streams, i \in Nat, w \in Buffers :
          Uses(stream, r, i, w) /\ buf[w].cell = buf[v].cell => Precedes(stream', r, i, s, p)
    BY <2>1, DonorUses
  <2>3. \/ Model = "kAsynchronous" \/ KeptByCallback(s, p, buf[v].cell)'
        \/ Model = "kComputeSynchronized" /\ KeptByCompute(s, p, buf[v].cell)'
    BY <1>1, <2>1, RunKeeps
  <2> QED BY <2>2, <2>3 DEF GivesAway
<1>10. ASSUME NEW v \in Buffers, o.event # Written(v)
       PROVE  /\ Holder(v)' => Holder(v)
              /\ Active(v)' => Active(v) /\ StillCovers(v)
              /\ buf'[v].st = "external" => buf[v].st = "external"
  <2>1. v # x BY <1>3, <1>10
  <2>2. Active(v)' => StillCovers(v)
    <3>1. Active(v)' => v \notin call[x].don BY <1>2
    <3>2. v \notin call[x].don => UsageGrows(v, s, o.event) BY RunUsage
    <3> QED BY <1>4, <3>1, <3>2, UsageGrowsFacts
  <2>3. buf'[v].st = "external" => buf[v].st = "external" BY <1>2, <2>1 DEF SameButUsage
  <2> QED BY <1>2, <2>1, <2>2, <2>3
<1>11. ASSUME NEW v \in Buffers, NEW r \in Streams, NEW i \in Nat, KeptByUsage(r, i, v), buf'[v].owns
       PROVE  KeptByUsage(r, i, v)'
  <2>1. /\ At(stream, Written(v), r, i) /\ Active(v)
        /\ r # <<"compute", buf[v].dev>> /\ r # <<"d2d", buf[v].dev>>
        /\ call[v].op = "copy" \/ Loose(v, r)
    BY <1>11 DEF KeptByUsage
  <2>2. Made(v) BY <1>1, <2>1, WritesFacts, InvFacts
  <2>3. v # x /\ v \notin call[x].don BY <1>1, <1>2, <1>11, <2>2
  <2>4. SameButUsage(v) /\ Active(v)' BY <1>2, <2>1, <2>3
  <2>5. At(stream', Written(v), r, i) BY <2>1, EnqueuedFacts
  <2>6. call'[v] = call[v] BY <1>5, <2>3
  <2>7. buf'[v].dev = buf[v].dev BY <2>4 DEF SameButUsage
  <2>8. ASSUME Loose(v, r), call[v].op # "copy" PROVE Loose(v, r)'
    <3>1. UsageGrows(v, s, o.event) /\ (v \in call[x].ins => buf[v].dev = s[2])
      BY <2>3, RunUsage DEF Runs
    <3>2. CASE v \in call[x].ins
      <4>1. r # s BY <1>5, <2>1, <3>1, <3>2
      <4> QED BY <1>4, <2>8, <3>1, <4>1, UsageGrowsFacts
    <3>3. CASE v \notin call[x].ins
      <4>1. RunBuffer(v, x, s, c) BY DEF Runs
      <4>2. buf'[v] = buf[v] BY <2>3, <3>3, <4>1 DEF RunBuffer
      <4> QED BY <2>8, <4>2 DEF Loose, Usage, Elems, Written
    <3> QED BY <3>2, <3>3
  <2>9. At(stream, Written(v), r, i)' BY <2>5 DEF At, Written
  <2> QED BY <2>1, <2>4, <2>6, <2>7, <2>8, <2>9 DEF KeptByUsage
<1>12. \A v \in Buffers : call[v].op = "copy" => call'[v] = call[v] BY <1>5
<1>13. \A v \in Buffers : o.event = Written(v) => WritesBehind(s, p, v) BY <1>3, <1>6, EventNames
<1>14. \A m \in o.reads : ReadsBehind(s, p, m.val) BY <1>3, <1>6
<1>15. \A v \in Buffers : TakesPart(o, v) => PartFits(s, p, v) BY <1>3, <1>8
<1>16. o.event[1] \in {"written", "read"} BY <1>3, EventNames
<1> QED BY <1>1, <1>2, <1>3, <1>4, <1>5, <1>9, <1>10, <1>11, <1>12, <1>13, <1>14, <1>15, <1>16 DEF Launch

LEMMA ExecuteHelperOrder ==
  ASSUME OrderInv, DeviceInv', NEW x \in Buffers, ExecuteHelper(x)
  PROVE  OrderInv'
<1>1. PICK s, c, E, D, F, o : Runs(x, s, c, E, D, F, o) BY ExecuteRuns
<1>2. s \in Streams /\ E \in SUBSET Events BY <1>1, RunsFacts
<1>3. o \in StreamOp /\ o.op = "access" BY <1>1, RunAccess
<1>4. D \in SUBSET Buffers /\ F \in SUBSET Cells /\ Sends(s, E, o, D, F) BY <1>1 DEF Runs
<1>5. PICK p \in Nat : Enqueued(s, p, o) /\ Sent(s, p, E, D, F) BY <1>2, <1>3, <1>4, SendFacts
<1>6. Launch(s, p, o) BY <1>1, <1>5, RunLaunch
<1>7. Booked(s, p, o, E) BY <1>1, <1>5, RunBooked
<1> QED BY <1>6, <1>7, LaunchInv

-----------------------------------------------------------------------------
(* StreamStep: the stream s passes its head.  The event of the head is done *)
(* then, and what it writes is in memory.                                   *)
Passes(s) ==
  /\ OrderInv /\ DeviceInv' /\ s \in Streams /\ PassesHead(stream, stream', s) /\ Passable(stream, s)
  /\ UNCHANGED <<buf, tasks, call, pool, ready, dependency>>
  /\ \A e \in Events :
       /\ ~At(stream, e, s, 1) => ev'[e] = ev[e]
       /\ ev'[e].seq = ev[e].seq /\ ev'[e].stream = ev[e].stream /\ ev'[e].status = ev[e].status
       /\ ev'[e].on = ev[e].on /\ (ev[e].done => ev'[e].done)
  /\ \A c \in Cells :
       \/ mem'[c] = mem[c]
       \/ \E v \in Buffers : At(stream, Written(v), s, 1) /\ buf[v].cell = c
  /\ \A v \in Buffers : At(stream, Written(v), s, 1) => mem'[buf[v].cell] = v
  /\ \A b \in Buffers : \/ literal'[b] = literal[b]
                        \/ literal'[b] # "none" /\ At(stream, <<"read", b>>, s, 1)

LEMMA StreamPasses ==
  ASSUME OrderInv, DeviceInv', NEW s \in Streams, StreamStep(s)
  PROVE  Passes(s)
<1>1. PICK o : o = Head(stream[s]) OBVIOUS
<1>2. /\ stream[s] # <<>> /\ (o.op = "wait" => \A e \in o.events : ev[e].done)
      /\ stream' = [stream EXCEPT ![s] = Tail(stream[s])]
      /\ UNCHANGED <<buf, tasks, call, pool, ready, dependency>>
  BY <1>1 DEF StreamStep, Enabled, Advance
<1>3. /\ mem' = IF o.op = "access"
                  THEN [c \in Cells |-> IF \E w \in o.writes : w.cell = c
                                          THEN (CHOOSE w \in o.writes : w.cell = c).val
                                          ELSE mem[c]]
                  ELSE mem
      /\ ev' = IF o.op \in {"access", "record"} THEN [ev EXCEPT ![o.event].done = TRUE] ELSE ev
      /\ literal' = IF o.op = "access" /\ o.event[1] = "read"
                      THEN [literal EXCEPT ![o.event[2]] = "ok"] ELSE literal
  BY <1>1, Zenon DEF StreamStep
<1>4. DeviceInv /\ ValuesFit /\ stream \in Queues BY InvFacts
<1>5. stream[s] \in Seq(StreamOp) BY <1>4 DEF Queues
<1>6. 1 \in DOMAIN stream[s] /\ stream[s][1] = o /\ o \in StreamOp BY <1>1, <1>2, <1>5
<1>7. PassesHead(stream, stream', s) BY <1>2, <1>4 DEF PassesHead
<1>8. Passable(stream, s)
  <2> SUFFICES ASSUME NEW e \in Events, NEW r \in Streams, NEW i \in Nat,
                      WaitsAt(stream, e, s, 1), At(stream, e, r, i)
               PROVE  FALSE
    BY DEF Passable
  <2>1. ev[e].done BY <1>2, <1>6 DEF WaitsAt
  <2>2. PlaceFits(e, r, i) BY InvFacts
  <2> QED BY <2>1, <2>2 DEF PlaceFits
<1>9. ev \in [Events -> Event] /\ literal \in [Buffers -> Future] /\ OpFits(o)
  BY <1>4, <1>6 DEF DeviceInv, Typed, EvTyped, FuturesTyped, ValuesFit
<1>10. \A e : At(stream, e, s, 1) <=> o.op \in {"access", "record"} /\ o.event = e BY <1>6 DEF At
<1>11. ASSUME NEW e \in Events
       PROVE  /\ ~At(stream, e, s, 1) => ev'[e] = ev[e]
              /\ ev'[e].seq = ev[e].seq /\ ev'[e].stream = ev[e].stream /\ ev'[e].status = ev[e].status
              /\ ev'[e].on = ev[e].on /\ (ev[e].done => ev'[e].done)
  <2>1. CASE At(stream, e, s, 1)
    <3>1. ev'[e] = [ev[e] EXCEPT !.done = TRUE] BY <1>3, <1>9, <1>10, <2>1
    <3>2. ev[e] \in Event BY <1>9
    <3> QED BY <2>1, <3>1, <3>2 DEF Event
  <2>2. CASE ~At(stream, e, s, 1)
    <3>1. ev'[e] = ev[e] BY <1>3, <1>9, <1>10, <2>2
    <3> QED BY <3>1
  <2> QED BY <2>1, <2>2
<1>12. \A v \in Buffers : At(stream, Written(v), s, 1) =>
         /\ o.op = "access" /\ o.writes = {Contents(v)} /\ buf[v].cell \in Cells
         /\ Contents(v).cell = buf[v].cell /\ Contents(v).val = v
  <2> SUFFICES ASSUME NEW v \in Buffers, At(stream, Written(v), s, 1)
               PROVE  /\ o.op = "access" /\ o.writes = {Contents(v)} /\ buf[v].cell \in Cells
                      /\ Contents(v).cell = buf[v].cell /\ Contents(v).val = v
    OBVIOUS
  <2>1. Made(v) /\ o.op = "access" /\ o.writes = {Contents(v)} BY <1>4, <1>6, WritesFacts
  <2>2. ValueFits(v) /\ buf[v].cell \in Cells BY <1>4, <2>1, InvFacts, MadeFacts DEF DeviceInv
  <2> QED BY <2>1, <2>2 DEF Contents, ValueFits
<1>13. ASSUME NEW v \in Buffers, At(stream, Written(v), s, 1) PROVE mem'[buf[v].cell] = v
  <2>1. PICK m : m = Contents(v) OBVIOUS
  <2>2. o.op = "access" /\ o.writes = {m} /\ m.cell \in Cells /\ m.val = v /\ m.cell = buf[v].cell
    BY <1>12, <1>13, <2>1
  <2>3. (CHOOSE w \in o.writes : w.cell = m.cell) = m BY <2>2
  <2> QED BY <1>3, <2>2, <2>3
<1>14. ASSUME NEW c \in Cells
       PROVE  mem'[c] = mem[c] \/ \E v \in Buffers : At(stream, Written(v), s, 1) /\ buf[v].cell = c
  <2>1. CASE ~(o.op = "access" /\ \E w \in o.writes : w.cell = c)
    BY <1>3, <2>1
  <2>2. CASE o.op = "access" /\ \E w \in o.writes : w.cell = c
    <3>1. o.event[1] = "written" /\ o.event \in Events BY <1>6, <1>9, <2>2, OpFacts DEF OpFits
    <3>2. PICK v \in Buffers : o.event = Written(v) BY <3>1, EventNames DEF Written
    <3>3. At(stream, Written(v), s, 1) BY <1>10, <2>2, <3>2
    <3>4. o.writes = {Contents(v)} /\ Contents(v).cell = buf[v].cell BY <1>12, <3>3
    <3> QED BY <2>2, <3>3, <3>4
  <2> QED BY <2>1, <2>2
<1>15. ASSUME NEW b \in Buffers
       PROVE  literal'[b] = literal[b] \/ (literal'[b] # "none" /\ At(stream, <<"read", b>>, s, 1))
  <2>1. CASE ~(o.op = "access" /\ o.event[1] = "read") BY <1>3, <2>1
  <2>2. CASE o.op = "access" /\ o.event[1] = "read"
    <3>1. literal' = [literal EXCEPT ![o.event[2]] = "ok"] BY <1>3, <2>2
    <3>2. CASE b # o.event[2] BY <1>9, <3>1, <3>2
    <3>3. CASE b = o.event[2]
      <4>1. o.event \in Events BY <1>6, <2>2, OpFacts
      <4>2. o.event = <<"read", b>> BY <2>2, <3>3, <4>1, EventNames
      <4>3. literal'[b] = "ok" BY <1>9, <3>1, <3>3
      <4> QED BY <1>10, <2>2, <4>2, <4>3
    <3> QED BY <3>2, <3>3
  <2> QED BY <2>1, <2>2
<1> QED BY <1>2, <1>7, <1>8, <1>11, <1>13, <1>14, <1>15 DEF Passes

(* Places before and after the step.                                        *)
LEMMA PassFacts ==
  ASSUME NEW s, Passes(s)
  PROVE  /\ OrderInv /\ DeviceInv /\ s \in Streams /\ stream \in Queues /\ stream' \in Queues
         /\ Jobs' = Jobs /\ OneTask' /\ buf' = buf /\ call' = call /\ pool' = pool /\ ready' = ready
         /\ \A e \in Events : (Recorded(e))' <=> Recorded(e)
<1>1. OrderInv /\ s \in Streams /\ PassesHead(stream, stream', s) /\ tasks' = tasks BY DEF Passes
<1>2. stream' \in Queues BY <1>1, TailAt
<1>3. \A e \in Events : ev'[e].seq = ev[e].seq BY DEF Passes
<1>4. \A e \in Events : (Recorded(e))' <=> Recorded(e) BY <1>3 DEF Recorded
<1>5. buf' = buf /\ call' = call /\ pool' = pool /\ ready' = ready BY DEF Passes
<1> QED BY <1>1, <1>2, <1>4, <1>5, InvFacts, JobsSame

LEMMA PassAt ==
  ASSUME NEW s, Passes(s), NEW r \in Streams, NEW i \in Nat
  PROVE  /\ i \in DOMAIN stream'[r] => /\ i # 0 /\ Shift(s, r, i) \in DOMAIN stream[r]
                                       /\ stream'[r][i] = stream[r][Shift(s, r, i)]
         /\ \A e : At(stream', e, r, i) <=> i # 0 /\ At(stream, e, r, Shift(s, r, i))
         /\ \A v : Reads(stream', r, i, v) <=> i # 0 /\ Reads(stream, r, Shift(s, r, i), v)
         /\ \A v : Uses(stream', r, i, v) <=> i # 0 /\ Uses(stream, r, Shift(s, r, i), v)
         /\ Shift(s, r, i) \in Nat /\ (i # 0 => ~(r = s /\ Shift(s, r, i) = 1))
<1>1. s \in Streams /\ PassesHead(stream, stream', s) /\ stream' \in Queues BY PassFacts DEF Passes
<1>2. /\ i \in DOMAIN stream'[r] => /\ Shift(s, r, i) \in DOMAIN stream[r]
                                    /\ stream'[r][i] = stream[r][Shift(s, r, i)]
      /\ Shift(s, r, i) \in DOMAIN stream[r] /\ i # 0 => i \in DOMAIN stream'[r]
  BY <1>1, TailAt
<1>3. i \in DOMAIN stream'[r] => i # 0 BY <1>1, PlaceFacts
<1>4. \A e : At(stream', e, r, i) <=> i # 0 /\ At(stream, e, r, Shift(s, r, i)) BY <1>2, <1>3 DEF At
<1>5. \A v : Reads(stream', r, i, v) <=> i # 0 /\ Reads(stream, r, Shift(s, r, i), v)
  BY <1>2, <1>3 DEF Reads
<1>6. \A v : Uses(stream', r, i, v) <=> i # 0 /\ Uses(stream, r, Shift(s, r, i), v) BY <1>4, <1>5 DEF Uses
<1>7. Shift(s, r, i) \in Nat /\ (i # 0 => ~(r = s /\ Shift(s, r, i) = 1)) BY DEF Shift
<1> QED BY <1>2, <1>3, <1>4, <1>5, <1>6, <1>7

(* The order stays.                                                         *)
LEMMA PassOrder ==
  ASSUME NEW s, Passes(s), NEW r \in Streams, NEW i \in Nat, NEW t \in Streams, NEW j \in Nat
  PROVE  /\ Precedes(stream, r, Shift(s, r, i), t, Shift(s, t, j)) => Precedes(stream', r, i, t, j)
         /\ BeforeEnd(stream, r, Shift(s, r, i), t) => BeforeEnd(stream', r, i, t)
<1>1. /\ s \in Streams /\ PassesHead(stream, stream', s) /\ Passable(stream, s) /\ stream \in Queues
  BY PassFacts DEF Passes
<1>2. Len(stream[t]) = Shift(s, t, Len(stream'[t])) /\ Len(stream'[t]) \in Nat BY <1>1, TailAt
<1>3. \A k \in Nat : Precedes(stream, r, Shift(s, r, i), t, Shift(s, t, k)) => Precedes(stream', r, i, t, k)
  BY <1>1, TailPrecedes
<1> QED BY <1>2, <1>3 DEF BeforeEnd

(* What another operation that is still there precedes is still there.      *)
LEMMA PassThen ==
  ASSUME NEW s, Passes(s), NEW r \in Streams, NEW i \in Nat, i # 0, NEW t \in Streams, NEW k \in Nat, k # 0,
         Precedes(stream, r, Shift(s, r, i), t, k)
  PROVE  \E j \in Nat : j # 0 /\ k = Shift(s, t, j) /\ Precedes(stream', r, i, t, j)
<1>1. /\ s \in Streams /\ Passable(stream, s) /\ stream \in Queues BY PassFacts DEF Passes
<1>2. ~(t = s /\ k = 1)
  <2> SUFFICES ASSUME t = s, k = 1 PROVE FALSE OBVIOUS
  <2>1. Shift(s, r, i) \in Nat \ {0} BY DEF Shift
  <2>2. r = s /\ Shift(s, r, i) = 1 BY <1>1, <2>1, HeadPrecedes
  <2> QED BY <2>2 DEF Shift
<1>3. k >= 1 OBVIOUS
<1>4. PICK j \in Nat : j # 0 /\ k = Shift(s, t, j) BY <1>2, <1>3, ShiftBack
<1>5. Precedes(stream', r, i, t, j) BY <1>4, PassOrder
<1> QED BY <1>4, <1>5

(* An event that was to be set is set by the head, or still to be set.      *)
LEMMA PassEvent ==
  ASSUME NEW s, Passes(s), NEW t \in Streams, NEW k \in Nat, NEW e, At(stream, e, t, k)
  PROVE  (t = s /\ k = 1) \/ \E j \in Nat : j # 0 /\ k = Shift(s, t, j) /\ At(stream', e, t, j)
<1>1. k >= 1
  <2>1. k # 0 BY PassFacts, AtFacts
  <2> QED BY <2>1
<1> SUFFICES ASSUME ~(t = s /\ k = 1)
             PROVE  \E j \in Nat : j # 0 /\ k = Shift(s, t, j) /\ At(stream', e, t, j)
  OBVIOUS
<1>2. PICK j \in Nat : j # 0 /\ k = Shift(s, t, j) BY <1>1, ShiftBack
<1>3. At(stream', e, t, j) BY <1>2, PassAt
<1> QED BY <1>2, <1>3

LEMMA PassEvents ==
  ASSUME NEW s, Passes(s)
  PROVE  EventsFit' /\ (\A e \in Events : NumberFits(e)') /\ NumbersGrow' /\ OnFits'
<1>1. /\ OrderInv /\ DeviceInv /\ s \in Streams /\ stream \in Queues /\ stream' \in Queues /\ buf' = buf
      /\ \A e \in Events : (Recorded(e))' <=> Recorded(e)
  BY PassFacts
<1>2. \A e \in Events :
        /\ ~At(stream, e, s, 1) => ev'[e] = ev[e]
        /\ ev'[e].seq = ev[e].seq /\ ev'[e].stream = ev[e].stream /\ ev'[e].status = ev[e].status
        /\ ev'[e].on = ev[e].on
  BY DEF Passes
<1>3. /\ (\A e \in Events : EventFits(e) /\ NumberFits(e))
      /\ \A e \in Events, r \in Streams, i \in Nat : PlaceFits(e, r, i)
  BY <1>1, InvFacts
<1>4. ASSUME NEW e \in Events PROVE EventFits(e)'
  <2>1. CASE At(stream, e, s, 1)
    <3>1. PlaceFits(e, s, 1) BY <1>1, <1>3
    <3>2. (e[1] # "joined" => Recorded(e)) /\ buf[e[2]].st # "unborn" BY <2>1, <3>1 DEF PlaceFits
    <3> QED BY <1>1, <1>2, <1>3, <3>2 DEF EventFits
  <2>2. CASE ~At(stream, e, s, 1)
    <3>1. ev'[e] = ev[e] BY <1>2, <2>2
    <3> QED BY <1>1, <1>3, <3>1 DEF EventFits, Recorded
  <2> QED BY <2>1, <2>2
<1>5. ASSUME NEW e \in Events, NEW r \in Streams, NEW i \in Nat, At(stream', e, r, i)
      PROVE  /\ ~ev'[e].done /\ buf'[e[2]].st # "unborn"
             /\ e[1] # "joined" => (Recorded(e))' /\ ev'[e].stream = r
             /\ \A t \in Streams, j \in Nat : At(stream', e, t, j) => t = r /\ j = i
  <2>1. PICK i2 \in Nat : i2 = Shift(s, r, i) /\ i # 0 /\ At(stream, e, r, i2) BY <1>5, PassAt
  <2>2. PlaceFits(e, r, i2) BY <1>3
  <2>3. /\ ~ev[e].done /\ buf[e[2]].st # "unborn" /\ (e[1] # "joined" => Recorded(e) /\ ev[e].stream = r)
        /\ \A t \in Streams, j \in Nat : At(stream, e, t, j) => t = r /\ j = i2
    BY <2>1, <2>2 DEF PlaceFits
  <2>4. ~At(stream, e, s, 1)
    <3>1. ~(r = s /\ i2 = 1) BY <2>1, PassAt
    <3> QED BY <1>1, <2>3, <3>1
  <2>5. ASSUME NEW t \in Streams, NEW j \in Nat, At(stream', e, t, j) PROVE t = r /\ j = i
    <3>1. Shift(s, t, j) \in Nat /\ At(stream, e, t, Shift(s, t, j)) BY <2>5, PassAt
    <3>2. t = r /\ Shift(s, t, j) = i2 BY <2>3, <3>1
    <3> QED BY <2>1, <3>2 DEF Shift
  <2> QED BY <1>1, <1>2, <2>3, <2>4, <2>5
<1>6. ASSUME NEW e \in Events, NEW r \in Streams, NEW i \in Nat PROVE PlaceFits(e, r, i)'
  <2>1. \A t, j : At(stream, e, t, j)' <=> At(stream', e, t, j) BY DEF At
  <2> QED BY <1>5, <2>1 DEF PlaceFits
<1>7. ASSUME NEW r \in Streams, NEW i \in Nat, NEW v \in Buffers PROVE ReadFits(r, i, v)'
  <2>1. ASSUME Reads(stream', r, i, v) PROVE (Recorded(Written(v)))'
    <3>1. Shift(s, r, i) \in Nat /\ Reads(stream, r, Shift(s, r, i), v) BY <2>1, PassAt
    <3>2. ReadFits(r, Shift(s, r, i), v) BY <1>1, <3>1, InvFacts DEF EventsFit
    <3>3. Recorded(Written(v)) /\ Written(v) \in Events BY <3>1, <3>2, EventNames DEF ReadFits
    <3>4. (Recorded(Written(v)))' <=> (Recorded(Written(v))) BY <1>2, <3>3 DEF Recorded, Written
    <3> QED BY <3>3, <3>4
  <2> QED BY <2>1 DEF ReadFits, Reads
<1>8. ASSUME NEW e \in Events PROVE NumberFits(e)'
  <2>1. \A f \in Events : ev'[f].seq = ev[f].seq /\ ev'[f].stream = ev[f].stream BY <1>2
  <2>2. PICK ev2 : ev2 = ev' OBVIOUS
  <2>3. \A t : SequenceNumber(ev2, t) = SequenceNumber(ev, t)
    <3> SUFFICES ASSUME NEW t PROVE SequenceNumber(ev2, t) = SequenceNumber(ev, t) OBVIOUS
    <3>1. {f \in Events : ev2[f].seq > 0 /\ ev2[f].stream = t} = {f \in Events : ev[f].seq > 0 /\ ev[f].stream = t}
      BY <2>1, <2>2
    <3> QED BY <3>1 DEF SequenceNumber
  <2>4. NumberFits(e) BY <1>3
  <2>5. ev'[e].seq > 0 => ev'[e].seq < SequenceNumber(ev2, ev'[e].stream)
    BY <2>1, <2>3, <2>4 DEF NumberFits, Recorded
  <2> QED BY <2>2, <2>5 DEF NumberFits, Recorded
<1>9. NumbersGrow'
  <2>1. ASSUME NEW e \in Events, NEW f \in Events, NEW r \in Streams, NEW i \in Nat,
               At(stream', e, r, i), ev'[f].stream = r, (Recorded(e))', ev'[e].seq <= ev'[f].seq
        PROVE  \E j \in Nat : i <= j /\ At(stream', f, r, j)
    <3>1. PICK i2 \in Nat : i2 = Shift(s, r, i) /\ i # 0 /\ At(stream, e, r, i2) BY <2>1, PassAt
    <3>2. ev[f].stream = r /\ Recorded(e) /\ ev[e].seq <= ev[f].seq BY <1>1, <1>2, <2>1
    <3>3. PICK k \in Nat : i2 <= k /\ At(stream, f, r, k)
      BY <1>1, <3>1, <3>2 DEF OrderInv, NumbersGrow
    <3>4. ~(r = s /\ k = 1) BY <3>1, <3>3 DEF Shift
    <3>5. PICK j \in Nat : j # 0 /\ k = Shift(s, r, j) /\ At(stream', f, r, j) BY <3>3, <3>4, PassEvent
    <3>6. i <= j BY <3>1, <3>3, <3>5 DEF Shift
    <3> QED BY <3>5, <3>6
  <2>2. \A e, r, j : At(stream, e, r, j)' <=> At(stream', e, r, j) BY DEF At
  <2> QED BY <2>1, <2>2 DEF NumbersGrow
<1>10. OnFits'
  <2>1. ASSUME NEW e \in Events, NEW r \in Streams, NEW i \in Nat, At(stream', e, r, i), NEW t \in ev'[e].on
        PROVE  BeforeEnd(stream', r, i, t)
    <3>1. PICK i2 \in Nat : i2 = Shift(s, r, i) /\ i # 0 /\ At(stream, e, r, i2) BY <2>1, PassAt
    <3>2. ev[e] \in Event BY <1>1 DEF DeviceInv, Typed, EvTyped
    <3>3. t \in ev[e].on /\ t \in Streams BY <1>2, <3>2 DEF Event
    <3>4. BeforeEnd(stream, r, i2, t) BY <1>1, <3>1, <3>3 DEF OrderInv, OnFits
    <3> QED BY <3>1, <3>3, <3>4, PassOrder
  <2>2. \A e, r, j : At(stream, e, r, j)' <=> At(stream', e, r, j) BY DEF At
  <2>3. \A r, j, t : BeforeEnd(stream, r, j, t)' <=> BeforeEnd(stream', r, j, t) BY DEF BeforeEnd, Precedes, Cut, WaitsAt, At
  <2> QED BY <2>1, <2>2, <2>3 DEF OnFits
<1> QED BY <1>4, <1>6, <1>7, <1>8, <1>9, <1>10 DEF EventsFit

(* What buffers, tasks and calls say stays as it was.                       *)
LEMMA PassBooks ==
  ASSUME NEW s, Passes(s)
  PROVE  /\ ValuesFit' /\ JobsFit' /\ UsagesFit' /\ PoolFits'
         /\ \A b \in Buffers : ArgumentsFit(b)' /\ HolderFits(b)'
<1>1. /\ OrderInv /\ DeviceInv /\ s \in Streams /\ stream \in Queues /\ stream' \in Queues
      /\ buf' = buf /\ call' = call /\ pool' = pool /\ ready' = ready
      /\ \A e \in Events : (Recorded(e))' <=> Recorded(e)
  BY PassFacts
<1>2. dependency' = dependency /\ tasks' = tasks BY DEF Passes
<1>3. \A e \in Events :
        /\ ev'[e].seq = ev[e].seq /\ ev'[e].stream = ev[e].stream /\ ev'[e].status = ev[e].status
        /\ ev[e].done => ev'[e].done
  BY DEF Passes
<1>4. Jobs' = Jobs /\ OneTask' BY PassFacts
<1>5. \A b : /\ Active(b)' <=> Active(b)
             /\ UsageEvents(b)' = UsageEvents(b) /\ Usage(b)' = Usage(b)
             /\ (Made(b))' <=> Made(b)
  BY <1>1 DEF Active, UsageEvents, Usage, Elems, Made
<1>6. \A b : Holder(b)' <=> Holder(b) BY <1>1, <1>4, <1>5 DEF Holder
<1>7. \A b, t : Loose(b, t)' <=> Loose(b, t) BY <1>5 DEF Loose, Written
<1>8. \A j : JobStream(j)' = JobStream(j) /\ JobEvent(j)' = JobEvent(j) BY <1>1 DEF JobStream, JobEvent, Written
<1>9. ValuesFit'
  <2>1. ASSUME NEW b \in Buffers PROVE ValueFits(b)' /\ dependency'[b] = "none"
    <3>1. ValueFits(b) /\ dependency[b] = "none" BY <1>1, InvFacts DEF ValuesFit
    <3> QED BY <1>1, <1>2, <1>5, <3>1 DEF ValueFits, DefinitionEvents, Written
  <2>2. ASSUME NEW r \in Streams, NEW i \in Nat, i \in DOMAIN stream'[r] PROVE OpFits(stream[r][i])'
    <3>1. PICK i2 \in Nat : i2 \in DOMAIN stream[r] /\ stream'[r][i] = stream[r][i2] BY <2>2, PassAt
    <3>2. PICK o : o = stream'[r][i] OBVIOUS
    <3>3. OpFits(o) BY <1>1, <3>1, <3>2, InvFacts DEF ValuesFit
    <3>4. OpFits(o)'
      <4>1. \A b : (Contents(b))' = Contents(b) BY <1>1 DEF Contents
      <4> QED BY <1>1, <1>5, <3>3, <4>1 DEF OpFits, Written
    <3> QED BY <3>2, <3>4 DEF OpFits, Written, Contents, Made
  <2> QED BY <2>1, <2>2 DEF ValuesFit
<1>10. ASSUME NEW j \in Jobs PROVE JobFits(j)'
  <2>1. JobFits(j) /\ JobEvent(j) \in Events /\ j[2] \in Buffers BY <1>1, InvFacts, JobFacts
  <2>2. j[1] = "copy" => CopyFits(j)'
    <3>1. j[1] = "copy" => CopyFits(j) BY <2>1 DEF JobFits
    <3> QED BY <1>1, <1>5, <1>7, <1>8, <3>1 DEF CopyFits, Written
  <2>3. j[1] = "d2h" => literal'[j[2]] = "pending"
    <3> SUFFICES ASSUME j[1] = "d2h" PROVE literal'[j[2]] = "pending" OBVIOUS
    <3>1. JobEvent(j) = <<"read", j[2]>> /\ literal[j[2]] = "pending" /\ ev[JobEvent(j)].status = "none"
      BY <2>1 DEF JobEvent, JobFits
    <3>2. ~At(stream, <<"read", j[2]>>, s, 1)
      <4>1. \A i \in Nat : ~At(stream, JobEvent(j), s, i)
        BY <1>1, <2>1, <3>1, UnsetFacts
      <4> QED BY <3>1, <4>1
    <3> QED BY <2>1, <3>1, <3>2 DEF Passes
  <2>4. ev'[JobEvent(j)].status = "none" BY <1>3, <2>1 DEF JobFits
  <2>5. \A k \in Jobs' : (JobEvent(k))' = (JobEvent(j))' => k = j BY <1>4, <1>8, <2>1 DEF JobFits
  <2> QED BY <1>1, <1>5, <1>8, <2>1, <2>2, <2>3, <2>4, <2>5 DEF JobFits
<1>11. JobsFit' BY <1>4, <1>10 DEF JobsFit
<1>12. ASSUME NEW b \in Buffers, NEW x \in Usage(b) PROVE UsageFits(x)'
  <2>1. UsageFits(x) /\ x.event \in Events
    <3>1. UsageFits(x) BY <1>1, InvFacts
    <3>2. Usage(b) \subseteq UsageEvent BY <1>1, UsageFacts
    <3> QED BY <3>1, <3>2 DEF UsageEvent
  <2>2. (Recorded(x.event))' <=> Recorded(x.event) BY <1>3, <2>1 DEF Recorded
  <2> QED BY <1>1, <1>3, <1>4, <1>5, <1>8, <2>1, <2>2 DEF UsageFits, Retain
<1>13. UsagesFit' BY <1>5, <1>12 DEF UsagesFit
<1>14. ASSUME NEW b \in Buffers PROVE ArgumentsFit(b)'
  <2>1. ArgumentsFit(b) BY <1>1, InvFacts
  <2>2. \A a \in Buffers : (Recorded(Written(a)))' <=> Recorded(Written(a)) BY <1>3, EventNames DEF Recorded, Written
  <2>3. call[b].ins \subseteq Buffers /\ call[b].don \subseteq call[b].ins BY <1>1, CallFacts
  <2>4. \A a \in call[b].don : DonorFits(a) => DonorFits(a)' BY <1>4, <2>2, <2>3 DEF DonorFits
  <2>5. Written(b) \in Events /\ (Written(b))' = Written(b) BY EventNames DEF Written
  <2> QED BY <1>1, <1>3, <1>4, <2>1, <2>2, <2>4, <2>5 DEF ArgumentsFit
<1>15. ASSUME NEW b \in Buffers PROVE HolderFits(b)'
  <2>1. HolderFits(b) BY <1>1, InvFacts
  <2>2. Written(b) \in Events /\ (Written(b))' = Written(b) /\ <<"read", b>> \in Events BY EventNames, NameFacts DEF Written
  <2>3. (Recorded(Written(b)))' <=> Recorded(Written(b)) BY <1>3, <2>2 DEF Recorded
  <2>4. literal'[b] = "none" => literal[b] = "none" BY DEF Passes
  <2>5. Active(b)' => \/ (Recorded(Written(b)))' \/ ev'[Written(b)].status = "error"
                      \/ \E j \in Jobs' : (JobEvent(j))' = Written(b)
    BY <1>3, <1>4, <1>5, <1>8, <2>1, <2>2, <2>3 DEF HolderFits
  <2> QED BY <1>1, <1>3, <1>6, <2>1, <2>2, <2>4, <2>5 DEF HolderFits
<1>16. PoolFits'
  <2>1. \A p \in pool : p.op = "ready" => p.buf \in Buffers BY <1>1 DEF DeviceInv, Typed, PoolTyped, Wait
  <2>2. PoolFits BY <1>1, InvFacts
  <2>3. \A b \in Buffers : Written(b) \in Events BY EventNames
  <2> QED BY <1>1, <1>3, <2>1, <2>2, <2>3 DEF PoolFits, Written
<1> QED BY <1>9, <1>11, <1>13, <1>14, <1>15, <1>16

(* Primed places.                                                           *)
LEMMA PrimedPlaces ==
  /\ \A e, r, i : At(stream, e, r, i)' <=> At(stream', e, r, i)
  /\ \A v, r, i : At(stream, Written(v), r, i)' <=> At(stream', Written(v), r, i)
  /\ \A v, r, i : Reads(stream, r, i, v)' <=> Reads(stream', r, i, v)
  /\ \A v, r, i : Uses(stream, r, i, v)' <=> Uses(stream', r, i, v)
  /\ \A r, i, t, j : Precedes(stream, r, i, t, j)' <=> Precedes(stream', r, i, t, j)
  /\ \A r, i, t : BeforeEnd(stream, r, i, t)' <=> BeforeEnd(stream', r, i, t)
BY DEF At, Reads, Uses, Precedes, BeforeEnd, Cut, WaitsAt, Written

LEMMA PassHolders ==
  ASSUME NEW s, Passes(s)
  PROVE  HoldersFollow' /\ JobsFollow'
<1>1. /\ OrderInv /\ DeviceInv /\ s \in Streams /\ stream \in Queues /\ buf' = buf /\ call' = call
      /\ Jobs' = Jobs /\ (\A e \in Events : (Recorded(e))' <=> Recorded(e))
  BY PassFacts
<1>2. ASSUME NEW b \in Buffers PROVE Holder(b)' /\ (Recorded(Written(b)))' => Holder(b) /\ Recorded(Written(b))
  <2>1. Written(b) \in Events /\ (Written(b))' = Written(b) BY EventNames DEF Written
  <2>2. Active(b)' <=> Active(b) BY <1>1 DEF Active
  <2>3. Holder(b)' <=> Holder(b) BY <1>1, <2>2 DEF Holder
  <2>4. (Recorded(Written(b)))' <=> Recorded(Written(b))
    <3>1. ev'[Written(b)].seq = ev[Written(b)].seq BY <2>1 DEF Passes
    <3> QED BY <3>1 DEF Recorded, Written
  <2> QED BY <2>3, <2>4
<1>3. ASSUME NEW b \in Buffers PROVE WriteArrives(b)'
  <2> SUFFICES ASSUME Holder(b), Recorded(Written(b)),
                      ~\E r \in Streams, j \in Nat : At(stream', Written(b), r, j)
               PROVE  mem'[buf[b].cell] = b
    BY <1>1, <1>2, PrimedPlaces DEF WriteArrives
  <2>1. WriteArrives(b) /\ WriteFollows(b) BY <1>1 DEF OrderInv, HoldersFollow
  <2>2. CASE \E r \in Streams, j \in Nat : At(stream, Written(b), r, j)
    <3>1. At(stream, Written(b), s, 1) BY <2>2, PassEvent
    <3> QED BY <3>1 DEF Passes
  <2>3. CASE ~\E r \in Streams, j \in Nat : At(stream, Written(b), r, j)
    <3>1. mem[buf[b].cell] = b BY <2>1, <2>3 DEF WriteArrives
    <3>2. buf[b].cell \in Cells
      <4>1. Made(b) BY <1>1, InvFacts, HolderFacts
      <4> QED BY <1>1, <4>1, MadeFacts DEF DeviceInv
    <3>3. ASSUME NEW v \in Buffers, At(stream, Written(v), s, 1), buf[v].cell = buf[b].cell PROVE FALSE
      <4>1. v # b BY <1>1, <2>3, <3>3
      <4>2. Uses(stream, s, 1, v) /\ SameCell(v, b) BY <3>3, <4>1 DEF Uses, SameCell
      <4> QED BY <1>1, <2>1, <2>3, <4>2 DEF WriteFollows
    <3> QED BY <3>1, <3>2, <3>3 DEF Passes
  <2> QED BY <2>2, <2>3
<1>4. ASSUME NEW b \in Buffers PROVE WriteFollows(b)'
  <2>1. ASSUME Holder(b), Recorded(Written(b)), NEW r \in Streams, NEW i \in Nat, NEW w \in Buffers,
               Uses(stream', r, i, w), SameCell(w, b)
        PROVE  \E t \in Streams, j \in Nat : At(stream', Written(b), t, j) /\ Precedes(stream', r, i, t, j)
    <3>1. i # 0 /\ Uses(stream, r, Shift(s, r, i), w) /\ Shift(s, r, i) \in Nat BY <2>1, PassAt
    <3>2. WriteFollows(b) BY <1>1 DEF OrderInv, HoldersFollow
    <3>3. PICK t \in Streams, k \in Nat : At(stream, Written(b), t, k) /\ Precedes(stream, r, Shift(s, r, i), t, k)
      BY <2>1, <3>1, <3>2 DEF WriteFollows
    <3>4. k # 0 BY <1>1, <3>3, AtFacts
    <3>5. PICK j \in Nat : j # 0 /\ k = Shift(s, t, j) /\ Precedes(stream', r, i, t, j)
      BY <3>1, <3>3, <3>4, PassThen
    <3>6. At(stream', Written(b), t, j) BY <3>3, <3>5, PassAt
    <3> QED BY <3>5, <3>6
  <2>2. \A w : SameCell(w, b)' <=> SameCell(w, b) BY <1>1 DEF SameCell
  <2> QED BY <1>2, <2>1, <2>2, PrimedPlaces DEF WriteFollows
<1>5. ASSUME NEW j \in Jobs PROVE JobFollows(j)'
  <2>1. JobFollows(j) /\ JobStream(j) \in Streams BY <1>1, InvFacts, JobFacts
  <2>2. (JobStream(j))' = JobStream(j) BY <1>1 DEF JobStream
  <2>3. ASSUME j[1] # "d2h", NEW r \in Streams, NEW i \in Nat, NEW w \in Buffers, Uses(stream', r, i, w),
               SameCell(w, j[2])
        PROVE  BeforeEnd(stream', r, i, JobStream(j))
    <3>1. Uses(stream, r, Shift(s, r, i), w) /\ Shift(s, r, i) \in Nat BY <2>3, PassAt
    <3>2. BeforeEnd(stream, r, Shift(s, r, i), JobStream(j)) BY <2>1, <2>3, <3>1 DEF JobFollows
    <3> QED BY <2>1, <3>2, PassOrder
  <2>4. \A w : SameCell(w, j[2])' <=> SameCell(w, j[2]) BY <1>1 DEF SameCell
  <2> QED BY <2>2, <2>3, <2>4, PrimedPlaces DEF JobFollows
<1> QED BY <1>1, <1>3, <1>4, <1>5 DEF HoldersFollow, JobsFollow

LEMMA PassUses ==
  ASSUME NEW s, Passes(s)
  PROVE  UsesFollow'
<1>1. /\ OrderInv /\ DeviceInv /\ s \in Streams /\ stream \in Queues /\ buf' = buf /\ Passable(stream, s)
  BY PassFacts DEF Passes
<1>2. ASSUME NEW r \in Streams, NEW i \in Nat, NEW v \in Buffers, Reads(stream', r, i, v)
      PROVE  /\ \A t \in Streams, j \in Nat : At(stream', Written(v), t, j) =>
                  ~(t = r /\ j = i) /\ Precedes(stream', t, j, r, i)
             /\ \/ \E t \in Streams, j \in Nat : At(stream', Written(v), t, j)
                \/ mem'[buf[v].cell] = v
  <2>1. PICK k \in Nat : i # 0 /\ k = Shift(s, r, i) /\ Reads(stream, r, k, v) /\ ~(r = s /\ k = 1)
    BY <1>2, PassAt
  <2>2. ReadFollows(r, k, v) BY <1>1 DEF OrderInv, UsesFollow
  <2>3. ASSUME NEW t \in Streams, NEW j \in Nat, At(stream', Written(v), t, j)
        PROVE  ~(t = r /\ j = i) /\ Precedes(stream', t, j, r, i)
    <3>1. Shift(s, t, j) \in Nat /\ At(stream, Written(v), t, Shift(s, t, j)) BY <2>3, PassAt
    <3>2. ~(t = r /\ Shift(s, t, j) = k) /\ Precedes(stream, t, Shift(s, t, j), r, k)
      BY <2>1, <2>2, <3>1 DEF ReadFollows
    <3>3. ~(t = r /\ j = i) BY <2>1, <3>2
    <3>4. Precedes(stream', t, j, r, i) BY <2>1, <3>2, PassOrder
    <3> QED BY <3>3, <3>4
  <2>4. ASSUME ~\E t \in Streams, j \in Nat : At(stream', Written(v), t, j) PROVE mem'[buf[v].cell] = v
    <3>1. CASE \E t \in Streams, j \in Nat : At(stream, Written(v), t, j)
      <4>1. At(stream, Written(v), s, 1) BY <2>4, <3>1, PassEvent
      <4> QED BY <4>1 DEF Passes
    <3>2. CASE ~\E t \in Streams, j \in Nat : At(stream, Written(v), t, j)
      <4>1. mem[buf[v].cell] = v BY <2>1, <2>2, <3>2 DEF ReadFollows
      <4>2. Uses(stream, r, k, v) BY <2>1 DEF Uses
      <4>3. buf[v].cell \in Cells
        <5>1. Made(v) BY <1>1, <4>2, InvFacts, UsesFacts
        <5> QED BY <1>1, <5>1, MadeFacts DEF DeviceInv
      <4>4. ASSUME NEW w \in Buffers, At(stream, Written(w), s, 1), buf[w].cell = buf[v].cell PROVE FALSE
        <5>1. w # v BY <1>1, <3>2, <4>4
        <5>2. InOrder(r, k, v, s, 1, w) BY <1>1, <2>1 DEF OrderInv, UsesFollow
        <5>3. SameCell(v, w) BY <4>4, <5>1 DEF SameCell
        <5>4. Precedes(stream, r, k, s, 1) BY <3>2, <4>2, <4>4, <5>2, <5>3 DEF InOrder
        <5>5. k \in Nat \ {0} BY <2>1 DEF Shift
        <5> QED BY <1>1, <2>1, <5>4, <5>5, HeadPrecedes
      <4> QED BY <4>1, <4>3, <4>4 DEF Passes
    <3> QED BY <3>1, <3>2
  <2> QED BY <2>3, <2>4
<1>3. ASSUME NEW r \in Streams, NEW i \in Nat, NEW v \in Buffers PROVE ReadFollows(r, i, v)'
  BY <1>1, <1>2, PrimedPlaces DEF ReadFollows
<1>4. ASSUME NEW r \in Streams, NEW i \in Nat, NEW v \in Buffers PROVE SameDevice(r, i, v)'
  <2>1. Uses(stream', r, i, v) => Uses(stream, r, Shift(s, r, i), v) BY PassAt
  <2>2. Shift(s, r, i) \in Nat BY PassAt
  <2>3. SameDevice(r, Shift(s, r, i), v) BY <1>1, <2>2 DEF OrderInv, UsesFollow
  <2> QED BY <1>1, <2>1, <2>3, PrimedPlaces DEF SameDevice
<1>5. ASSUME NEW r \in Streams, NEW i \in Nat, NEW v \in Buffers, NEW t \in Streams, NEW j \in Nat, NEW w \in Buffers,
             Uses(stream', r, i, v), At(stream', Written(w), t, j), SameCell(v, w)
      PROVE  \/ Precedes(stream', r, i, t, j)
             \/ \E y \in Streams, k \in Nat : At(stream', Written(v), y, k) /\ Precedes(stream', t, j, y, k)
  <2>1. PICK i2 \in Nat : i # 0 /\ i2 = Shift(s, r, i) /\ Uses(stream, r, i2, v) BY <1>5, PassAt
  <2>2. PICK j2 \in Nat : j # 0 /\ j2 = Shift(s, t, j) /\ At(stream, Written(w), t, j2) BY <1>5, PassAt
  <2>3. InOrder(r, i2, v, t, j2, w) BY <1>1 DEF OrderInv, UsesFollow
  <2>4. CASE Precedes(stream, r, i2, t, j2) BY <2>1, <2>2, <2>4, PassOrder
  <2>5. CASE \E y \in Streams, k \in Nat : At(stream, Written(v), y, k) /\ Precedes(stream, t, j2, y, k)
    <3>1. PICK y \in Streams, k \in Nat : At(stream, Written(v), y, k) /\ Precedes(stream, t, j2, y, k) BY <2>5
    <3>2. k # 0 BY <1>1, <3>1, AtFacts
    <3>3. PICK k2 \in Nat : k2 # 0 /\ k = Shift(s, y, k2) /\ Precedes(stream', t, j, y, k2)
      BY <2>2, <3>1, <3>2, PassThen
    <3>4. At(stream', Written(v), y, k2) BY <3>1, <3>3, PassAt
    <3> QED BY <3>3, <3>4
  <2> QED BY <1>5, <2>1, <2>2, <2>3, <2>4, <2>5 DEF InOrder
<1>6. ASSUME NEW r \in Streams, NEW i \in Nat, NEW v \in Buffers, NEW t \in Streams, NEW j \in Nat, NEW w \in Buffers
      PROVE  InOrder(r, i, v, t, j, w)'
  <2>1. SameCell(v, w)' <=> SameCell(v, w) BY <1>1 DEF SameCell
  <2> QED BY <1>5, <2>1, PrimedPlaces DEF InOrder
<1> QED BY <1>3, <1>4, <1>6 DEF UsesFollow

LEMMA PassKept ==
  ASSUME NEW s, Passes(s)
  PROVE  UsesCovered' /\ UsesKept' /\ OutIsQuiet'
<1>1. /\ OrderInv /\ DeviceInv /\ s \in Streams /\ stream \in Queues /\ buf' = buf /\ call' = call /\ pool' = pool
      /\ Jobs' = Jobs /\ (\A e \in Events : (Recorded(e))' <=> Recorded(e))
  BY PassFacts
<1>2. \A b : Active(b)' <=> Active(b) BY <1>1 DEF Active
<1>3. \A b : UsageEvents(b)' = UsageEvents(b) /\ Usage(b)' = Usage(b) BY <1>1 DEF UsageEvents, Usage, Elems
<1>4. \A b, t : Loose(b, t)' <=> Loose(b, t) BY <1>3 DEF Loose, Written
<1>5. ASSUME NEW b \in Buffers PROVE UsagesCover(b)'
  <2>1. ASSUME Active(b), NEW r \in Streams, NEW i \in Nat, Uses(stream', r, i, b)
        PROVE  CoveredByUsage(r, i, b)' \/ CoveredByCall(r, i, b)'
    <3>1. PICK i2 \in Nat : i # 0 /\ i2 = Shift(s, r, i) /\ Uses(stream, r, i2, b) BY <2>1, PassAt
    <3>2. UsagesCover(b) BY <1>1 DEF OrderInv, UsesCovered
    <3>3. CASE CoveredByUsage(r, i2, b)
      <4>1. PICK e \in UsageEvents(b), t \in Streams, k \in Nat : At(stream, e, t, k) /\ Precedes(stream, r, i2, t, k)
        BY <3>3 DEF CoveredByUsage
      <4>2. k # 0 BY <1>1, <4>1, AtFacts
      <4>3. PICK j \in Nat : j # 0 /\ k = Shift(s, t, j) /\ Precedes(stream', r, i, t, j)
        BY <3>1, <4>1, <4>2, PassThen
      <4>4. At(stream', e, t, j) BY <4>1, <4>3, PassAt
      <4> QED BY <1>3, <4>3, <4>4, PrimedPlaces DEF CoveredByUsage
    <3>4. CASE CoveredByCall(r, i2, b)
      <4>1. PICK x \in Buffers : /\ call[x].op = "copy" /\ (b = x \/ b \in call[x].ins)
                                 /\ At(stream, Written(x), r, i2)
        BY <3>4 DEF CoveredByCall
      <4>2. At(stream', Written(x), r, i) BY <3>1, <4>1, PassAt
      <4> QED BY <1>1, <4>1, <4>2, PrimedPlaces DEF CoveredByCall
    <3> QED BY <2>1, <3>1, <3>2, <3>3, <3>4 DEF UsagesCover
  <2> QED BY <1>2, <2>1, PrimedPlaces DEF UsagesCover
<1>6. ASSUME NEW r \in Streams, NEW i \in Nat, NEW w \in Buffers, Uses(stream', r, i, w), Model # "kAsynchronous",
             NEW c, c = buf[w].cell
      PROVE  \/ KeptByCallback(r, i, c)'
             \/ /\ Model = "kComputeSynchronized"
                /\ KeptByCompute(r, i, c)' \/ KeptByPool(r, i, c)' \/ KeptByUsage(r, i, w)'
  <2>1. PICK i2 \in Nat : i # 0 /\ i2 = Shift(s, r, i) /\ Uses(stream, r, i2, w) BY <1>6, PassAt
  <2>2. UseKept(r, i2, w) BY <1>1 DEF OrderInv, UsesKept
  <2>3. CASE KeptByCallback(r, i2, c)
    <3>1. PICK t \in Streams, k \in Nat :
            k \in DOMAIN stream[t] /\ Gives(stream[t][k], c) /\ Precedes(stream, r, i2, t, k)
      BY <2>3 DEF KeptByCallback
    <3>2. k # 0 BY <1>1, <3>1, PlaceFacts
    <3>3. PICK j \in Nat : j # 0 /\ k = Shift(s, t, j) /\ Precedes(stream', r, i, t, j)
      BY <2>1, <3>1, <3>2, PassThen
    <3>4. j \in DOMAIN stream'[t] /\ stream'[t][j] = stream[t][k]
      <4>1. PassesHead(stream, stream', s) BY DEF Passes
      <4>2. j \in DOMAIN stream'[t] BY <1>1, <3>1, <3>3, <4>1, TailAt
      <4> QED BY <3>3, <4>2, PassAt
    <3>5. PICK g : g = stream[t][k] OBVIOUS
    <3>6. Gives(g, c)' BY <1>1, <3>1, <3>5 DEF Gives
    <3>7. Gives(stream[t][j], c)' BY <3>4, <3>5, <3>6 DEF Gives
    <3> QED BY <3>3, <3>4, <3>7, PrimedPlaces DEF KeptByCallback
  <2>4. CASE KeptByCompute(r, i2, c)
    <3>1. <<"compute", c[1]>> \in Streams
      <4>1. Made(w) /\ ValueFits(w) BY <1>1, <2>1, InvFacts, UsesFacts
      <4>2. buf[w].dev \in Devices /\ c[1] = buf[w].dev BY <1>1, <1>6, <4>1, MadeFacts DEF DeviceInv, ValueFits
      <4> QED BY <4>2, NameFacts
    <3>2. BeforeEnd(stream', r, i, <<"compute", c[1]>>) BY <2>1, <2>4, <3>1, PassOrder DEF KeptByCompute
    <3>3. KeptByCompute(r, i, c)' BY <3>2, PrimedPlaces DEF KeptByCompute
    <3>4. CASE Model = "kComputeSynchronized" BY <3>3, <3>4
    <3>5. CASE Model # "kComputeSynchronized" BY <1>6, <2>1, <2>2, <2>3, <3>5 DEF UseKept
    <3> QED BY <3>4, <3>5
  <2>5. CASE KeptByPool(r, i2, c) /\ Model = "kComputeSynchronized"
    <3>1. PICK p \in pool, t \in Streams, k \in Nat :
            /\ p.op = "release" /\ buf[p.buf].owns /\ buf[p.buf].cell = c
            /\ \E e \in p.events : At(stream, e, t, k)
            /\ Precedes(stream, r, i2, t, k)
      BY <2>5 DEF KeptByPool
    <3>2. PICK e \in p.events : At(stream, e, t, k) BY <3>1
    <3>3. k # 0 BY <1>1, <3>2, AtFacts
    <3>4. PICK j \in Nat : j # 0 /\ k = Shift(s, t, j) /\ Precedes(stream', r, i, t, j)
      BY <2>1, <3>1, <3>3, PassThen
    <3>5. At(stream', e, t, j) BY <3>2, <3>4, PassAt
    <3>6. KeptByPool(r, i, c)' BY <1>1, <3>1, <3>4, <3>5, PrimedPlaces DEF KeptByPool
    <3> QED BY <2>5, <3>6
  <2>6. CASE KeptByUsage(r, i2, w) /\ Model = "kComputeSynchronized"
    <3>1. At(stream, Written(w), r, i2) BY <2>6 DEF KeptByUsage
    <3>2. At(stream', Written(w), r, i) BY <2>1, <3>1, PassAt
    <3>3. KeptByUsage(r, i, w)' BY <1>1, <1>2, <1>4, <2>6, <3>2, PrimedPlaces DEF KeptByUsage
    <3> QED BY <2>6, <3>3
  <2> QED BY <1>6, <2>1, <2>2, <2>3, <2>4, <2>5, <2>6 DEF UseKept
<1>7. ASSUME NEW r \in Streams, NEW i \in Nat, NEW w \in Buffers PROVE UseKept(r, i, w)'
  <2>1. PICK c : c = buf[w].cell OBVIOUS
  <2>2. Uses(stream, r, i, w)' => Uses(stream', r, i, w) BY PrimedPlaces
  <2>3. c = buf'[w].cell BY <1>1, <2>1
  <2>4. /\ KeptByCallback(r, i, c)' => KeptByCallback(r, i, buf[w].cell)'
        /\ KeptByCompute(r, i, c)' => KeptByCompute(r, i, buf[w].cell)'
        /\ KeptByPool(r, i, c)' => KeptByPool(r, i, buf[w].cell)'
    BY <2>3 DEF KeptByCallback, KeptByCompute, KeptByPool, Gives
  <2> QED BY <1>6, <2>1, <2>2, <2>4 DEF UseKept
<1>8. ASSUME NEW b \in Buffers PROVE HandedOut(b)'
  <2>1. HandedOut(b) BY <1>1 DEF OrderInv, OutIsQuiet
  <2>2. Written(b) \in Events /\ (Written(b))' = Written(b) BY EventNames DEF Written
  <2>3. ev'[Written(b)].status = ev[Written(b)].status /\ ev'[Written(b)].seq = ev[Written(b)].seq
    BY <2>2 DEF Passes
  <2>4. Out(b)' <=> Out(b) BY <1>1, <1>2, <2>2, <2>3 DEF Out
  <2>5. (Recorded(Written(b)))' <=> Recorded(Written(b)) BY <2>2, <2>3 DEF Recorded
  <2>6. ASSUME Model # "kComputeSynchronized", Out(b), NEW r \in Streams, NEW i \in Nat, NEW w \in Buffers,
               Uses(stream', r, i, w)
        PROVE  buf[w].cell # buf[b].cell
    <3>1. Shift(s, r, i) \in Nat /\ Uses(stream, r, Shift(s, r, i), w) BY <2>6, PassAt
    <3> QED BY <2>1, <2>6, <3>1 DEF HandedOut
  <2> QED BY <1>1, <2>1, <2>2, <2>3, <2>4, <2>5, <2>6, PrimedPlaces DEF HandedOut
<1> QED BY <1>5, <1>7, <1>8 DEF UsesCovered, UsesKept, OutIsQuiet

LEMMA StreamStepOrder ==
  ASSUME OrderInv, DeviceInv', NEW s \in Streams, StreamStep(s)
  PROVE  OrderInv'
<1>1. Passes(s) BY StreamPasses
<1> QED BY <1>1, PassEvents, PassBooks, PassHolders, PassUses, PassKept DEF OrderInv, Bookkeeping

-----------------------------------------------------------------------------
(* At first nothing is enqueued and no buffer is there.                     *)
LEMMA InitOrder == Init => OrderInv
<1> SUFFICES ASSUME Init PROVE OrderInv OBVIOUS
<1>1. DeviceInv BY InitInv
<1>2. \A b \in Buffers : /\ buf[b] = Unborn /\ call[b] = NoCall /\ literal[b] = "none" /\ ready[b] = "none"
                         /\ dependency[b] = "none"
  BY DEF Init
<1>3. \A s \in Streams : stream[s] = <<>> BY DEF Init
<1>4. \A e \in Events : ev[e] = NotSet BY DEF Init
<1>5. Jobs = {} /\ OneTask /\ pool = {} BY DEF Init, Jobs, OneTask
<1>6. \A s \in Streams, i \in Nat : i \notin DOMAIN stream[s] BY <1>3
<1>7. /\ \A e, s, i : s \in Streams /\ i \in Nat => ~At(stream, e, s, i)
      /\ \A v, s, i : s \in Streams /\ i \in Nat => ~Reads(stream, s, i, v) /\ ~Uses(stream, s, i, v)
  BY <1>6 DEF At, Reads, Uses
<1>8. ASSUME NEW b \in Buffers
      PROVE  /\ ~Made(b) /\ ~Active(b) /\ ~Holder(b) /\ Usage(b) = {} /\ buf[b].st = "unborn"
             /\ call[b].op = "none"
  <2>1. buf[b].st = "unborn" /\ buf[b].usage = <<>> BY <1>2 DEF Unborn
  <2>2. ~Made(b) BY <2>1 DEF Made, MadeBuffer
  <2>3. call[b].op = "none" BY <1>2, NoCallFacts
  <2>4. ~Active(b) BY <2>1, <2>3 DEF Active
  <2>5. ~Holder(b) BY <1>5, <2>1, <2>4 DEF Holder
  <2>6. Usage(b) = {} BY <2>1 DEF Usage, Elems
  <2> QED BY <2>1, <2>2, <2>3, <2>4, <2>5, <2>6
<1>9. \A e \in Events : ~Recorded(e) /\ ev[e].status = "none" /\ ~ev[e].done /\ ev[e].on = {}
  BY <1>4 DEF Recorded, NotSet
<1>10. ValuesFit BY <1>2, <1>6, <1>8 DEF ValuesFit, ValueFits
<1>11. EventsFit
  <2>1. \A e \in Events : EventFits(e) BY <1>4, <1>9 DEF EventFits
  <2> QED BY <1>7, <2>1 DEF EventsFit, PlaceFits, ReadFits
<1>12. \A e \in Events : NumberFits(e) BY <1>9 DEF NumberFits
<1>13. JobsFit /\ UsagesFit /\ PoolFits BY <1>5, <1>8 DEF JobsFit, UsagesFit, PoolFits
<1>14. ASSUME NEW b \in Buffers PROVE ArgumentsFit(b) /\ HolderFits(b)
  <2>1. ArgumentsFit(b) BY <1>8 DEF ArgumentsFit
  <2>2. <<"read", b>> \in Events BY NameFacts
  <2>3. HolderFits(b) BY <1>2, <1>8, <1>9, <2>2 DEF HolderFits
  <2> QED BY <2>1, <2>3
<1>15. NumbersGrow /\ OnFits BY <1>7 DEF NumbersGrow, OnFits
<1>16. HoldersFollow /\ JobsFollow BY <1>5, <1>8 DEF HoldersFollow, JobsFollow, WriteArrives, WriteFollows
<1>17. UsesFollow BY <1>7 DEF UsesFollow, ReadFollows, SameDevice, InOrder
<1>18. UsesCovered BY <1>8 DEF UsesCovered, UsagesCover
<1>19. UsesKept BY <1>7 DEF UsesKept, UseKept
<1>20. OutIsQuiet BY <1>8 DEF OutIsQuiet, HandedOut, Out
<1> QED BY <1>1, <1>10, <1>11, <1>12, <1>13, <1>14, <1>15, <1>16, <1>17, <1>18, <1>19, <1>20
        DEF OrderInv, Bookkeeping

(* Every step keeps the order.                                              *)
LEMMA NextOrder ==
  ASSUME Supported
  PROVE  OrderInv /\ [Next]_vars => OrderInv'
<1> SUFFICES ASSUME OrderInv, [Next]_vars PROVE OrderInv' OBVIOUS
<1>0. DeviceInv' BY NextInv, InvFacts
<1>1. CASE Start
  <2>1. ASSUME NEW d \in Devices,
               BufferFromHostBuffer(d) \/ CreateErrorBuffer(d) \/ Execute(d)
        PROVE  OrderInv'
    BY <1>0, <2>1, BufferFromHostBufferOrder, CreateErrorBufferOrder, ExecuteOrder
  <2>2. ASSUME NEW b \in Buffers, ToLiteral(b) \/ GetReadyFuture(b) PROVE OrderInv'
    BY <1>0, <2>2, ToLiteralOrder, GetReadyFutureOrder
  <2>3. ASSUME NEW b \in Buffers, NEW op \in {"delete", "release"},
               AwaitDonation(b, op) \/ Release(b, op, "none")
        PROVE  OrderInv'
    BY <1>0, <2>3, ReleaseOrder, AwaitFacts, AwaitOrder, InvFacts
  <2>4. ASSUME NEW b \in Buffers, DropExternalReference(b) PROVE OrderInv'
    BY <1>0, <2>4, DropExternalReferenceOrder
  <2>5. ASSUME NEW b \in Buffers, NEW d \in Devices, CopyToDevice(b, d) PROVE OrderInv'
    BY <1>0, <2>5, CopyToDeviceOrder
  <2>6. \A b \in Buffers : ~DonateWithControlDependency(b)
    BY DEF Supported, DonateWithControlDependency
  <2> QED BY <1>1, <2>1, <2>2, <2>3, <2>4, <2>5, <2>6 DEF Start
<1>2. CASE Resolve
  <2>1. PICK b \in Buffers, status \in {"ok", "error"} : DependencyReady(b, status) BY <1>2 DEF Resolve
  <2>2. dependency[b] = "pending" BY <2>1 DEF DependencyReady
  <2> QED BY <2>2, InvFacts DEF ValuesFit
<1>3. ASSUME NEW b \in Buffers, HostStep(b) PROVE OrderInv'
  BY <1>0, <1>3, ExecuteHelperOrder, ExecuteFailsOrder, CopyToDeviceReturnOrder, DeleteOrder,
     ReleaseDeviceMemoryOwnershipOrder, ReleaseOrder, AwaitFacts, AwaitOrder, InvFacts
  DEF HostStep
<1>4. CASE Work
  <2>1. PICK t \in tasks : Block(t) \/ RunTask(t) BY <1>4 DEF Work
  <2> QED BY <1>0, <2>1, BlockOrder, TransferH2DOrder, AsyncToLiteralOrder, AsyncToLiteralFailsOrder,
             AsyncCopyToDeviceOrder, AsyncWaitForEventsOrder
          DEF RunTask
<1>5. CASE Drain BY <1>0, <1>5, PoolStreamDoneOrder DEF Drain
<1>6. ASSUME NEW s \in Streams, StreamStep(s) PROVE OrderInv' BY <1>0, <1>6, StreamStepOrder
<1>7. ASSUME NEW d \in Devices, RunCallback(d) PROVE OrderInv' BY <1>0, <1>7, RunCallbackOrder
<1>8. CASE UNCHANGED vars BY <1>0, <1>8, StutterOrder
<1> QED BY <1>1, <1>2, <1>3, <1>4, <1>5, <1>6, <1>7, <1>8 DEF Next

(* The inductive invariant holds in every behaviour.                        *)
LEMMA OrderLemma ==
  ASSUME Supported
  PROVE  Spec => []OrderInv
<1>1. OrderInv /\ [Next]_vars => OrderInv' BY NextOrder
<1> QED BY <1>1, InitOrder, PTL DEF Spec

-----------------------------------------------------------------------------
(* An operation that touches memory uses a buffer that has it.              *)
LEMMA TouchFacts ==
  ASSUME OrderInv, NEW s \in Streams, NEW i \in Nat, i \in DOMAIN stream[s], NEW c, Touches(stream[s][i], c)
  PROVE  \E u \in Buffers : Uses(stream, s, i, u) /\ buf[u].cell = c
<1>1. PICK o : o = stream[s][i] OBVIOUS
<1>2. o.op = "access" /\ OpFits(o) /\ o \in StreamOp BY <1>1, InvFacts, PlaceFacts DEF ValuesFit, Touches
<1>3. PICK m \in o.reads \cup o.writes : m.cell = c BY <1>1 DEF Touches
<1>4. CASE m \in o.reads
  <2>1. m.val \in Buffers /\ m.cell = buf[m.val].cell BY <1>2, <1>4 DEF OpFits
  <2>2. Uses(stream, s, i, m.val) BY <1>1, <1>2, <1>4 DEF Uses, Reads
  <2> QED BY <1>3, <2>1, <2>2
<1>5. CASE m \in o.writes
  <2>1. o.event \in Events /\ o.event[1] = "written" BY <1>2, <1>5, OpFacts DEF OpFits
  <2>2. PICK u \in Buffers : u = o.event[2] /\ o.event = Written(u) BY <2>1, EventNames DEF Written
  <2>3. m.cell = buf[u].cell BY <1>2, <1>5, <2>1, <2>2 DEF OpFits, Contents
  <2>4. Uses(stream, s, i, u) BY <1>1, <1>2, <2>2 DEF Uses, At
  <2> QED BY <1>3, <2>3, <2>4
<1> QED BY <1>4, <1>5

(* A stream at an access can take it.                                       *)
LEMMA AccessingFacts ==
  ASSUME OrderInv, NEW s \in Streams, Accessing(s)
  PROVE  1 \in DOMAIN stream[s] /\ Head(stream[s]) = stream[s][1] /\ stream[s][1].op = "access" /\ Passable(stream, s)
<1>1. stream \in Queues BY InvFacts
<1>2. stream[s] \in Seq(StreamOp) /\ stream[s] # <<>> /\ Head(stream[s]).op = "access"
  BY <1>1 DEF Queues, Accessing, Enabled
<1>3. 1 \in DOMAIN stream[s] /\ Head(stream[s]) = stream[s][1] BY <1>2
<1>4. Passable(stream, s) BY <1>2, <1>3 DEF Passable, WaitsAt
<1> QED BY <1>2, <1>3, <1>4

(* A read that is at hand has been written.                                 *)
LEMMA ReadAtHand ==
  ASSUME OrderInv, NEW s \in Streams, Accessing(s), NEW v \in Buffers, Reads(stream, s, 1, v)
  PROVE  /\ mem[buf[v].cell] = v
         /\ \A r \in Streams, j \in Nat : ~At(stream, Written(v), r, j)
<1>1. ReadFollows(s, 1, v) /\ stream \in Queues BY InvFacts DEF OrderInv, UsesFollow
<1>2. Passable(stream, s) BY AccessingFacts
<1>3. ASSUME NEW r \in Streams, NEW j \in Nat, At(stream, Written(v), r, j) PROVE FALSE
  <2>1. ~(r = s /\ j = 1) /\ Precedes(stream, r, j, s, 1) BY <1>1, <1>3 DEF ReadFollows
  <2>2. j \in Nat \ {0} BY <1>1, <1>3, AtFacts
  <2> QED BY <1>1, <1>2, <2>1, <2>2, HeadPrecedes
<1> QED BY <1>1, <1>3 DEF ReadFollows

LEMMA ReadsSee == OrderInv => ReadsSeeContents
<1> SUFFICES ASSUME OrderInv, NEW s \in Streams, Accessing(s), NEW m \in Head(stream[s]).reads
             PROVE  mem[m.cell] = m.val
  BY DEF ReadsSeeContents
<1>1. /\ 1 \in DOMAIN stream[s] /\ Head(stream[s]) = stream[s][1] /\ stream[s][1].op = "access"
  BY AccessingFacts
<1>2. OpFits(stream[s][1]) BY <1>1, InvFacts DEF ValuesFit
<1>3. m.val \in Buffers /\ m.cell = buf[m.val].cell BY <1>1, <1>2 DEF OpFits
<1>4. Reads(stream, s, 1, m.val) BY <1>1 DEF Reads
<1> QED BY <1>3, <1>4, ReadAtHand

LEMMA NoRace == OrderInv => RaceFree
<1> SUFFICES ASSUME OrderInv, NEW s \in Streams, NEW r \in Streams, s # r, Accessing(s), Accessing(r),
                    NEW w \in Head(stream[s]).writes, Touches(Head(stream[r]), w.cell)
             PROVE  FALSE
  BY DEF RaceFree
<1>1. /\ 1 \in DOMAIN stream[s] /\ Head(stream[s]) = stream[s][1] /\ stream[s][1].op = "access"
      /\ 1 \in DOMAIN stream[r] /\ Head(stream[r]) = stream[r][1] /\ stream[r][1].op = "access"
      /\ Passable(stream, s) /\ Passable(stream, r) /\ stream \in Queues
  BY AccessingFacts, InvFacts
<1>2. \A a, b \in Streams : Passable(stream, b) /\ Precedes(stream, a, 1, b, 1) => a = b
  BY <1>1, HeadPrecedes
<1>3. PICK v \in Buffers : At(stream, Written(v), s, 1) /\ buf[v].cell = w.cell
  <2>1. PICK o : o = stream[s][1] OBVIOUS
  <2>2. o.op = "access" /\ OpFits(o) /\ o \in StreamOp /\ w \in o.writes
    BY <1>1, <2>1, InvFacts, PlaceFacts DEF ValuesFit
  <2>3. o.event \in Events /\ o.event[1] = "written" BY <2>2, OpFacts DEF OpFits
  <2>4. PICK v \in Buffers : v = o.event[2] /\ o.event = Written(v) BY <2>3, EventNames DEF Written
  <2>5. w.cell = buf[v].cell BY <2>2, <2>3, <2>4 DEF OpFits, Contents
  <2>6. At(stream, Written(v), s, 1) BY <1>1, <2>1, <2>2, <2>4 DEF At
  <2> QED BY <2>4, <2>5, <2>6
<1>4. PICK u \in Buffers : Uses(stream, r, 1, u) /\ buf[u].cell = w.cell BY <1>1, TouchFacts
<1>5. ~Reads(stream, r, 1, v) BY <1>3, ReadAtHand
<1>6. CASE u = v
  <2>1. At(stream, Written(v), r, 1) BY <1>4, <1>5, <1>6 DEF Uses
  <2>2. PlaceFits(Written(v), s, 1) BY InvFacts, EventNames
  <2> QED BY <1>3, <2>1, <2>2 DEF PlaceFits
<1>7. CASE u # v
  <2>1. SameCell(u, v) BY <1>3, <1>4, <1>7 DEF SameCell
  <2>2. InOrder(r, 1, u, s, 1, v) BY DEF OrderInv, UsesFollow
  <2>3. ~Precedes(stream, r, 1, s, 1) BY <1>1, <1>2
  <2>4. PICK t \in Streams, k \in Nat : At(stream, Written(u), t, k) /\ Precedes(stream, s, 1, t, k)
    BY <1>3, <1>4, <2>1, <2>2, <2>3 DEF InOrder
  <2>5. At(stream, Written(u), r, 1) BY <1>4, <2>4, ReadAtHand DEF Uses
  <2>6. PlaceFits(Written(u), r, 1) BY InvFacts, EventNames
  <2>7. t = r /\ k = 1 BY <2>4, <2>5, <2>6 DEF PlaceFits
  <2> QED BY <1>1, <1>2, <2>4, <2>7
<1> QED BY <1>6, <1>7

(* What is written is not behind.                                           *)
LEMMA WrittenIsThere ==
  ASSUME OrderInv, NEW b \in Buffers, Holder(b), Recorded(Written(b)),
         \A r \in Streams, j \in Nat : ~At(stream, Written(b), r, j)
  PROVE  mem[buf[b].cell] = buf[b].val
<1>1. WriteArrives(b) BY DEF OrderInv, HoldersFollow
<1>2. Made(b) /\ ValueFits(b) BY InvFacts, HolderFacts
<1> QED BY <1>1, <1>2 DEF WriteArrives, ValueFits

LEMMA ReadyKeeps == OrderInv => ReadyKeepsContents
<1> SUFFICES ASSUME OrderInv, NEW b \in Buffers, ready[b] = "ok", buf[b].st = "live"
             PROVE  mem[buf[b].cell] = buf[b].val
  BY DEF ReadyKeepsContents
<1>1. HolderFits(b) /\ EventFits(Written(b)) /\ Written(b) \in Events BY InvFacts, EventNames
<1>2. ev[Written(b)].done BY <1>1 DEF HolderFits
<1>3. Written(b)[1] # "joined" BY EventNames
<1>4. Recorded(Written(b)) BY <1>1, <1>2, <1>3 DEF EventFits
<1>5. Holder(b) BY DEF Holder, Active
<1>6. \A r \in Streams, j \in Nat : ~At(stream, Written(b), r, j)
  <2>1. \A r \in Streams, j \in Nat : PlaceFits(Written(b), r, j) BY <1>1, InvFacts
  <2> QED BY <1>2, <2>1 DEF PlaceFits
<1> QED BY <1>4, <1>5, <1>6, WrittenIsThere

(* What touches memory is a place of a stream.                              *)
LEMMA PendingUses ==
  ASSUME OrderInv, NEW o \in Pending, NEW c, Touches(o, c)
  PROVE  \E s \in Streams, i \in Nat, u \in Buffers : Uses(stream, s, i, u) /\ buf[u].cell = c
<1>1. PICK s \in Streams : o \in StreamOps(s) BY DEF Pending
<1>2. PICK i \in DOMAIN stream[s] : o = stream[s][i] BY <1>1 DEF StreamOps
<1>3. i \in Nat BY InvFacts, PlaceFacts
<1>4. PICK u \in Buffers : Uses(stream, s, i, u) /\ buf[u].cell = c BY <1>2, <1>3, TouchFacts
<1> QED BY <1>3, <1>4

LEMMA ReleasedQuiet ==
  ASSUME Model # "kComputeSynchronized"
  PROVE  OrderInv => ReleasedIsQuiescent
<1> SUFFICES ASSUME OrderInv, NEW b \in Buffers, buf[b].st = "external"
             PROVE  /\ ev[buf[b].defs[1]].status = "error" \/ mem[buf[b].cell] = buf[b].val
                    /\ \A o \in Pending : ~Touches(o, buf[b].cell)
  BY DEF ReleasedIsQuiescent
<1>1. HandedOut(b) BY DEF OrderInv, OutIsQuiet
<1>2. Out(b) /\ Holder(b) BY DEF Out, Holder
<1>3. \A s \in Streams, i \in Nat, w \in Buffers : Uses(stream, s, i, w) => buf[w].cell # buf[b].cell
  BY <1>1, <1>2 DEF HandedOut
<1>4. \A o \in Pending : ~Touches(o, buf[b].cell) BY <1>3, PendingUses
<1>5. Made(b) BY <1>2, InvFacts, HolderFacts
<1>6. buf[b].defs[1] = Written(b) BY <1>5, FirstDefinition
<1>7. Recorded(Written(b)) \/ ev[Written(b)].status = "error" BY <1>1 DEF HandedOut
<1>8. \A r \in Streams, j \in Nat : ~At(stream, Written(b), r, j) BY <1>3 DEF Uses
<1> QED BY <1>2, <1>4, <1>6, <1>7, <1>8, WrittenIsThere

LEMMA FreedQuiet == OrderInv => FreedIsQuiescent
<1> SUFFICES ASSUME OrderInv, Model = "kSynchronous", NEW c \in Cells, NEW o \in Pending, Touches(o, c)
             PROVE  Owned(c)
  BY DEF FreedIsQuiescent
<1>1. PICK s \in Streams, i \in Nat, u \in Buffers : Uses(stream, s, i, u) /\ buf[u].cell = c
  BY PendingUses
<1>2. UseKept(s, i, u) BY DEF OrderInv, UsesKept
<1>3. KeptByCallback(s, i, c) BY <1>1, <1>2 DEF UseKept
<1>4. PICK r \in Streams, j \in Nat : j \in DOMAIN stream[r] /\ Gives(stream[r][j], c)
  BY <1>3 DEF KeptByCallback
<1>5. PICK g : g = stream[r][j] OBVIOUS
<1>6. g \in Pending BY <1>4, <1>5 DEF Pending, StreamOps
<1>7. g \in Callbacks /\ (c \in g.frees \/ \E b \in g.drops : buf[b].owns /\ buf[b].cell = c)
  BY <1>4, <1>5, <1>6 DEF Callbacks, Gives
<1>8. ASSUME NEW b \in g.drops, buf[b].owns, buf[b].cell = c PROVE Owned(c)
  <2>1. b \in Buffers
    <3>1. g \in StreamOp /\ g.op = "callback" BY <1>4, <1>5, InvFacts, PlaceFacts DEF Gives
    <3> QED BY <3>1, OpFacts
  <2>2. Alive(b) BY <1>7, <1>8 DEF Alive
  <2> QED BY <1>8, <2>1, <2>2 DEF Owned
<1> QED BY <1>7, <1>8 DEF Owned

-----------------------------------------------------------------------------
(* The streams do to device memory what the order of the client's calls     *)
(* says, although only events and references order them: no two streams are *)
(* at conflicting accesses, and every transfer and execution reads what the *)
(* operation that defines the buffer wrote (WaitForBufferDefinitionEvents-  *)
(* OnStream, ExecuteHelper, AllocateDestinationBuffer).                     *)
THEOREM AccessesAreSafeTheorem ==
  ASSUME Supported
  PROVE  Spec => []AccessesAreSafe
<1>1. OrderInv => AccessesAreSafe BY ReadsSee, NoRace DEF AccessesAreSafe
<1>2. Spec => []OrderInv BY OrderLemma
<1> QED BY <1>1, <1>2, PTL

(* What a transfer to the host, a copy or an execution reads is what the    *)
(* operation that defines the buffer wrote.                                 *)
THEOREM ReadsSeeContentsTheorem ==
  ASSUME Supported
  PROVE  Spec => []ReadsSeeContents
<1>1. Spec => []OrderInv BY OrderLemma
<1> QED BY <1>1, ReadsSee, PTL

(* Once GetReadyFuture's promise has been fulfilled with OK, the memory of  *)
(* the buffer has its contents for as long as the client has the buffer.    *)
THEOREM ReadyKeepsContentsTheorem ==
  ASSUME Supported
  PROVE  Spec => []ReadyKeepsContents
<1>1. Spec => []OrderInv BY OrderLemma
<1> QED BY <1>1, ReadyKeeps, PTL

(* A task of the pool that looks up the memory of a buffer finds it:        *)
(* AsShapedBuffer's CHECK holds in transfer_h2d, async_to_literal and       *)
(* async_copy_to_device, because a donation waits for the usages before it. *)
THEOREM TasksHaveMemoryTheorem ==
  ASSUME Supported
  PROVE  Spec => []TasksHaveMemory
<1>1. OrderInv => TasksHaveMemory
  <2> SUFFICES ASSUME OrderInv, NEW t \in tasks, t.kind # "ready"
               PROVE  AsShapedBuffer(t.src) /\ AsShapedBuffer(t.buf)
    BY DEF TasksHaveMemory
  <2>1. Job(t) \in Jobs /\ Job(t)[2] = t.buf /\ Job(t)[3] = t.src BY DEF Jobs, Job
  <2>2. t.buf \in Buffers /\ t.src \in Buffers BY InvFacts, TaskFacts
  <2>3. Holder(t.buf) /\ Holder(t.src) BY <2>1 DEF Holder
  <2> QED BY <2>2, <2>3, InvFacts DEF HolderFits, AsShapedBuffer
<1>2. Spec => []OrderInv BY OrderLemma
<1> QED BY <1>1, <1>2, PTL

(* Outside the compute-synchronized model memory that Release has handed to *)
(* another framework, or (kSynchronous) that has been freed, is not touched *)
(* by any stream operation that is still to run.                            *)
THEOREM LetGoIsQuiescentTheorem ==
  ASSUME Supported, Model # "kComputeSynchronized"
  PROVE  Spec => []LetGoIsQuiescent
<1>1. OrderInv => LetGoIsQuiescent BY ReleasedQuiet, FreedQuiet DEF LetGoIsQuiescent
<1>2. Spec => []OrderInv BY OrderLemma
<1> QED BY <1>1, <1>2, PTL
=============================================================================
