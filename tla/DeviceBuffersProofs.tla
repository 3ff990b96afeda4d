------------------------- MODULE DeviceBuffersProofs -------------------------
(***************************************************************************)
(* Theorems about DeviceBuffers, for any devices, memory, buffers, workers *)
(* and allocation model: type correctness, one owner of device memory, and *)
(* that a ready future waits for the definition events and for a control   *)
(* dependency.                                                             *)
(***************************************************************************)
EXTENDS DeviceBuffers, FiniteSetTheorems, TLAPS

-----------------------------------------------------------------------------
(* The kinds of records the variables hold.                                 *)
Memory     == [cell : Cells, val : 0..NumBuffers]
WaitOp     == [op : {"wait"}, events : SUBSET Events]
AccessOp   == [op : {"access"}, reads : SUBSET Memory, writes : SUBSET Memory,
               event : Events]
RecordOp   == [op : {"record"}, event : Events]
CallbackOp == [op : {"callback"}, drops : SUBSET Buffers, frees : SUBSET Cells]
StreamOp   == WaitOp \cup AccessOp \cup RecordOp \cup CallbackOp

(* A buffer that was made, and one that was not or whose execution failed.  *)
MadeBuffer == [st : {"making", "live", "external", "gone"}, dev : Devices,
               cell : Cells, val : 0..NumBuffers, defs : Seq(Events) \ {<<>>},
               usage : Seq(UsageEvent), owns : BOOLEAN]
NoBuffer   == {[Unborn EXCEPT !.st = st] : st \in {"unborn", "gone"}}

Event == [seq : Nat, stream : Streams \cup {NoStream}, status : {"none", "ok", "error"},
          on : SUBSET Streams, done : BOOLEAN]
Task  == [kind : {"h2d", "d2h", "copy", "ready"}, buf : Buffers, src : Buffers,
          on : Events, at : {"deferred", "queued", "running"}]
Awaits == {"await_delete", "await_release"}
Call  == [op : {"none", "execute", "copy", "delete", "release"} \cup Awaits,
          ins : SUBSET Buffers, don : SUBSET Buffers]
Wait  == [op : {"release", "ready"}, buf : Buffers, events : SUBSET Events]

BufTyped    == buf \in [Buffers -> MadeBuffer \cup NoBuffer]
EvTyped     == ev \in [Events -> Event]
StreamTyped == stream \in [Streams -> Seq(StreamOp)]
MemTyped    == mem \in [Cells -> 0..NumBuffers]
TasksTyped  == tasks \subseteq Task
CallTyped   == call \in [Buffers -> Call]
PoolTyped   == pool \subseteq Wait
CbTyped     == callbacks \in [Devices -> Seq(CallbackOp)]
FuturesTyped ==
  /\ ready \in [Buffers -> Future] /\ literal \in [Buffers -> Future]
  /\ dependency \in [Buffers -> Future]

Typed ==
  /\ BufTyped /\ EvTyped /\ StreamTyped /\ MemTyped /\ TasksTyped /\ CallTyped
  /\ PoolTyped /\ CbTyped /\ FuturesTyped

Made(b) == buf[b] \in MadeBuffer

(* A task works on buffers that were made, and the one that has left the    *)
(* deferred state finds the status of its event.                            *)
TaskFits(t) ==
  /\ Made(t.buf) /\ Made(t.src) /\ (t.kind # "copy" => t.buf = t.src)
  /\ t.kind # "h2d" /\ t.at # "deferred" => ev[t.on].status # "none"

Running == {t \in tasks : t.at = "running"}

TasksFit ==
  /\ \A t \in tasks : TaskFits(t)
  /\ \A p \in pool : Made(p.buf)
  /\ IsFiniteSet(Running) /\ Cardinality(Running) <= Workers

(* What a call in progress says of its buffer and its arguments.            *)
CallFits(b) ==
  LET c == call[b] IN
  /\ c.op = "none" => c = NoCall
  /\ c.op = "execute" => buf[b].st = "unborn" /\ c.ins # {}
  /\ c.op = "copy" => buf[b].st = "making" /\ c.don = {} /\ b \notin c.ins
  /\ c.op \in {"delete", "release"} => Made(b) /\ buf[b].st = "gone" /\ c.ins = {}
  /\ c.op \in Awaits => Made(b) /\ buf[b].st \in {"live", "gone"} /\ c.ins = {}
  /\ c.don \subseteq c.ins /\ \A i \in c.ins : Made(i)

CallsFit == \A b \in Buffers : CallFits(b)

(* The buffers that exist are the first ones.                               *)
Used(b) == buf[b].st # "unborn" \/ call[b] # NoCall
Numbered == \E k \in 0..NumBuffers : \A b \in Buffers : Used(b) <=> b <= k

(* The event of a control dependency is the first definition event of the   *)
(* buffer, and unset until the dependency is resolved.                      *)
DependencyFits(b) ==
  /\ dependency[b] # "none" => Made(b) /\ buf[b].defs[1] = <<"dependency", b>>
  /\ dependency[b] \in {"none", "pending"} =>
       ev[<<"dependency", b>>].seq = 0 /\ ev[<<"dependency", b>>].status = "none"
  /\ ready[b] = "ok" => buf[b].st # "unborn" /\ dependency[b] # "pending"

DependenciesFit == \A b \in Buffers : DependencyFits(b)

(* What an execution that waits holds: a donated argument is live and no    *)
(* other call has it; the others are live or are waited for by a Release.   *)
HoldFits(x) ==
  call[x].op = "execute" =>
    /\ \A b \in call[x].don :
         buf[b].st = "live" /\ \A y \in Buffers : y # x => b \notin call[y].ins
    /\ \A b \in call[x].ins \ call[x].don :
         buf[b].st = "live" \/ call[b].op \in {"delete", "release"}

HoldsFit == \A x \in Buffers : HoldFits(x)

Owning == \A b \in Buffers : buf[b].st \in {"making", "live"} => buf[b].owns

DeviceInv ==
  /\ Typed /\ TasksFit /\ CallsFit /\ Numbered /\ DependenciesFit
  /\ HoldsFit /\ Owning /\ OneOwner

-----------------------------------------------------------------------------
(* Names of streams and events.                                             *)
LEMMA NameFacts ==
  /\ \A d \in Devices : /\ <<"compute", d>> \in Streams /\ <<"h2d", d>> \in Streams
                        /\ <<"d2h", d>> \in Streams /\ <<"d2d", d>> \in Streams
                        /\ <<"compute", d>> # <<"h2d", d>>
  /\ \A s \in Streams : s[2] \in Devices
  /\ \A c, d : <<"compute", c>> # <<"h2d", d>> /\ <<"compute", c>> # <<"d2d", d>>
  /\ \A b \in Buffers : /\ <<"written", b>> \in Events /\ <<"allocated", b>> \in Events
                        /\ <<"read", b>> \in Events /\ <<"dependency", b>> \in Events
                        /\ <<"joined", b>> \in Events
  /\ \A e \in Events : e[2] \in Buffers
BY DEF Streams, Events

Elems(q) == {q[i] : i \in DOMAIN q}

(* The elements of sequences that are put together.                         *)
LEMMA ConcatFacts ==
  ASSUME NEW S, NEW p \in Seq(S), NEW q \in Seq(S)
  PROVE  /\ p \o q \in Seq(S)
         /\ \A o \in Elems(p \o q) : o \in Elems(p) \/ o \in Elems(q)
<1>1. p \o q \in Seq(S) OBVIOUS
<1>2. ASSUME NEW i \in DOMAIN (p \o q)
      PROVE  (p \o q)[i] \in Elems(p) \/ (p \o q)[i] \in Elems(q)
  <2>1. i \in 1..Len(p) + Len(q) OBVIOUS
  <2>2. CASE i <= Len(p)
    <3>1. i \in DOMAIN p /\ (p \o q)[i] = p[i] BY <2>1, <2>2
    <3> QED BY <3>1 DEF Elems
  <2>3. CASE i > Len(p)
    <3>1. i - Len(p) \in DOMAIN q /\ (p \o q)[i] = q[i - Len(p)] BY <2>1, <2>3
    <3> QED BY <3>1 DEF Elems
  <2> QED BY <2>1, <2>2, <2>3
<1> QED BY <1>1, <1>2 DEF Elems

(* What is put on a stream: callbacks in it drop references of D and free   *)
(* memory of F.                                                             *)
Bounded(o, D, F) == o.drops \subseteq D /\ o.frees \subseteq F

Piece(q, D, F) ==
  q \in Seq(StreamOp) /\ \A o \in Elems(q) : o.op = "callback" => Bounded(o, D, F)

Grows(new, old, D, F) ==
  /\ new \in Seq(StreamOp)
  /\ \A o \in Elems(new) : o \in Elems(old) \/ (o.op = "callback" => Bounded(o, D, F))

(* A stream to which nothing is added.                                      *)
LEMMA GrowsNot ==
  ASSUME NEW old \in Seq(StreamOp), NEW D, NEW F
  PROVE  Grows(old, old, D, F)
BY DEF Grows

(* One more piece is put on a stream.                                       *)
LEMMA GrowsBy ==
  ASSUME NEW new, NEW old, NEW D, NEW F, Grows(new, old, D, F), NEW q, Piece(q, D, F)
  PROVE  Grows(new \o q, old, D, F)
<1>1. new \in Seq(StreamOp) /\ q \in Seq(StreamOp) BY DEF Grows, Piece
<1>2. /\ new \o q \in Seq(StreamOp)
      /\ \A o \in Elems(new \o q) : o \in Elems(new) \/ o \in Elems(q)
  BY <1>1, ConcatFacts
<1> QED BY <1>2 DEF Grows, Piece

(* One operation.                                                           *)
LEMMA OneOp ==
  ASSUME NEW o \in StreamOp, NEW D, NEW F,
         o.op = "callback" => Bounded(o, D, F)
  PROVE  Piece(<<o>>, D, F)
BY DEF Piece, Elems

(* No operation.                                                            *)
LEMMA NoOp == \A D, F : Piece(<<>>, D, F)
BY DEF Piece, Elems

(* The waits, the access with its event, and the callback.                  *)
LEMMA WaitsPiece ==
  ASSUME NEW s, NEW E \in SUBSET Events, NEW D, NEW F
  PROVE  Piece(Waits(s, E), D, F)
<1> DEFINE w == {e \in E : s \notin ev[e].on}
           o == [op |-> "wait", events |-> w]
<1>1. o \in StreamOp /\ o.op = "wait" BY DEF StreamOp, WaitOp
<1>2. Waits(s, E) = IF w = {} THEN <<>> ELSE <<o>> BY DEF Waits
<1> HIDE DEF o
<1>3. Piece(<<o>>, D, F) BY <1>1, OneOp
<1> QED BY <1>2, <1>3, NoOp

(* The access with its event.                                               *)
LEMMA AccessPiece ==
  ASSUME NEW reads \in SUBSET Memory, NEW writes \in SUBSET Memory, NEW e \in Events, NEW D, NEW F
  PROVE  Piece(Access(reads, writes, e), D, F)
<1> DEFINE o == [op |-> "access", reads |-> reads, writes |-> writes, event |-> e]
<1>1. o \in StreamOp /\ o.op = "access" BY DEF StreamOp, AccessOp
<1>2. Access(reads, writes, e) = <<o>> BY DEF Access
<1> HIDE DEF o
<1> QED BY <1>1, <1>2, OneOp

(* An event that is recorded.                                               *)
LEMMA RecordPiece ==
  ASSUME NEW e \in Events, NEW D, NEW F
  PROVE  Piece(Record(e), D, F)
<1> DEFINE o == [op |-> "record", event |-> e]
<1>1. o \in StreamOp /\ o.op = "record" BY DEF StreamOp, RecordOp
<1>2. Record(e) = <<o>> BY DEF Record
<1> HIDE DEF o
<1> QED BY <1>1, <1>2, OneOp

(* The callback.                                                            *)
LEMMA CallbackPiece ==
  ASSUME NEW drops \in SUBSET Buffers, NEW frees \in SUBSET Cells
  PROVE  Piece(Callback(drops, frees), drops, frees)
<1> DEFINE o == [op |-> "callback", drops |-> drops, frees |-> frees]
<1>1. o \in StreamOp /\ Bounded(o, drops, frees) BY DEF StreamOp, CallbackOp, Bounded
<1>2. Callback(drops, frees) = IF drops = {} /\ frees = {} THEN <<>> ELSE <<o>>
  BY DEF Callback
<1> HIDE DEF o
<1>3. Piece(<<o>>, drops, frees) BY <1>1, OneOp
<1> QED BY <1>2, <1>3, NoOp

-----------------------------------------------------------------------------
(* A reference in a callback that is enqueued or queued, and the memory it  *)
(* gives back.                                                              *)
Drops(b) == \E o \in Callbacks : b \in o.drops
Frees(c) == \E o \in Callbacks : c \in o.frees

(* The streams have their kind, and only references to D and memory of F    *)
(* are new in them.                                                         *)
StreamsStep(D, F) ==
  /\ StreamTyped' /\ \A b \in Buffers : Drops(b)' => Drops(b) \/ b \in D
  /\ \A c : Frees(c)' => Frees(c) \/ c \in F

(* Something is put on one stream.                                          *)
LEMMA StreamGrows ==
  ASSUME StreamTyped, NEW s \in Streams, NEW new, NEW D, NEW F, Grows(new, stream[s], D, F),
         stream' = [stream EXCEPT ![s] = new], callbacks' = callbacks
  PROVE  StreamsStep(D, F)
<1>1. StreamTyped' BY DEF StreamTyped, Grows
<1>2. ASSUME NEW o \in Callbacks' PROVE o \in Callbacks \/ Bounded(o, D, F)
  <2>1. CASE o \in Queued' BY <2>1 DEF Queued, Callbacks
  <2>2. CASE o \in Pending' /\ o.op = "callback"
    <3>1. PICK r \in Streams : o \in Elems(stream'[r])
      BY <2>2 DEF Pending, StreamOps, Elems
    <3>2. CASE r = s
      <4>1. stream'[r] = new BY <3>2 DEF StreamTyped
      <4>2. o \in Elems(stream[s]) \/ Bounded(o, D, F)
        BY <2>2, <3>1, <4>1 DEF Grows
      <4> QED BY <2>2, <4>2 DEF Callbacks, Pending, StreamOps, Elems
    <3>3. CASE r # s
      <4>1. stream'[r] = stream[r] BY <3>3 DEF StreamTyped
      <4> QED BY <2>2, <3>1, <4>1 DEF Callbacks, Pending, StreamOps, Elems
    <3> QED BY <3>2, <3>3
  <2> QED BY <2>1, <2>2 DEF Callbacks
<1> QED BY <1>1, <1>2 DEF StreamsStep, Drops, Frees, Bounded

(* Nothing is put on the streams.                                           *)
LEMMA StreamsStay ==
  ASSUME StreamTyped, UNCHANGED <<stream, callbacks>>
  PROVE  StreamsStep({}, {})
BY DEF StreamsStep, StreamTyped, Drops, Frees, Callbacks, Pending, StreamOps, Queued

(* Join puts no callback on a stream.                                       *)
LEMMA JoinStep ==
  ASSUME StreamTyped, NEW d \in Devices, NEW s \in Streams, s # <<"compute", d>>,
         NEW b \in Buffers, stream' = Join(d, s, b, <<>>), callbacks' = callbacks
  PROVE  StreamsStep({}, {})
<1> DEFINE c == <<"compute", d>>
           j == <<"joined", b>>
           o == [op |-> "wait", events |-> {j}]
           atc == stream[c] \o Record(j)
           ats == (stream[s] \o <<o>>) \o <<>>
<1>1. c \in Streams /\ j \in Events /\ s # c BY NameFacts
<1>2. \A r \in Streams : stream[r] \in Seq(StreamOp) BY DEF StreamTyped
<1>3. Piece(<<>>, {}, {}) BY NoOp
<1>4. Grows(stream[s] \o <<>>, stream[s], {}, {}) BY <1>2, <1>3, GrowsNot, GrowsBy
<1>5. o \in StreamOp /\ o.op = "wait" BY <1>1 DEF StreamOp, WaitOp
<1>6. \/ stream' = [stream EXCEPT ![s] = stream[s] \o <<>>]
      \/ stream' = [stream EXCEPT ![c] = atc, ![s] = ats]
  BY <1>1 DEF Join, StreamTyped
<1> HIDE DEF o
<1>7. Piece(<<o>>, {}, {}) BY <1>5, OneOp
<1>8. Grows(atc, stream[c], {}, {}) BY <1>1, <1>2, GrowsNot, GrowsBy, RecordPiece
<1>9. Grows(ats, stream[s], {}, {}) BY <1>2, <1>3, <1>7, GrowsNot, GrowsBy
<1> HIDE DEF atc, ats, c
<1>10. CASE stream' = [stream EXCEPT ![s] = stream[s] \o <<>>]
  BY <1>4, <1>10, StreamGrows
<1>11. CASE stream' = [stream EXCEPT ![c] = atc, ![s] = ats]
  <2>1. \A r \in Streams : stream'[r] = IF r = s THEN ats ELSE IF r = c THEN atc ELSE stream[r]
    BY <1>1, <1>11 DEF StreamTyped
  <2>2. \A r \in Streams : Grows(stream'[r], stream[r], {}, {})
    BY <1>1, <1>2, <1>8, <1>9, <2>1, GrowsNot
  <2>3. StreamTyped' BY <1>11, <1>8, <1>9 DEF StreamTyped, Grows
  <2>4. ASSUME NEW o2 \in Callbacks' PROVE o2 \in Callbacks \/ Bounded(o2, {}, {})
    <3>1. CASE o2 \in Queued' BY <3>1 DEF Queued, Callbacks
    <3>2. CASE o2 \in Pending' /\ o2.op = "callback"
      <4>1. PICK r \in Streams : o2 \in Elems(stream'[r])
        BY <3>2 DEF Pending, StreamOps, Elems
      <4>2. o2 \in Elems(stream[r]) \/ Bounded(o2, {}, {})
        BY <2>2, <3>2, <4>1 DEF Grows
      <4> QED BY <3>2, <4>2 DEF Callbacks, Pending, StreamOps, Elems
    <3> QED BY <2>4, <3>1, <3>2 DEF Callbacks
  <2> QED BY <2>3, <2>4 DEF StreamsStep, Drops, Frees, Bounded
<1> QED BY <1>6, <1>10, <1>11

-----------------------------------------------------------------------------
(* Events.  Those of S get a status, the others keep theirs.                *)
EventsStep(S) ==
  /\ EvTyped'
  /\ \A e \in Events : /\ e \notin S => /\ ev'[e].seq = ev[e].seq
                                        /\ ev'[e].status = ev[e].status
                       /\ e \in S => ev'[e].status # "none"

(* There are finitely many events.                                          *)
LEMMA EventsFinite == IsFiniteSet(Events)
<1> DEFINE K == {"written", "allocated", "read", "dependency", "joined"}
<1>1. IsFiniteSet(K)
  <2>1. IsFiniteSet({}) BY FS_EmptySet
  <2>2. IsFiniteSet({} \cup {"written"}) BY <2>1, FS_AddElement
  <2>3. IsFiniteSet({} \cup {"written"} \cup {"allocated"}) BY <2>2, FS_AddElement
  <2>4. IsFiniteSet({} \cup {"written"} \cup {"allocated"} \cup {"read"})
    BY <2>3, FS_AddElement
  <2>5. IsFiniteSet({} \cup {"written"} \cup {"allocated"} \cup {"read"} \cup {"dependency"})
    BY <2>4, FS_AddElement
  <2>6. IsFiniteSet({} \cup {"written"} \cup {"allocated"} \cup {"read"} \cup {"dependency"}
                       \cup {"joined"})
    BY <2>5, FS_AddElement
  <2>7. K = {} \cup {"written"} \cup {"allocated"} \cup {"read"} \cup {"dependency"}
               \cup {"joined"}
    OBVIOUS
  <2> QED BY <2>6, <2>7
<1>2. IsFiniteSet(Buffers) BY BoundsAssumption, FS_Interval DEF Buffers
<1> QED BY <1>1, <1>2, FS_Product DEF Events

(* The numbers of events are numbers.                                       *)
LEMMA SequenceNumberFacts ==
  ASSUME NEW evs, NEW s
  PROVE  SequenceNumber(evs, s) \in Nat
<1> DEFINE R == {e \in Events : evs[e].seq > 0 /\ evs[e].stream = s}
<1>1. IsFiniteSet(R) BY EventsFinite, FS_Subset
<1>2. Cardinality(R) \in Nat BY <1>1, FS_CardinalityType
<1> QED BY <1>2 DEF SequenceNumber

(* SetSequencingEvent sets one event.                                       *)
LEMMA SetFacts ==
  ASSUME NEW evs \in [Events -> Event], NEW e \in Events, NEW s \in Streams
  PROVE  /\ SetSequencingEvent(evs, e, s) \in [Events -> Event]
         /\ SetSequencingEvent(evs, e, s)[e].status = "ok"
         /\ \A x \in Events : x # e => SetSequencingEvent(evs, e, s)[x] = evs[x]
<1> DEFINE n == SequenceNumber(evs, s)
           r == [seq |-> n, stream |-> s, status |-> "ok", on |-> {s}, done |-> FALSE]
<1>1. n \in Nat BY SequenceNumberFacts
<1>2. SetSequencingEvent(evs, e, s) = [evs EXCEPT ![e] = r] BY DEF SetSequencingEvent
<1> HIDE DEF n
<1>3. r \in Event /\ r.status = "ok" BY <1>1 DEF Event
<1> HIDE DEF r
<1> QED BY <1>2, <1>3

(* A wait changes neither the numbers nor the states of events.             *)
LEMMA DefinedOnFacts ==
  ASSUME EvTyped, NEW s \in Streams, NEW E
  PROVE  /\ DefinedOn(s, E) \in [Events -> Event]
         /\ \A e \in Events : /\ DefinedOn(s, E)[e].seq = ev[e].seq
                              /\ DefinedOn(s, E)[e].status = ev[e].status
<1>1. ASSUME NEW e \in Events
      PROVE  LET r == [ev[e] EXCEPT !.on = @ \cup {s}]
             IN  r \in Event /\ r.seq = ev[e].seq /\ r.status = ev[e].status
  <2>1. ev[e] \in Event BY DEF EvTyped
  <2> QED BY <2>1 DEF Event
<1>2. \A e \in Events : ev[e] \in Event BY DEF EvTyped
<1> QED BY <1>1, <1>2 DEF DefinedOn

(* Recording an event, after a wait or without one.                         *)
LEMMA SetStep ==
  ASSUME EvTyped, NEW e \in Events, NEW s \in Streams,
         \/ ev' = SetSequencingEvent(ev, e, s)
         \/ \E E : ev' = SetSequencingEvent(DefinedOn(s, E), e, s)
  PROVE  EventsStep({e}) /\ ev'[e].status = "ok"
<1>1. CASE ev' = SetSequencingEvent(ev, e, s)
  BY <1>1, SetFacts DEF EvTyped, EventsStep
<1>2. CASE \E E : ev' = SetSequencingEvent(DefinedOn(s, E), e, s)
  <2>1. PICK E : ev' = SetSequencingEvent(DefinedOn(s, E), e, s) BY <1>2
  <2> DEFINE evs == DefinedOn(s, E)
  <2>2. /\ evs \in [Events -> Event]
        /\ \A x \in Events : evs[x].seq = ev[x].seq /\ evs[x].status = ev[x].status
    BY DefinedOnFacts
  <2> HIDE DEF evs
  <2>3. /\ ev' \in [Events -> Event] /\ ev'[e].status = "ok"
        /\ \A x \in Events : x # e => ev'[x] = evs[x]
    BY <2>1, <2>2, SetFacts DEF evs
  <2> QED BY <2>2, <2>3 DEF EventsStep, EvTyped
<1> QED BY <1>1, <1>2

(* No event is recorded.                                                    *)
LEMMA EventsStay ==
  ASSUME EvTyped, \/ ev' = ev
                  \/ \E s \in Streams : \E E : ev' = DefinedOn(s, E)
  PROVE  EventsStep({})
BY DefinedOnFacts DEF EventsStep, EvTyped

(* Usage events.                                                            *)
LEMMA AddUsageEventFacts ==
  ASSUME NEW evs, NEW u \in Seq(UsageEvent), NEW s \in Streams, NEW e \in Events,
         NEW held \in BOOLEAN
  PROVE  AddUsageEvent(evs, u, s, e, held) \in Seq(UsageEvent)
<1> DEFINE new  == [stream |-> s, event |-> e, reference_held |-> held]
           same == {i \in DOMAIN u : evs[u[i].event].seq > 0 /\ u[i].stream = s}
           i    == CHOOSE i \in same : \A j \in same : i <= j
<1>1. new \in UsageEvent BY DEF UsageEvent
<1>2. AddUsageEvent(evs, u, s, e, held)
        \in {Append(u, new), [u EXCEPT ![i] = new], u}
  BY Zenon DEF AddUsageEvent
<1> HIDE DEF new, i
<1>3. Append(u, new) \in Seq(UsageEvent) BY <1>1
<1>4. [u EXCEPT ![i] = new] \in Seq(UsageEvent)
  <2>1. Len(u) \in Nat /\ u \in [1..Len(u) -> UsageEvent] OBVIOUS
  <2>2. [u EXCEPT ![i] = new] \in [1..Len(u) -> UsageEvent] BY <1>1, <2>1
  <2> QED BY <2>1, <2>2
<1> QED BY <1>2, <1>3, <1>4

-----------------------------------------------------------------------------
(* The next buffer is one that nobody has used.                             *)
LEMMA NewFacts ==
  ASSUME Numbered, CanCreate
  PROVE  /\ New \in Buffers /\ ~Used(New)
         /\ ((\A b \in Buffers : Used(b)' <=> Used(b) \/ b = New) => Numbered')
<1>1. NumBuffers \in Nat BY BoundsAssumption
<1>2. PICK k \in 0..NumBuffers : \A b \in Buffers : Used(b) <=> b <= k BY DEF Numbered
<1>3. {b \in Buffers : Used(b)} = 1..k BY <1>1, <1>2 DEF Buffers
<1> DEFINE U == {b \in Buffers : buf[b].st # "unborn" \/ call[b] # NoCall}
<1>4. U = 1..k BY <1>3 DEF Used
<1>5. Cardinality(1..k) = k BY <1>1, FS_Interval
<1>6. New = k + 1
  <2>1. New = 1 + Cardinality(U) BY DEF New
  <2> HIDE DEF U
  <2> QED BY <1>1, <1>4, <1>5, <2>1
<1>7. k + 1 <= NumBuffers BY <1>6 DEF CanCreate
<1>8. New \in Buffers BY <1>1, <1>6, <1>7 DEF Buffers
<1>9. ~Used(New) BY <1>1, <1>2, <1>6, <1>8
<1>10. ASSUME \A b \in Buffers : Used(b)' <=> Used(b) \/ b = New PROVE Numbered'
  <2>1. k + 1 \in 0..NumBuffers BY <1>1, <1>7
  <2>2. \A b \in Buffers : Used(b)' <=> b <= k + 1
    BY <1>1, <1>2, <1>6, <1>10 DEF Buffers
  <2> QED BY <2>1, <2>2 DEF Numbered
<1> QED BY <1>8, <1>9, <1>10

(* No buffer is new.                                                        *)
LEMMA NumberedStay ==
  ASSUME Numbered, \A b \in Buffers : Used(b)' <=> Used(b)
  PROVE  Numbered'
BY DEF Numbered

(* Buffers that have neither been made nor called.                          *)
LEMMA UnusedFacts ==
  ASSUME Typed, NEW n \in Buffers, ~Used(n)
  PROVE  ~Made(n) /\ buf[n].st = "unborn" /\ call[n] = NoCall
BY DEF Typed, BufTyped, Used, Made, MadeBuffer

(* Buffers that have been made.                                             *)
LEMMA MadeFacts ==
  ASSUME Typed, NEW b \in Buffers, Made(b)
  PROVE  /\ buf[b].st \in {"making", "live", "external", "gone"}
         /\ buf[b].dev \in Devices /\ buf[b].cell \in Cells
         /\ buf[b].val \in 0..NumBuffers /\ buf[b].defs \in Seq(Events)
         /\ buf[b].defs # <<>> /\ buf[b].defs[1] \in Events
         /\ buf[b].usage \in Seq(UsageEvent) /\ buf[b].owns \in BOOLEAN
         /\ Contents(b) \in Memory /\ DefinitionEvents(b) \in SUBSET Events
         /\ UsageEvents(b) \in SUBSET Events
<1>1. /\ buf[b].st \in {"making", "live", "external", "gone"}
      /\ buf[b].dev \in Devices /\ buf[b].cell \in Cells
      /\ buf[b].val \in 0..NumBuffers /\ buf[b].defs \in Seq(Events)
      /\ buf[b].defs # <<>>
      /\ buf[b].usage \in Seq(UsageEvent) /\ buf[b].owns \in BOOLEAN
  BY DEF Made, MadeBuffer
<1>2. \A i \in DOMAIN buf[b].defs : buf[b].defs[i] \in Events BY <1>1
<1>3. 1 \in DOMAIN buf[b].defs BY <1>1
<1>4. Contents(b) \in Memory BY <1>1 DEF Contents, Memory
<1>5. \A i \in DOMAIN buf[b].usage : buf[b].usage[i] \in UsageEvent BY <1>1
<1>6. UsageEvents(b) \in SUBSET Events BY <1>5 DEF UsageEvents, UsageEvent
<1> QED BY <1>1, <1>2, <1>3, <1>4, <1>6 DEF DefinitionEvents

(* The state of a buffer says that it was made.                             *)
LEMMA StMade ==
  ASSUME Typed, NEW b \in Buffers, buf[b].st \in {"making", "live", "external"}
  PROVE  Made(b)
<1>1. buf[b] \in MadeBuffer \cup NoBuffer BY DEF Typed, BufTyped
<1>2. \A r \in NoBuffer : r.st \in {"unborn", "gone"} BY DEF NoBuffer, Unborn
<1> QED BY <1>1, <1>2 DEF Made

-----------------------------------------------------------------------------
(* Steps that leave the states of the buffers and the calls.                *)
SameBuffers ==
  /\ BufTyped'
  /\ \A b \in Buffers :
       /\ buf'[b].st = buf[b].st /\ buf'[b].cell = buf[b].cell
       /\ buf'[b].defs = buf[b].defs /\ buf'[b].owns = buf[b].owns
       /\ (Made(b))' <=> Made(b)

FewRun == IsFiniteSet(Running) /\ Cardinality(Running) <= Workers

(* Tasks and borrowed streams refer to buffers that were alive.             *)
TasksStep ==
  /\ TasksTyped' /\ FewRun'
  /\ \A t \in tasks' : TaskFits(t)' /\ Alive(t.buf) /\ Alive(t.src)

PoolStep ==
  PoolTyped' /\ \A p \in pool' : Made(p.buf) /\ (p.op = "release" => Alive(p.buf))

(* A future that says OK did, or belongs to a buffer without a dependency.  *)
FuturesStep ==
  /\ ready' \in [Buffers -> Future] /\ literal' \in [Buffers -> Future]
  /\ dependency' = dependency
  /\ \A b \in Buffers : ready'[b] = "ok" =>
       ready[b] = "ok" \/ (Made(b) /\ dependency[b] # "pending")

(* A step of these parts with any effect on the futures, and one that also *)
(* leaves the dependencies alone.                                           *)
CalmStep(S, D) ==
  /\ SameBuffers /\ call' = call /\ EventsStep(S)
  /\ StreamsStep(D, {}) /\ (\A b \in D : Alive(b))
  /\ MemTyped' /\ CbTyped' /\ TasksStep /\ PoolStep

QuietStep(S, D) ==
  CalmStep(S, D) /\ FuturesStep /\ (\A b \in Buffers : <<"dependency", b>> \notin S)

(* Owners stay who they are if nothing that was given up comes to life and  *)
(* no memory is given back.                                                 *)
LEMMA OwnersStay ==
  ASSUME OneOwner, NEW D, StreamsStep(D, {}),
         \A b \in Buffers : /\ buf'[b].owns => buf[b].owns
                            /\ buf'[b].owns /\ Alive(b)' =>
                                 Alive(b) /\ buf'[b].cell = buf[b].cell
  PROVE  OneOwner'
<1>1. \A c : Frees(c)' => Frees(c) BY DEF StreamsStep
<1> QED BY <1>1 DEF OneOwner, Frees

(* A buffer that nobody referred to stays dead.                             *)
LEMMA AliveStays ==
  ASSUME NEW b \in Buffers, NEW D, NEW F, StreamsStep(D, F), b \in D => Alive(b),
         buf'[b].st \in {"making", "live", "external"} => Alive(b),
         call'[b].op \in {"delete", "release"} => Alive(b),
         \A t \in tasks' : b \in {t.buf, t.src} => Alive(b),
         \A p \in pool' : p.op = "release" /\ p.buf = b => Alive(b)
  PROVE  Alive(b)' => Alive(b)
<1>1. Drops(b)' => Alive(b) BY DEF StreamsStep, Drops, Alive
<1>2. Alive(b)' <=> \/ buf'[b].st \in {"making", "live", "external"}
                    \/ call'[b].op \in {"delete", "release"}
                    \/ \E t \in tasks' : b \in {t.buf, t.src}
                    \/ Drops(b)'
                    \/ \E p \in pool' : p.op = "release" /\ p.buf = b
  BY DEF Alive, Drops
<1> QED BY <1>1, <1>2

(* Tasks that were there.                                                   *)
LEMMA TaskStays ==
  ASSUME DeviceInv, \A b \in Buffers : Made(b) => (Made(b))', NEW S, EventsStep(S),
         NEW t \in tasks
  PROVE  TaskFits(t)' /\ Alive(t.buf) /\ Alive(t.src)
<1>1. t \in Task /\ TaskFits(t) BY DEF DeviceInv, Typed, TasksTyped, TasksFit
<1>2. t.buf \in Buffers /\ t.src \in Buffers /\ t.on \in Events BY <1>1 DEF Task
<1>3. (Made(t.buf))' /\ (Made(t.src))' BY <1>1, <1>2 DEF TaskFits
<1>4. ev[t.on].status # "none" => ev'[t.on].status # "none" BY <1>2 DEF EventsStep
<1>5. TaskFits(t)' BY <1>1, <1>3, <1>4 DEF TaskFits, Made
<1>6. Alive(t.buf) /\ Alive(t.src) BY DEF Alive
<1> QED BY <1>5, <1>6

(* No task is new.                                                          *)
LEMMA TasksStay ==
  ASSUME DeviceInv, \A b \in Buffers : Made(b) => (Made(b))', NEW S, EventsStep(S),
         tasks' \subseteq tasks
  PROVE  TasksStep
<1>1. TasksTyped' BY DEF DeviceInv, Typed, TasksTyped
<1>2. Running' \subseteq Running BY DEF Running
<1>3. IsFiniteSet(Running) /\ Cardinality(Running) <= Workers BY DEF DeviceInv, TasksFit
<1>4. IsFiniteSet(Running') /\ Cardinality(Running') <= Cardinality(Running)
  BY <1>2, <1>3, FS_Subset
<1>5. Cardinality(Running) \in Nat /\ Cardinality(Running') \in Nat /\ Workers \in Nat
  BY <1>3, <1>4, FS_CardinalityType, BoundsAssumption
<1>6. FewRun' BY <1>3, <1>4, <1>5 DEF FewRun
<1> QED BY <1>1, <1>6, TaskStays DEF TasksStep

(* No borrowed stream is new.                                               *)
LEMMA PoolStays ==
  ASSUME DeviceInv, pool' \subseteq pool
  PROVE  PoolStep
BY DEF DeviceInv, Typed, PoolTyped, TasksFit, PoolStep, Alive

(* The buffers stay as they are.                                            *)
LEMMA BuffersStay ==
  ASSUME DeviceInv, buf' = buf
  PROVE  SameBuffers
BY DEF DeviceInv, Typed, BufTyped, SameBuffers, Made

(* Only copies to the host are finished.                                    *)
LEMMA FuturesStay ==
  ASSUME DeviceInv, UNCHANGED <<ready, dependency>>, literal' \in [Buffers -> Future]
  PROVE  FuturesStep
BY DEF DeviceInv, Typed, FuturesTyped, FuturesStep

(* Such steps keep the invariant.                                           *)
LEMMA CalmInv ==
  ASSUME DeviceInv, NEW S, NEW D, CalmStep(S, D), FuturesTyped', DependenciesFit'
  PROVE  DeviceInv'
<1>1. Typed'
  BY DEF DeviceInv, Typed, CalmStep, SameBuffers, EventsStep, StreamsStep, TasksStep,
         PoolStep, CallTyped
<1>2. \A b \in Buffers : /\ buf'[b].st = buf[b].st /\ buf'[b].cell = buf[b].cell
                         /\ buf'[b].defs = buf[b].defs /\ buf'[b].owns = buf[b].owns
                         /\ ((Made(b))' <=> Made(b))
  BY DEF CalmStep, SameBuffers
<1>3. TasksFit'
  <2>1. \A p \in pool' : p.buf \in Buffers /\ Made(p.buf)
    BY DEF CalmStep, PoolStep, PoolTyped, Wait
  <2>2. \A p \in pool' : (Made(p.buf))' BY <1>2, <2>1
  <2>3. FewRun' /\ \A t \in tasks' : TaskFits(t)' BY DEF CalmStep, TasksStep
  <2> QED BY <2>2, <2>3 DEF TasksFit, FewRun, Made
<1>4. CallsFit'
  <2> SUFFICES ASSUME NEW b \in Buffers PROVE CallFits(b)' BY DEF CallsFit
  <2>1. CallFits(b) BY DEF DeviceInv, CallsFit
  <2>2. call'[b] = call[b] /\ call[b] \in Call
    BY DEF CalmStep, DeviceInv, Typed, CallTyped
  <2>3. \A i \in call[b].ins : i \in Buffers BY <2>2 DEF Call
  <2>4. \A i \in call[b].ins : Made(i) => (Made(i))' BY <1>2, <2>3
  <2> QED BY <1>2, <2>1, <2>2, <2>4 DEF CallFits
<1>5. Numbered'
  <2>1. \A b \in Buffers : Used(b)' <=> Used(b) BY <1>2 DEF Used, CalmStep
  <2> QED BY <2>1, NumberedStay DEF DeviceInv
<1>6. DependenciesFit' OBVIOUS
<1>7. HoldsFit'
  <2> SUFFICES ASSUME NEW x \in Buffers PROVE HoldFits(x)' BY DEF HoldsFit
  <2>1. HoldFits(x) /\ CallFits(x) BY DEF DeviceInv, HoldsFit, CallsFit
  <2>2. call' = call /\ call[x] \in Call BY DEF CalmStep, DeviceInv, Typed, CallTyped
  <2>3. \A b \in call[x].ins : b \in Buffers BY <2>2 DEF Call
  <2>4. \A b \in call[x].don : b \in Buffers BY <2>2 DEF Call
  <2> QED BY <1>2, <2>1, <2>2, <2>3, <2>4 DEF HoldFits
<1>8. Owning' BY <1>2 DEF Owning, DeviceInv
<1>9. OneOwner'
  <2>1. ASSUME NEW b \in Buffers PROVE Alive(b)' => Alive(b)
    <3>1. buf'[b].st \in {"making", "live", "external"} => Alive(b) BY <1>2 DEF Alive
    <3>2. call'[b].op \in {"delete", "release"} => Alive(b) BY DEF CalmStep, Alive
    <3>3. \A t \in tasks' : b \in {t.buf, t.src} => Alive(b) BY DEF CalmStep, TasksStep
    <3>4. \A p \in pool' : p.op = "release" /\ p.buf = b => Alive(b)
      BY DEF CalmStep, PoolStep
    <3>5. StreamsStep(D, {}) /\ (b \in D => Alive(b)) BY DEF CalmStep
    <3> QED BY <3>1, <3>2, <3>3, <3>4, <3>5, AliveStays
  <2> QED BY <1>2, <2>1, OwnersStay DEF DeviceInv, CalmStep
<1> QED BY <1>1, <1>3, <1>4, <1>5, <1>6, <1>7, <1>8, <1>9 DEF DeviceInv

(* They keep the dependencies, too, if those are left alone.                *)
LEMMA QuietInv ==
  ASSUME DeviceInv, NEW S, NEW D, QuietStep(S, D)
  PROVE  DeviceInv'
<1>1. CalmStep(S, D) BY DEF QuietStep
<1>2. \A b \in Buffers : /\ buf'[b].st = buf[b].st /\ buf'[b].cell = buf[b].cell
                         /\ buf'[b].defs = buf[b].defs /\ buf'[b].owns = buf[b].owns
                         /\ ((Made(b))' <=> Made(b))
  BY <1>1 DEF CalmStep, SameBuffers
<1>3. FuturesTyped' BY DEF QuietStep, FuturesStep, FuturesTyped, DeviceInv, Typed
<1>4. DependenciesFit'
  <2> SUFFICES ASSUME NEW b \in Buffers PROVE DependencyFits(b)' BY DEF DependenciesFit
  <2>1. DependencyFits(b) BY DEF DeviceInv, DependenciesFit
  <2>2. <<"dependency", b>> \in Events /\ <<"dependency", b>> \notin S
    BY NameFacts DEF QuietStep
  <2>3. /\ ev'[<<"dependency", b>>].seq = ev[<<"dependency", b>>].seq
        /\ ev'[<<"dependency", b>>].status = ev[<<"dependency", b>>].status
    BY <2>2 DEF QuietStep, CalmStep, EventsStep
  <2>4. /\ dependency' = dependency
        /\ ready'[b] = "ok" => ready[b] = "ok" \/ (Made(b) /\ dependency[b] # "pending")
    BY DEF QuietStep, FuturesStep
  <2>5. Made(b) => buf[b].st # "unborn" BY MadeFacts DEF DeviceInv
  <2> QED BY <1>2, <2>1, <2>3, <2>4, <2>5 DEF DependencyFits
<1> QED BY <1>1, <1>3, <1>4, CalmInv

-----------------------------------------------------------------------------
(* The quiet steps: those that only enqueue, run or finish work.            *)
(* A task is added for buffers that are alive.                              *)
LEMMA TaskAdded ==
  ASSUME DeviceInv, \A b \in Buffers : Made(b) => (Made(b))', NEW S, EventsStep(S),
         NEW t \in Task, t.at # "running", TaskFits(t)', Alive(t.buf), Alive(t.src),
         tasks' = tasks \cup {t}
  PROVE  TasksStep
<1>1. TasksTyped' BY DEF DeviceInv, Typed, TasksTyped
<1>2. Running' = Running BY DEF Running
<1>3. FewRun' BY <1>2 DEF FewRun, DeviceInv, TasksFit
<1>4. \A u \in tasks : TaskFits(u)' /\ Alive(u.buf) /\ Alive(u.src) BY TaskStays
<1> QED BY <1>1, <1>3, <1>4 DEF TasksStep

(* The task that Scheduled makes.                                           *)
LEMMA ScheduledFacts ==
  ASSUME DeviceInv, NEW kind \in {"d2h", "copy", "ready"}, NEW b \in Buffers,
         NEW src \in Buffers, NEW e \in Events
  PROVE  LET t == Scheduled(<<kind, b, src>>, e) IN
         /\ t \in Task /\ t.at # "running" /\ t.kind = kind /\ t.buf = b /\ t.src = src
         /\ t.on = e /\ (t.at # "deferred" => ev[e].status # "none")
BY DEF Scheduled, Task

(* Tasks that wait for an event that gets a status are run.                 *)
LEMMA TasksAwakened ==
  ASSUME DeviceInv, \A b \in Buffers : Made(b) => (Made(b))', NEW S, EventsStep(S),
         NEW ts \in SUBSET tasks, NEW e \in S \cap Events, tasks' = Awakened(ts, e)
  PROVE  TasksStep
<1>1. ASSUME NEW u \in tasks'
      PROVE  /\ u \in Task /\ TaskFits(u)' /\ Alive(u.buf) /\ Alive(u.src)
             /\ (u.at = "running" => u \in Running)
  <2>1. PICK t \in ts : u = IF t.at = "deferred" /\ t.on = e THEN [t EXCEPT !.at = "queued"]
                            ELSE t
    BY DEF Awakened
  <2>2. t \in Task BY DEF DeviceInv, Typed, TasksTyped
  <2>3. TaskFits(t)' /\ Alive(t.buf) /\ Alive(t.src) BY TaskStays
  <2>4. CASE u = t BY <2>2, <2>3, <2>4 DEF Running
  <2>5. CASE t.on = e /\ u = [t EXCEPT !.at = "queued"]
    <3>1. /\ u \in Task /\ u.kind = t.kind /\ u.buf = t.buf /\ u.src = t.src
          /\ u.on = e /\ u.at = "queued"
      BY <2>2, <2>5 DEF Task
    <3>2. ev'[e].status # "none" BY DEF EventsStep
    <3>3. TaskFits(u)' BY <2>3, <3>1, <3>2 DEF TaskFits, Made
    <3> QED BY <2>3, <3>1, <3>3
  <2> QED BY <2>1, <2>4, <2>5
<1>2. TasksTyped' BY <1>1 DEF TasksTyped
<1>3. Running' \subseteq Running BY <1>1 DEF Running
<1>4. IsFiniteSet(Running) /\ Cardinality(Running) <= Workers BY DEF DeviceInv, TasksFit
<1>5. IsFiniteSet(Running') /\ Cardinality(Running') <= Cardinality(Running)
  BY <1>3, <1>4, FS_Subset
<1>6. Cardinality(Running) \in Nat /\ Cardinality(Running') \in Nat /\ Workers \in Nat
  BY <1>4, <1>5, FS_CardinalityType, BoundsAssumption
<1>7. FewRun' BY <1>4, <1>5, <1>6 DEF FewRun
<1> QED BY <1>1, <1>2, <1>7 DEF TasksStep

(* A usage event is added to a buffer that was made.                        *)
LEMMA UsageAdded ==
  ASSUME DeviceInv, NEW b \in Buffers, Made(b), NEW u \in Seq(UsageEvent),
         buf' = [buf EXCEPT ![b].usage = u]
  PROVE  SameBuffers
<1>1. buf \in [Buffers -> MadeBuffer \cup NoBuffer] BY DEF DeviceInv, Typed, BufTyped
<1> DEFINE r == [buf[b] EXCEPT !.usage = u]
<1>2. buf' = [buf EXCEPT ![b] = r] BY <1>1
<1>3. /\ r \in MadeBuffer /\ r.st = buf[b].st /\ r.cell = buf[b].cell
      /\ r.defs = buf[b].defs /\ r.owns = buf[b].owns
  BY DEF Made, MadeBuffer
<1> HIDE DEF r
<1> QED BY <1>1, <1>2, <1>3 DEF SameBuffers, BufTyped, Made

(* What a task in the pool works on.                                        *)
LEMMA TaskFacts ==
  ASSUME DeviceInv, NEW t \in tasks
  PROVE  /\ t \in Task /\ t.buf \in Buffers /\ t.src \in Buffers /\ t.on \in Events
         /\ TaskFits(t) /\ Made(t.buf) /\ Made(t.src) /\ Alive(t.buf) /\ Alive(t.src)
         /\ tasks \ {t} \subseteq tasks
<1>1. t \in Task /\ TaskFits(t) BY DEF DeviceInv, Typed, TasksTyped, TasksFit
<1> QED BY <1>1 DEF Task, TaskFits, Alive

(* The parts a step leaves alone.                                           *)
LEMMA Frames ==
  ASSUME DeviceInv
  PROVE  /\ mem' = mem => MemTyped'
         /\ callbacks' = callbacks => CbTyped'
         /\ literal \in [Buffers -> Future] /\ ready \in [Buffers -> Future]
BY DEF DeviceInv, Typed, MemTyped, CbTyped, FuturesTyped

(* GetReadyFuture schedules async_wait_for_events.                          *)
LEMMA GetReadyFutureStep ==
  ASSUME DeviceInv, NEW b \in Buffers, GetReadyFuture(b)
  PROVE  DeviceInv'
<1>1. Made(b) BY StMade DEF DeviceInv, GetReadyFuture
<1>2. buf[b].defs[1] \in Events BY <1>1, MadeFacts DEF DeviceInv
<1>3. SameBuffers BY BuffersStay DEF GetReadyFuture
<1>4. EventsStep({}) BY EventsStay DEF GetReadyFuture, DeviceInv, Typed
<1>5. StreamsStep({}, {}) BY StreamsStay DEF GetReadyFuture, DeviceInv, Typed
<1>6. \A x \in Buffers : Made(x) => (Made(x))' BY <1>3 DEF SameBuffers
<1>7. PICK t \in Task :
        /\ t = Scheduled(<<"ready", b, b>>, buf[b].defs[1])
        /\ t.at # "running" /\ t.kind = "ready" /\ t.buf = b /\ t.src = b
        /\ t.on = buf[b].defs[1] /\ (t.at # "deferred" => ev[t.on].status # "none")
  BY <1>2, ScheduledFacts
<1>8. tasks' = tasks \cup {t} BY <1>7 DEF GetReadyFuture
<1>9. TaskFits(t)'
  BY <1>1, <1>6, <1>7 DEF TaskFits, Made, GetReadyFuture
<1>10. Alive(b) BY DEF Alive, GetReadyFuture
<1>11. TasksStep BY <1>4, <1>6, <1>7, <1>8, <1>9, <1>10, TaskAdded
<1>12. PoolStep BY PoolStays DEF GetReadyFuture
<1>13. FuturesStep
  BY Frames DEF GetReadyFuture, FuturesStep, Future
<1>14. MemTyped' /\ CbTyped' BY Frames DEF GetReadyFuture
<1>15. QuietStep({}, {})
  BY <1>3, <1>4, <1>5, <1>11, <1>12, <1>13, <1>14 DEF QuietStep, CalmStep, GetReadyFuture
<1> QED BY <1>15, QuietInv

(* ToLiteral adds a usage event and schedules the copy.                     *)
LEMMA ToLiteralStep ==
  ASSUME DeviceInv, NEW b \in Buffers, ToLiteral(b)
  PROVE  DeviceInv'
<1> DEFINE s == <<"d2h", buf[b].dev>>
           u == AddUsageEvent(ev, buf[b].usage, s, <<"read", b>>, TRUE)
<1>1. Made(b) BY StMade DEF DeviceInv, ToLiteral, Live
<1>2. /\ buf[b].defs[1] \in Events /\ buf[b].dev \in Devices
      /\ buf[b].usage \in Seq(UsageEvent)
  BY <1>1, MadeFacts DEF DeviceInv
<1>3. u \in Seq(UsageEvent)
  <2>1. s \in Streams /\ <<"read", b>> \in Events BY <1>2, NameFacts
  <2> HIDE DEF s
  <2> QED BY <1>2, <2>1, AddUsageEventFacts
<1>4. buf' = [buf EXCEPT ![b].usage = u] BY DEF ToLiteral
<1> HIDE DEF u
<1>5. SameBuffers BY <1>1, <1>3, <1>4, UsageAdded
<1>6. EventsStep({}) BY EventsStay DEF ToLiteral, DeviceInv, Typed
<1>7. StreamsStep({}, {}) BY StreamsStay DEF ToLiteral, DeviceInv, Typed
<1>8. \A x \in Buffers : Made(x) => (Made(x))' BY <1>5 DEF SameBuffers
<1>9. PICK t \in Task :
        /\ t = Scheduled(<<"d2h", b, b>>, buf[b].defs[1])
        /\ t.at # "running" /\ t.kind = "d2h" /\ t.buf = b /\ t.src = b
        /\ t.on = buf[b].defs[1] /\ (t.at # "deferred" => ev[t.on].status # "none")
  BY <1>2, ScheduledFacts
<1>10. tasks' = tasks \cup {t} BY <1>9 DEF ToLiteral
<1>11. TaskFits(t)'
  BY <1>1, <1>8, <1>9 DEF TaskFits, Made, ToLiteral
<1>12. Alive(b) BY DEF Alive, ToLiteral, Live
<1>13. TasksStep BY <1>6, <1>8, <1>9, <1>10, <1>11, <1>12, TaskAdded
<1>14. PoolStep BY PoolStays DEF ToLiteral
<1>15. literal' \in [Buffers -> Future] BY Frames DEF ToLiteral, Future
<1>16. FuturesStep BY <1>15, FuturesStay DEF ToLiteral
<1>17. MemTyped' /\ CbTyped' BY Frames DEF ToLiteral
<1>18. QuietStep({}, {})
  BY <1>5, <1>6, <1>7, <1>13, <1>14, <1>16, <1>17 DEF QuietStep, CalmStep, ToLiteral
<1> QED BY <1>18, QuietInv

(* A task waits on a thread of the pool.                                    *)
LEMMA BlockStep ==
  ASSUME DeviceInv, NEW t \in tasks, Block(t)
  PROVE  DeviceInv'
<1> DEFINE u == [t EXCEPT !.at = "running"]
<1>1. /\ t \in Task /\ TaskFits(t) /\ Alive(t.buf) /\ Alive(t.src) BY TaskFacts
<1>2. /\ u \in Task /\ u.kind = t.kind /\ u.buf = t.buf /\ u.src = t.src
      /\ u.on = t.on /\ u.at = "running"
  BY <1>1 DEF Task
<1>3. tasks' = (tasks \ {t}) \cup {u} /\ t.at = "queued" BY DEF Block
<1> HIDE DEF u
<1>4. SameBuffers BY BuffersStay DEF Block
<1>5. EventsStep({}) BY EventsStay DEF Block, DeviceInv, Typed
<1>6. StreamsStep({}, {}) BY StreamsStay DEF Block, DeviceInv, Typed
<1>7. \A x \in Buffers : Made(x) => (Made(x))' BY <1>4 DEF SameBuffers
<1>8. TaskFits(t)' BY <1>5, <1>7, TaskStays
<1>9. TaskFits(u)' BY <1>2, <1>3, <1>8 DEF TaskFits, Made
<1>10. FewRun'
  <2>1. Running' = Running \cup {u} BY <1>2, <1>3 DEF Running
  <2>2. IsFiniteSet(Running) BY DEF DeviceInv, TasksFit
  <2>3. Cardinality(Running) < Workers BY DEF Block, Busy, Running
  <2>4. /\ IsFiniteSet(Running')
        /\ Cardinality(Running') = Cardinality(Running)
           \/ Cardinality(Running') = Cardinality(Running) + 1
    BY <2>1, <2>2, FS_AddElement
  <2>5. Cardinality(Running) \in Nat /\ Workers \in Nat
    BY <2>2, FS_CardinalityType, BoundsAssumption
  <2>6. Cardinality(Running') <= Workers BY <2>3, <2>4, <2>5
  <2> QED BY <2>4, <2>6 DEF FewRun
<1>11. TasksStep
  <2>1. \A x \in tasks : TaskFits(x)' /\ Alive(x.buf) /\ Alive(x.src)
    BY <1>5, <1>7, TaskStays
  <2>2. TasksTyped' BY <1>2, <1>3 DEF TasksTyped, DeviceInv, Typed
  <2> QED BY <1>1, <1>2, <1>3, <1>9, <1>10, <2>1, <2>2 DEF TasksStep
<1>12. PoolStep BY PoolStays DEF Block
<1>13. FuturesStep BY Frames, FuturesStay DEF Block
<1>14. MemTyped' /\ CbTyped' BY Frames DEF Block
<1>15. QuietStep({}, {})
  BY <1>4, <1>5, <1>6, <1>11, <1>12, <1>13, <1>14 DEF QuietStep, CalmStep, Block
<1> QED BY <1>15, QuietInv

-----------------------------------------------------------------------------
(* One piece is enqueued on a stream.                                       *)
LEMMA EnqueueOne ==
  ASSUME StreamTyped, NEW s \in Streams, NEW D, NEW F, NEW p, Piece(p, D, F),
         callbacks' = callbacks, stream' = [stream EXCEPT ![s] = stream[s] \o p]
  PROVE  StreamsStep(D, F)
<1>1. stream[s] \in Seq(StreamOp) BY DEF StreamTyped
<1>2. Grows(stream[s], stream[s], D, F) BY <1>1, GrowsNot
<1>3. Grows(stream[s] \o p, stream[s], D, F) BY <1>2, GrowsBy
<1> QED BY <1>3, StreamGrows

(* Two pieces.                                                              *)
LEMMA EnqueueTwo ==
  ASSUME StreamTyped, NEW s \in Streams, NEW D, NEW F, NEW p, Piece(p, D, F),
         NEW q, Piece(q, D, F), callbacks' = callbacks,
         stream' = [stream EXCEPT ![s] = (stream[s] \o p) \o q]
  PROVE  StreamsStep(D, F)
<1>1. stream[s] \in Seq(StreamOp) BY DEF StreamTyped
<1>2. Grows(stream[s], stream[s], D, F) BY <1>1, GrowsNot
<1>3. Grows(stream[s] \o p, stream[s], D, F) BY <1>2, GrowsBy
<1>4. Grows((stream[s] \o p) \o q, stream[s], D, F) BY <1>3, GrowsBy
<1> QED BY <1>4, StreamGrows

(* Three pieces.                                                            *)
LEMMA EnqueueThree ==
  ASSUME StreamTyped, NEW s \in Streams, NEW D, NEW F, NEW p, Piece(p, D, F),
         NEW q, Piece(q, D, F), NEW r, Piece(r, D, F), callbacks' = callbacks,
         stream' = [stream EXCEPT ![s] = ((stream[s] \o p) \o q) \o r]
  PROVE  StreamsStep(D, F)
<1>1. stream[s] \in Seq(StreamOp) BY DEF StreamTyped
<1>2. Grows(stream[s], stream[s], D, F) BY <1>1, GrowsNot
<1>3. Grows(stream[s] \o p, stream[s], D, F) BY <1>2, GrowsBy
<1>4. Grows((stream[s] \o p) \o q, stream[s], D, F) BY <1>3, GrowsBy
<1>5. Grows(((stream[s] \o p) \o q) \o r, stream[s], D, F) BY <1>4, GrowsBy
<1> QED BY <1>5, StreamGrows

(* transfer_h2d.                                                            *)
LEMMA TransferH2DStep ==
  ASSUME DeviceInv, NEW t \in tasks, TransferH2D(t)
  PROVE  DeviceInv'
<1> DEFINE b == t.buf
           e == <<"written", b>>
           s == <<"h2d", buf[b].dev>>
           evs == SetSequencingEvent(ev, e, s)
           u == AddUsageEvent(evs, buf[b].usage, s, e, Retain)
           D == IF Retain THEN {b} ELSE {}
<1>1. b \in Buffers /\ Made(b) /\ Alive(b) BY TaskFacts
<1>2. /\ buf[b].dev \in Devices /\ buf[b].usage \in Seq(UsageEvent)
      /\ Contents(b) \in Memory
  BY <1>1, MadeFacts DEF DeviceInv
<1>3. s \in Streams /\ e \in Events BY <1>1, <1>2, NameFacts
<1>4. /\ ev' = evs /\ buf' = [buf EXCEPT ![b].usage = u]
      /\ tasks' = Awakened(tasks \ {t}, e)
      /\ stream' = [stream EXCEPT ![s] =
           @ \o Access({}, {Contents(b)}, e) \o Callback(D, {})]
      /\ UNCHANGED <<mem, call, pool, callbacks, ready, literal, dependency>>
  BY DEF TransferH2D
<1>5. \A x \in Buffers : e # <<"dependency", x>> OBVIOUS
<1>6. D \in SUBSET Buffers /\ \A x \in D : Alive(x) BY <1>1
<1> HIDE DEF b, s, e, D
<1>7. EventsStep({e}) BY <1>3, <1>4, SetStep DEF DeviceInv, Typed
<1>8. u \in Seq(UsageEvent)
  <2>1. Retain \in BOOLEAN BY DEF Retain
  <2> HIDE DEF evs
  <2> QED BY <1>2, <1>3, <2>1, AddUsageEventFacts
<1> HIDE DEF u, evs
<1>9. SameBuffers BY <1>1, <1>4, <1>8, UsageAdded
<1>10. \A x \in Buffers : Made(x) => (Made(x))' BY <1>9 DEF SameBuffers
<1>11. StreamsStep(D, {})
  <2> DEFINE A == Access({}, {Contents(b)}, e)
             C == Callback(D, {})
  <2>1. {Contents(b)} \in SUBSET Memory /\ {} \in SUBSET Memory /\ {} \in SUBSET Cells
    BY <1>2
  <2>2. Piece(A, D, {}) BY <1>3, <2>1, AccessPiece
  <2>3. Piece(C, D, {}) BY <1>6, <2>1, CallbackPiece
  <2>4. stream' = [stream EXCEPT ![s] = (stream[s] \o A) \o C] BY <1>4
  <2> HIDE DEF A, C
  <2>5. StreamTyped /\ callbacks' = callbacks BY <1>4 DEF DeviceInv, Typed
  <2> QED BY <1>3, <2>2, <2>3, <2>4, <2>5, EnqueueTwo
<1>12. TasksStep
  <2>1. tasks \ {t} \in SUBSET tasks /\ e \in {e} \cap Events BY <1>3
  <2> QED BY <1>4, <1>7, <1>10, <2>1, TasksAwakened DEF e, b
<1>13. PoolStep BY <1>4, PoolStays
<1>14. FuturesStep BY <1>4, Frames, FuturesStay
<1>15. MemTyped' /\ CbTyped' BY <1>4, Frames
<1>16. QuietStep({e}, D)
  BY <1>4, <1>5, <1>6, <1>7, <1>9, <1>11, <1>12, <1>13, <1>14, <1>15 DEF QuietStep, CalmStep
<1> QED BY <1>16, QuietInv

(* async_to_literal.                                                        *)
LEMMA AsyncToLiteralStep ==
  ASSUME DeviceInv, NEW t \in tasks, AsyncToLiteral(t)
  PROVE  DeviceInv'
<1> DEFINE b == t.buf
           e == <<"read", b>>
           s == <<"d2h", buf[b].dev>>
           E == DefinitionEvents(b)
<1>1. b \in Buffers /\ Made(b) /\ Alive(b) BY TaskFacts
<1>2. buf[b].dev \in Devices /\ Contents(b) \in Memory /\ E \in SUBSET Events
  BY <1>1, MadeFacts DEF DeviceInv
<1>3. s \in Streams /\ e \in Events BY <1>1, <1>2, NameFacts
<1>4. /\ ev' = SetSequencingEvent(DefinedOn(s, E), e, s) /\ tasks' = tasks \ {t}
      /\ stream' = [stream EXCEPT ![s] =
           @ \o Waits(s, E) \o Access({Contents(b)}, {}, e) \o Callback({b}, {})]
      /\ UNCHANGED <<buf, mem, call, pool, callbacks, ready, literal, dependency>>
  BY DEF AsyncToLiteral
<1>5. \A x \in Buffers : e # <<"dependency", x>> OBVIOUS
<1> HIDE DEF b, s, e, E
<1>6. EventsStep({e}) BY <1>3, <1>4, SetStep DEF DeviceInv, Typed
<1>7. SameBuffers BY <1>4, BuffersStay
<1>8. \A x \in Buffers : Made(x) => (Made(x))' BY <1>7 DEF SameBuffers
<1>9. StreamsStep({b}, {})
  <2> DEFINE W == Waits(s, E)
             A == Access({Contents(b)}, {}, e)
             C == Callback({b}, {})
  <2>1. /\ {Contents(b)} \in SUBSET Memory /\ {} \in SUBSET Memory /\ {} \in SUBSET Cells
        /\ {b} \in SUBSET Buffers
    BY <1>1, <1>2
  <2>2. Piece(W, {b}, {}) BY <1>2, WaitsPiece
  <2>3. Piece(A, {b}, {}) BY <1>3, <2>1, AccessPiece
  <2>4. Piece(C, {b}, {}) BY <2>1, CallbackPiece
  <2>5. stream' = [stream EXCEPT ![s] = ((stream[s] \o W) \o A) \o C] BY <1>4
  <2> HIDE DEF W, A, C
  <2>6. StreamTyped /\ callbacks' = callbacks BY <1>4 DEF DeviceInv, Typed
  <2> QED BY <1>3, <2>2, <2>3, <2>4, <2>5, <2>6, EnqueueThree
<1>10. TasksStep BY <1>4, <1>6, <1>8, TasksStay
<1>11. PoolStep BY <1>4, PoolStays
<1>12. FuturesStep BY <1>4, Frames, FuturesStay
<1>13. MemTyped' /\ CbTyped' BY <1>4, Frames
<1>14. QuietStep({e}, {b})
  BY <1>1, <1>4, <1>5, <1>6, <1>7, <1>9, <1>10, <1>11, <1>12, <1>13 DEF QuietStep, CalmStep
<1> QED BY <1>14, QuietInv

(* It fails.                                                                *)
LEMMA AsyncToLiteralFailsStep ==
  ASSUME DeviceInv, NEW t \in tasks, AsyncToLiteralFails(t)
  PROVE  DeviceInv'
<1>1. SameBuffers BY BuffersStay DEF AsyncToLiteralFails
<1>2. EventsStep({}) BY EventsStay DEF AsyncToLiteralFails, DeviceInv, Typed
<1>3. StreamsStep({}, {}) BY StreamsStay DEF AsyncToLiteralFails, DeviceInv, Typed
<1>4. \A x \in Buffers : Made(x) => (Made(x))' BY <1>1 DEF SameBuffers
<1>5. tasks' \subseteq tasks BY DEF AsyncToLiteralFails
<1>6. TasksStep BY <1>2, <1>4, <1>5, TasksStay
<1>7. PoolStep BY PoolStays DEF AsyncToLiteralFails
<1>8. literal' \in [Buffers -> Future] BY Frames DEF AsyncToLiteralFails, Future
<1>9. FuturesStep BY <1>8, FuturesStay DEF AsyncToLiteralFails
<1>10. MemTyped' /\ CbTyped' BY Frames DEF AsyncToLiteralFails
<1>11. QuietStep({}, {})
  BY <1>1, <1>2, <1>3, <1>6, <1>7, <1>9, <1>10 DEF QuietStep, CalmStep, AsyncToLiteralFails
<1> QED BY <1>11, QuietInv

(* async_copy_to_device, for a source with and without an error.            *)
LEMMA AsyncCopyToDeviceStep ==
  ASSUME DeviceInv, NEW t \in tasks, AsyncCopyToDevice(t)
  PROVE  DeviceInv'
<1> DEFINE s == <<"d2d", buf[t.src].dev>>
           e == <<"written", t.buf>>
           E == DefinitionEvents(t.src)
           D == {t.src}
<1>1. /\ t.buf \in Buffers /\ Made(t.buf) /\ t.src \in Buffers /\ Made(t.src)
      /\ Alive(t.src) BY TaskFacts
<1>2. /\ buf[t.src].dev \in Devices /\ Contents(t.src) \in Memory
      /\ E \in SUBSET Events /\ Contents(t.buf) \in Memory
  BY <1>1, MadeFacts DEF DeviceInv
<1>3. s \in Streams /\ e \in Events BY <1>1, <1>2, NameFacts
<1>4. /\ tasks' = Awakened(tasks \ {t}, e)
      /\ UNCHANGED <<buf, mem, call, pool, callbacks, ready, literal, dependency>>
      /\ \/ /\ stream' = [stream EXCEPT ![s] =
                 @ \o Waits(s, E) \o Access({Contents(t.src)}, {Contents(t.buf)}, e)
                   \o Callback(D, {})]
            /\ ev' = SetSequencingEvent(DefinedOn(s, E), e, s)
         \/ /\ stream' = [stream EXCEPT ![s] = @ \o Callback(D, {})]
            /\ ev' = [ev EXCEPT ![e].status = "error"]
  BY Zenon DEF AsyncCopyToDevice
<1>5. \A x \in Buffers : e # <<"dependency", x>> OBVIOUS
<1>6. D \in SUBSET Buffers /\ \A x \in D : Alive(x) BY <1>1
<1> HIDE DEF s, e, E, D
<1>7. EventsStep({e})
  <2>1. CASE ev' = SetSequencingEvent(DefinedOn(s, E), e, s)
    BY <1>3, <2>1, SetStep DEF DeviceInv, Typed
  <2>2. CASE ev' = [ev EXCEPT ![e].status = "error"]
    <3> DEFINE r == [ev[e] EXCEPT !.status = "error"]
    <3>1. ev \in [Events -> Event] BY DEF DeviceInv, Typed, EvTyped
    <3>2. ev' = [ev EXCEPT ![e] = r] BY <2>2
    <3>3. r \in Event /\ r.status = "error" BY <1>3, <3>1 DEF Event
    <3> HIDE DEF r
    <3> QED BY <1>3, <3>1, <3>2, <3>3 DEF EventsStep, EvTyped
  <2> QED BY <1>4, <2>1, <2>2
<1>8. SameBuffers BY <1>4, BuffersStay
<1>9. \A x \in Buffers : Made(x) => (Made(x))' BY <1>8 DEF SameBuffers
<1>10. StreamsStep(D, {})
  <2> DEFINE W == Waits(s, E)
             A == Access({Contents(t.src)}, {Contents(t.buf)}, e)
             C == Callback(D, {})
  <2>1. /\ {Contents(t.src)} \in SUBSET Memory /\ {Contents(t.buf)} \in SUBSET Memory
        /\ {} \in SUBSET Cells
    BY <1>2
  <2>2. Piece(W, D, {}) BY <1>2, WaitsPiece
  <2>3. Piece(A, D, {}) BY <1>3, <2>1, AccessPiece
  <2>4. Piece(C, D, {}) BY <1>6, <2>1, CallbackPiece
  <2>5. \/ stream' = [stream EXCEPT ![s] = ((stream[s] \o W) \o A) \o C]
        \/ stream' = [stream EXCEPT ![s] = stream[s] \o C]
    BY <1>4
  <2> HIDE DEF W, A, C
  <2>6. StreamTyped /\ callbacks' = callbacks BY <1>4 DEF DeviceInv, Typed
  <2>7. CASE stream' = [stream EXCEPT ![s] = ((stream[s] \o W) \o A) \o C]
    BY <1>3, <2>2, <2>3, <2>4, <2>6, <2>7, EnqueueThree
  <2>8. CASE stream' = [stream EXCEPT ![s] = stream[s] \o C]
    BY <1>3, <2>4, <2>6, <2>8, EnqueueOne
  <2> QED BY <2>5, <2>7, <2>8
<1>11. TasksStep
  <2>1. tasks \ {t} \in SUBSET tasks /\ e \in {e} \cap Events BY <1>3
  <2> QED BY <1>4, <1>7, <1>9, <2>1, TasksAwakened DEF e
<1>12. PoolStep BY <1>4, PoolStays
<1>13. FuturesStep BY <1>4, Frames, FuturesStay
<1>14. MemTyped' /\ CbTyped' BY <1>4, Frames
<1>15. QuietStep({e}, D)
  BY <1>4, <1>5, <1>6, <1>7, <1>8, <1>10, <1>11, <1>12, <1>13, <1>14 DEF QuietStep, CalmStep
<1> QED BY <1>15, QuietInv

(* async_wait_for_events: the promise, or a stream that waits for it.       *)
LEMMA AsyncWaitForEventsStep ==
  ASSUME DeviceInv, NEW t \in tasks, AsyncWaitForEvents(t)
  PROVE  DeviceInv'
<1> DEFINE b == t.buf
           E == {e \in DefinitionEvents(b) : ~ev[e].done}
           p == [op |-> "ready", buf |-> b, events |-> E]
<1>1. /\ b \in Buffers /\ Made(b) /\ t.src = b
      /\ UNCHANGED <<buf, ev, stream, mem, call, callbacks, literal, dependency>>
  BY TaskFacts DEF AsyncWaitForEvents, TaskFits
<1>2. E \in SUBSET Events BY <1>1, MadeFacts DEF DeviceInv
<1>3. p \in Wait /\ p.buf = b /\ p.op = "ready" BY <1>1, <1>2 DEF Wait
<1>4. /\ pool' = pool \/ pool' = pool \cup {p}
      /\ \/ ready' = ready
         \/ ready' = [ready EXCEPT ![b] = "ok"] /\ DefinedStatus(t) = "ok"
         \/ ready' = [ready EXCEPT ![b] = "error"]
  BY DEF AsyncWaitForEvents
<1> HIDE DEF p, E, b
<1>5. SameBuffers BY <1>1, BuffersStay
<1>6. EventsStep({}) BY <1>1, EventsStay DEF DeviceInv, Typed
<1>7. StreamsStep({}, {}) BY <1>1, StreamsStay DEF DeviceInv, Typed
<1>8. \A x \in Buffers : Made(x) => (Made(x))' BY <1>5 DEF SameBuffers
<1>9. tasks' \subseteq tasks BY DEF AsyncWaitForEvents
<1>10. TasksStep BY <1>6, <1>8, <1>9, TasksStay
<1>11. PoolStep
  BY <1>1, <1>3, <1>4 DEF PoolStep, PoolTyped, DeviceInv, Typed, TasksFit, Alive
<1>12. FuturesStep
  <2>1. DefinedStatus(t) = "ok" => dependency[b] # "pending"
    <3>1. DependencyFits(b) BY <1>1 DEF DeviceInv, DependenciesFit
    <3> QED BY <1>1, <3>1 DEF DefinedStatus, DependencyFits
  <2>2. ready \in [Buffers -> Future] /\ literal \in [Buffers -> Future] BY Frames
  <2> QED BY <1>1, <1>4, <2>1, <2>2 DEF FuturesStep, Future
<1>13. MemTyped' /\ CbTyped' BY <1>1, Frames
<1>14. QuietStep({}, {})
  BY <1>1, <1>5, <1>6, <1>7, <1>10, <1>11, <1>12, <1>13 DEF QuietStep, CalmStep
<1> QED BY <1>14, QuietInv

(* The rest of a sequence holds what the sequence held.                     *)
LEMMA TailFacts ==
  ASSUME NEW S, NEW q \in Seq(S), q # <<>>
  PROVE  /\ Tail(q) \in Seq(S) /\ Head(q) \in S /\ Head(q) \in Elems(q)
         /\ Elems(Tail(q)) \subseteq Elems(q)
<1>1. Tail(q) \in Seq(S) /\ Head(q) \in S /\ 1 \in DOMAIN q /\ Head(q) = q[1] OBVIOUS
<1>2. ASSUME NEW i \in DOMAIN Tail(q) PROVE i + 1 \in DOMAIN q /\ Tail(q)[i] = q[i + 1]
  OBVIOUS
<1> QED BY <1>1, <1>2 DEF Elems

(* The callback thread runs a callback.                                     *)
LEMMA RunCallbackStep ==
  ASSUME DeviceInv, NEW d \in Devices, RunCallback(d)
  PROVE  DeviceInv'
<1>1. /\ callbacks \in [Devices -> Seq(CallbackOp)] /\ callbacks[d] # <<>>
      /\ callbacks' = [callbacks EXCEPT ![d] = Tail(callbacks[d])]
      /\ UNCHANGED <<buf, ev, stream, mem, tasks, call, pool, ready, literal, dependency>>
  BY DEF RunCallback, DeviceInv, Typed, CbTyped
<1>2. /\ Tail(callbacks[d]) \in Seq(CallbackOp)
      /\ Elems(Tail(callbacks[d])) \subseteq Elems(callbacks[d])
  BY <1>1, TailFacts
<1>3. CbTyped' BY <1>1, <1>2 DEF CbTyped
<1>4. \A c \in Devices : Elems(callbacks'[c]) \subseteq Elems(callbacks[c]) BY <1>1, <1>2
<1>5. Queued' \subseteq Queued BY <1>4 DEF Queued, Elems
<1>6. StreamsStep({}, {})
  BY <1>1, <1>5 DEF StreamsStep, StreamTyped, Drops, Frees, Callbacks, Pending,
                    StreamOps, DeviceInv, Typed
<1>7. SameBuffers BY <1>1, BuffersStay
<1>8. EventsStep({}) BY <1>1, EventsStay DEF DeviceInv, Typed
<1>9. \A x \in Buffers : Made(x) => (Made(x))' BY <1>7 DEF SameBuffers
<1>10. TasksStep BY <1>1, <1>8, <1>9, TasksStay
<1>11. PoolStep BY <1>1, PoolStays
<1>12. FuturesStep BY <1>1, Frames, FuturesStay
<1>13. MemTyped' BY <1>1, Frames
<1>14. QuietStep({}, {})
  BY <1>1, <1>3, <1>6, <1>7, <1>8, <1>10, <1>11, <1>12, <1>13 DEF QuietStep, CalmStep
<1> QED BY <1>14, QuietInv

(* A borrowed stream has passed its events.                                 *)
LEMMA PoolStreamDoneStep ==
  ASSUME DeviceInv, NEW p \in pool, PoolStreamDone(p)
  PROVE  DeviceInv'
<1> DEFINE b == p.buf
           d == buf[b].dev
           C == Callback({b}, {})
           status == ev[buf[b].defs[1]].status
           D == IF p.op = "release" THEN {b} ELSE {}
<1>1. /\ p \in Wait /\ b \in Buffers /\ Made(b) /\ pool' = pool \ {p}
      /\ UNCHANGED <<buf, ev, stream, mem, tasks, call, literal, dependency>>
  BY DEF DeviceInv, Typed, PoolTyped, TasksFit, Wait, PoolStreamDone
<1>2. d \in Devices /\ buf[b].defs[1] \in Events BY <1>1, MadeFacts DEF DeviceInv
<1>3. status \in Future /\ (status = "ok" => dependency[b] # "pending")
  <2>1. DependencyFits(b) BY <1>1 DEF DeviceInv, DependenciesFit
  <2>2. ev[buf[b].defs[1]] \in Event BY <1>2 DEF DeviceInv, Typed, EvTyped
  <2> QED BY <2>1, <2>2 DEF DependencyFits, Event, Future
<1>4. \/ /\ p.op = "release" /\ ready' = ready
         /\ callbacks' = [callbacks EXCEPT ![d] = callbacks[d] \o C]
      \/ /\ p.op # "release" /\ callbacks' = callbacks
         /\ ready' = [ready EXCEPT ![b] = status]
  BY DEF PoolStreamDone
<1>5. C \in Seq(CallbackOp) /\ \A o \in Elems(C) : Bounded(o, {b}, {})
  <2> DEFINE o == [op |-> "callback", drops |-> {b}, frees |-> {}]
  <2>1. C = <<o>> BY DEF Callback
  <2>2. o \in CallbackOp /\ Bounded(o, {b}, {}) BY <1>1 DEF CallbackOp, Bounded
  <2> HIDE DEF o, C
  <2>3. C \in Seq(CallbackOp) BY <2>1, <2>2
  <2>4. Elems(C) = {o} BY <2>1 DEF Elems
  <2> QED BY <2>2, <2>3, <2>4
<1>6. callbacks \in [Devices -> Seq(CallbackOp)] BY DEF DeviceInv, Typed, CbTyped
<1>7. /\ callbacks[d] \o C \in Seq(CallbackOp)
      /\ \A o \in Elems(callbacks[d] \o C) : o \in Elems(callbacks[d]) \/ o \in Elems(C)
  BY <1>2, <1>5, <1>6, ConcatFacts
<1>8. \A x \in D : Alive(x) BY DEF Alive
<1>9. p.op = "release" => D = {b} OBVIOUS
<1> HIDE DEF C, d, b, status, D
<1>10. CbTyped' BY <1>2, <1>4, <1>6, <1>7 DEF CbTyped
<1>11. StreamsStep(D, {})
  <2>1. ASSUME NEW o \in Queued' PROVE o \in Queued \/ Bounded(o, D, {})
    <3>1. PICK c \in Devices : o \in Elems(callbacks'[c]) BY DEF Queued, Elems
    <3>2. o \in Elems(callbacks[c]) \/ Bounded(o, D, {})
      BY <1>2, <1>4, <1>5, <1>6, <1>7, <1>9, <3>1
    <3> QED BY <3>2 DEF Queued, Elems
  <2>2. Pending' = Pending BY <1>1 DEF Pending, StreamOps
  <2>3. StreamTyped' BY <1>1 DEF StreamTyped, DeviceInv, Typed
  <2> QED BY <2>1, <2>2, <2>3 DEF StreamsStep, Drops, Frees, Bounded, Callbacks
<1>12. SameBuffers BY <1>1, BuffersStay
<1>13. EventsStep({}) BY <1>1, EventsStay DEF DeviceInv, Typed
<1>14. \A x \in Buffers : Made(x) => (Made(x))' BY <1>12 DEF SameBuffers
<1>15. TasksStep BY <1>1, <1>13, <1>14, TasksStay
<1>16. PoolStep BY <1>1, PoolStays
<1>17. FuturesStep
  <2>1. ready \in [Buffers -> Future] /\ literal \in [Buffers -> Future] BY Frames
  <2> QED BY <1>1, <1>3, <1>4, <2>1 DEF FuturesStep
<1>18. MemTyped' BY <1>1, Frames
<1>19. QuietStep({}, D)
  BY <1>1, <1>8, <1>10, <1>11, <1>12, <1>13, <1>15, <1>16, <1>17, <1>18
  DEF QuietStep, CalmStep
<1> QED BY <1>19, QuietInv

(* What a stream's step has to show.                                        *)
LEMMA StreamStepRest ==
  ASSUME DeviceInv, StreamsStep({}, {}), EventsStep({}), MemTyped', CbTyped', FuturesStep,
         UNCHANGED <<buf, tasks, call, pool, ready, dependency>>
  PROVE  DeviceInv'
<1>1. SameBuffers BY BuffersStay
<1>2. \A x \in Buffers : Made(x) => (Made(x))' BY <1>1 DEF SameBuffers
<1>3. TasksStep BY <1>2, TasksStay
<1>4. PoolStep BY PoolStays
<1>5. QuietStep({}, {}) BY <1>1, <1>3, <1>4 DEF QuietStep, CalmStep
<1> QED BY <1>5, QuietInv

(* A stream passes its next operation.                                      *)
LEMMA StreamStepStep ==
  ASSUME DeviceInv, NEW s \in Streams, StreamStep(s)
  PROVE  DeviceInv'
<1> DEFINE o == Head(stream[s])
           q == Append(callbacks[s[2]], o)
<1>1. /\ stream \in [Streams -> Seq(StreamOp)] /\ callbacks \in [Devices -> Seq(CallbackOp)]
      /\ s[2] \in Devices /\ ev \in [Events -> Event] /\ mem \in [Cells -> 0..NumBuffers]
      /\ literal \in [Buffers -> Future] /\ ready \in [Buffers -> Future]
  BY NameFacts, Frames DEF DeviceInv, Typed, StreamTyped, CbTyped, EvTyped, MemTyped
<1>2. /\ stream[s] # <<>> /\ stream' = [stream EXCEPT ![s] = Tail(stream[s])]
      /\ UNCHANGED <<buf, tasks, call, pool, ready, dependency>>
  BY <1>1 DEF StreamStep, Enabled, Advance
<1>3. /\ Tail(stream[s]) \in Seq(StreamOp) /\ o \in StreamOp /\ o \in Elems(stream[s])
      /\ Elems(Tail(stream[s])) \subseteq Elems(stream[s])
  BY <1>1, <1>2, TailFacts
<1>4. /\ mem' = IF o.op = "access"
                THEN [c \in Cells |-> IF \E w \in o.writes : w.cell = c
                                      THEN (CHOOSE w \in o.writes : w.cell = c).val
                                      ELSE mem[c]]
                ELSE mem
      /\ ev' = IF o.op \in {"access", "record"}
               THEN [ev EXCEPT ![o.event].done = TRUE] ELSE ev
      /\ literal' = IF o.op = "access" /\ o.event[1] = "read"
                    THEN [literal EXCEPT ![o.event[2]] = "ok"] ELSE literal
      /\ callbacks' = IF o.op = "callback" THEN [callbacks EXCEPT ![s[2]] = q] ELSE callbacks
  BY DEF StreamStep
<1> HIDE DEF o
<1>5. /\ o.op = "access" => o \in AccessOp
      /\ o.op = "record" => o \in RecordOp
      /\ o.op = "callback" => o \in CallbackOp
  BY <1>3 DEF StreamOp, WaitOp, AccessOp, RecordOp, CallbackOp
<1>6. MemTyped'
  <2>1. CASE o.op = "access"
    <3>1. \A w \in o.writes : w.val \in 0..NumBuffers BY <1>5, <2>1 DEF AccessOp, Memory
    <3>2. ASSUME NEW c \in Cells, \E w \in o.writes : w.cell = c
          PROVE  (CHOOSE w \in o.writes : w.cell = c).val \in 0..NumBuffers
      <4> DEFINE v == CHOOSE w \in o.writes : w.cell = c
      <4>1. v \in o.writes BY <3>2
      <4> HIDE DEF v
      <4>2. v.val \in 0..NumBuffers BY <3>1, <4>1
      <4> QED BY <4>2 DEF v
    <3>3. \A c \in Cells : mem[c] \in 0..NumBuffers BY <1>1
    <3> QED BY <1>4, <2>1, <3>2, <3>3 DEF MemTyped
  <2>2. CASE o.op # "access" BY <1>1, <1>4, <2>2 DEF MemTyped
  <2> QED BY <2>1, <2>2
<1>7. EventsStep({})
  <2>1. CASE o.op \in {"access", "record"}
    <3> DEFINE e == o.event
               r == [ev[e] EXCEPT !.done = TRUE]
    <3>1. e \in Events BY <1>5, <2>1 DEF AccessOp, RecordOp
    <3>2. ev' = [ev EXCEPT ![e] = r] BY <1>4, <2>1
    <3> HIDE DEF e
    <3>3. r \in Event /\ r.status = ev[e].status /\ r.seq = ev[e].seq
      <4>1. ev[e] \in Event BY <1>1, <3>1
      <4> QED BY <4>1 DEF Event
    <3> HIDE DEF r
    <3> QED BY <1>1, <3>1, <3>2, <3>3 DEF EventsStep, EvTyped
  <2>2. CASE o.op \notin {"access", "record"}
    BY <1>4, <2>2, EventsStay DEF DeviceInv, Typed
  <2> QED BY <2>1, <2>2
<1>8. FuturesStep
  <2>1. o.op = "access" => o.event[2] \in Buffers BY <1>5, NameFacts DEF AccessOp
  <2>2. literal' \in [Buffers -> Future] BY <1>1, <1>4, <2>1 DEF Future
  <2> QED BY <1>2, <2>2, FuturesStay
<1>9. CASE o.op = "callback"
  <2>1. o \in CallbackOp BY <1>5, <1>9
  <2>2. callbacks' = [callbacks EXCEPT ![s[2]] = q] BY <1>4, <1>9
  <2>3. q \in Seq(CallbackOp) /\ \A x \in Elems(q) : x \in Elems(callbacks[s[2]]) \/ x = o
    <3> DEFINE p == callbacks[s[2]]
               w == <<o>>
    <3>1. w \in Seq(CallbackOp) /\ Elems(w) = {o} BY <2>1 DEF Elems
    <3>2. p \in Seq(CallbackOp) BY <1>1
    <3>3. p \o w = q
      <4> HIDE DEF p
      <4> QED BY <2>1, <3>2 DEF p
    <3> HIDE DEF p, w, q
    <3>4. p \o w \in Seq(CallbackOp) /\ \A x \in Elems(p \o w) : x \in Elems(p) \/ x \in Elems(w)
      BY <3>1, <3>2, ConcatFacts
    <3> QED BY <3>1, <3>3, <3>4 DEF p
  <2> HIDE DEF q
  <2>4. CbTyped' BY <1>1, <2>2, <2>3 DEF CbTyped
  <2>5. \A r \in Streams : Elems(stream'[r]) \subseteq Elems(stream[r])
    BY <1>1, <1>2, <1>3
  <2>6. Pending' \subseteq Pending BY <2>5 DEF Pending, StreamOps, Elems
  <2>7. o \in Callbacks BY <1>3, <1>9 DEF Callbacks, Pending, StreamOps, Elems
  <2>8. ASSUME NEW x \in Queued' PROVE x \in Callbacks
    <3>1. PICK c \in Devices : x \in Elems(callbacks'[c]) BY DEF Queued, Elems
    <3>2. x \in Elems(callbacks[c]) \/ x = o BY <1>1, <2>2, <2>3, <3>1
    <3> QED BY <2>7, <3>2 DEF Queued, Elems, Callbacks
  <2>9. StreamTyped' BY <1>1, <1>2, <1>3 DEF StreamTyped
  <2>10. StreamsStep({}, {}) BY <2>6, <2>8, <2>9 DEF StreamsStep, Drops, Frees, Callbacks
  <2> QED BY <2>4, <2>10, StreamStepRest, <1>2, <1>6, <1>7, <1>8
<1>10. CASE o.op # "callback"
  <2>1. callbacks' = callbacks BY <1>4, <1>10
  <2>2. CbTyped' BY <2>1, Frames
  <2>3. \A r \in Streams : Elems(stream'[r]) \subseteq Elems(stream[r])
    BY <1>1, <1>2, <1>3
  <2>4. Pending' \subseteq Pending BY <2>3 DEF Pending, StreamOps, Elems
  <2>5. StreamTyped' BY <1>1, <1>2, <1>3 DEF StreamTyped
  <2>6. StreamsStep({}, {})
    BY <2>1, <2>4, <2>5 DEF StreamsStep, Drops, Frees, Callbacks, Queued
  <2> QED BY <2>2, <2>6, StreamStepRest, <1>2, <1>6, <1>7, <1>8
<1> QED BY <1>9, <1>10

(* The dependency of a buffer is resolved.                                  *)
LEMMA DependencyReadyStep ==
  ASSUME DeviceInv, NEW n \in Buffers, NEW status \in {"ok", "error"},
         DependencyReady(n, status)
  PROVE  DeviceInv'
<1> DEFINE e == <<"dependency", n>>
           r == [seq |-> 1, stream |-> NoStream, status |-> "ok", on |-> {}, done |-> TRUE]
<1>1. /\ dependency[n] = "pending" /\ dependency' = [dependency EXCEPT ![n] = status]
      /\ ev' = [ev EXCEPT ![e] = r] /\ tasks' = Awakened(tasks, e)
      /\ UNCHANGED <<buf, stream, mem, call, pool, callbacks, ready, literal>>
  BY DEF DependencyReady
<1>2. e \in Events /\ r \in Event /\ r.status = "ok" BY NameFacts DEF Event
<1>3. \A b \in Buffers : <<"dependency", b>> = e <=> b = n OBVIOUS
<1> HIDE DEF e, r
<1>4. EventsStep({e}) BY <1>1, <1>2 DEF EventsStep, EvTyped, DeviceInv, Typed
<1>5. SameBuffers BY <1>1, BuffersStay
<1>6. \A x \in Buffers : Made(x) => (Made(x))' BY <1>5 DEF SameBuffers
<1>7. StreamsStep({}, {}) BY <1>1, StreamsStay DEF DeviceInv, Typed
<1>8. TasksStep
  <2>1. tasks \in SUBSET tasks /\ e \in {e} \cap Events BY <1>2
  <2> QED BY <1>1, <1>4, <1>6, <2>1, TasksAwakened
<1>9. PoolStep BY <1>1, PoolStays
<1>10. MemTyped' /\ CbTyped' BY <1>1, Frames
<1>11. CalmStep({e}, {})
  BY <1>1, <1>4, <1>5, <1>7, <1>8, <1>9, <1>10 DEF CalmStep
<1>12. FuturesTyped' BY <1>1 DEF FuturesTyped, DeviceInv, Typed, Future
<1>13. DependenciesFit'
  <2> SUFFICES ASSUME NEW b \in Buffers PROVE DependencyFits(b)' BY DEF DependenciesFit
  <2>1. DependencyFits(b) BY DEF DeviceInv, DependenciesFit
  <2>2. dependency \in [Buffers -> Future] BY DEF DeviceInv, Typed, FuturesTyped
  <2>3. CASE b = n
    BY <1>1, <2>1, <2>2, <2>3 DEF DependencyFits, Made
  <2>4. CASE b # n
    <3>1. <<"dependency", b>> \in Events /\ <<"dependency", b>> # e BY <1>3, <2>4, NameFacts
    <3>2. ev'[<<"dependency", b>>] = ev[<<"dependency", b>>]
      BY <1>1, <3>1 DEF DeviceInv, Typed, EvTyped
    <3>3. dependency'[b] = dependency[b] BY <1>1, <2>2, <2>4
    <3> QED BY <1>1, <2>1, <3>2, <3>3 DEF DependencyFits, Made
  <2> QED BY <2>3, <2>4
<1> QED BY <1>11, <1>12, <1>13, CalmInv

-----------------------------------------------------------------------------
(* Steps that change the state of a buffer or a call.                       *)

(* What was made stays made, with its definition events.                    *)
Persist ==
  \A b \in Buffers :
    /\ Made(b) => (Made(b))' /\ buf'[b].defs = buf[b].defs
    /\ buf[b].st # "unborn" => buf'[b].st # "unborn"

(* One buffer changes.                                                      *)
LEMMA BufferChanged ==
  ASSUME DeviceInv, NEW b \in Buffers, Made(b), NEW r \in MadeBuffer,
         r.defs = buf[b].defs, buf' = [buf EXCEPT ![b] = r]
  PROVE  /\ BufTyped' /\ Persist /\ buf'[b] = r
         /\ \A x \in Buffers : x # b => buf'[x] = buf[x]
<1>1. buf \in [Buffers -> MadeBuffer \cup NoBuffer] BY DEF DeviceInv, Typed, BufTyped
<1>2. BufTyped' /\ buf'[b] = r /\ \A x \in Buffers : x # b => buf'[x] = buf[x]
  BY <1>1 DEF BufTyped
<1>3. r.st # "unborn" BY DEF MadeBuffer
<1> QED BY <1>2, <1>3 DEF Persist, Made

(* One buffer is made.                                                      *)
LEMMA BufferMade ==
  ASSUME DeviceInv, NEW n \in Buffers, buf[n].st = "unborn", NEW r \in MadeBuffer,
         buf' = [buf EXCEPT ![n] = r]
  PROVE  /\ BufTyped' /\ Persist /\ buf'[n] = r
         /\ \A x \in Buffers : x # n => buf'[x] = buf[x]
<1>1. buf \in [Buffers -> MadeBuffer \cup NoBuffer] BY DEF DeviceInv, Typed, BufTyped
<1>2. BufTyped' /\ buf'[n] = r /\ \A x \in Buffers : x # n => buf'[x] = buf[x]
  BY <1>1 DEF BufTyped
<1>3. ~Made(n) BY DEF Made, MadeBuffer
<1> QED BY <1>2, <1>3 DEF Persist, Made

(* One call begins or ends.                                                 *)
LEMMA CallChanged ==
  ASSUME DeviceInv, NEW b \in Buffers, NEW k \in Call, call' = [call EXCEPT ![b] = k]
  PROVE  /\ CallTyped' /\ call'[b] = k
         /\ \A x \in Buffers : x # b => call'[x] = call[x]
BY DEF DeviceInv, Typed, CallTyped

(* Without a call there is nothing to call for.                             *)
LEMMA NoCallFacts == NoCall \in Call /\ NoCall.op = "none" /\ NoCall.ins = {} /\ NoCall.don = {}
BY DEF NoCall, Call

(* The call of a buffer.                                                    *)
LEMMA CallFacts ==
  ASSUME DeviceInv, NEW b \in Buffers
  PROVE  /\ call[b] \in Call /\ call[b].ins \subseteq Buffers /\ CallFits(b) /\ HoldFits(b)
         /\ call[b].don \subseteq call[b].ins
         /\ buf[b].st = "external" => call[b] = NoCall
         /\ buf[b].st = "live" =>
              call[b].op \in {"none"} \cup Awaits /\ call[b].ins = {} /\ call[b].don = {}
<1>1. call[b] \in Call /\ CallFits(b) /\ HoldFits(b)
  BY DEF DeviceInv, Typed, CallTyped, CallsFit, HoldsFit
<1> QED BY <1>1, NoCallFacts DEF CallFits, Call, Awaits

(* Such a step keeps the dependencies.                                      *)
LEMMA DependenciesStay ==
  ASSUME DeviceInv, Persist, NEW S, EventsStep(S),
         \A b \in Buffers : <<"dependency", b>> \notin S, UNCHANGED <<ready, dependency>>
  PROVE  DependenciesFit'
<1> SUFFICES ASSUME NEW b \in Buffers PROVE DependencyFits(b)' BY DEF DependenciesFit
<1>1. DependencyFits(b) BY DEF DeviceInv, DependenciesFit
<1>2. <<"dependency", b>> \in Events /\ <<"dependency", b>> \notin S BY NameFacts
<1>3. /\ ev'[<<"dependency", b>>].seq = ev[<<"dependency", b>>].seq
      /\ ev'[<<"dependency", b>>].status = ev[<<"dependency", b>>].status
  BY <1>2 DEF EventsStep
<1>4. /\ Made(b) => (Made(b))' /\ buf'[b].defs = buf[b].defs
      /\ buf[b].st # "unborn" => buf'[b].st # "unborn"
  BY DEF Persist
<1> QED BY <1>1, <1>3, <1>4 DEF DependencyFits

(* No task is new, and a borrowed stream is for a buffer that was made.     *)
LEMMA TasksFitStay ==
  ASSUME DeviceInv, Persist, NEW S, EventsStep(S), tasks' = tasks,
         \A p \in pool' : p \in pool \/ (p \in Wait /\ Made(p.buf))
  PROVE  TasksTyped' /\ PoolTyped' /\ TasksFit'
<1>1. \A b \in Buffers : Made(b) => (Made(b))' BY DEF Persist
<1>2. TasksStep BY <1>1, TasksStay
<1>3. PoolTyped' BY DEF PoolTyped, DeviceInv, Typed
<1>4. \A p \in pool' : p.buf \in Buffers /\ Made(p.buf)
  BY DEF DeviceInv, Typed, PoolTyped, TasksFit, Wait
<1> QED BY <1>1, <1>2, <1>3, <1>4 DEF TasksStep, TasksFit, FewRun, Made

(* One task is new.                                                         *)
LEMMA TasksFitMore ==
  ASSUME DeviceInv, Persist, NEW S, EventsStep(S), pool' = pool,
         NEW t \in Task, t.at # "running", TaskFits(t)', tasks' = tasks \cup {t}
  PROVE  TasksTyped' /\ PoolTyped' /\ TasksFit'
<1>1. \A b \in Buffers : Made(b) => (Made(b))' BY DEF Persist
<1>2. \A u \in tasks : TaskFits(u)' BY <1>1, TaskStays
<1>3. TasksTyped' /\ PoolTyped' BY DEF PoolTyped, TasksTyped, DeviceInv, Typed
<1>4. \A p \in pool' : p.buf \in Buffers /\ Made(p.buf)
  BY DEF DeviceInv, Typed, PoolTyped, TasksFit, Wait
<1>5. Running' = Running BY DEF Running
<1>6. IsFiniteSet(Running)' /\ (Cardinality(Running) <= Workers)'
  BY <1>5 DEF DeviceInv, TasksFit
<1> QED BY <1>1, <1>2, <1>3, <1>4, <1>6 DEF TasksFit, Made

(* A call that goes on still fits its buffers.                              *)
LEMMA CallStays ==
  ASSUME DeviceInv, Persist, NEW b \in Buffers, call'[b] = call[b],
         call[b].op # "none" =>
           buf'[b].st = buf[b].st \/ (call[b].op \in Awaits /\ buf'[b].st = "gone")
  PROVE  CallFits(b)'
<1>1. call[b] \in Call /\ call[b].ins \subseteq Buffers /\ CallFits(b) BY CallFacts
<1>2. \A i \in call[b].ins : Made(i) => (Made(i))' BY <1>1 DEF Persist
<1>3. Made(b) => (Made(b))' BY DEF Persist
<1> QED BY <1>1, <1>2, <1>3 DEF CallFits, Awaits

(* No call is for more buffers than before, and what an execution holds     *)
(* stays live or is waited for.                                             *)
HeldStays(x, b) ==
  /\ buf[b].st = "live" =>
       buf'[b].st = "live" \/ (b \notin call[x].don /\ call'[b].op \in {"delete", "release"})
  /\ call[b].op \in {"delete", "release"} /\ b \notin call[x].don =>
       call'[b].op \in {"delete", "release"}

HoldsKept ==
  /\ \A y \in Buffers : \/ call'[y] = call[y]
                        \/ call'[y].op # "execute" /\ call'[y].ins \subseteq call[y].ins
  /\ \A x \in Buffers : call[x].op = "execute" /\ call'[x] = call[x] =>
       \A b \in call[x].ins : HeldStays(x, b)

(* Then the holds still fit.                                                *)
LEMMA HoldsStay ==
  ASSUME DeviceInv, HoldsKept
  PROVE  HoldsFit'
<1> SUFFICES ASSUME NEW x \in Buffers, call'[x].op = "execute" PROVE HoldFits(x)'
  BY DEF HoldsFit, HoldFits
<1>1. call'[x] = call[x] BY DEF HoldsKept
<1>2. \A b \in call[x].ins : HeldStays(x, b) BY <1>1 DEF HoldsKept
<1>3. HoldFits(x) /\ call[x].don \subseteq call[x].ins BY CallFacts
<1>4. \A y \in Buffers : call'[y].ins \subseteq call[y].ins BY DEF HoldsKept
<1>5. ASSUME NEW b \in call[x].don
      PROVE  buf'[b].st = "live" /\ \A y \in Buffers : y # x => b \notin call'[y].ins
  <2>1. buf[b].st = "live" /\ \A y \in Buffers : y # x => b \notin call[y].ins
    BY <1>1, <1>3 DEF HoldFits
  <2> QED BY <1>2, <1>3, <1>4, <2>1 DEF HeldStays
<1>6. ASSUME NEW b \in call[x].ins \ call[x].don
      PROVE  buf'[b].st = "live" \/ call'[b].op \in {"delete", "release"}
  <2>1. buf[b].st = "live" \/ call[b].op \in {"delete", "release"}
    BY <1>1, <1>3 DEF HoldFits
  <2> QED BY <1>2, <2>1 DEF HeldStays
<1> QED BY <1>1, <1>5, <1>6 DEF HoldFits

(* Release begins.                                                          *)
LEMMA ReleaseStep ==
  ASSUME DeviceInv, NEW b \in Buffers, NEW op \in {"delete", "release"}, NEW from,
         Release(b, op, from)
  PROVE  DeviceInv'
<1> DEFINE r == [buf[b] EXCEPT !.st = "gone"]
           k == [call[b] EXCEPT !.op = op]
<1>1. /\ buf[b].st = "live" /\ ~DonationHold(b) /\ Made(b)
      /\ buf' = [buf EXCEPT ![b] = r] /\ call' = [call EXCEPT ![b] = k]
      /\ UNCHANGED <<ev, stream, mem, tasks, pool, callbacks, ready, literal, dependency>>
  BY StMade DEF Release, Live, DeviceInv
<1>2. /\ r \in MadeBuffer /\ r.defs = buf[b].defs /\ r.st = "gone" /\ r.cell = buf[b].cell
      /\ r.owns = buf[b].owns
  BY <1>1 DEF Made, MadeBuffer
<1>3. call[b] \in Call /\ call[b].ins = {} /\ call[b].don = {} BY <1>1, CallFacts
<1>4. k \in Call /\ k.op = op /\ k.ins = {} /\ k.don = {} BY <1>3 DEF Call
<1> HIDE DEF r, k
<1>5. /\ BufTyped' /\ Persist /\ buf'[b] = r
      /\ \A x \in Buffers : x # b => buf'[x] = buf[x]
  BY <1>1, <1>2, BufferChanged
<1>6. /\ CallTyped' /\ call'[b] = k /\ \A x \in Buffers : x # b => call'[x] = call[x]
  BY <1>1, <1>4, CallChanged
<1>7. EventsStep({}) BY <1>1, EventsStay DEF DeviceInv, Typed
<1>8. StreamsStep({}, {}) BY <1>1, StreamsStay DEF DeviceInv, Typed
<1>9. TasksTyped' /\ PoolTyped' /\ TasksFit' BY <1>1, <1>5, <1>7, TasksFitStay
<1>10. FuturesTyped' /\ MemTyped' /\ CbTyped'
  BY <1>1, Frames DEF FuturesTyped, DeviceInv, Typed
<1>11. DependenciesFit' BY <1>1, <1>5, <1>7, DependenciesStay
<1>12. CallsFit'
  <2>1. \A x \in Buffers : x # b => CallFits(x)' BY <1>5, <1>6, CallStays
  <2>2. CallFits(b)' BY <1>2, <1>4, <1>5, <1>6 DEF CallFits, Made
  <2> QED BY <2>1, <2>2 DEF CallsFit
<1>13. Numbered'
  <2>1. \A x \in Buffers : Used(x)' <=> Used(x) BY <1>1, <1>2, <1>5, <1>6 DEF Used
  <2> QED BY <2>1, NumberedStay DEF DeviceInv
<1>14. HoldsFit'
  <2>1. \A y \in Buffers : \/ call'[y] = call[y]
                           \/ call'[y].op # "execute" /\ call'[y].ins \subseteq call[y].ins
    BY <1>4, <1>6
  <2>2. ASSUME NEW x \in Buffers, call[x].op = "execute", call'[x] = call[x],
               NEW i \in call[x].ins
        PROVE  HeldStays(x, i)
    <3>1. i \in Buffers BY CallFacts
    <3>2. i = b => i \notin call[x].don BY <1>1, <2>2 DEF DonationHold
    <3> QED BY <1>4, <1>5, <1>6, <3>1, <3>2 DEF HeldStays
  <2>3. HoldsKept BY <2>1, <2>2 DEF HoldsKept
  <2> QED BY <2>3, HoldsStay
<1>15. Owning' BY <1>2, <1>5 DEF Owning, DeviceInv
<1>16. OneOwner'
  <2>1. ASSUME NEW x \in Buffers PROVE Alive(x)' => Alive(x)
    <3>1. buf'[x].st \in {"making", "live", "external"} => Alive(x)
      BY <1>2, <1>5 DEF Alive
    <3>2. call'[x].op \in {"delete", "release"} => Alive(x)
      BY <1>1, <1>6 DEF Alive
    <3>3. /\ \A t \in tasks' : x \in {t.buf, t.src} => Alive(x)
          /\ \A p \in pool' : p.op = "release" /\ p.buf = x => Alive(x)
      BY <1>1 DEF Alive
    <3>4. x \in {} => Alive(x) OBVIOUS
    <3> QED BY <1>8, <3>1, <3>2, <3>3, <3>4, AliveStays
  <2> QED BY <1>2, <1>5, <1>8, <2>1, OwnersStay DEF DeviceInv
<1> QED
  BY <1>5, <1>6, <1>7, <1>8, <1>9, <1>10, <1>11, <1>12, <1>13, <1>14, <1>15, <1>16
  DEF DeviceInv, Typed, EventsStep, StreamsStep

(* A call of Release waits for a donation, or finds that it was confirmed.  *)
WaitsForDonation(b, k) ==
  /\ call' = [call EXCEPT ![b] = k] /\ k \in Call /\ k.ins = {} /\ k.don = {}
  /\ k = NoCall \/ (k.op \in Awaits /\ buf[b].st = "live")
  /\ call[b].op \in {"none"} \cup Awaits /\ call[b].ins = {} /\ Made(b)
  /\ UNCHANGED <<buf, ev, stream, mem, tasks, pool, callbacks, ready, literal, dependency>>

LEMMA AwaitStep ==
  ASSUME DeviceInv, NEW b \in Buffers, NEW k, WaitsForDonation(b, k)
  PROVE  DeviceInv'
<1>1. /\ call' = [call EXCEPT ![b] = k] /\ k \in Call /\ k.ins = {} /\ k.don = {}
      /\ call[b].op \in {"none"} \cup Awaits /\ call[b].ins = {} /\ Made(b)
      /\ k = NoCall \/ (k.op \in Awaits /\ buf[b].st = "live")
      /\ UNCHANGED <<buf, ev, stream, mem, tasks, pool, callbacks, ready, literal, dependency>>
  BY DEF WaitsForDonation
<1>2. k.op \notin {"execute", "copy", "delete", "release"}
  BY <1>1, NoCallFacts DEF Awaits
<1>3. /\ CallTyped' /\ call'[b] = k /\ \A x \in Buffers : x # b => call'[x] = call[x]
  BY <1>1, CallChanged
<1>4. Persist BY <1>1 DEF Persist, Made
<1>5. EventsStep({}) BY <1>1, EventsStay DEF DeviceInv, Typed
<1>6. StreamsStep({}, {}) BY <1>1, StreamsStay DEF DeviceInv, Typed
<1>7. TasksTyped' /\ PoolTyped' /\ TasksFit' BY <1>1, <1>4, <1>5, TasksFitStay
<1>8. FuturesTyped' /\ MemTyped' /\ CbTyped' /\ BufTyped'
  BY <1>1, Frames DEF FuturesTyped, DeviceInv, Typed, BufTyped
<1>9. DependenciesFit' BY <1>1, <1>4, <1>5, DependenciesStay
<1>10. CallsFit'
  <2>1. \A x \in Buffers : x # b => CallFits(x)' BY <1>1, <1>3, <1>4, CallStays
  <2>2. CallFits(b)' BY <1>1, <1>2, <1>3, NoCallFacts DEF CallFits, Made, Awaits
  <2> QED BY <2>1, <2>2 DEF CallsFit
<1>11. Numbered'
  <2>1. buf[b].st # "unborn" BY <1>1, MadeFacts DEF DeviceInv
  <2>2. \A x \in Buffers : Used(x)' <=> Used(x) BY <1>1, <1>3, <2>1 DEF Used
  <2> QED BY <2>2, NumberedStay DEF DeviceInv
<1>12. HoldsFit'
  <2>1. \A y \in Buffers : \/ call'[y] = call[y]
                           \/ call'[y].op # "execute" /\ call'[y].ins \subseteq call[y].ins
    BY <1>1, <1>2, <1>3
  <2>2. ASSUME NEW x \in Buffers, NEW i \in call[x].ins PROVE HeldStays(x, i)
    <3>1. i \in Buffers BY CallFacts
    <3> QED BY <1>1, <1>3, <3>1 DEF HeldStays, Awaits
  <2>3. HoldsKept BY <2>1, <2>2 DEF HoldsKept
  <2> QED BY <2>3, HoldsStay
<1>13. Owning' BY <1>1 DEF Owning, DeviceInv
<1>14. OneOwner'
  <2>1. ASSUME NEW x \in Buffers PROVE Alive(x)' => Alive(x)
    <3>1. /\ buf'[x].st \in {"making", "live", "external"} => Alive(x)
          /\ \A t \in tasks' : x \in {t.buf, t.src} => Alive(x)
          /\ \A p \in pool' : p.op = "release" /\ p.buf = x => Alive(x)
      BY <1>1 DEF Alive
    <3>2. call'[x].op \in {"delete", "release"} => Alive(x) BY <1>2, <1>3 DEF Alive
    <3>3. x \in {} => Alive(x) OBVIOUS
    <3> QED BY <1>6, <3>1, <3>2, <3>3, AliveStays
  <2> QED BY <1>1, <1>6, <2>1, OwnersStay DEF DeviceInv
<1> QED
  BY <1>3, <1>5, <1>6, <1>7, <1>8, <1>9, <1>10, <1>11, <1>12, <1>13, <1>14
  DEF DeviceInv, Typed, EventsStep, StreamsStep

(* What the two are for the lemma.                                          *)
LEMMA AwaitFacts ==
  ASSUME DeviceInv, NEW b \in Buffers
  PROVE  /\ \A op \in {"delete", "release"} : AwaitDonation(b, op) =>
                WaitsForDonation(b, [call[b] EXCEPT !.op = Awaiting(op)])
         /\ ReleaseNothing(b) => WaitsForDonation(b, NoCall)
<1>1. ASSUME NEW op \in {"delete", "release"}, AwaitDonation(b, op)
      PROVE  WaitsForDonation(b, [call[b] EXCEPT !.op = Awaiting(op)])
  <2> DEFINE k == [call[b] EXCEPT !.op = Awaiting(op)]
  <2>1. buf[b].st = "live" /\ call[b].op = "none" /\ call' = [call EXCEPT ![b] = k]
    BY <1>1 DEF AwaitDonation
  <2>2. Made(b) BY <2>1, StMade DEF DeviceInv
  <2>3. call[b] \in Call /\ call[b].ins = {} /\ call[b].don = {} BY <2>1, CallFacts
  <2>4. Awaiting(op) \in Awaits BY DEF Awaiting, Awaits
  <2>5. k \in Call /\ k.op \in Awaits /\ k.ins = {} /\ k.don = {} BY <2>3, <2>4 DEF Call
  <2> HIDE DEF k
  <2>6. WaitsForDonation(b, k)
    BY <1>1, <2>1, <2>2, <2>3, <2>5 DEF AwaitDonation, WaitsForDonation
  <2> QED BY <2>6 DEF k
<1>2. ASSUME ReleaseNothing(b) PROVE WaitsForDonation(b, NoCall)
  <2>1. call[b].op \in Awaits BY <1>2 DEF ReleaseNothing, Awaits
  <2>2. call[b] \in Call /\ Made(b) /\ call[b].ins = {}
    BY <2>1, CallFacts DEF CallFits
  <2> QED BY <1>2, <2>1, <2>2, NoCallFacts DEF ReleaseNothing, WaitsForDonation
<1> QED BY <1>1, <1>2

(* The other framework drops its reference.                                 *)
LEMMA DropExternalReferenceStep ==
  ASSUME DeviceInv, NEW b \in Buffers, DropExternalReference(b)
  PROVE  DeviceInv'
<1> DEFINE r == [buf[b] EXCEPT !.st = "gone"]
<1>1. /\ buf[b].st = "external" /\ Made(b) /\ buf' = [buf EXCEPT ![b] = r]
      /\ UNCHANGED <<ev, stream, mem, tasks, call, pool, callbacks, ready, literal, dependency>>
  BY StMade DEF DropExternalReference, DeviceInv
<1>2. /\ r \in MadeBuffer /\ r.defs = buf[b].defs /\ r.st = "gone" /\ r.cell = buf[b].cell
      /\ r.owns = buf[b].owns
  BY <1>1 DEF Made, MadeBuffer
<1>3. call[b] = NoCall BY <1>1, CallFacts
<1> HIDE DEF r
<1>4. /\ BufTyped' /\ Persist /\ buf'[b] = r
      /\ \A x \in Buffers : x # b => buf'[x] = buf[x]
  BY <1>1, <1>2, BufferChanged
<1>5. EventsStep({}) BY <1>1, EventsStay DEF DeviceInv, Typed
<1>6. StreamsStep({}, {}) BY <1>1, StreamsStay DEF DeviceInv, Typed
<1>7. TasksTyped' /\ PoolTyped' /\ TasksFit' BY <1>1, <1>4, <1>5, TasksFitStay
<1>8. FuturesTyped' /\ MemTyped' /\ CbTyped' /\ CallTyped'
  BY <1>1, Frames DEF FuturesTyped, DeviceInv, Typed, CallTyped
<1>9. DependenciesFit' BY <1>1, <1>4, <1>5, DependenciesStay
<1>10. CallsFit'
  <2>1. \A x \in Buffers : call[x].op # "none" => buf'[x].st = buf[x].st
    BY <1>3, <1>4, NoCallFacts
  <2> QED BY <1>1, <1>4, <2>1, CallStays DEF CallsFit
<1>11. Numbered'
  <2>1. \A x \in Buffers : Used(x)' <=> Used(x) BY <1>1, <1>2, <1>4 DEF Used
  <2> QED BY <2>1, NumberedStay DEF DeviceInv
<1>12. HoldsFit'
  <2>1. ASSUME NEW x \in Buffers, NEW i \in call[x].ins PROVE HeldStays(x, i)
    <3>1. i \in Buffers BY CallFacts
    <3> QED BY <1>1, <1>4, <3>1 DEF HeldStays
  <2>2. HoldsKept BY <1>1, <2>1 DEF HoldsKept
  <2> QED BY <2>2, HoldsStay
<1>13. Owning' BY <1>2, <1>4 DEF Owning, DeviceInv
<1>14. OneOwner'
  <2>1. ASSUME NEW x \in Buffers PROVE Alive(x)' => Alive(x)
    <3>1. buf'[x].st \in {"making", "live", "external"} => Alive(x)
      BY <1>2, <1>4 DEF Alive
    <3>2. /\ call'[x].op \in {"delete", "release"} => Alive(x)
          /\ \A t \in tasks' : x \in {t.buf, t.src} => Alive(x)
          /\ \A p \in pool' : p.op = "release" /\ p.buf = x => Alive(x)
      BY <1>1 DEF Alive
    <3>3. x \in {} => Alive(x) OBVIOUS
    <3> QED BY <1>6, <3>1, <3>2, <3>3, AliveStays
  <2> QED BY <1>2, <1>4, <1>6, <2>1, OwnersStay DEF DeviceInv
<1> QED
  BY <1>4, <1>5, <1>6, <1>7, <1>8, <1>9, <1>10, <1>11, <1>12, <1>13, <1>14
  DEF DeviceInv, Typed, EventsStep, StreamsStep

(* The end of Delete or Release: no call and no usage event is left, and no *)
(* execution holds the buffer.                                              *)
Ends(b, st) ==
  /\ call[b].op \in {"delete", "release"} /\ ~UsageHold(b)
  /\ st \in {"gone", "external"}
  /\ buf' = [buf EXCEPT ![b] = [buf[b] EXCEPT !.st = st, !.usage = <<>>]]
  /\ call' = [call EXCEPT ![b] = NoCall]
  /\ \A p \in pool' : p \in pool \/ (p \in Wait /\ p.buf = b)
  /\ UNCHANGED <<ev, stream, mem, tasks, callbacks, ready, literal, dependency>>

(* Delete and Release end.                                                  *)
LEMMA EndsStep ==
  ASSUME DeviceInv, NEW b \in Buffers, NEW st, Ends(b, st)
  PROVE  DeviceInv'
<1> DEFINE r == [buf[b] EXCEPT !.st = st, !.usage = <<>>]
<1>1. /\ Made(b) /\ buf[b].st = "gone" /\ call[b].op \in {"delete", "release"}
      /\ call[b].ins = {} /\ ~UsageHold(b) /\ buf' = [buf EXCEPT ![b] = r]
      /\ call' = [call EXCEPT ![b] = NoCall] /\ st \in {"gone", "external"}
      /\ UNCHANGED <<ev, stream, mem, tasks, callbacks, ready, literal, dependency>>
  BY CallFacts DEF Ends, CallFits
<1>2. /\ r \in MadeBuffer /\ r.defs = buf[b].defs /\ r.st = st /\ r.cell = buf[b].cell
      /\ r.owns = buf[b].owns
  <2>1. PICK u \in Seq(UsageEvent) : u = <<>>
    <3>1. <<>> \in Seq(UsageEvent) OBVIOUS
    <3> QED BY <3>1
  <2>2. r = [buf[b] EXCEPT !.st = st, !.usage = u] BY <2>1
  <2> HIDE DEF r
  <2> QED BY <1>1, <2>2 DEF Made, MadeBuffer
<1> HIDE DEF r
<1>3. /\ BufTyped' /\ Persist /\ buf'[b] = r
      /\ \A x \in Buffers : x # b => buf'[x] = buf[x]
  BY <1>1, <1>2, BufferChanged
<1>4. /\ CallTyped' /\ call'[b] = NoCall /\ \A x \in Buffers : x # b => call'[x] = call[x]
  BY <1>1, NoCallFacts, CallChanged
<1>5. EventsStep({}) BY <1>1, EventsStay DEF DeviceInv, Typed
<1>6. StreamsStep({}, {}) BY <1>1, StreamsStay DEF DeviceInv, Typed
<1>7. TasksTyped' /\ PoolTyped' /\ TasksFit'
  <2>1. \A p \in pool' : p \in pool \/ (p \in Wait /\ Made(p.buf)) BY <1>1 DEF Ends
  <2> QED BY <1>1, <1>3, <1>5, <2>1, TasksFitStay
<1>8. FuturesTyped' /\ MemTyped' /\ CbTyped'
  BY <1>1, Frames DEF FuturesTyped, DeviceInv, Typed
<1>9. DependenciesFit' BY <1>1, <1>3, <1>5, DependenciesStay
<1>10. CallsFit'
  <2>1. \A x \in Buffers : x # b => CallFits(x)' BY <1>3, <1>4, CallStays
  <2>2. CallFits(b)' BY <1>4, NoCallFacts DEF CallFits, Awaits
  <2> QED BY <2>1, <2>2 DEF CallsFit
<1>11. Numbered'
  <2>1. \A x \in Buffers : Used(x)' <=> Used(x) BY <1>1, <1>2, <1>3, <1>4 DEF Used
  <2> QED BY <2>1, NumberedStay DEF DeviceInv
<1>12. HoldsFit'
  <2>1. \A y \in Buffers : \/ call'[y] = call[y]
                           \/ call'[y].op # "execute" /\ call'[y].ins \subseteq call[y].ins
    BY <1>4, NoCallFacts
  <2>2. ASSUME NEW x \in Buffers, call[x].op = "execute", NEW i \in call[x].ins
        PROVE  HeldStays(x, i)
    <3>1. i \in Buffers /\ HoldFits(x) BY CallFacts
    <3>2. i # b BY <1>1, <2>2, <3>1 DEF UsageHold, HoldFits
    <3> QED BY <1>3, <1>4, <3>1, <3>2 DEF HeldStays
  <2>3. HoldsKept BY <2>1, <2>2 DEF HoldsKept
  <2> QED BY <2>3, HoldsStay
<1>13. Owning' BY <1>1, <1>2, <1>3 DEF Owning, DeviceInv
<1>14. OneOwner'
  <2>1. ASSUME NEW x \in Buffers PROVE Alive(x)' => Alive(x)
    <3>0. Alive(b) BY <1>1 DEF Alive
    <3>1. buf'[x].st \in {"making", "live", "external"} => Alive(x)
      BY <3>0, <1>3 DEF Alive
    <3>2. call'[x].op \in {"delete", "release"} => Alive(x)
      BY <3>0, <1>4 DEF Alive
    <3>3. \A t \in tasks' : x \in {t.buf, t.src} => Alive(x) BY <1>1 DEF Alive
    <3>4. \A p \in pool' : p.op = "release" /\ p.buf = x => Alive(x)
      BY <3>0 DEF Ends, Alive
    <3>5. x \in {} => Alive(x) OBVIOUS
    <3> QED BY <1>6, <3>1, <3>2, <3>3, <3>4, <3>5, AliveStays
  <2> QED BY <1>2, <1>3, <1>6, <2>1, OwnersStay DEF DeviceInv
<1> QED
  BY <1>3, <1>4, <1>5, <1>6, <1>7, <1>8, <1>9, <1>10, <1>11, <1>12, <1>13, <1>14
  DEF DeviceInv, Typed, EventsStep, StreamsStep

(* The rest of Delete.                                                      *)
LEMMA DeleteStep ==
  ASSUME DeviceInv, NEW b \in Buffers, Delete(b)
  PROVE  DeviceInv'
<1> DEFINE u == {buf[b].usage[i] : i \in DOMAIN buf[b].usage}
           loose == {x.event : x \in {y \in u : ~y.reference_held}}
           E == {e \in loose : <<"compute", buf[b].dev>> \notin ev[e].on /\ ~ev[e].done}
           p == [op |-> "release", buf |-> b, events |-> E]
<1>1. /\ call[b].op = "delete" /\ ~UsageHold(b) /\ (pool' = pool \/ pool' = pool \cup {p})
      /\ buf' = [buf EXCEPT ![b].usage = <<>>] /\ call' = [call EXCEPT ![b] = NoCall]
      /\ UNCHANGED <<ev, stream, mem, tasks, callbacks, ready, literal, dependency>>
  BY DEF Delete
<1>2. Made(b) /\ buf[b].st = "gone" BY <1>1, CallFacts DEF CallFits
<1>3. E \in SUBSET Events
  <2>1. E \subseteq UsageEvents(b) BY DEF UsageEvents
  <2>2. UsageEvents(b) \in SUBSET Events BY <1>2, MadeFacts DEF DeviceInv
  <2> QED BY <2>1, <2>2
<1> HIDE DEF E
<1>4. p \in Wait /\ p.buf = b BY <1>3 DEF Wait
<1> HIDE DEF p
<1>5. [buf[b] EXCEPT !.usage = <<>>] = [buf[b] EXCEPT !.st = "gone", !.usage = <<>>]
  BY <1>2 DEF Made, MadeBuffer
<1>6. buf' = [buf EXCEPT ![b] = [buf[b] EXCEPT !.st = "gone", !.usage = <<>>]]
  BY <1>1, <1>5
<1>7. Ends(b, "gone") BY <1>1, <1>4, <1>6 DEF Ends
<1> QED BY <1>7, EndsStep

(* The rest of ReleaseDeviceMemoryOwnership.                                *)
LEMMA ReleaseDeviceMemoryOwnershipStep ==
  ASSUME DeviceInv, NEW b \in Buffers, ReleaseDeviceMemoryOwnership(b)
  PROVE  DeviceInv'
<1>1. buf' = [buf EXCEPT ![b] = [buf[b] EXCEPT !.st = "external", !.usage = <<>>]]
  BY DEF ReleaseDeviceMemoryOwnership, DeviceInv, Typed, BufTyped
<1>2. Ends(b, "external") BY <1>1 DEF Ends, ReleaseDeviceMemoryOwnership
<1> QED BY <1>2, EndsStep

(* What an execution works with.                                            *)
LEMMA ExecutionFacts ==
  ASSUME DeviceInv, NEW out \in Buffers, call[out].op = "execute"
  PROVE  /\ buf[out].st = "unborn" /\ ~Made(out) /\ buf[out] = Unborn
         /\ call[out].ins \subseteq Buffers /\ call[out].don \subseteq call[out].ins
         /\ \A b \in call[out].ins : Made(b) /\ b # out /\ Alive(b)
         /\ buf[CHOOSE b \in call[out].ins : TRUE].dev \in Devices
         /\ ExecutionEvents(call[out].ins, call[out].don) \in SUBSET Events
<1>1. /\ buf[out].st = "unborn" /\ call[out].ins \subseteq Buffers
      /\ call[out].don \subseteq call[out].ins /\ call[out].ins # {}
      /\ \A b \in call[out].ins : Made(b)
  BY CallFacts DEF CallFits
<1>2. ~Made(out) BY <1>1 DEF Made, MadeBuffer
<1>3. buf[out] = Unborn
  <2>1. buf[out] \in NoBuffer BY <1>2 DEF Made, DeviceInv, Typed, BufTyped
  <2>2. PICK st \in {"unborn", "gone"} : buf[out] = [Unborn EXCEPT !.st = st]
    BY <2>1 DEF NoBuffer
  <2>3. st = "unborn" BY <1>1, <2>2 DEF Unborn
  <2> QED BY <2>2, <2>3 DEF Unborn
<1>4. ASSUME NEW b \in call[out].ins PROVE Alive(b)
  <2>1. HoldFits(out) BY CallFacts
  <2>2. buf[b].st = "live" \/ call[b].op \in {"delete", "release"} BY <2>1 DEF HoldFits
  <2> QED BY <2>2 DEF Alive
<1>5. buf[CHOOSE b \in call[out].ins : TRUE].dev \in Devices
  <2> DEFINE i == CHOOSE b \in call[out].ins : TRUE
  <2>1. i \in call[out].ins BY <1>1
  <2> HIDE DEF i
  <2>2. buf[i].dev \in Devices BY <1>1, <2>1, MadeFacts DEF DeviceInv
  <2> QED BY <2>2 DEF i
<1>6. ExecutionEvents(call[out].ins, call[out].don) \in SUBSET Events
  <2>1. \A b \in call[out].ins : /\ DefinitionEvents(b) \in SUBSET Events
                                 /\ UsageEvents(b) \in SUBSET Events
    BY <1>1, MadeFacts DEF DeviceInv
  <2> DEFINE S == IF Model = "kComputeSynchronized" THEN call[out].ins
                  ELSE call[out].ins \ call[out].don
             U == {UsageEvents(b) : b \in call[out].don} \cup {DefinitionEvents(b) : b \in S}
  <2>2. S \subseteq call[out].ins OBVIOUS
  <2>3. ExecutionEvents(call[out].ins, call[out].don) = UNION U BY DEF ExecutionEvents
  <2> HIDE DEF S
  <2>4. \A T \in U : T \subseteq Events BY <1>1, <2>1, <2>2
  <2> HIDE DEF U
  <2> QED BY <2>3, <2>4
<1> QED BY <1>1, <1>2, <1>3, <1>4, <1>5, <1>6

(* The execution fails: the arguments are given back.                       *)
LEMMA ExecuteFailsStep ==
  ASSUME DeviceInv, NEW out \in Buffers, ExecuteFails(out)
  PROVE  DeviceInv'
<1> DEFINE d == buf[CHOOSE b \in call[out].ins : TRUE].dev
           s == <<"compute", d>>
           E == ExecutionEvents(call[out].ins, call[out].don)
           r == [buf[out] EXCEPT !.st = "gone"]
           W == Waits(s, E)
<1>1. /\ call[out].op = "execute" /\ stream' = [stream EXCEPT ![s] = stream[s] \o W]
      /\ ev' = DefinedOn(s, E) /\ buf' = [buf EXCEPT ![out] = r]
      /\ call' = [call EXCEPT ![out] = NoCall]
      /\ UNCHANGED <<mem, tasks, pool, callbacks, ready, literal, dependency>>
  BY DEF ExecuteFails
<1>2. /\ d \in Devices /\ E \in SUBSET Events /\ ~Made(out) /\ buf[out] = Unborn
      /\ buf[out].st = "unborn"
  BY <1>1, ExecutionFacts
<1>3. s \in Streams BY <1>2, NameFacts
<1>4. r \in NoBuffer /\ r.st = "gone" /\ ~r.owns /\ r.defs = buf[out].defs
  BY <1>2 DEF NoBuffer, Unborn
<1> HIDE DEF d, E, r, s
<1>5. Piece(W, {}, {}) BY <1>2, WaitsPiece
<1> HIDE DEF W
<1>6. buf \in [Buffers -> MadeBuffer \cup NoBuffer] BY DEF DeviceInv, Typed, BufTyped
<1>7. BufTyped' /\ buf'[out] = r /\ \A x \in Buffers : x # out => buf'[x] = buf[x]
  BY <1>1, <1>4, <1>6 DEF BufTyped
<1>8. Persist BY <1>2, <1>4, <1>7 DEF Persist, Made
<1>9. /\ CallTyped' /\ call'[out] = NoCall
      /\ \A x \in Buffers : x # out => call'[x] = call[x]
  BY <1>1, NoCallFacts, CallChanged
<1>10. EventsStep({}) BY <1>1, <1>3, EventsStay DEF DeviceInv, Typed
<1>11. StreamsStep({}, {}) BY <1>1, <1>3, <1>5, EnqueueOne DEF DeviceInv, Typed
<1>12. TasksTyped' /\ PoolTyped' /\ TasksFit' BY <1>1, <1>8, <1>10, TasksFitStay
<1>13. FuturesTyped' /\ MemTyped' /\ CbTyped'
  BY <1>1, Frames DEF FuturesTyped, DeviceInv, Typed
<1>14. DependenciesFit' BY <1>1, <1>8, <1>10, DependenciesStay
<1>15. CallsFit'
  <2>1. \A x \in Buffers : x # out => CallFits(x)' BY <1>7, <1>8, <1>9, CallStays
  <2>2. CallFits(out)' BY <1>9, NoCallFacts DEF CallFits, Awaits
  <2> QED BY <2>1, <2>2 DEF CallsFit
<1>16. Numbered'
  <2>1. call[out] # NoCall BY <1>1, NoCallFacts
  <2>2. \A x \in Buffers : Used(x)' <=> Used(x) BY <1>4, <1>7, <1>9, <2>1 DEF Used
  <2> QED BY <2>2, NumberedStay DEF DeviceInv
<1>17. HoldsFit'
  <2>1. \A y \in Buffers : \/ call'[y] = call[y]
                           \/ call'[y].op # "execute" /\ call'[y].ins \subseteq call[y].ins
    BY <1>9, NoCallFacts
  <2>2. ASSUME NEW x \in Buffers, NEW i \in call[x].ins PROVE HeldStays(x, i)
    <3>1. i \in Buffers BY CallFacts
    <3>2. call[out].op \notin {"delete", "release"} BY <1>1
    <3> QED BY <1>2, <1>7, <1>9, <3>1, <3>2 DEF HeldStays
  <2>3. HoldsKept BY <2>1, <2>2 DEF HoldsKept
  <2> QED BY <2>3, HoldsStay
<1>18. Owning' BY <1>4, <1>7 DEF Owning, DeviceInv
<1>19. OneOwner'
  <2>1. ASSUME NEW x \in Buffers PROVE Alive(x)' => Alive(x)
    <3>1. buf'[x].st \in {"making", "live", "external"} => Alive(x)
      BY <1>4, <1>7 DEF Alive
    <3>2. call'[x].op \in {"delete", "release"} => Alive(x)
      BY <1>9, NoCallFacts DEF Alive
    <3>3. /\ \A t \in tasks' : x \in {t.buf, t.src} => Alive(x)
          /\ \A p \in pool' : p.op = "release" /\ p.buf = x => Alive(x)
      BY <1>1 DEF Alive
    <3>4. x \in {} => Alive(x) OBVIOUS
    <3> QED BY <1>11, <3>1, <3>2, <3>3, <3>4, AliveStays
  <2> QED BY <1>4, <1>7, <1>11, <2>1, OwnersStay DEF DeviceInv
<1> QED
  BY <1>7, <1>9, <1>10, <1>11, <1>12, <1>13, <1>14, <1>15, <1>16, <1>17, <1>18, <1>19
  DEF DeviceInv, Typed, EventsStep, StreamsStep

(* An execution takes its holds.                                            *)
LEMMA ExecuteStep ==
  ASSUME DeviceInv, NEW d \in Devices, Execute(d)
  PROVE  DeviceInv'
<1>1. PICK n \in Buffers :
        /\ n = New /\ ~Used(n)
        /\ ((\A b \in Buffers : Used(b)' <=> Used(b) \/ b = n) => Numbered')
  BY NewFacts DEF Execute, DeviceInv
<1>2. PICK ins \in SUBSET Buffers, don \in SUBSET Buffers :
        /\ don \subseteq ins
        /\ Cardinality(ins) \in 1..MaxArgs /\ (\A b \in ins : Live(b))
        /\ (\A b \in don : ~UsageHold(b))
        /\ call' = [call EXCEPT ![n] = [op |-> "execute", ins |-> ins, don |-> don]]
  BY <1>1 DEF Execute
<1> DEFINE k == [op |-> "execute", ins |-> ins, don |-> don]
<1>3. UNCHANGED <<buf, ev, stream, mem, tasks, pool, callbacks, ready, literal, dependency>>
  BY DEF Execute
<1>4. k \in Call /\ k.op = "execute" /\ k.ins = ins /\ k.don = don BY DEF Call
<1>5. call' = [call EXCEPT ![n] = k] BY <1>2
<1> HIDE DEF k
<1>6. ins # {} BY <1>2, FS_EmptySet, BoundsAssumption
<1>7. /\ CallTyped' /\ call'[n] = k /\ \A x \in Buffers : x # n => call'[x] = call[x]
  BY <1>4, <1>5, CallChanged
<1>8. ~Made(n) /\ buf[n].st = "unborn" /\ call[n] = NoCall
  BY <1>1, UnusedFacts DEF DeviceInv
<1>9. \A b \in ins : buf[b].st = "live" /\ ~DonationHold(b) /\ Made(b)
  BY <1>2, StMade DEF Live, DeviceInv
<1>10. Persist BY <1>3 DEF Persist, Made
<1>11. EventsStep({}) BY <1>3, EventsStay DEF DeviceInv, Typed
<1>12. StreamsStep({}, {}) BY <1>3, StreamsStay DEF DeviceInv, Typed
<1>13. TasksTyped' /\ PoolTyped' /\ TasksFit' BY <1>3, <1>10, <1>11, TasksFitStay
<1>14. FuturesTyped' /\ MemTyped' /\ CbTyped' /\ BufTyped'
  BY <1>3, Frames DEF FuturesTyped, DeviceInv, Typed, BufTyped
<1>15. DependenciesFit' BY <1>3, <1>10, <1>11, DependenciesStay
<1>16. CallsFit'
  <2>1. \A x \in Buffers : x # n => CallFits(x)' BY <1>3, <1>7, <1>10, CallStays
  <2>2. CallFits(n)' BY <1>2, <1>3, <1>4, <1>6, <1>7, <1>8, <1>9 DEF CallFits, Made, Awaits
  <2> QED BY <2>1, <2>2 DEF CallsFit
<1>17. Numbered'
  <2>1. k # NoCall BY <1>4, NoCallFacts
  <2>2. \A b \in Buffers : Used(b)' <=> Used(b) \/ b = n BY <1>3, <1>7, <2>1 DEF Used
  <2> QED BY <1>1, <2>2
<1>18. HoldsFit'
  <2>1. ASSUME NEW x \in Buffers, x # n, call[x].op = "execute" PROVE HoldFits(x)'
    <3>1. HoldFits(x) /\ call'[x] = call[x] /\ call[x].ins \subseteq Buffers
          /\ call[x].don \subseteq call[x].ins
      BY <1>7, <2>1, CallFacts
    <3>2. ASSUME NEW b \in call[x].don
          PROVE  buf[b].st = "live" /\ \A y \in Buffers : y # x => b \notin call'[y].ins
      <4>1. buf[b].st = "live" /\ \A y \in Buffers : y # x => b \notin call[y].ins
        BY <2>1, <3>1 DEF HoldFits
      <4>2. b \notin ins BY <1>9, <2>1 DEF DonationHold
      <4> QED BY <1>4, <1>7, <4>1, <4>2
    <3>3. ASSUME NEW b \in call[x].ins \ call[x].don
          PROVE  buf[b].st = "live" \/ call'[b].op \in {"delete", "release"}
      <4>1. b \in Buffers /\ (buf[b].st = "live" \/ call[b].op \in {"delete", "release"})
        BY <2>1, <3>1 DEF HoldFits
      <4> QED BY <1>7, <1>8, <4>1, NoCallFacts
    <3> QED BY <1>3, <3>1, <3>2, <3>3 DEF HoldFits
  <2>2. HoldFits(n)'
    <3>1. ASSUME NEW b \in don, NEW y \in Buffers, y # n PROVE b \notin call'[y].ins
      <4>1. b \notin call[y].ins \ call[y].don BY <1>2 DEF UsageHold
      <4>2. call[y].don = {} \/ call[y].op = "execute"
        <5>1. call[y] \in Call /\ CallFits(y) BY CallFacts
        <5>2. call[y].op \in {"none", "execute", "copy", "delete", "release"} \cup Awaits
          BY <5>1 DEF Call
        <5> QED BY <5>1, <5>2, NoCallFacts DEF CallFits
      <4>3. b \notin call[y].don BY <1>2, <1>9, <4>2 DEF DonationHold
      <4> QED BY <1>7, <3>1, <4>1, <4>3
    <3>2. call'[n].ins = ins /\ call'[n].don = don BY <1>4, <1>7
    <3>3. \A b \in ins : buf'[b].st = "live" BY <1>3, <1>9
    <3> QED BY <1>2, <3>1, <3>2, <3>3 DEF HoldFits
  <2>3. \A x \in Buffers : x # n /\ call[x].op # "execute" => HoldFits(x)'
    BY <1>7 DEF HoldFits
  <2> QED BY <2>1, <2>2, <2>3 DEF HoldsFit
<1>19. Owning' BY <1>3 DEF Owning, DeviceInv
<1>20. OneOwner'
  <2>1. ASSUME NEW x \in Buffers PROVE Alive(x)' => Alive(x)
    <3>1. buf'[x].st \in {"making", "live", "external"} => Alive(x) BY <1>3 DEF Alive
    <3>2. call'[x].op \in {"delete", "release"} => Alive(x) BY <1>4, <1>7 DEF Alive
    <3>3. /\ \A t \in tasks' : x \in {t.buf, t.src} => Alive(x)
          /\ \A p \in pool' : p.op = "release" /\ p.buf = x => Alive(x)
      BY <1>3 DEF Alive
    <3>4. x \in {} => Alive(x) OBVIOUS
    <3> QED BY <1>12, <3>1, <3>2, <3>3, <3>4, AliveStays
  <2> QED BY <1>3, <1>12, <2>1, OwnersStay DEF DeviceInv
<1> QED
  BY <1>7, <1>11, <1>12, <1>13, <1>14, <1>15, <1>16, <1>17, <1>18, <1>19, <1>20
  DEF DeviceInv, Typed, EventsStep, StreamsStep

(* CopyToDevice returns: the usage of both buffers is recorded.             *)
LEMMA CopyToDeviceReturnStep ==
  ASSUME DeviceInv, NEW dst \in Buffers, CopyToDeviceReturn(dst)
  PROVE  DeviceInv'
<1>1. /\ call[dst].op = "copy" /\ buf[dst].st = "making" /\ dst \notin call[dst].ins
      /\ call[dst].ins \subseteq Buffers /\ \A i \in call[dst].ins : Made(i)
  BY CallFacts DEF CallFits, CopyToDeviceReturn
<1> DEFINE e == <<"written", dst>>
           D == IF Retain THEN {dst} ELSE {}
           S(i) == <<"d2d", buf[i].dev>>
           u == [i \in call[dst].ins |-> AddUsageEvent(ev, buf[dst].usage, S(i), e, Retain)]
           v == [i \in call[dst].ins |-> AddUsageEvent(ev, buf[i].usage, S(i), e, TRUE)]
<1>2. PICK src \in call[dst].ins :
        /\ buf' = [buf EXCEPT ![dst] = [buf[dst] EXCEPT !.st = "live", !.usage = u[src]],
                              ![src] = [buf[src] EXCEPT !.usage = v[src]]]
        /\ stream' = [stream EXCEPT ![S(src)] = stream[S(src)] \o Callback(D, {})]
  <2>1. PICK src \in call[dst].ins :
          /\ buf' = [buf EXCEPT ![dst].st = "live",
                ![dst].usage = AddUsageEvent(ev, @, S(src), e, Retain),
                ![src].usage = AddUsageEvent(ev, @, S(src), e, TRUE)]
          /\ stream' = [stream EXCEPT ![S(src)] = @ \o Callback(D, {})]
    BY DEF CopyToDeviceReturn
  <2>2. src # dst /\ src \in Buffers BY <1>1
  <2>3. buf \in [Buffers -> MadeBuffer \cup NoBuffer] BY DEF DeviceInv, Typed, BufTyped
  <2>4. Made(dst) BY <1>1, StMade DEF DeviceInv
  <2>5. buf' = [buf EXCEPT ![dst] = [buf[dst] EXCEPT !.st = "live", !.usage = u[src]],
                           ![src] = [buf[src] EXCEPT !.usage = v[src]]]
    BY <2>1, <2>2, <2>3, <2>4 DEF Made, MadeBuffer
  <2> QED BY <2>1, <2>5
<1> DEFINE s == S(src)
           r1 == [buf[dst] EXCEPT !.st = "live", !.usage = u[src]]
           r2 == [buf[src] EXCEPT !.usage = v[src]]
           C == Callback(D, {})
<1>3. /\ call' = [call EXCEPT ![dst] = NoCall]
      /\ UNCHANGED <<ev, mem, tasks, pool, callbacks, ready, literal, dependency>>
  BY DEF CopyToDeviceReturn
<1>4. src \in Buffers /\ src # dst /\ Made(src) /\ Made(dst) BY <1>1, StMade DEF DeviceInv
<1>5. /\ buf[src].dev \in Devices /\ buf[src].usage \in Seq(UsageEvent)
      /\ buf[dst].usage \in Seq(UsageEvent)
  BY <1>4, MadeFacts DEF DeviceInv
<1>6. s \in Streams /\ e \in Events BY <1>4, <1>5, NameFacts
<1>7. u[src] \in Seq(UsageEvent) /\ v[src] \in Seq(UsageEvent)
  <2>1. /\ u[src] = AddUsageEvent(ev, buf[dst].usage, s, e, Retain)
        /\ v[src] = AddUsageEvent(ev, buf[src].usage, s, e, TRUE)
    OBVIOUS
  <2>2. Retain \in BOOLEAN /\ TRUE \in BOOLEAN BY DEF Retain
  <2> HIDE DEF u, v, s, e
  <2>3. u[src] \in Seq(UsageEvent) BY <1>5, <1>6, <2>1, <2>2, AddUsageEventFacts
  <2>4. v[src] \in Seq(UsageEvent) BY <1>5, <1>6, <2>1, <2>2, AddUsageEventFacts
  <2> QED BY <2>3, <2>4
<1>8. D \in SUBSET Buffers /\ \A x \in D : x = dst OBVIOUS
<1> HIDE DEF u, v, e, D
<1>9. /\ r1 \in MadeBuffer /\ r1.st = "live" /\ r1.cell = buf[dst].cell
      /\ r1.defs = buf[dst].defs /\ r1.owns = buf[dst].owns
  BY <1>4, <1>7 DEF Made, MadeBuffer
<1>10. /\ r2 \in MadeBuffer /\ r2.st = buf[src].st /\ r2.cell = buf[src].cell
       /\ r2.defs = buf[src].defs /\ r2.owns = buf[src].owns
  BY <1>4, <1>7 DEF Made, MadeBuffer
<1>11. /\ buf' = [buf EXCEPT ![dst] = r1, ![src] = r2]
       /\ stream' = [stream EXCEPT ![s] = stream[s] \o C]
  BY <1>2
<1>12. {} \in SUBSET Cells OBVIOUS
<1>13. Piece(C, D, {}) BY <1>8, <1>12, CallbackPiece
<1> HIDE DEF r1, r2, s, C
<1>14. buf \in [Buffers -> MadeBuffer \cup NoBuffer] BY DEF DeviceInv, Typed, BufTyped
<1>15. /\ BufTyped' /\ buf'[dst] = r1 /\ buf'[src] = r2
       /\ \A x \in Buffers : x # dst /\ x # src => buf'[x] = buf[x]
  BY <1>4, <1>9, <1>10, <1>11, <1>14 DEF BufTyped
<1>16. /\ buf'[dst].st = "live"
       /\ \A x \in Buffers : /\ x # dst => buf'[x].st = buf[x].st
                             /\ buf'[x].cell = buf[x].cell /\ buf'[x].owns = buf[x].owns
                             /\ buf'[x].defs = buf[x].defs
  BY <1>9, <1>10, <1>15
<1>17. Persist
  <2>1. \A x \in Buffers : Made(x) => (Made(x))'
    BY <1>9, <1>10, <1>15 DEF Made
  <2> QED BY <1>16, <2>1 DEF Persist
<1>18. /\ CallTyped' /\ call'[dst] = NoCall
       /\ \A x \in Buffers : x # dst => call'[x] = call[x]
  BY <1>3, NoCallFacts, CallChanged
<1>19. EventsStep({}) BY <1>3, EventsStay DEF DeviceInv, Typed
<1>20. StreamsStep(D, {}) BY <1>3, <1>6, <1>11, <1>13, EnqueueOne DEF DeviceInv, Typed
<1>21. TasksTyped' /\ PoolTyped' /\ TasksFit' BY <1>3, <1>17, <1>19, TasksFitStay
<1>22. FuturesTyped' /\ MemTyped' /\ CbTyped'
  BY <1>3, Frames DEF FuturesTyped, DeviceInv, Typed
<1>23. DependenciesFit' BY <1>3, <1>17, <1>19, DependenciesStay
<1>24. CallsFit'
  <2>1. \A x \in Buffers : x # dst => CallFits(x)' BY <1>16, <1>17, <1>18, CallStays
  <2>2. CallFits(dst)' BY <1>18, NoCallFacts DEF CallFits, Awaits
  <2> QED BY <2>1, <2>2 DEF CallsFit
<1>25. Numbered'
  <2>1. \A x \in Buffers : Used(x)' <=> Used(x) BY <1>1, <1>16, <1>18 DEF Used
  <2> QED BY <2>1, NumberedStay DEF DeviceInv
<1>26. HoldsFit'
  <2>1. \A y \in Buffers : \/ call'[y] = call[y]
                           \/ call'[y].op # "execute" /\ call'[y].ins \subseteq call[y].ins
    BY <1>18, NoCallFacts
  <2>2. ASSUME NEW x \in Buffers, NEW i \in call[x].ins PROVE HeldStays(x, i)
    <3>1. i \in Buffers BY CallFacts
    <3>2. call[dst].op \notin {"delete", "release"} BY <1>1
    <3> QED BY <1>16, <1>18, <3>1, <3>2 DEF HeldStays
  <2>3. HoldsKept BY <2>1, <2>2 DEF HoldsKept
  <2> QED BY <2>3, HoldsStay
<1>27. Owning' BY <1>1, <1>16 DEF Owning, DeviceInv
<1>28. OneOwner'
  <2>1. ASSUME NEW x \in Buffers PROVE Alive(x)' => Alive(x)
    <3>1. buf'[x].st \in {"making", "live", "external"} => Alive(x)
      BY <1>1, <1>16 DEF Alive
    <3>2. call'[x].op \in {"delete", "release"} => Alive(x)
      BY <1>18, NoCallFacts DEF Alive
    <3>3. /\ \A t \in tasks' : x \in {t.buf, t.src} => Alive(x)
          /\ \A p \in pool' : p.op = "release" /\ p.buf = x => Alive(x)
      BY <1>3 DEF Alive
    <3>4. x \in D => Alive(x) BY <1>1, <1>8 DEF Alive
    <3> QED BY <1>20, <3>1, <3>2, <3>3, <3>4, AliveStays
  <2> QED BY <1>16, <1>20, <2>1, OwnersStay DEF DeviceInv
<1> QED
  BY <1>15, <1>18, <1>19, <1>20, <1>21, <1>22, <1>23, <1>24, <1>25, <1>26, <1>27, <1>28
  DEF DeviceInv, Typed, EventsStep, StreamsStep

-----------------------------------------------------------------------------
(* Steps that make a buffer.                                                *)
LEMMA NewBufferFacts ==
  ASSUME NEW st \in {"making", "live"}, NEW d \in Devices, NEW c \in Cells,
         NEW val \in 0..NumBuffers, NEW defs \in Seq(Events), defs # <<>>
  PROVE  \E r \in MadeBuffer : /\ r = NewBuffer(st, d, c, val, defs) /\ r.st = st
                               /\ r.cell = c /\ r.owns /\ r.defs = defs
<1> DEFINE r == NewBuffer(st, d, c, val, defs)
<1>1. <<>> \in Seq(UsageEvent) OBVIOUS
<1>2. r \in MadeBuffer /\ r.st = st /\ r.cell = c /\ r.owns /\ r.defs = defs
  BY <1>1 DEF NewBuffer, MadeBuffer
<1> HIDE DEF r
<1> QED BY <1>2 DEF r

(* The numbers of buffers.                                                  *)
LEMMA BufferNumbers == \A n \in Buffers : n \in 0..NumBuffers
BY BoundsAssumption DEF Buffers

(* The memory of the new buffer n belongs to no other that is still alive   *)
(* and to no callback, and F, which is given back, belongs to no buffer.    *)
OwnerTaken(n, F) ==
  /\ ~Frees(buf'[n].cell) /\ buf'[n].cell \notin F
  /\ \A b \in Buffers : b # n =>
       /\ buf'[b].owns => buf[b].owns
       /\ buf'[b].owns /\ Alive(b)' => Alive(b) /\ buf'[b].cell = buf[b].cell
       /\ buf'[b].owns /\ Alive(b) => buf[b].cell # buf'[n].cell /\ buf[b].cell \notin F

(* Then memory still has one owner.                                         *)
LEMMA OwnersNew ==
  ASSUME OneOwner, NEW n \in Buffers, NEW D, NEW F, StreamsStep(D, F), OwnerTaken(n, F)
  PROVE  OneOwner'
<1>1. ASSUME NEW b \in Buffers, NEW c \in Buffers, b # c, buf'[b].owns, buf'[c].owns,
             Alive(b)', Alive(c)'
      PROVE  buf'[b].cell # buf'[c].cell
  <2>1. CASE b = n BY <1>1, <2>1 DEF OwnerTaken
  <2>2. CASE c = n BY <1>1, <2>2 DEF OwnerTaken
  <2>3. CASE b # n /\ c # n BY <1>1, <2>3 DEF OwnerTaken, OneOwner
  <2> QED BY <2>1, <2>2, <2>3
<1>2. ASSUME NEW b \in Buffers, buf'[b].owns, Alive(b)', NEW c, c = buf'[b].cell
      PROVE  ~Frees(c)'
  <2>1. CASE b = n BY <1>2, <2>1 DEF OwnerTaken, StreamsStep
  <2>2. CASE b # n
    <3>1. /\ buf[b].owns /\ Alive(b) /\ buf'[b].cell = buf[b].cell
          /\ buf[b].cell \notin F
      BY <1>2, <2>2 DEF OwnerTaken
    <3>2. ~Frees(buf[b].cell) BY <3>1 DEF OneOwner, Frees
    <3> QED BY <1>2, <3>1, <3>2 DEF StreamsStep
  <2> QED BY <2>1, <2>2
<1> QED BY <1>1, <1>2 DEF OneOwner, Frees

(* A buffer in free memory, with the call that makes it or without.         *)
Creates(n, r, k, S) ==
  /\ n \in Buffers /\ ~Used(n) /\ r \in MadeBuffer /\ r.st \in {"making", "live"}
  /\ r.owns /\ Free(r.cell)
  /\ ((\A b \in Buffers : Used(b)' <=> Used(b) \/ b = n) => Numbered')
  /\ buf' = [buf EXCEPT ![n] = r] /\ call' = [call EXCEPT ![n] = k]
  /\ k \in Call
  /\ \/ k = NoCall
     \/ /\ k.op = "copy" /\ r.st = "making" /\ k.don = {} /\ n \notin k.ins
        /\ \A i \in k.ins : i \in Buffers /\ Made(i) /\ ~DonationHold(i)
  /\ EventsStep(S) /\ (\A b \in Buffers : <<"dependency", b>> \notin S)
  /\ StreamsStep({}, {})
  /\ \A t \in tasks' : \A b \in Buffers : b \in {t.buf, t.src} => b = n \/ Alive(b)
  /\ UNCHANGED <<mem, pool, callbacks, ready, literal, dependency>>

(* Making a buffer keeps the invariant.                                     *)
LEMMA CreatesInv ==
  ASSUME DeviceInv, NEW n, NEW r, NEW k, NEW S, Creates(n, r, k, S),
         TasksTyped' /\ PoolTyped' /\ TasksFit'
  PROVE  DeviceInv'
<1>1. /\ n \in Buffers /\ ~Used(n) /\ r \in MadeBuffer /\ r.st \in {"making", "live"}
      /\ r.owns /\ Free(r.cell)
      /\ buf' = [buf EXCEPT ![n] = r] /\ call' = [call EXCEPT ![n] = k] /\ k \in Call
  BY DEF Creates
<1>2. UNCHANGED <<mem, pool, callbacks, ready, literal, dependency>> BY DEF Creates
<1>3. ~Made(n) /\ buf[n].st = "unborn" /\ call[n] = NoCall
  BY <1>1, UnusedFacts DEF DeviceInv
<1>4. /\ BufTyped' /\ Persist /\ buf'[n] = r
      /\ \A x \in Buffers : x # n => buf'[x] = buf[x]
  BY <1>1, <1>3, BufferMade
<1>5. /\ CallTyped' /\ call'[n] = k /\ \A x \in Buffers : x # n => call'[x] = call[x]
  BY <1>1, CallChanged
<1>6. /\ EventsStep(S) /\ (\A b \in Buffers : <<"dependency", b>> \notin S)
      /\ StreamsStep({}, {})
  BY DEF Creates
<1>7. FuturesTyped' /\ MemTyped' /\ CbTyped'
  BY <1>2, Frames DEF FuturesTyped, DeviceInv, Typed
<1>8. DependenciesFit' BY <1>2, <1>4, <1>6, DependenciesStay
<1>9. CallsFit'
  <2>1. \A x \in Buffers : x # n => CallFits(x)' BY <1>4, <1>5, CallStays
  <2>2. CASE k = NoCall
    <3>1. CallFits(n)' BY <1>5, <2>2, NoCallFacts DEF CallFits, Awaits
    <3> QED BY <2>1, <3>1 DEF CallsFit
  <2>3. CASE /\ k.op = "copy" /\ r.st = "making" /\ k.don = {} /\ n \notin k.ins
             /\ \A i \in k.ins : i \in Buffers /\ Made(i) /\ ~DonationHold(i)
    <3>1. \A i \in k.ins : (Made(i))' BY <1>4, <2>3 DEF Persist
    <3>2. CallFits(n)' BY <1>4, <1>5, <2>3, <3>1 DEF CallFits, Awaits
    <3> QED BY <2>1, <3>2 DEF CallsFit
  <2> QED BY <2>2, <2>3 DEF Creates
<1>10. Numbered'
  <2>1. \A b \in Buffers : Used(b)' <=> Used(b) \/ b = n BY <1>1, <1>4, <1>5 DEF Used
  <2> QED BY <2>1 DEF Creates
<1>11. k.op \in {"none", "copy"} BY NoCallFacts DEF Creates
<1>12. HoldsFit'
  <2> SUFFICES ASSUME NEW x \in Buffers, call'[x].op = "execute" PROVE HoldFits(x)'
    BY DEF HoldsFit, HoldFits
  <2>1. x # n /\ call'[x] = call[x] BY <1>5, <1>11
  <2>2. /\ HoldFits(x) /\ CallFits(x) /\ call[x].ins \subseteq Buffers
        /\ call[x].don \subseteq call[x].ins
    BY CallFacts
  <2>3. \A b \in call[x].ins : b # n BY <1>3, <2>2 DEF CallFits
  <2>4. ASSUME NEW b \in call[x].don
        PROVE  buf'[b].st = "live" /\ \A y \in Buffers : y # x => b \notin call'[y].ins
    <3>1. b \in Buffers /\ buf[b].st = "live" /\ \A y \in Buffers : y # x => b \notin call[y].ins
      BY <2>1, <2>2 DEF HoldFits
    <3>2. \A i \in k.ins : ~DonationHold(i) BY NoCallFacts DEF Creates
    <3>3. b \notin k.ins BY <2>1, <3>2 DEF DonationHold
    <3> QED BY <1>4, <1>5, <2>2, <2>3, <3>1, <3>3
  <2>5. ASSUME NEW b \in call[x].ins \ call[x].don
        PROVE  buf'[b].st = "live" \/ call'[b].op \in {"delete", "release"}
    <3>1. b \in Buffers /\ (buf[b].st = "live" \/ call[b].op \in {"delete", "release"})
      BY <2>1, <2>2 DEF HoldFits
    <3> QED BY <1>4, <1>5, <2>3, <3>1
  <2> QED BY <2>1, <2>4, <2>5 DEF HoldFits
<1>13. Owning' BY <1>1, <1>4 DEF Owning, DeviceInv
<1>14. OneOwner'
  <2>1. ASSUME NEW b \in Buffers, b # n PROVE Alive(b)' => Alive(b)
    <3>1. buf'[b].st \in {"making", "live", "external"} => Alive(b)
      BY <1>4, <2>1 DEF Alive
    <3>2. call'[b].op \in {"delete", "release"} => Alive(b) BY <1>5, <2>1 DEF Alive
    <3>3. \A t \in tasks' : b \in {t.buf, t.src} => Alive(b) BY <2>1 DEF Creates
    <3>4. \A p \in pool' : p.op = "release" /\ p.buf = b => Alive(b) BY <1>2 DEF Alive
    <3>5. b \in {} => Alive(b) OBVIOUS
    <3> QED BY <1>6, <3>1, <3>2, <3>3, <3>4, <3>5, AliveStays
  <2>2. /\ \A b \in Buffers : buf[b].owns /\ Alive(b) => buf[b].cell # r.cell
        /\ ~Frees(r.cell)
    BY <1>1 DEF Free, Owned, Frees
  <2>3. OwnerTaken(n, {}) BY <1>4, <2>1, <2>2 DEF OwnerTaken
  <2> QED BY <1>1, <1>6, <2>3, OwnersNew DEF DeviceInv
<1> QED
  BY <1>4, <1>5, <1>6, <1>7, <1>8, <1>9, <1>10, <1>12, <1>13, <1>14
  DEF DeviceInv, Typed, EventsStep, StreamsStep

(* BufferFromHostBuffer.                                                    *)
LEMMA BufferFromHostBufferStep ==
  ASSUME DeviceInv, NEW d \in Devices, BufferFromHostBuffer(d)
  PROVE  DeviceInv'
<1>1. PICK n \in Buffers :
        /\ n = New /\ ~Used(n)
        /\ ((\A b \in Buffers : Used(b)' <=> Used(b) \/ b = n) => Numbered')
  BY NewFacts DEF BufferFromHostBuffer, DeviceInv
<1> DEFINE e == <<"written", n>>
<1>2. PICK c \in Cells : /\ Free(c)
                         /\ buf' = [buf EXCEPT ![n] = NewBuffer("live", d, c, n, <<e>>)]
  BY <1>1 DEF BufferFromHostBuffer
<1>3. /\ stream' = Join(d, <<"h2d", d>>, n, <<>>)
      /\ tasks' = tasks \cup {[kind |-> "h2d", buf |-> n, src |-> n, on |-> e,
                               at |-> "queued"]}
      /\ UNCHANGED <<ev, mem, call, pool, callbacks, ready, literal, dependency>>
  BY <1>1 DEF BufferFromHostBuffer
<1>4. e \in Events /\ n \in 0..NumBuffers BY NameFacts, BufferNumbers
<1> HIDE DEF e
<1>5. <<e>> \in Seq(Events) /\ <<e>> # <<>> BY <1>4
<1>6. PICK r \in MadeBuffer : /\ r = NewBuffer("live", d, c, n, <<e>>) /\ r.st = "live"
                              /\ r.cell = c /\ r.owns
  <2> DEFINE defs == <<e>>
  <2>1. "live" \in {"making", "live"} /\ defs \in Seq(Events) /\ defs # <<>> BY <1>5
  <2> HIDE DEF defs
  <2>2. \E r \in MadeBuffer : /\ r = NewBuffer("live", d, c, n, defs) /\ r.st = "live"
                              /\ r.cell = c /\ r.owns /\ r.defs = defs
    BY <1>4, <2>1, NewBufferFacts
  <2> QED BY <2>2 DEF defs
<1>7. PICK t \in Task : /\ t = [kind |-> "h2d", buf |-> n, src |-> n, on |-> e, at |-> "queued"]
                        /\ t.at = "queued" /\ t.kind = "h2d" /\ t.buf = n /\ t.src = n
  <2> DEFINE t == [kind |-> "h2d", buf |-> n, src |-> n, on |-> e, at |-> "queued"]
  <2>1. t \in Task /\ t.at = "queued" /\ t.kind = "h2d" /\ t.buf = n /\ t.src = n
    BY <1>4 DEF Task
  <2> HIDE DEF t
  <2> QED BY <2>1 DEF t
<1>8. tasks' = tasks \cup {t} BY <1>3, <1>7
<1>9. buf' = [buf EXCEPT ![n] = r] BY <1>2, <1>6
<1>10. buf[n].st = "unborn" /\ call[n] = NoCall BY <1>1, UnusedFacts DEF DeviceInv
<1>11. Persist /\ buf'[n] = r BY <1>6, <1>9, <1>10, BufferMade
<1>12. EventsStep({}) BY <1>3, EventsStay DEF DeviceInv, Typed
<1>13. TaskFits(t)' BY <1>6, <1>7, <1>11 DEF TaskFits, Made
<1>14. TasksTyped' /\ PoolTyped' /\ TasksFit'
  BY <1>3, <1>7, <1>8, <1>11, <1>12, <1>13, TasksFitMore
<1>15. StreamsStep({}, {})
  <2>1. <<"h2d", d>> \in Streams /\ <<"h2d", d>> # <<"compute", d>> BY NameFacts
  <2> QED BY <1>3, <2>1, JoinStep DEF DeviceInv, Typed
<1>16. call' = [call EXCEPT ![n] = NoCall]
  BY <1>3, <1>10 DEF DeviceInv, Typed, CallTyped
<1>17. \A u \in tasks' : \A b \in Buffers : b \in {u.buf, u.src} => b = n \/ Alive(b)
  BY <1>7, <1>8 DEF Alive
<1>18. Creates(n, r, NoCall, {})
  BY <1>1, <1>2, <1>3, <1>6, <1>9, <1>12, <1>15, <1>16, <1>17, NoCallFacts DEF Creates
<1> QED BY <1>14, <1>18, CreatesInv

(* CreateErrorBuffer.                                                       *)
LEMMA CreateErrorBufferStep ==
  ASSUME DeviceInv, NEW d \in Devices, CreateErrorBuffer(d)
  PROVE  DeviceInv'
<1>1. PICK n \in Buffers :
        /\ n = New /\ ~Used(n)
        /\ ((\A b \in Buffers : Used(b)' <=> Used(b) \/ b = n) => Numbered')
  BY NewFacts DEF CreateErrorBuffer, DeviceInv
<1> DEFINE e == <<"written", n>>
           a == <<"allocated", n>>
           s == <<"compute", d>>
           err == [ev EXCEPT ![e].status = "error"]
<1>2. PICK c \in Cells, defs \in {<<e>>, <<e, a>>} :
        /\ Free(c) /\ buf' = [buf EXCEPT ![n] = NewBuffer("live", d, c, n, defs)]
        /\ \/ /\ ev' = SetSequencingEvent(err, a, s)
              /\ stream' = [stream EXCEPT ![s] = stream[s] \o Record(a)]
           \/ ev' = err /\ stream' = stream
  BY <1>1, Zenon DEF CreateErrorBuffer
<1>3. UNCHANGED <<mem, tasks, call, pool, callbacks, ready, literal, dependency>>
  BY DEF CreateErrorBuffer
<1>4. e \in Events /\ a \in Events /\ n \in 0..NumBuffers /\ s \in Streams
  BY NameFacts, BufferNumbers
<1>5. e # a /\ \A b \in Buffers : <<"dependency", b>> \notin {e, a} OBVIOUS
<1> HIDE DEF e, a, s
<1>6. defs \in Seq(Events) /\ defs # <<>>
  <2>1. CASE defs = <<e>> BY <1>4, <2>1
  <2>2. CASE defs = <<e, a>> BY <1>4, <2>2
  <2> QED BY <2>1, <2>2
<1>7. PICK r \in MadeBuffer : /\ r = NewBuffer("live", d, c, n, defs) /\ r.st = "live"
                              /\ r.cell = c /\ r.owns
  BY <1>4, <1>6, NewBufferFacts
<1>8. buf' = [buf EXCEPT ![n] = r] BY <1>2, <1>7
<1>9. buf[n].st = "unborn" /\ call[n] = NoCall BY <1>1, UnusedFacts DEF DeviceInv
<1>10. Persist BY <1>7, <1>8, <1>9, BufferMade
<1>11. /\ err \in [Events -> Event] /\ err[e].status = "error"
       /\ \A x \in Events : x # e => err[x] = ev[x]
  <2>1. ev \in [Events -> Event] BY DEF DeviceInv, Typed, EvTyped
  <2> DEFINE q == [ev[e] EXCEPT !.status = "error"]
  <2>2. q \in Event /\ q.status = "error" BY <1>4, <2>1 DEF Event
  <2>3. err = [ev EXCEPT ![e] = q] OBVIOUS
  <2> HIDE DEF q, err
  <2> QED BY <1>4, <2>1, <2>2, <2>3
<1> HIDE DEF err
<1>12. PICK S \in {{e}, {e, a}} : EventsStep(S)
  <2>1. CASE ev' = err
    <3>1. EventsStep({e}) BY <1>11, <2>1 DEF EventsStep, EvTyped
    <3> QED BY <3>1
  <2>2. CASE ev' = SetSequencingEvent(err, a, s)
    <3>1. /\ ev' \in [Events -> Event] /\ ev'[a].status = "ok"
          /\ \A x \in Events : x # a => ev'[x] = err[x]
      BY <1>4, <1>11, <2>2, SetFacts
    <3>2. EventsStep({e, a}) BY <1>4, <1>5, <1>11, <3>1 DEF EventsStep, EvTyped
    <3> QED BY <3>2
  <2> QED BY <1>2, <2>1, <2>2
<1>13. TasksTyped' /\ PoolTyped' /\ TasksFit' BY <1>3, <1>10, <1>12, TasksFitStay
<1>14. StreamsStep({}, {})
  <2>1. CASE stream' = stream BY <1>3, <2>1, StreamsStay DEF DeviceInv, Typed
  <2>2. CASE stream' = [stream EXCEPT ![s] = stream[s] \o Record(a)]
    <3>1. Piece(Record(a), {}, {}) BY <1>4, RecordPiece
    <3> QED BY <1>3, <1>4, <2>2, <3>1, EnqueueOne DEF DeviceInv, Typed
  <2> QED BY <1>2, <2>1, <2>2
<1>15. call' = [call EXCEPT ![n] = NoCall]
  BY <1>3, <1>9 DEF DeviceInv, Typed, CallTyped
<1>16. \A u \in tasks' : \A b \in Buffers : b \in {u.buf, u.src} => b = n \/ Alive(b)
  BY <1>3 DEF Alive
<1>17. \A b \in Buffers : <<"dependency", b>> \notin S BY <1>5
<1>18. Creates(n, r, NoCall, S)
  BY <1>1, <1>2, <1>3, <1>7, <1>8, <1>12, <1>14, <1>15, <1>16, <1>17, NoCallFacts
  DEF Creates
<1> QED BY <1>13, <1>18, CreatesInv

(* CopyToDevice, up to the point where the copy is scheduled.               *)
LEMMA CopyToDeviceStep ==
  ASSUME DeviceInv, NEW src \in Buffers, NEW d \in Devices, CopyToDevice(src, d)
  PROVE  DeviceInv'
<1>1. PICK n \in Buffers :
        /\ n = New /\ ~Used(n)
        /\ ((\A b \in Buffers : Used(b)' <=> Used(b) \/ b = n) => Numbered')
  BY NewFacts DEF CopyToDevice, DeviceInv
<1> DEFINE e == <<"written", n>>
           s == <<"d2d", buf[src].dev>>
<1>2. PICK c \in Cells : /\ Free(c)
                         /\ buf' = [buf EXCEPT ![n] = NewBuffer("making", d, c, n, <<e>>)]
  BY <1>1 DEF CopyToDevice
<1>3. /\ buf[src].st = "live" /\ ~DonationHold(src) /\ stream' = Join(d, s, n, <<>>)
      /\ tasks' = tasks \cup {Scheduled(<<"copy", n, src>>, buf[src].defs[1])}
      /\ call' = [call EXCEPT ![n] = [op |-> "copy", ins |-> {src}, don |-> {}]]
      /\ UNCHANGED <<ev, mem, pool, callbacks, ready, literal, dependency>>
  BY <1>1 DEF CopyToDevice, Live
<1>4. e \in Events /\ n \in 0..NumBuffers BY NameFacts, BufferNumbers
<1>5. Made(src) BY <1>3, StMade DEF DeviceInv
<1>6. buf[src].defs[1] \in Events /\ buf[src].dev \in Devices
  BY <1>5, MadeFacts DEF DeviceInv
<1>7. s \in Streams /\ s # <<"compute", d>> BY <1>6, NameFacts
<1> HIDE DEF e, s
<1>8. <<e>> \in Seq(Events) /\ <<e>> # <<>> BY <1>4
<1>9. PICK r \in MadeBuffer : /\ r = NewBuffer("making", d, c, n, <<e>>)
                              /\ r.st = "making" /\ r.cell = c /\ r.owns
  <2> DEFINE defs == <<e>>
  <2>1. "making" \in {"making", "live"} /\ defs \in Seq(Events) /\ defs # <<>> BY <1>8
  <2> HIDE DEF defs
  <2>2. \E r \in MadeBuffer : /\ r = NewBuffer("making", d, c, n, defs) /\ r.st = "making"
                              /\ r.cell = c /\ r.owns /\ r.defs = defs
    BY <1>4, <2>1, NewBufferFacts
  <2> QED BY <2>2 DEF defs
<1>10. PICK t \in Task :
         /\ t = Scheduled(<<"copy", n, src>>, buf[src].defs[1])
         /\ t.at # "running" /\ t.kind = "copy" /\ t.buf = n /\ t.src = src
         /\ t.on = buf[src].defs[1] /\ (t.at # "deferred" => ev[t.on].status # "none")
  BY <1>6, ScheduledFacts
<1>11. tasks' = tasks \cup {t} BY <1>3, <1>10
<1>12. buf' = [buf EXCEPT ![n] = r] BY <1>2, <1>9
<1>13. buf[n].st = "unborn" /\ call[n] = NoCall BY <1>1, UnusedFacts DEF DeviceInv
<1>14. Persist /\ buf'[n] = r BY <1>9, <1>12, <1>13, BufferMade
<1>15. EventsStep({}) BY <1>3, EventsStay DEF DeviceInv, Typed
<1>16. TaskFits(t)'
  <2>1. (Made(src))' BY <1>5, <1>14 DEF Persist
  <2> QED BY <1>3, <1>9, <1>10, <1>14, <2>1 DEF TaskFits, Made
<1>17. TasksTyped' /\ PoolTyped' /\ TasksFit'
  BY <1>3, <1>10, <1>11, <1>14, <1>15, <1>16, TasksFitMore
<1>18. StreamsStep({}, {}) BY <1>3, <1>7, JoinStep DEF DeviceInv, Typed
<1>19. PICK k \in Call : /\ k = [op |-> "copy", ins |-> {src}, don |-> {}]
                         /\ k.op = "copy" /\ k.ins = {src} /\ k.don = {}
  <2> DEFINE k == [op |-> "copy", ins |-> {src}, don |-> {}]
  <2>1. k \in Call /\ k.op = "copy" /\ k.ins = {src} /\ k.don = {} BY DEF Call
  <2> HIDE DEF k
  <2> QED BY <2>1 DEF k
<1>20. call' = [call EXCEPT ![n] = k] BY <1>3, <1>19
<1>21. src # n BY <1>3, <1>13
<1>22. \A u \in tasks' : \A b \in Buffers : b \in {u.buf, u.src} => b = n \/ Alive(b)
  <2>1. Alive(src) BY <1>3 DEF Alive
  <2>2. \A u \in tasks : \A b \in Buffers : b \in {u.buf, u.src} => Alive(b) BY DEF Alive
  <2> QED BY <1>10, <1>11, <2>1, <2>2
<1>23. Creates(n, r, k, {})
  BY <1>1, <1>2, <1>3, <1>5, <1>9, <1>12, <1>15, <1>18, <1>19, <1>20, <1>21, <1>22
  DEF Creates
<1> QED BY <1>17, <1>23, CreatesInv

(* ConfirmDonation of a buffer that was made.                               *)
LEMMA DonatedFacts ==
  ASSUME NEW b \in Buffers, Made(b)
  PROVE  \E r \in MadeBuffer : /\ r = ConfirmDonation(b) /\ r.st = "gone" /\ ~r.owns
                               /\ r.defs = buf[b].defs
<1> DEFINE r == ConfirmDonation(b)
<1>1. <<>> \in Seq(UsageEvent) OBVIOUS
<1>2. PICK u \in Seq(UsageEvent) : u = <<>> BY <1>1
<1>3. r = [buf[b] EXCEPT !.st = "gone", !.usage = u, !.owns = FALSE]
  BY <1>2 DEF ConfirmDonation
<1> HIDE DEF r
<1>4. r \in MadeBuffer /\ r.st = "gone" /\ ~r.owns /\ r.defs = buf[b].defs
  BY <1>3 DEF Made, MadeBuffer
<1> QED BY <1>4 DEF r

(* DonateWithControlDependency: the memory goes from b to the new buffer.   *)
LEMMA DonateWithControlDependencyStep ==
  ASSUME DeviceInv, NEW b \in Buffers, DonateWithControlDependency(b)
  PROVE  DeviceInv'
<1>1. PICK n \in Buffers :
        /\ n = New /\ ~Used(n)
        /\ ((\A x \in Buffers : Used(x)' <=> Used(x) \/ x = n) => Numbered')
  BY NewFacts DEF DonateWithControlDependency, DeviceInv
<1> DEFINE e == <<"dependency", n>>
           defs == <<e>> \o buf[b].defs
<1>2. /\ buf[b].st = "live" /\ ~DonationHold(b) /\ ~UsageHold(b)
      /\ buf' = [buf EXCEPT ![b] = ConfirmDonation(b),
           ![n] = NewBuffer("live", buf[b].dev, buf[b].cell, buf[b].val, defs)]
      /\ dependency' = [dependency EXCEPT ![n] = "pending"]
      /\ UNCHANGED <<ev, stream, mem, tasks, call, pool, callbacks, ready, literal>>
  BY <1>1 DEF DonateWithControlDependency, Live
<1>3. Made(b) BY <1>2, StMade DEF DeviceInv
<1>4. /\ buf[b].dev \in Devices /\ buf[b].cell \in Cells /\ buf[b].val \in 0..NumBuffers
      /\ buf[b].defs \in Seq(Events)
  BY <1>3, MadeFacts DEF DeviceInv
<1>5. e \in Events BY NameFacts
<1>6. \A x \in Buffers : x # n => <<"dependency", x>> # e OBVIOUS
<1> HIDE DEF e
<1>7. defs \in Seq(Events) /\ defs # <<>> /\ defs[1] = e BY <1>4, <1>5
<1> HIDE DEF defs
<1>8. PICK r1 \in MadeBuffer : /\ r1 = ConfirmDonation(b) /\ r1.st = "gone" /\ ~r1.owns
                               /\ r1.defs = buf[b].defs
  BY <1>3, DonatedFacts
<1>9. PICK r2 \in MadeBuffer :
        /\ r2 = NewBuffer("live", buf[b].dev, buf[b].cell, buf[b].val, defs)
        /\ r2.st = "live" /\ r2.cell = buf[b].cell /\ r2.owns /\ r2.defs = defs
  BY <1>4, <1>7, NewBufferFacts
<1>10. ~Made(n) /\ buf[n].st = "unborn" /\ call[n] = NoCall
  BY <1>1, UnusedFacts DEF DeviceInv
<1>11. buf' = [buf EXCEPT ![b] = r1, ![n] = r2] BY <1>2, <1>8, <1>9
<1>12. buf \in [Buffers -> MadeBuffer \cup NoBuffer] /\ b # n
  BY <1>2, <1>10 DEF DeviceInv, Typed, BufTyped
<1>13. /\ BufTyped' /\ buf'[b] = r1 /\ buf'[n] = r2
       /\ \A x \in Buffers : x # b /\ x # n => buf'[x] = buf[x]
  BY <1>11, <1>12 DEF BufTyped
<1>14. Persist BY <1>8, <1>9, <1>10, <1>12, <1>13 DEF Persist, Made
<1>15. EventsStep({}) BY <1>2, EventsStay DEF DeviceInv, Typed
<1>16. StreamsStep({}, {}) BY <1>2, StreamsStay DEF DeviceInv, Typed
<1>17. TasksTyped' /\ PoolTyped' /\ TasksFit' BY <1>2, <1>14, <1>15, TasksFitStay
<1>18. FuturesTyped' /\ MemTyped' /\ CbTyped' /\ CallTyped'
  BY <1>2, Frames DEF FuturesTyped, DeviceInv, Typed, CallTyped, Future
<1>19. DependenciesFit'
  <2> SUFFICES ASSUME NEW x \in Buffers PROVE DependencyFits(x)' BY DEF DependenciesFit
  <2>1. DependencyFits(x) BY DEF DeviceInv, DependenciesFit
  <2>2. dependency \in [Buffers -> Future] BY DEF DeviceInv, Typed, FuturesTyped
  <2>3. CASE x = n
    <3>1. dependency[n] = "none" /\ ready[n] # "ok"
      BY <1>10, <2>1, <2>3 DEF DependencyFits
    <3>2. ev[e].seq = 0 /\ ev[e].status = "none"
      BY <2>1, <2>3, <3>1 DEF DependencyFits, e
    <3>3. (Made(n))' /\ buf'[n].defs[1] = e BY <1>7, <1>9, <1>13 DEF Made
    <3> QED BY <1>2, <2>3, <3>1, <3>2, <3>3 DEF DependencyFits, e
  <2>4. CASE x # n
    <3>1. dependency'[x] = dependency[x] BY <1>2, <2>2, <2>4
    <3>2. /\ Made(x) => (Made(x))' /\ buf'[x].defs = buf[x].defs
          /\ buf[x].st # "unborn" => buf'[x].st # "unborn"
      BY <1>14 DEF Persist
    <3> QED BY <1>2, <2>1, <3>1, <3>2 DEF DependencyFits
  <2> QED BY <2>3, <2>4
<1>20. call[b].op \in {"none"} \cup Awaits /\ buf'[b].st = "gone"
  BY <1>2, <1>8, <1>13, CallFacts
<1>21. CallsFit'
  <2>1. \A x \in Buffers : call[x].op # "none" =>
          buf'[x].st = buf[x].st \/ (call[x].op \in Awaits /\ buf'[x].st = "gone")
    BY <1>10, <1>13, <1>20, NoCallFacts
  <2> QED BY <1>2, <1>14, <2>1, CallStays DEF CallsFit
<1>22. Numbered'
  <2>1. \A x \in Buffers : Used(x)' <=> Used(x) \/ x = n
    BY <1>2, <1>8, <1>9, <1>13 DEF Used
  <2> QED BY <1>1, <2>1
<1>23. HoldsFit'
  <2>1. ASSUME NEW x \in Buffers, call[x].op = "execute", NEW i \in call[x].ins
        PROVE  HeldStays(x, i)
    <3>1. i \in Buffers BY CallFacts
    <3>2. i # b BY <1>2, <2>1 DEF UsageHold, DonationHold
    <3>3. i # n BY <1>10, <2>1, CallFacts DEF CallFits
    <3> QED BY <1>2, <1>13, <3>1, <3>2, <3>3 DEF HeldStays
  <2>2. HoldsKept BY <1>2, <2>1 DEF HoldsKept
  <2> QED BY <2>2, HoldsStay
<1>24. Owning' BY <1>8, <1>9, <1>13 DEF Owning, DeviceInv
<1>25. OneOwner'
  <2>1. ASSUME NEW x \in Buffers, x # n PROVE Alive(x)' => Alive(x)
    <3>1. buf'[x].st \in {"making", "live", "external"} => Alive(x)
      BY <1>8, <1>13, <2>1 DEF Alive
    <3>2. /\ call'[x].op \in {"delete", "release"} => Alive(x)
          /\ \A t \in tasks' : x \in {t.buf, t.src} => Alive(x)
          /\ \A p \in pool' : p.op = "release" /\ p.buf = x => Alive(x)
      BY <1>2 DEF Alive
    <3>3. x \in {} => Alive(x) OBVIOUS
    <3> QED BY <1>16, <3>1, <3>2, <3>3, AliveStays
  <2>2. Alive(b) /\ buf[b].owns BY <1>2 DEF Alive, DeviceInv, Owning
  <2>3. \A x \in Buffers : x # b /\ buf[x].owns /\ Alive(x) => buf[x].cell # r2.cell
    BY <1>9, <2>2 DEF DeviceInv, OneOwner
  <2>4. ~Frees(r2.cell) BY <1>9, <2>2 DEF DeviceInv, OneOwner, Frees
  <2>5. OwnerTaken(n, {}) BY <1>8, <1>13, <2>1, <2>3, <2>4 DEF OwnerTaken
  <2> QED BY <1>16, <2>5, OwnersNew DEF DeviceInv
<1> QED
  BY <1>13, <1>15, <1>16, <1>17, <1>18, <1>19, <1>21, <1>22, <1>23, <1>24, <1>25
  DEF DeviceInv, Typed, EventsStep, StreamsStep

(* ExecuteHelper: the output takes free memory or that of a donated         *)
(* argument, which owns nothing afterwards.                                 *)
LEMMA ExecuteHelperStep ==
  ASSUME DeviceInv, NEW out \in Buffers, ExecuteHelper(out)
  PROVE  DeviceInv'
<1> DEFINE ins == call[out].ins
           don == call[out].don
           d   == buf[CHOOSE b \in ins : TRUE].dev
           s   == <<"compute", d>>
           e   == <<"written", out>>
           E   == ExecutionEvents(ins, don)
           evs == SetSequencingEvent(DefinedOn(s, E), e, s)
           kept == IF Retain THEN {out} \cup (ins \ don) ELSE {}
           used(b) == [buf[b] EXCEPT !.usage = AddUsageEvent(evs, buf[b].usage, s, e, Retain)]
           reads == {Contents(b) : b \in ins}
<1>1. call[out].op = "execute" BY Zenon DEF ExecuteHelper
<1>2. PICK c \in Cells, back \in SUBSET Cells :
        /\ \/ (\E b \in don : buf[b].cell = c) /\ back = {}
           \/ Free(c) /\ \A x \in back : \E b \in don : x = buf[b].cell
        /\ buf' = [b \in Buffers |->
             CASE b = out -> [NewBuffer("live", d, c, out, <<e>>) EXCEPT !.usage =
                                AddUsageEvent(evs, <<>>, s, e, Retain)]
               [] b \in don -> ConfirmDonation(b)
               [] b \in ins \ don -> used(b)
               [] OTHER -> buf[b]]
        /\ stream' = [stream EXCEPT ![s] =
             ((stream[s] \o Waits(s, E)) \o Access(reads, {[cell |-> c, val |-> out]}, e))
               \o Callback(kept, back)]
  <2>1. PICK c \in Cells :
          LET alias == \E b \in don : buf[b].cell = c
              back  == IF Retain /\ ~alias THEN {buf[b].cell : b \in don} ELSE {}
              made  == NewBuffer("live", d, c, out, <<e>>)
          IN  /\ (alias \/ Free(c))
              /\ buf' = [b \in Buffers |->
                   CASE b = out -> [made EXCEPT !.usage =
                                      AddUsageEvent(evs, <<>>, s, e, Retain)]
                     [] b \in don -> ConfirmDonation(b)
                     [] b \in ins \ don -> used(b)
                     [] OTHER -> buf[b]]
              /\ stream' = [stream EXCEPT ![s] =
                   ((stream[s] \o Waits(s, E))
                      \o Access(reads, {[cell |-> c, val |-> out]}, e))
                     \o Callback(kept, back)]
    BY Zenon DEF ExecuteHelper
  <2> DEFINE back == IF Retain /\ ~(\E b \in don : buf[b].cell = c)
                     THEN {buf[b].cell : b \in don} ELSE {}
  <2>2. back \in SUBSET Cells
    <3>1. don \subseteq ins /\ ins \subseteq Buffers /\ \A b \in ins : Made(b)
      BY <1>1, ExecutionFacts
    <3> HIDE DEF ins, don
    <3>2. \A b \in don : buf[b].cell \in Cells BY <3>1, MadeFacts DEF DeviceInv
    <3> QED BY <3>2
  <2>3. \/ (\E b \in don : buf[b].cell = c) /\ back = {}
        \/ Free(c) /\ \A x \in back : \E b \in don : x = buf[b].cell
    BY <2>1, Zenon
  <2> QED BY <2>1, <2>2, <2>3, Zenon
<1>3. /\ ev' = evs /\ call' = [call EXCEPT ![out] = NoCall]
      /\ UNCHANGED <<mem, tasks, pool, callbacks, ready, literal, dependency>>
  BY Zenon DEF ExecuteHelper
<1>4. /\ buf[out].st = "unborn" /\ ~Made(out) /\ ins \subseteq Buffers /\ don \subseteq ins
      /\ \A b \in ins : Made(b) /\ b # out /\ Alive(b)
  BY <1>1, ExecutionFacts
<1>5. d \in Devices /\ E \in SUBSET Events BY <1>1, ExecutionFacts
<1>6. s \in Streams /\ e \in Events /\ out \in 0..NumBuffers
  BY <1>5, NameFacts, BufferNumbers
<1>7. \A b \in Buffers : <<"dependency", b>> # e OBVIOUS
<1>8. \A b \in don : /\ buf[b].st = "live" /\ Alive(b) /\ buf[b].owns
                     /\ \A y \in Buffers : y # out => b \notin call[y].ins
  <2>1. HoldFits(out) BY CallFacts
  <2> QED BY <1>1, <1>4, <2>1 DEF HoldFits, DeviceInv, Owning
<1> HIDE DEF d, E, s, e
<1>9. EventsStep({e}) BY <1>3, <1>6, SetStep DEF DeviceInv, Typed
<1> HIDE DEF evs, ins, don
<1>10. \A u \in Seq(UsageEvent) : AddUsageEvent(evs, u, s, e, Retain) \in Seq(UsageEvent)
  <2>1. Retain \in BOOLEAN BY DEF Retain
  <2> QED BY <1>6, <2>1, AddUsageEventFacts
(* The buffers after the step.                                              *)
<1>11. /\ buf'[out] \in MadeBuffer /\ buf'[out].st = "live" /\ buf'[out].cell = c
       /\ buf'[out].owns
  <2> DEFINE defs == <<e>>
             u == AddUsageEvent(evs, <<>>, s, e, Retain)
  <2>1. "live" \in {"making", "live"} /\ defs \in Seq(Events) /\ defs # <<>> BY <1>6
  <2>2. buf'[out] = [NewBuffer("live", d, c, out, defs) EXCEPT !.usage = u] BY <1>2, <1>4
  <2>3. <<>> \in Seq(UsageEvent) OBVIOUS
  <2>4. u \in Seq(UsageEvent) BY <1>10, <2>3
  <2> HIDE DEF defs, u
  <2>5. PICK r \in MadeBuffer : /\ r = NewBuffer("live", d, c, out, defs) /\ r.st = "live"
                                /\ r.cell = c /\ r.owns /\ r.defs = defs
    BY <1>5, <1>6, <2>1, NewBufferFacts
  <2>6. buf'[out] = [r EXCEPT !.usage = u] BY <2>2, <2>5
  <2> QED BY <2>4, <2>5, <2>6 DEF MadeBuffer
<1>12. ASSUME NEW b \in don
       PROVE  /\ buf'[b] \in MadeBuffer /\ buf'[b].st = "gone" /\ ~buf'[b].owns
              /\ buf'[b].defs = buf[b].defs
  <2>1. b \in Buffers /\ b # out /\ Made(b) BY <1>4
  <2>2. buf'[b] = ConfirmDonation(b) BY <1>2, <2>1
  <2> QED BY <2>1, <2>2, DonatedFacts
<1>13. ASSUME NEW b \in ins \ don
       PROVE  /\ buf'[b] \in MadeBuffer /\ buf'[b].st = buf[b].st /\ buf'[b].defs = buf[b].defs
              /\ buf'[b].owns = buf[b].owns /\ buf'[b].cell = buf[b].cell
  <2> DEFINE u == AddUsageEvent(evs, buf[b].usage, s, e, Retain)
  <2>1. b \in Buffers /\ b # out /\ Made(b) BY <1>4
  <2>2. buf[b].usage \in Seq(UsageEvent) BY <2>1, MadeFacts DEF DeviceInv
  <2>3. u \in Seq(UsageEvent) BY <1>10, <2>2
  <2>4. buf'[b] = [buf[b] EXCEPT !.usage = u] BY <1>2, <2>1
  <2> HIDE DEF u
  <2> QED BY <2>1, <2>3, <2>4 DEF Made, MadeBuffer
<1>14. \A b \in Buffers : b # out /\ b \notin ins => buf'[b] = buf[b] BY <1>2, <1>4
<1>15. buf \in [Buffers -> MadeBuffer \cup NoBuffer] BY DEF DeviceInv, Typed, BufTyped
<1>16. BufTyped'
  <2>1. \A b \in Buffers : buf'[b] \in MadeBuffer \cup NoBuffer
    BY <1>11, <1>12, <1>13, <1>14, <1>15
  <2>2. DOMAIN buf' = Buffers /\ buf' = [b \in Buffers |-> buf'[b]] BY <1>2
  <2> QED BY <2>1, <2>2 DEF BufTyped
<1>17. Persist
  <2> SUFFICES ASSUME NEW b \in Buffers
               PROVE  /\ Made(b) => (Made(b))' /\ buf'[b].defs = buf[b].defs
                      /\ buf[b].st # "unborn" => buf'[b].st # "unborn"
    BY DEF Persist
  <2>1. \A r \in MadeBuffer : r.st # "unborn" BY DEF MadeBuffer
  <2> QED BY <1>4, <1>11, <1>12, <1>13, <1>14, <2>1 DEF Made
<1>18. /\ CallTyped' /\ call'[out] = NoCall
       /\ \A x \in Buffers : x # out => call'[x] = call[x]
  BY <1>3, NoCallFacts, CallChanged
<1>19. kept \in SUBSET Buffers /\ \A b \in kept : b # out => Alive(b) BY <1>4
<1>20. StreamsStep(kept, back)
  <2> DEFINE writes == {[cell |-> c, val |-> out]}
             W == Waits(s, E)
             A == Access(reads, writes, e)
             C == Callback(kept, back)
  <2>1. reads \in SUBSET Memory BY <1>4, MadeFacts DEF DeviceInv
  <2>2. writes \in SUBSET Memory BY <1>6 DEF Memory
  <2>3. stream' = [stream EXCEPT ![s] = ((stream[s] \o W) \o A) \o C] BY <1>2
  <2> HIDE DEF kept, reads, writes
  <2>4. Piece(W, kept, back) BY <1>5, WaitsPiece
  <2>5. Piece(A, kept, back) BY <1>6, <2>1, <2>2, AccessPiece
  <2>6. Piece(C, kept, back) BY <1>19, CallbackPiece
  <2> HIDE DEF W, A, C
  <2>7. StreamTyped /\ callbacks' = callbacks BY <1>3 DEF DeviceInv, Typed
  <2> QED BY <1>6, <2>3, <2>4, <2>5, <2>6, <2>7, EnqueueThree
<1>21. TasksTyped' /\ PoolTyped' /\ TasksFit' BY <1>3, <1>9, <1>17, TasksFitStay
<1>22. FuturesTyped' /\ MemTyped' /\ CbTyped'
  BY <1>3, Frames DEF FuturesTyped, DeviceInv, Typed
<1>23. DependenciesFit' BY <1>3, <1>7, <1>9, <1>17, DependenciesStay
<1>24. CallsFit'
  <2>1. ASSUME NEW x \in Buffers, x # out PROVE CallFits(x)'
    <3>1. call[x].op # "none" =>
            buf'[x].st = buf[x].st \/ (call[x].op \in Awaits /\ buf'[x].st = "gone")
      <4>1. x \in don => call[x].op \in {"none"} \cup Awaits BY <1>8, CallFacts
      <4> QED BY <1>12, <1>13, <1>14, <2>1, <4>1, NoCallFacts
    <3> QED BY <1>17, <1>18, <2>1, <3>1, CallStays
  <2>2. CallFits(out)' BY <1>18, NoCallFacts DEF CallFits, Awaits
  <2> QED BY <2>1, <2>2 DEF CallsFit
<1>25. Numbered'
  <2>1. call[out] # NoCall BY <1>1, NoCallFacts
  <2>2. \A b \in ins : buf[b].st # "unborn" BY <1>4 DEF Made, MadeBuffer
  <2>3. \A b \in ins : buf'[b].st # "unborn" BY <1>12, <1>13, <2>2
  <2>4. \A x \in Buffers : Used(x)' <=> Used(x)
    BY <1>4, <1>11, <1>14, <1>18, <2>1, <2>2, <2>3 DEF Used
  <2> QED BY <2>4, NumberedStay DEF DeviceInv
<1>26. HoldsFit'
  <2>1. \A y \in Buffers : \/ call'[y] = call[y]
                           \/ call'[y].op # "execute" /\ call'[y].ins \subseteq call[y].ins
    BY <1>18, NoCallFacts
  <2>2. ASSUME NEW x \in Buffers, call[x].op = "execute", call'[x] = call[x],
               NEW i \in call[x].ins
        PROVE  HeldStays(x, i)
    <3>1. i \in Buffers /\ Made(i) BY CallFacts DEF CallFits
    <3>2. x # out BY <1>18, <2>2, NoCallFacts
    <3>3. i \notin don /\ i # out BY <1>4, <1>8, <3>1, <3>2
    <3>4. buf'[i].st = buf[i].st BY <1>13, <1>14, <3>1, <3>3
    <3> QED BY <1>18, <3>1, <3>3, <3>4 DEF HeldStays
  <2>3. HoldsKept BY <2>1, <2>2 DEF HoldsKept
  <2> QED BY <2>3, HoldsStay
<1>27. Owning'
  <2> SUFFICES ASSUME NEW b \in Buffers, buf'[b].st \in {"making", "live"} PROVE buf'[b].owns
    BY DEF Owning
  <2>1. b # out /\ b \notin don => buf'[b].st = buf[b].st /\ buf'[b].owns = buf[b].owns
    BY <1>13, <1>14
  <2> QED BY <1>11, <1>12, <2>1 DEF DeviceInv, Owning
<1>28. OneOwner'
  <2>1. ASSUME NEW b \in Buffers, b # out PROVE Alive(b)' => Alive(b)
    <3>1. buf'[b].st \in {"making", "live", "external"} => Alive(b)
      BY <1>4, <1>14, <2>1 DEF Alive
    <3>2. call'[b].op \in {"delete", "release"} => Alive(b) BY <1>18, <2>1 DEF Alive
    <3>3. /\ \A t \in tasks' : b \in {t.buf, t.src} => Alive(b)
          /\ \A p \in pool' : p.op = "release" /\ p.buf = b => Alive(b)
      BY <1>3 DEF Alive
    <3>4. b \in kept => Alive(b) BY <1>19, <2>1
    <3> HIDE DEF kept
    <3> QED BY <1>20, <3>1, <3>2, <3>3, <3>4, AliveStays
  <2>2. ASSUME NEW b \in Buffers, b # out, b \notin don, buf[b].owns, Alive(b)
        PROVE  buf[b].cell # c /\ buf[b].cell \notin back
    <3>1. \A x \in don : buf[x].cell # buf[b].cell
      <4>1. \A x \in don : x \in Buffers /\ x # b /\ buf[x].owns /\ Alive(x)
        BY <1>4, <1>8, <2>2
      <4> QED BY <2>2, <4>1 DEF DeviceInv, OneOwner
    <3>2. Free(c) => buf[b].cell # c BY <2>2 DEF Free, Owned
    <3> QED BY <1>2, <3>1, <3>2
  <2>3. \A b \in Buffers : b # out /\ b \notin don =>
          buf'[b].owns = buf[b].owns /\ buf'[b].cell = buf[b].cell
    BY <1>13, <1>14
  <2>4. ~Frees(c) /\ c \notin back
    <3>1. \A x \in don : x \in Buffers /\ buf[x].owns /\ Alive(x) BY <1>4, <1>8
    <3>2. CASE \E x \in don : buf[x].cell = c
      <4>1. PICK x \in don : buf[x].cell = c BY <3>2
      <4>2. ~Frees(c) BY <3>1, <4>1 DEF DeviceInv, OneOwner, Frees
      <4>3. ~Free(c) BY <3>1, <4>1 DEF Free, Owned
      <4> QED BY <1>2, <4>2, <4>3
    <3>3. CASE Free(c) BY <1>2, <3>1, <3>3 DEF Free, Owned, Frees
    <3> QED BY <1>2, <3>2, <3>3
  <2>5. OwnerTaken(out, back) BY <1>11, <1>12, <2>1, <2>2, <2>3, <2>4 DEF OwnerTaken
  <2> QED BY <1>20, <2>5, OwnersNew DEF DeviceInv
<1>29. EvTyped' /\ StreamTyped' BY <1>9, <1>20 DEF EventsStep, StreamsStep
<1> HIDE DEF kept, reads, used
<1> QED
  BY <1>16, <1>18, <1>21, <1>22, <1>23, <1>24, <1>25, <1>26, <1>27, <1>28, <1>29
  DEF DeviceInv, Typed

-----------------------------------------------------------------------------
(* The invariant holds at first.                                            *)
LEMMA InitInv == Init => DeviceInv
<1> SUFFICES ASSUME Init PROVE DeviceInv OBVIOUS
<1>1. BufTyped
  <2>1. Unborn \in NoBuffer
    <3>1. Unborn = [Unborn EXCEPT !.st = "unborn"] BY DEF Unborn
    <3> QED BY <3>1 DEF NoBuffer
  <2> QED BY <2>1 DEF Init, BufTyped
<1>2. EvTyped
  <2>1. NotSet \in Event BY DEF NotSet, Event
  <2> QED BY <2>1 DEF Init, EvTyped
<1>3. StreamTyped /\ CbTyped
  <2>1. <<>> \in Seq(StreamOp) /\ <<>> \in Seq(CallbackOp) OBVIOUS
  <2> QED BY <2>1 DEF Init, StreamTyped, CbTyped
<1>4. MemTyped BY BoundsAssumption DEF Init, MemTyped
<1>5. TasksTyped /\ PoolTyped BY DEF Init, TasksTyped, PoolTyped
<1>6. CallTyped BY NoCallFacts DEF Init, CallTyped
<1>7. FuturesTyped BY DEF Init, FuturesTyped, Future
<1>8. TasksFit
  <2>1. Running = {} BY DEF Init, Running
  <2>2. IsFiniteSet(Running) /\ Cardinality(Running) = 0 BY <2>1, FS_EmptySet
  <2> QED BY <2>2, BoundsAssumption DEF TasksFit, Init
<1>9. \A b \in Buffers : call[b] = NoCall /\ buf[b].st = "unborn" /\ ~buf[b].owns
  BY DEF Init, Unborn
<1>10. CallsFit BY <1>9, NoCallFacts DEF CallsFit, CallFits, Awaits
<1>11. Numbered
  <2>1. 0 \in 0..NumBuffers /\ \A b \in Buffers : ~(b <= 0) BY BoundsAssumption DEF Buffers
  <2>2. \A b \in Buffers : ~Used(b) BY <1>9 DEF Used
  <2> QED BY <2>1, <2>2 DEF Numbered
<1>12. DependenciesFit
  <2> SUFFICES ASSUME NEW b \in Buffers PROVE DependencyFits(b) BY DEF DependenciesFit
  <2>1. dependency[b] = "none" /\ ready[b] = "none" BY DEF Init
  <2>2. ev[<<"dependency", b>>] = NotSet BY NameFacts DEF Init
  <2>3. NotSet.seq = 0 /\ NotSet.status = "none" BY DEF NotSet
  <2> QED BY <2>1, <2>2, <2>3 DEF DependencyFits
<1>13. HoldsFit BY <1>9, NoCallFacts DEF HoldsFit, HoldFits
<1>14. Owning /\ OneOwner BY <1>9 DEF Owning, OneOwner
<1> QED
  BY <1>1, <1>2, <1>3, <1>4, <1>5, <1>6, <1>7, <1>8, <1>10, <1>11, <1>12, <1>13, <1>14
  DEF DeviceInv, Typed

(* The parts of the invariant read the variables only.                      *)
LEMMA StutterInv ==
  ASSUME DeviceInv, UNCHANGED vars
  PROVE  DeviceInv'
<1>1. UNCHANGED <<buf, ev, stream, mem, tasks, call, pool, callbacks, ready, literal,
                  dependency>>
  BY DEF vars
<1>2. SameBuffers BY <1>1, BuffersStay
<1>3. EventsStep({}) BY <1>1, EventsStay DEF DeviceInv, Typed
<1>4. StreamsStep({}, {}) BY <1>1, StreamsStay DEF DeviceInv, Typed
<1>5. \A x \in Buffers : Made(x) => (Made(x))' BY <1>2 DEF SameBuffers
<1>6. TasksStep BY <1>1, <1>3, <1>5, TasksStay
<1>7. PoolStep BY <1>1, PoolStays
<1>8. FuturesStep BY <1>1, Frames, FuturesStay
<1>9. MemTyped' /\ CbTyped' BY <1>1, Frames
<1>10. QuietStep({}, {})
  BY <1>1, <1>2, <1>3, <1>4, <1>6, <1>7, <1>8, <1>9 DEF QuietStep, CalmStep
<1> QED BY <1>10, QuietInv

(* Every step keeps the invariant.                                          *)
LEMMA NextInv == DeviceInv /\ [Next]_vars => DeviceInv'
<1> SUFFICES ASSUME DeviceInv, [Next]_vars PROVE DeviceInv' OBVIOUS
<1>1. CASE Start
  <2>1. ASSUME NEW d \in Devices,
               BufferFromHostBuffer(d) \/ CreateErrorBuffer(d) \/ Execute(d)
        PROVE  DeviceInv'
    BY <2>1, BufferFromHostBufferStep, CreateErrorBufferStep, ExecuteStep
  <2>2. ASSUME NEW b \in Buffers,
               ToLiteral(b) \/ GetReadyFuture(b) \/ DonateWithControlDependency(b)
        PROVE  DeviceInv'
    BY <2>2, ToLiteralStep, GetReadyFutureStep, DonateWithControlDependencyStep
  <2>3. ASSUME NEW b \in Buffers, NEW op \in {"delete", "release"},
               AwaitDonation(b, op) \/ Release(b, op, "none")
        PROVE  DeviceInv'
    BY <2>3, ReleaseStep, AwaitFacts, AwaitStep
  <2>4. ASSUME NEW b \in Buffers, DropExternalReference(b) PROVE DeviceInv'
    BY <2>4, DropExternalReferenceStep
  <2>5. ASSUME NEW b \in Buffers, NEW d \in Devices, CopyToDevice(b, d) PROVE DeviceInv'
    BY <2>5, CopyToDeviceStep
  <2> QED BY <1>1, <2>1, <2>2, <2>3, <2>4, <2>5 DEF Start
<1>2. CASE Resolve BY <1>2, DependencyReadyStep DEF Resolve
<1>3. ASSUME NEW b \in Buffers, HostStep(b) PROVE DeviceInv'
  BY <1>3, ExecuteHelperStep, ExecuteFailsStep, CopyToDeviceReturnStep, DeleteStep,
     ReleaseDeviceMemoryOwnershipStep, ReleaseStep, AwaitFacts, AwaitStep
  DEF HostStep
<1>4. CASE Work
  <2>1. PICK t \in tasks : Block(t) \/ RunTask(t) BY <1>4 DEF Work
  <2> QED BY <2>1, BlockStep, TransferH2DStep, AsyncToLiteralStep, AsyncToLiteralFailsStep,
             AsyncCopyToDeviceStep, AsyncWaitForEventsStep
          DEF RunTask
<1>5. CASE Drain BY <1>5, PoolStreamDoneStep DEF Drain
<1>6. ASSUME NEW s \in Streams, StreamStep(s) PROVE DeviceInv' BY <1>6, StreamStepStep
<1>7. ASSUME NEW d \in Devices, RunCallback(d) PROVE DeviceInv' BY <1>7, RunCallbackStep
<1>8. CASE UNCHANGED vars BY <1>8, StutterInv
<1> QED BY <1>1, <1>2, <1>3, <1>4, <1>5, <1>6, <1>7, <1>8 DEF Next

(* The inductive invariant holds in every behaviour.                        *)
LEMMA InvLemma == Spec => []DeviceInv
BY InitInv, NextInv, PTL DEF Spec

-----------------------------------------------------------------------------
(* The buffers, events, tasks, calls and futures have their kinds, no more  *)
(* tasks run than the pool has threads, and a task that has left the        *)
(* deferred state finds the status of the event it waited for               *)
(* (GetDefinedStatus's CHECK).                                              *)
THEOREM TypeOKTheorem == Spec => []TypeOK
<1>1. DeviceInv => TypeOK
  <2> SUFFICES ASSUME DeviceInv PROVE TypeOK OBVIOUS
  <2>1. ASSUME NEW b \in Buffers
        PROVE  /\ buf[b].st \in {"unborn", "making", "live", "external", "gone"}
               /\ buf[b].owns => buf[b].dev \in Devices /\ buf[b].cell \in Cells
               /\ buf[b].val \in 0..NumBuffers /\ buf[b].owns \in BOOLEAN
               /\ buf[b].defs \in Seq(Events) /\ buf[b].usage \in Seq(UsageEvent)
    <3>1. CASE Made(b) BY <3>1, MadeFacts DEF DeviceInv
    <3>2. CASE buf[b] \in NoBuffer
      <4>1. PICK st \in {"unborn", "gone"} : buf[b] = [Unborn EXCEPT !.st = st]
        BY <3>2 DEF NoBuffer
      <4>2. <<>> \in Seq(Events) /\ <<>> \in Seq(UsageEvent) /\ 0 \in 0..NumBuffers
        BY BoundsAssumption
      <4>3. /\ buf[b].st = st /\ buf[b].owns = FALSE /\ buf[b].val = 0
            /\ buf[b].defs = <<>> /\ buf[b].usage = <<>>
        BY <4>1 DEF Unborn
      <4> QED BY <4>2, <4>3
    <3> QED BY <3>1, <3>2 DEF Made, DeviceInv, Typed, BufTyped
  <2>2. /\ ev \in [Events -> Event] /\ DOMAIN stream = Streams
        /\ mem \in [Cells -> 0..NumBuffers]
        /\ ready \in [Buffers -> Future] /\ literal \in [Buffers -> Future]
        /\ dependency \in [Buffers -> Future]
    BY DEF DeviceInv, Typed, EvTyped, StreamTyped, MemTyped, FuturesTyped
  <2>3. \A t \in tasks : /\ t.kind \in {"h2d", "d2h", "copy", "ready"}
                         /\ t.at \in {"deferred", "queued", "running"}
                         /\ t.kind # "h2d" /\ t.at # "deferred" => ev[t.on].status # "none"
    BY TaskFacts DEF Task, TaskFits
  <2>4. Cardinality({u \in tasks : u.at = "running"}) <= Workers
    BY DEF DeviceInv, TasksFit, Running
  <2>5. \A b \in Buffers :
          /\ call[b].op \in {"none", "execute", "copy", "await_delete",
                             "await_release", "delete", "release"}
          /\ call[b].don \subseteq call[b].ins /\ call[b].ins \subseteq Buffers
    BY CallFacts DEF Call, Awaits
  <2> QED BY <2>1, <2>2, <2>3, <2>4, <2>5 DEF TypeOK, Event
<1> QED BY <1>1, InvLemma, PTL

(* Device memory has one owner that will free it: donation hands it over to *)
(* the new buffer or to the callback of the execution, and memory is not    *)
(* handed out while an owner has a reference anywhere.                      *)
THEOREM OneOwnerTheorem == Spec => []OneOwner
<1>1. DeviceInv => OneOwner BY DEF DeviceInv
<1> QED BY <1>1, InvLemma, PTL

-----------------------------------------------------------------------------
(* A second invariant: what a ready future says of the definition events.   *)
(* The events that define a buffer belong to buffers that were created, and *)
(* no completed one is set again: the event of a write that is still to be  *)
(* enqueued is not done and on no stream, and one operation enqueues it.    *)
Begun(b)  == buf[b].st # "unborn"
Kinds     == {"written", "allocated", "dependency"}
Sets(o)   == o.op \in {"access", "record"}
Writer(t) == t.kind \in {"h2d", "copy"}
Wrote(b)  == <<"written", b>>
Writers(ts, b) == \E t \in ts : Writer(t) /\ t.buf = b
Unwritten(b) == ~Begun(b) \/ Writers(tasks, b)

DefinitionFits(b) ==
  \A e \in DefinitionEvents(b) : e \in Events /\ e[1] \in Kinds /\ Begun(e[2])
WriteAhead(b) ==
  Unwritten(b) => ~ev[Wrote(b)].done /\ \A o \in Pending : Sets(o) => o.event # Wrote(b)
OneWriter == \A t, u \in tasks : Writer(t) /\ Writer(u) /\ t.buf = u.buf => t = u
AllDone(b, E) == \A e \in DefinitionEvents(b) : ev[e].done \/ e \in E
ReadyFits(b) == ready[b] = "ok" => AllDone(b, {})
WaitFits(p) == p.op = "ready" => AllDone(p.buf, p.events)

DefinedInv ==
  /\ \A b \in Buffers : DefinitionFits(b) /\ WriteAhead(b) /\ ReadyFits(b)
  /\ OneWriter /\ \A p \in pool : WaitFits(p)

(* What a step does: events of S are set, buffers keep their definitions,   *)
(* and who is still to be written was.                                      *)
PendingOf(S) == \A o \in Pending' : Sets(o) => o \in Pending \/ o.event \in S

EventsOf(S) ==
  /\ \A e \in Events : e \notin S => (ev'[e].done <=> ev[e].done)
  /\ PendingOf(S)
  /\ \A e \in S : e[1] \in Kinds /\ Begun(e[2]) /\ ev[e].done => ev'[e].done
  /\ \A b \in Buffers : Unwritten(b)' => Wrote(b) \notin S

BuffersOf ==
  \A b \in Buffers : /\ Begun(b) => Begun(b)'
                     /\ buf'[b].defs = buf[b].defs \/ (~Begun(b) /\ DefinitionFits(b)')

WritersOf ==
  OneWriter' /\ \A b \in Buffers : Writers(tasks, b)' => Unwritten(b)

FuturesOf ==
  /\ \A b \in Buffers : ready'[b] = "ok" => ready[b] = "ok" \/ (Begun(b) /\ AllDone(b, {}))
  /\ \A p \in pool' : p.op = "ready" =>
       p \in pool \/ (p.buf \in Buffers /\ Begun(p.buf) /\ AllDone(p.buf, p.events))

(* Such a step keeps the invariant.                                         *)
LEMMA DefinedStays ==
  ASSUME DeviceInv, DefinedInv, NEW S, EventsOf(S), BuffersOf, WritersOf, FuturesOf
  PROVE  DefinedInv'
<1>1. ASSUME NEW b \in Buffers PROVE DefinitionFits(b)'
  <2>1. CASE buf'[b].defs = buf[b].defs
    <3>1. (DefinitionEvents(b))' = DefinitionEvents(b) BY <2>1 DEF DefinitionEvents
    <3>2. \A e \in DefinitionEvents(b) : e \in Events /\ e[1] \in Kinds /\ Begun(e[2])
      BY DEF DefinedInv, DefinitionFits
    <3>3. \A e \in DefinitionEvents(b) : e[2] \in Buffers BY <3>2, NameFacts
    <3>4. \A x \in Buffers : Begun(x) => Begun(x)' BY DEF BuffersOf
    <3> QED BY <3>1, <3>2, <3>3, <3>4 DEF DefinitionFits
  <2> QED BY <2>1 DEF BuffersOf
<1>2. ASSUME NEW b \in Buffers PROVE WriteAhead(b)'
  <2> SUFFICES ASSUME Unwritten(b)'
               PROVE  ~ev'[Wrote(b)].done /\ \A o \in Pending' : Sets(o) => o.event # Wrote(b)
    BY DEF WriteAhead, Wrote, Sets
  <2>1. Unwritten(b) BY DEF Unwritten, BuffersOf, WritersOf
  <2>2. Wrote(b) \notin S /\ Wrote(b) \in Events BY NameFacts DEF EventsOf, Wrote
  <2>3. ~ev[Wrote(b)].done /\ \A o \in Pending : Sets(o) => o.event # Wrote(b)
    BY <2>1 DEF DefinedInv, WriteAhead
  <2> QED BY <2>2, <2>3 DEF EventsOf, PendingOf
<1>3. ASSUME NEW b \in Buffers, Begun(b), NEW E, AllDone(b, E) PROVE AllDone(b, E)'
  <2>1. DefinitionFits(b) /\ buf'[b].defs = buf[b].defs BY <1>3 DEF DefinedInv, BuffersOf
  <2>2. (DefinitionEvents(b))' = DefinitionEvents(b) BY <2>1 DEF DefinitionEvents
  <2>3. ASSUME NEW e \in DefinitionEvents(b), ev[e].done PROVE ev'[e].done
    BY <2>1, <2>3 DEF EventsOf, DefinitionFits
  <2> QED BY <1>3, <2>2, <2>3 DEF AllDone
<1>4. ASSUME NEW b \in Buffers, ready'[b] = "ok" PROVE AllDone(b, {})'
  <2>1. ready[b] = "ok" => Begun(b) /\ AllDone(b, {})
    BY DEF DeviceInv, DependenciesFit, DependencyFits, Begun, DefinedInv, ReadyFits
  <2> QED BY <1>3, <1>4, <2>1 DEF FuturesOf
<1>5. ASSUME NEW p \in pool', p.op = "ready" PROVE AllDone(p.buf, p.events)'
  <2>1. ASSUME p \in pool PROVE p.buf \in Buffers /\ Begun(p.buf) /\ AllDone(p.buf, p.events)
    <3>1. p \in Wait /\ Made(p.buf) BY <2>1 DEF DeviceInv, Typed, PoolTyped, TasksFit
    <3> QED BY <1>5, <2>1, <3>1 DEF Wait, Made, MadeBuffer, Begun, DefinedInv, WaitFits
  <2>2. p.buf \in Buffers /\ Begun(p.buf) /\ AllDone(p.buf, p.events)
    BY <1>5, <2>1 DEF FuturesOf
  <2> QED BY <1>3, <2>2
<1> QED BY <1>1, <1>2, <1>4, <1>5 DEF DefinedInv, ReadyFits, WaitFits, WritersOf

(* Events that are set, and events that are not.                            *)
LEMMA DoneAfterSet ==
  ASSUME EvTyped, NEW e \in Events, NEW s \in Streams,
         \/ ev' = SetSequencingEvent(ev, e, s)
         \/ \E E : ev' = SetSequencingEvent(DefinedOn(s, E), e, s)
  PROVE  \A x \in Events : x # e => (ev'[x].done <=> ev[x].done)
<1>1. CASE ev' = SetSequencingEvent(ev, e, s) BY <1>1, SetFacts DEF EvTyped
<1>2. CASE \E E : ev' = SetSequencingEvent(DefinedOn(s, E), e, s)
  <2>1. PICK E : ev' = SetSequencingEvent(DefinedOn(s, E), e, s) BY <1>2
  <2> DEFINE evs == DefinedOn(s, E)
  <2>2. evs \in [Events -> Event] BY DefinedOnFacts
  <2>3. \A x \in Events : evs[x].done = ev[x].done
    <3>1. ASSUME NEW x \in Events PROVE [ev[x] EXCEPT !.on = @ \cup {s}].done = ev[x].done
      <4>1. ev[x] \in Event BY DEF EvTyped
      <4> QED BY <4>1 DEF Event
    <3> QED BY <3>1 DEF DefinedOn
  <2> HIDE DEF evs
  <2> QED BY <2>1, <2>2, <2>3, SetFacts DEF evs
<1> QED BY <1>1, <1>2

LEMMA DoneAfterWait ==
  ASSUME EvTyped, NEW s, NEW E, ev' = DefinedOn(s, E), NEW x \in Events
  PROVE  ev'[x].done = ev[x].done
<1>1. ev[x] \in Event BY DEF EvTyped
<1>2. [ev[x] EXCEPT !.on = @ \cup {s}].done = ev[x].done BY <1>1 DEF Event
<1> QED BY <1>2 DEF DefinedOn

LEMMA DoneAfterError ==
  ASSUME NEW evs \in [Events -> Event], NEW e \in Events, NEW x \in Events
  PROVE  /\ [evs EXCEPT ![e].status = "error"] \in [Events -> Event]
         /\ [evs EXCEPT ![e].status = "error"][x].done = evs[x].done
<1> DEFINE r == [evs[e] EXCEPT !.status = "error"]
<1>1. r \in Event /\ r.done = evs[e].done BY DEF Event
<1>2. [evs EXCEPT ![e].status = "error"] = [evs EXCEPT ![e] = r] OBVIOUS
<1> HIDE DEF r
<1> QED BY <1>1, <1>2

(* What is put on the streams sets events of S.                             *)
SetsOf(q, S) == q \in Seq(StreamOp) /\ \A o \in Elems(q) : Sets(o) => o.event \in S

LEMMA SetsFacts ==
  ASSUME NEW s, NEW E \in SUBSET Events, NEW reads \in SUBSET Memory, NEW writes \in SUBSET Memory,
         NEW e \in Events, NEW D \in SUBSET Buffers, NEW F \in SUBSET Cells, NEW S
  PROVE  /\ SetsOf(Waits(s, E), S) /\ SetsOf(Callback(D, F), S)
         /\ SetsOf(Access(reads, writes, e), {e}) /\ SetsOf(Record(e), {e})
         /\ SetsOf(<<[op |-> "wait", events |-> E]>>, S) /\ SetsOf(<<>>, S)
<1>1. ASSUME NEW o \in StreamOp, NEW R, Sets(o) => o.event \in R PROVE SetsOf(<<o>>, R)
  BY <1>1 DEF SetsOf, Elems
<1>2. \A R : SetsOf(<<>>, R) BY DEF SetsOf, Elems
<1>3. ASSUME NEW w \in SUBSET Events PROVE SetsOf(<<[op |-> "wait", events |-> w]>>, S)
  <2> DEFINE o == [op |-> "wait", events |-> w]
  <2>1. o \in StreamOp /\ ~Sets(o) BY DEF StreamOp, WaitOp, Sets
  <2> HIDE DEF o
  <2>2. SetsOf(<<o>>, S) BY <1>1, <2>1
  <2> QED BY <2>2 DEF o
<1>4. SetsOf(Waits(s, E), S)
  <2> DEFINE w == {x \in E : s \notin ev[x].on}
  <2>1. w \in SUBSET Events OBVIOUS
  <2>2. Waits(s, E) = IF w = {} THEN <<>> ELSE <<[op |-> "wait", events |-> w]>> BY DEF Waits
  <2> HIDE DEF w
  <2> QED BY <1>2, <1>3, <2>1, <2>2
<1>5. SetsOf(Callback(D, F), S)
  <2> DEFINE o == [op |-> "callback", drops |-> D, frees |-> F]
  <2>1. o \in StreamOp /\ ~Sets(o) BY DEF StreamOp, CallbackOp, Sets
  <2>2. Callback(D, F) = IF D = {} /\ F = {} THEN <<>> ELSE <<o>> BY DEF Callback
  <2> HIDE DEF o
  <2> QED BY <1>1, <1>2, <2>1, <2>2
<1>6. SetsOf(Access(reads, writes, e), {e})
  <2> DEFINE o == [op |-> "access", reads |-> reads, writes |-> writes, event |-> e]
  <2>1. o \in StreamOp /\ o.event = e BY DEF StreamOp, AccessOp
  <2>2. Access(reads, writes, e) = <<o>> BY DEF Access
  <2> HIDE DEF o
  <2> QED BY <1>1, <2>1, <2>2
<1>7. SetsOf(Record(e), {e})
  <2> DEFINE o == [op |-> "record", event |-> e]
  <2>1. o \in StreamOp /\ o.event = e BY DEF StreamOp, RecordOp
  <2>2. Record(e) = <<o>> BY DEF Record
  <2> HIDE DEF o
  <2> QED BY <1>1, <2>1, <2>2
<1> QED BY <1>2, <1>3, <1>4, <1>5, <1>6, <1>7

(* Streams to which pieces are added.                                       *)
LEMMA StreamGrown ==
  ASSUME StreamTyped, NEW s \in Streams, NEW r, NEW S, stream' = [stream EXCEPT ![s] = r],
         \A o \in Elems(r) : o \in Elems(stream[s]) \/ (Sets(o) => o.event \in S)
  PROVE  PendingOf(S)
<1> SUFFICES ASSUME NEW o \in Pending', Sets(o) PROVE o \in Pending \/ o.event \in S BY DEF PendingOf
<1>1. \A x \in Streams : stream'[x] = IF x = s THEN r ELSE stream[x] BY DEF StreamTyped
<1>2. PICK x \in Streams : o \in Elems(stream'[x]) BY DEF Pending, StreamOps, Elems
<1>3. o \in Elems(stream[x]) \/ o.event \in S BY <1>1, <1>2
<1> QED BY <1>3 DEF Pending, StreamOps, Elems

LEMMA StreamSets ==
  ASSUME StreamTyped, NEW s \in Streams, NEW p, NEW S, SetsOf(p, S),
         stream' = [stream EXCEPT ![s] = stream[s] \o p]
  PROVE  PendingOf(S)
<1>1. stream[s] \in Seq(StreamOp) BY DEF StreamTyped
<1>2. \A o \in Elems(stream[s] \o p) : o \in Elems(stream[s]) \/ (Sets(o) => o.event \in S)
  BY <1>1, ConcatFacts DEF SetsOf
<1> QED BY <1>2, StreamGrown

LEMMA StreamTwoSets ==
  ASSUME StreamTyped, NEW s \in Streams, NEW p, NEW q, NEW S, SetsOf(p, S), SetsOf(q, S),
         stream' = [stream EXCEPT ![s] = (stream[s] \o p) \o q]
  PROVE  PendingOf(S)
<1> DEFINE u == stream[s] \o p
<1>1. stream[s] \in Seq(StreamOp) BY DEF StreamTyped
<1>2. u \in Seq(StreamOp) /\ \A o \in Elems(u) : o \in Elems(stream[s]) \/ o \in Elems(p)
  BY <1>1, ConcatFacts DEF SetsOf
<1> HIDE DEF u
<1>3. \A o \in Elems(u \o q) : o \in Elems(stream[s]) \/ (Sets(o) => o.event \in S)
  BY <1>2, ConcatFacts DEF SetsOf
<1> QED BY <1>3, StreamGrown DEF u

LEMMA StreamThreeSets ==
  ASSUME StreamTyped, NEW s \in Streams, NEW p, NEW q, NEW r, NEW S,
         SetsOf(p, S), SetsOf(q, S), SetsOf(r, S),
         stream' = [stream EXCEPT ![s] = ((stream[s] \o p) \o q) \o r]
  PROVE  PendingOf(S)
<1> DEFINE u == stream[s] \o p
           v == u \o q
<1>1. stream[s] \in Seq(StreamOp) BY DEF StreamTyped
<1>2. u \in Seq(StreamOp) /\ \A o \in Elems(u) : o \in Elems(stream[s]) \/ o \in Elems(p)
  BY <1>1, ConcatFacts DEF SetsOf
<1>3. stream' = [stream EXCEPT ![s] = v \o r] OBVIOUS
<1> HIDE DEF u
<1>4. v \in Seq(StreamOp) /\ \A o \in Elems(v) : o \in Elems(u) \/ o \in Elems(q)
  BY <1>2, ConcatFacts DEF SetsOf
<1> HIDE DEF v
<1>5. \A o \in Elems(v \o r) : o \in Elems(stream[s]) \/ (Sets(o) => o.event \in S)
  BY <1>2, <1>4, ConcatFacts DEF SetsOf
<1> QED BY <1>3, <1>5, StreamGrown

LEMMA StreamsSame ==
  ASSUME stream' = stream, NEW S
  PROVE  PendingOf(S)
BY DEF PendingOf, Pending, StreamOps

LEMMA JoinSets ==
  ASSUME StreamTyped, NEW d \in Devices, NEW s \in Streams, s # <<"compute", d>>,
         NEW b \in Buffers, stream' = Join(d, s, b, <<>>)
  PROVE  PendingOf({<<"joined", b>>})
<1> DEFINE c == <<"compute", d>>
           j == <<"joined", b>>
           o == <<[op |-> "wait", events |-> {j}]>>
<1>1. c \in Streams /\ j \in Events /\ s # c BY NameFacts
<1>2. \A r \in Streams : stream[r] \in Seq(StreamOp) BY DEF StreamTyped
<1>3. SetsOf(o, {j}) /\ SetsOf(<<>>, {j}) /\ SetsOf(Record(j), {j})
  <2>1. {j} \in SUBSET Events BY <1>1
  <2> QED BY <1>1, <2>1, SetsFacts
<1>4. \/ stream' = [stream EXCEPT ![s] = stream[s] \o <<>>]
      \/ stream' = [stream EXCEPT ![c] = stream[c] \o Record(j), ![s] = (stream[s] \o o) \o <<>>]
  BY <1>1 DEF Join, StreamTyped
<1> HIDE DEF c, j, o
<1>5. CASE stream' = [stream EXCEPT ![s] = stream[s] \o <<>>] BY <1>3, <1>5, StreamSets DEF j
<1>6. CASE stream' = [stream EXCEPT ![c] = stream[c] \o Record(j), ![s] = (stream[s] \o o) \o <<>>]
  <2>1. stream[s] \o o \in Seq(StreamOp) BY <1>2, <1>3, ConcatFacts DEF SetsOf
  <2>2. \A x \in Elems((stream[s] \o o) \o <<>>) : x \in Elems(stream[s]) \/ x \in Elems(o)
    BY <1>2, <1>3, <2>1, ConcatFacts DEF SetsOf, Elems
  <2>3. \A x \in Elems(stream[c] \o Record(j)) : x \in Elems(stream[c]) \/ x \in Elems(Record(j))
    BY <1>1, <1>2, <1>3, ConcatFacts DEF SetsOf
  <2>4. \A r \in Streams : stream'[r] = IF r = s THEN (stream[s] \o o) \o <<>>
                                        ELSE IF r = c THEN stream[c] \o Record(j) ELSE stream[r]
    BY <1>1, <1>6 DEF StreamTyped
  <2> SUFFICES ASSUME NEW x \in Pending', Sets(x) PROVE x \in Pending \/ x.event \in {j}
    BY DEF PendingOf, j
  <2>5. PICK r \in Streams : x \in Elems(stream'[r]) BY DEF Pending, StreamOps, Elems
  <2>6. x \in Elems(stream[r]) \/ x \in Elems(o) \/ x \in Elems(Record(j))
    BY <2>2, <2>3, <2>4, <2>5
  <2> QED BY <1>3, <2>6 DEF SetsOf, Pending, StreamOps, Elems
<1> QED BY <1>4, <1>5, <1>6

(* Steps that set nothing.                                                  *)
LEMMA NothingSet ==
  ASSUME PendingOf({}), \A e \in Events : ev'[e].done = ev[e].done
  PROVE  EventsOf({})
BY DEF EventsOf

(* Buffers that change, and a buffer that is new.                           *)
LEMMA DefsKept ==
  ASSUME DeviceInv, NEW b \in Buffers, NEW x
  PROVE  /\ [buf[b] EXCEPT !.st = x].defs = buf[b].defs /\ [buf[b] EXCEPT !.st = x].st = x
         /\ [buf[b] EXCEPT !.usage = x].defs = buf[b].defs
         /\ [buf[b] EXCEPT !.usage = x].st = buf[b].st
<1>1. buf[b] \in MadeBuffer \cup NoBuffer BY DEF DeviceInv, Typed, BufTyped
<1>2. CASE buf[b] \in MadeBuffer BY <1>2 DEF MadeBuffer
<1>3. CASE buf[b] \in NoBuffer BY <1>3 DEF NoBuffer, Unborn
<1> QED BY <1>1, <1>2, <1>3

LEMMA BufferKept ==
  ASSUME DeviceInv, NEW b \in Buffers, NEW r, r.defs = buf[b].defs,
         r.st # "unborn", buf' = [buf EXCEPT ![b] = r]
  PROVE  BuffersOf
<1>1. \A x \in Buffers : buf'[x] = IF x = b THEN r ELSE buf[x] BY DEF DeviceInv, Typed, BufTyped
<1> QED BY <1>1 DEF BuffersOf, Begun

LEMMA BuffersSame ==
  ASSUME buf' = buf
  PROVE  BuffersOf
BY DEF BuffersOf, Begun

LEMMA BufferNew ==
  ASSUME DeviceInv, NEW n \in Buffers, ~Begun(n), NEW r, r.st # "unborn",
         buf' = [buf EXCEPT ![n] = r],
         \A e \in Elems(r.defs) : e \in Events /\ e[1] \in Kinds /\ e[2] = n
  PROVE  BuffersOf
<1>1. \A x \in Buffers : buf'[x] = IF x = n THEN r ELSE buf[x] BY DEF DeviceInv, Typed, BufTyped
<1>2. (DefinitionEvents(n))' = Elems(r.defs) BY <1>1 DEF DefinitionEvents, Elems
<1>3. DefinitionFits(n)' BY <1>1, <1>2 DEF DefinitionFits, Begun
<1> QED BY <1>1, <1>3 DEF BuffersOf, Begun

(* Tasks that are done, new or awakened.                                    *)
LEMMA WritersFewer ==
  ASSUME DefinedInv, tasks' \subseteq tasks
  PROVE  WritersOf
BY DEF DefinedInv, OneWriter, WritersOf, Writers, Unwritten

LEMMA WriterAdded ==
  ASSUME DeviceInv, DefinedInv, NEW t \in Task, tasks' = tasks \cup {t}, Writer(t) => ~Begun(t.buf)
  PROVE  WritersOf
<1>1. \A u \in tasks : Begun(u.buf) BY TaskFacts DEF Made, MadeBuffer, Begun
<1>2. OneWriter' BY <1>1 DEF DefinedInv, OneWriter
<1>3. \A b \in Buffers : Writers(tasks, b)' => Unwritten(b) BY DEF Writers, Unwritten
<1> QED BY <1>2, <1>3 DEF WritersOf

LEMMA WritersAwakened ==
  ASSUME DeviceInv, DefinedInv, NEW ts \in SUBSET tasks, NEW e, tasks' = Awakened(ts, e)
  PROVE  WritersOf /\ \A b \in Buffers : Writers(tasks, b)' => Writers(ts, b)
<1> DEFINE f(u) == IF u.at = "deferred" /\ u.on = e THEN [u EXCEPT !.at = "queued"] ELSE u
<1>1. \A u \in ts : f(u).kind = u.kind /\ f(u).buf = u.buf
  <2> SUFFICES ASSUME NEW u \in ts PROVE f(u).kind = u.kind /\ f(u).buf = u.buf OBVIOUS
  <2>1. u \in Task BY TaskFacts
  <2> QED BY <2>1 DEF Task
<1>2. tasks' = {f(u) : u \in ts} BY DEF Awakened
<1> HIDE DEF f
<1>3. \A u \in ts : Writer(f(u)) => Writer(u) BY <1>1 DEF Writer
<1>4. ASSUME NEW x \in tasks', NEW y \in tasks', Writer(x), Writer(y), x.buf = y.buf PROVE x = y
  <2>1. PICK u \in ts, v \in ts : x = f(u) /\ y = f(v) BY <1>2
  <2>2. u = v BY <1>1, <1>3, <1>4, <2>1 DEF DefinedInv, OneWriter
  <2> QED BY <2>1, <2>2
<1>5. \A b \in Buffers : Writers(tasks, b)' => Writers(ts, b)
  BY <1>1, <1>2, <1>3 DEF Writers, Writer
<1>6. \A b \in Buffers : Writers(ts, b) => Unwritten(b) BY DEF Writers, Unwritten
<1> QED BY <1>4, <1>5, <1>6 DEF WritersOf, OneWriter, Writer

(* Nothing is said of a ready future.                                       *)
LEMMA FuturesSame ==
  ASSUME ready' = ready, \A p \in pool' : p \in pool \/ p.op # "ready"
  PROVE  FuturesOf
BY DEF FuturesOf

(* Steps of the host that only change buffers and calls, or add a task that *)
(* writes nothing.                                                          *)
LEMMA HostDefined ==
  ASSUME DeviceInv, DefinedInv, BuffersOf, WritersOf, FuturesOf, UNCHANGED <<ev, stream>>
  PROVE  DefinedInv'
<1>1. EventsOf({}) BY NothingSet, StreamsSame
<1> QED BY <1>1, DefinedStays

(* Calls that only change a buffer's state, its usage events or the calls.  *)
LEMMA CallsDefined ==
  ASSUME DeviceInv, DefinedInv,
         \/ \E d \in Devices : Execute(d)
         \/ \E b \in Buffers, op \in {"delete", "release"} :
              AwaitDonation(b, op) \/ \E from : Release(b, op, from)
         \/ \E b \in Buffers : \/ ReleaseNothing(b) \/ Delete(b)
                               \/ ReleaseDeviceMemoryOwnership(b) \/ DropExternalReference(b)
  PROVE  DefinedInv'
<1>1. /\ UNCHANGED <<ev, stream, tasks, ready>>
      /\ \A p \in pool' : p \in pool \/ p.op # "ready"
  <2>1. ASSUME NEW b \in Buffers, Delete(b)
        PROVE  /\ UNCHANGED <<ev, stream, tasks, ready>>
               /\ \A p \in pool' : p \in pool \/ p.op # "ready"
    <3>1. pool' = pool \/ \E E : pool' = pool \cup {[op |-> "release", buf |-> b, events |-> E]}
      BY <2>1, Zenon DEF Delete
    <3>2. UNCHANGED <<ev, stream, tasks, ready>> BY <2>1 DEF Delete
    <3> QED BY <3>1, <3>2
  <2>2. (\E d \in Devices : Execute(d)) => UNCHANGED <<ev, stream, tasks, ready, pool>>
    BY DEF Execute
  <2>3. \A b \in Buffers : \/ ReleaseNothing(b) \/ ReleaseDeviceMemoryOwnership(b)
                          \/ DropExternalReference(b)
          => UNCHANGED <<ev, stream, tasks, ready, pool>>
    BY DEF ReleaseNothing, ReleaseDeviceMemoryOwnership, DropExternalReference
  <2>4. \A b \in Buffers : \A op, from : AwaitDonation(b, op) \/ Release(b, op, from)
          => UNCHANGED <<ev, stream, tasks, ready, pool>>
    BY DEF AwaitDonation, Release
  <2> QED BY <2>1, <2>2, <2>3, <2>4
<1>2. WritersOf /\ FuturesOf BY <1>1, WritersFewer, FuturesSame
<1>3. BuffersOf
  <2>1. CASE buf' = buf BY <2>1, BuffersSame
  <2>2. ASSUME NEW b \in Buffers, DropExternalReference(b) \/ \E op, from : Release(b, op, from)
        PROVE  BuffersOf
    <3> DEFINE r == [buf[b] EXCEPT !.st = "gone"]
    <3>1. buf' = [buf EXCEPT ![b] = r] BY <2>2 DEF Release, DropExternalReference
    <3>2. r.defs = buf[b].defs /\ r.st = "gone" BY DefsKept
    <3> HIDE DEF r
    <3> QED BY <3>1, <3>2, BufferKept
  <2>3. ASSUME NEW b \in Buffers, Delete(b) PROVE BuffersOf
    <3> DEFINE r == [buf[b] EXCEPT !.usage = <<>>]
    <3>1. buf' = [buf EXCEPT ![b] = r] /\ call[b].op = "delete" BY <2>3 DEF Delete
    <3>2. buf[b].st = "gone" BY <3>1, CallFacts DEF CallFits
    <3>3. r.defs = buf[b].defs /\ r.st = "gone" BY <3>2, DefsKept
    <3> HIDE DEF r
    <3> QED BY <3>1, <3>3, BufferKept
  <2>4. ASSUME NEW b \in Buffers, ReleaseDeviceMemoryOwnership(b) PROVE BuffersOf
    <3> DEFINE r == [buf[b] EXCEPT !.st = "external", !.usage = <<>>]
    <3>1. call[b].op = "release" /\ buf' = [buf EXCEPT ![b].st = "external", ![b].usage = <<>>]
      BY <2>4 DEF ReleaseDeviceMemoryOwnership
    <3>2. Made(b) BY <3>1, CallFacts DEF CallFits
    <3>3. buf' = [buf EXCEPT ![b] = r] BY <3>1 DEF DeviceInv, Typed, BufTyped
    <3>4. r.defs = buf[b].defs /\ r.st = "external" BY <3>2 DEF Made, MadeBuffer
    <3> HIDE DEF r
    <3> QED BY <3>3, <3>4, BufferKept
  <2>5. (\E d \in Devices : Execute(d)) => buf' = buf BY DEF Execute
  <2>6. \A b \in Buffers : ReleaseNothing(b) \/ (\E op : AwaitDonation(b, op)) => buf' = buf
    BY DEF ReleaseNothing, AwaitDonation
  <2> QED BY <2>1, <2>2, <2>3, <2>4, <2>5, <2>6
<1> QED BY <1>1, <1>2, <1>3, HostDefined

(* Futures that are asked for, and a copy to the host that fails.           *)
LEMMA AsksDefined ==
  ASSUME DeviceInv, DefinedInv, NEW b \in Buffers, ToLiteral(b) \/ GetReadyFuture(b)
  PROVE  DefinedInv'
<1>1. Made(b) /\ buf[b].st = "live" BY StMade DEF DeviceInv, ToLiteral, GetReadyFuture, Live
<1>2. buf[b].defs[1] \in Events BY <1>1, MadeFacts DEF DeviceInv
<1>3. PICK kind \in {"d2h", "ready"} : tasks' = tasks \cup {Scheduled(<<kind, b, b>>, buf[b].defs[1])}
  BY DEF ToLiteral, GetReadyFuture
<1>4. PICK t \in Task : tasks' = tasks \cup {t} /\ ~Writer(t)
  BY <1>2, <1>3, ScheduledFacts DEF Writer
<1>5. WritersOf BY <1>4, WriterAdded
<1>6. BuffersOf
  <2>1. CASE ToLiteral(b)
    <3>1. PICK u : buf' = [buf EXCEPT ![b].usage = u] BY <2>1 DEF ToLiteral
    <3> DEFINE r == [buf[b] EXCEPT !.usage = u]
    <3>2. buf' = [buf EXCEPT ![b] = r] BY <3>1
    <3>3. r.defs = buf[b].defs /\ r.st = buf[b].st BY DefsKept
    <3> HIDE DEF r
    <3> QED BY <1>1, <3>2, <3>3, BufferKept
  <2>2. CASE GetReadyFuture(b) BY <2>2, BuffersSame DEF GetReadyFuture
  <2> QED BY <2>1, <2>2
<1>7. FuturesOf
  <2>1. CASE ToLiteral(b) BY <2>1, FuturesSame DEF ToLiteral
  <2>2. CASE GetReadyFuture(b)
    <3>1. ready' = [ready EXCEPT ![b] = "pending"] /\ pool' = pool BY <2>2 DEF GetReadyFuture
    <3> QED BY <3>1, Frames DEF FuturesOf
  <2> QED BY <2>1, <2>2
<1>8. UNCHANGED <<ev, stream>> BY DEF ToLiteral, GetReadyFuture
<1> QED BY <1>5, <1>6, <1>7, <1>8, HostDefined

LEMMA TaskEndsDefined ==
  ASSUME DeviceInv, DefinedInv, NEW t \in tasks, Block(t) \/ AsyncToLiteralFails(t)
  PROVE  DefinedInv'
<1>1. UNCHANGED <<buf, ev, stream, pool, ready>> BY DEF Block, AsyncToLiteralFails
<1>2. BuffersOf /\ FuturesOf BY <1>1, BuffersSame, FuturesSame
<1>3. WritersOf
  <2>1. CASE AsyncToLiteralFails(t)
    <3>1. tasks' \subseteq tasks BY <2>1 DEF AsyncToLiteralFails
    <3> QED BY <3>1, WritersFewer
  <2>2. CASE Block(t)
    <3> DEFINE u == [t EXCEPT !.at = "running"]
    <3>1. t \in Task BY TaskFacts
    <3>2. u.kind = t.kind /\ u.buf = t.buf BY <3>1 DEF Task
    <3>3. tasks' = (tasks \ {t}) \cup {u} BY <2>2 DEF Block
    <3> HIDE DEF u
    <3>4. OneWriter' BY <3>2, <3>3 DEF DefinedInv, OneWriter, Writer
    <3>5. \A b \in Buffers : Writers(tasks, b)' => Unwritten(b)
      BY <3>2, <3>3 DEF Writers, Unwritten, Writer
    <3> QED BY <3>4, <3>5 DEF WritersOf
  <2> QED BY <2>1, <2>2
<1> QED BY <1>1, <1>2, <1>3, HostDefined

(* async_wait_for_events fulfils the promise when every event is done, or   *)
(* waits for the others.                                                    *)
LEMMA AsyncWaitForEventsDefined ==
  ASSUME DeviceInv, DefinedInv, NEW t \in tasks, AsyncWaitForEvents(t)
  PROVE  DefinedInv'
<1> DEFINE b == t.buf
           E == {e \in DefinitionEvents(b) : ~ev[e].done}
           p == [op |-> "ready", buf |-> b, events |-> E]
<1>1. /\ b \in Buffers /\ Made(b) /\ UNCHANGED <<buf, ev, stream>> /\ tasks' \subseteq tasks
  BY TaskFacts DEF AsyncWaitForEvents
<1>2. Begun(b) BY <1>1 DEF Made, MadeBuffer, Begun
<1>3. \/ pool' = pool /\ ready' = [ready EXCEPT ![b] = "ok"] /\ E = {}
      \/ pool' = pool /\ ready' = [ready EXCEPT ![b] = "error"]
      \/ pool' = pool \cup {p} /\ ready' = ready
  BY DEF AsyncWaitForEvents
<1>4. AllDone(b, E) /\ p.buf = b /\ p.events = E BY DEF AllDone
<1> HIDE DEF p, E, b
<1>5. FuturesOf BY <1>1, <1>2, <1>3, <1>4, Frames DEF FuturesOf
<1>6. BuffersOf /\ WritersOf BY <1>1, BuffersSame, WritersFewer
<1> QED BY <1>1, <1>5, <1>6, HostDefined

(* A borrowed stream has passed the events a ready future waits for.        *)
LEMMA PoolStreamDoneDefined ==
  ASSUME DeviceInv, DefinedInv, NEW p \in pool, PoolStreamDone(p)
  PROVE  DefinedInv'
<1>1. /\ p \in Wait /\ p.buf \in Buffers /\ Made(p.buf) /\ pool' \subseteq pool
      /\ UNCHANGED <<buf, ev, stream, tasks>> /\ \A e \in p.events : ev[e].done
  BY DEF DeviceInv, Typed, PoolTyped, TasksFit, Wait, PoolStreamDone
<1>2. Begun(p.buf) BY <1>1 DEF Made, MadeBuffer, Begun
<1>3. p.op = "ready" => AllDone(p.buf, {}) BY <1>1 DEF DefinedInv, WaitFits, AllDone
<1>4. \/ ready' = ready
      \/ p.op = "ready" /\ \E x : ready' = [ready EXCEPT ![p.buf] = x]
  BY <1>1 DEF PoolStreamDone, Wait
<1>5. FuturesOf BY <1>1, <1>2, <1>3, <1>4, Frames DEF FuturesOf
<1>6. BuffersOf /\ WritersOf BY <1>1, BuffersSame, WritersFewer
<1> QED BY <1>1, <1>5, <1>6, HostDefined

LEMMA RunCallbackDefined ==
  ASSUME DeviceInv, DefinedInv, (\E d \in Devices : RunCallback(d)) \/ UNCHANGED vars
  PROVE  DefinedInv'
<1>1. UNCHANGED <<buf, ev, stream, tasks, pool, ready>> BY DEF RunCallback, vars
<1>2. BuffersOf /\ WritersOf /\ FuturesOf BY <1>1, BuffersSame, WritersFewer, FuturesSame
<1> QED BY <1>1, <1>2, HostDefined

(* Buffers that are created.                                                *)
LEMMA NewDefs ==
  ASSUME NEW n \in Buffers
  PROVE  /\ \A e \in Elems(<<Wrote(n)>>) : e \in Events /\ e[1] \in Kinds /\ e[2] = n
         /\ \A e \in Elems(<<Wrote(n), <<"allocated", n>>>>) :
               e \in Events /\ e[1] \in Kinds /\ e[2] = n
         /\ \A b \in Buffers : Wrote(b) # <<"joined", n>> /\ Wrote(b) # <<"allocated", n>>
         /\ <<"joined", n>>[1] \notin Kinds
<1>1. Wrote(n) \in Events /\ Wrote(n)[1] \in Kinds /\ Wrote(n)[2] = n
  BY NameFacts DEF Wrote, Kinds
<1>2. <<"allocated", n>> \in Events /\ <<"allocated", n>>[1] \in Kinds /\ <<"allocated", n>>[2] = n
  BY NameFacts DEF Kinds
<1>3. \A b \in Buffers : Wrote(b) # <<"joined", n>> /\ Wrote(b) # <<"allocated", n>> BY DEF Wrote
<1>4. <<"joined", n>>[1] \notin Kinds BY DEF Kinds
<1>5. ASSUME NEW x, NEW y PROVE Elems(<<x>>) = {x} /\ Elems(<<x, y>>) = {x, y} BY DEF Elems
<1>6. Elems(<<Wrote(n)>>) = {Wrote(n)} BY <1>5
<1>7. Elems(<<Wrote(n), <<"allocated", n>>>>) = {Wrote(n), <<"allocated", n>>} BY <1>5
<1>8. \A e \in Elems(<<Wrote(n)>>) : e \in Events /\ e[1] \in Kinds /\ e[2] = n
  BY <1>1, <1>6
<1>9. \A e \in Elems(<<Wrote(n), <<"allocated", n>>>>) :
        e \in Events /\ e[1] \in Kinds /\ e[2] = n
  BY <1>1, <1>2, <1>7
<1> QED BY <1>3, <1>4, <1>8, <1>9

LEMMA BufferFromHostBufferDefined ==
  ASSUME DeviceInv, DefinedInv, NEW d \in Devices, BufferFromHostBuffer(d)
  PROVE  DefinedInv'
<1>1. PICK n \in Buffers : n = New /\ ~Used(n)
  BY NewFacts DEF BufferFromHostBuffer, DeviceInv
<1>2. ~Begun(n) BY <1>1 DEF Used, Begun
<1> DEFINE e == Wrote(n)
           t == [kind |-> "h2d", buf |-> n, src |-> n, on |-> e, at |-> "queued"]
<1>3. PICK c \in Cells : buf' = [buf EXCEPT ![n] = NewBuffer("live", d, c, n, <<e>>)]
  BY <1>1 DEF BufferFromHostBuffer, Wrote
<1>4. /\ stream' = Join(d, <<"h2d", d>>, n, <<>>) /\ tasks' = tasks \cup {t}
      /\ UNCHANGED <<ev, pool, ready>>
  BY <1>1 DEF BufferFromHostBuffer, Wrote
<1>5. t \in Task /\ t.buf = n BY NameFacts DEF Task, Wrote
<1> HIDE DEF t, e
<1>6. BuffersOf
  <2> DEFINE defs == <<e>>
             r == NewBuffer("live", d, c, n, defs)
  <2>1. \A x \in Elems(defs) : x \in Events /\ x[1] \in Kinds /\ x[2] = n BY NewDefs DEF e
  <2>2. r.defs = defs /\ r.st = "live" BY DEF NewBuffer
  <2>3. buf' = [buf EXCEPT ![n] = r] BY <1>3
  <2> HIDE DEF r, defs
  <2> QED BY <1>2, <2>1, <2>2, <2>3, BufferNew
<1>7. WritersOf /\ FuturesOf BY <1>2, <1>4, <1>5, WriterAdded, FuturesSame
<1>8. PendingOf({<<"joined", n>>}) BY <1>4, JoinSets, NameFacts DEF DeviceInv, Typed
<1>9. EventsOf({<<"joined", n>>}) BY <1>4, <1>8, NewDefs DEF EventsOf
<1> QED BY <1>6, <1>7, <1>9, DefinedStays

LEMMA CopyToDeviceDefined ==
  ASSUME DeviceInv, DefinedInv, NEW src \in Buffers, NEW d \in Devices, CopyToDevice(src, d)
  PROVE  DefinedInv'
<1>1. PICK n \in Buffers : n = New /\ ~Used(n)
  BY NewFacts DEF CopyToDevice, DeviceInv
<1>2. ~Begun(n) BY <1>1 DEF Used, Begun
<1> DEFINE e == Wrote(n)
           s == <<"d2d", buf[src].dev>>
<1>3. PICK c \in Cells : buf' = [buf EXCEPT ![n] = NewBuffer("making", d, c, n, <<e>>)]
  BY <1>1 DEF CopyToDevice, Wrote
<1>4. /\ stream' = Join(d, s, n, <<>>)
      /\ tasks' = tasks \cup {Scheduled(<<"copy", n, src>>, buf[src].defs[1])}
      /\ UNCHANGED <<ev, pool, ready>> /\ buf[src].st = "live"
  BY <1>1 DEF CopyToDevice, Live
<1>5. Made(src) BY <1>4, StMade DEF DeviceInv
<1>6. buf[src].defs[1] \in Events /\ buf[src].dev \in Devices BY <1>5, MadeFacts DEF DeviceInv
<1>7. PICK t \in Task : tasks' = tasks \cup {t} /\ t.buf = n BY <1>4, <1>6, ScheduledFacts
<1>8. s \in Streams /\ s # <<"compute", d>> BY <1>6, NameFacts
<1> HIDE DEF e, s
<1>9. BuffersOf
  <2> DEFINE defs == <<e>>
             r == NewBuffer("making", d, c, n, defs)
  <2>1. \A x \in Elems(defs) : x \in Events /\ x[1] \in Kinds /\ x[2] = n BY NewDefs DEF e
  <2>2. r.defs = defs /\ r.st = "making" BY DEF NewBuffer
  <2>3. buf' = [buf EXCEPT ![n] = r] BY <1>3
  <2> HIDE DEF r, defs
  <2> QED BY <1>2, <2>1, <2>2, <2>3, BufferNew
<1>10. WritersOf /\ FuturesOf BY <1>2, <1>4, <1>7, WriterAdded, FuturesSame
<1>11. PendingOf({<<"joined", n>>}) BY <1>4, <1>8, JoinSets DEF DeviceInv, Typed
<1>12. EventsOf({<<"joined", n>>}) BY <1>4, <1>11, NewDefs DEF EventsOf
<1> QED BY <1>9, <1>10, <1>12, DefinedStays

LEMMA CreateErrorBufferDefined ==
  ASSUME DeviceInv, DefinedInv, NEW d \in Devices, CreateErrorBuffer(d)
  PROVE  DefinedInv'
<1>1. PICK n \in Buffers : n = New /\ ~Used(n)
  BY NewFacts DEF CreateErrorBuffer, DeviceInv
<1>2. ~Begun(n) BY <1>1 DEF Used, Begun
<1> DEFINE e == Wrote(n)
           a == <<"allocated", n>>
           s == <<"compute", d>>
           err == [ev EXCEPT ![e].status = "error"]
<1>3. PICK c \in Cells, defs \in {<<e>>, <<e, a>>} :
        /\ buf' = [buf EXCEPT ![n] = NewBuffer("live", d, c, n, defs)]
        /\ \/ ev' = SetSequencingEvent(err, a, s) /\ stream' = [stream EXCEPT ![s] = @ \o Record(a)]
           \/ ev' = err /\ stream' = stream
  BY <1>1 DEF CreateErrorBuffer, Wrote
<1>4. UNCHANGED <<tasks, pool, ready>> BY DEF CreateErrorBuffer
<1>5. e \in Events /\ a \in Events /\ s \in Streams BY NameFacts DEF Wrote
<1>6. ev \in [Events -> Event] BY DEF DeviceInv, Typed, EvTyped
<1>7. a[2] = n OBVIOUS
<1> HIDE DEF e, s
<1>8. err \in [Events -> Event] /\ \A x \in Events : err[x].done = ev[x].done
  BY <1>5, <1>6, DoneAfterError
<1> HIDE DEF err
<1> HIDE DEF a
<1>9. \A x \in Events : x # a => ev'[x].done = ev[x].done
  <2>1. CASE ev' = err BY <1>8, <2>1
  <2>2. CASE ev' = SetSequencingEvent(err, a, s)
    <3>1. \A x \in Events : x # a => SetSequencingEvent(err, a, s)[x] = err[x]
      BY <1>5, <1>8, SetFacts
    <3> QED BY <1>8, <2>2, <3>1
  <2> QED BY <1>3, <2>1, <2>2
<1>10. PendingOf({a})
  <2>1. CASE stream' = stream BY <2>1, StreamsSame
  <2>2. CASE stream' = [stream EXCEPT ![s] = stream[s] \o Record(a)]
    <3>1. SetsOf(Record(a), {a}) BY <1>5, SetsFacts
    <3> QED BY <1>5, <2>2, <3>1, StreamSets DEF DeviceInv, Typed
  <2> QED BY <1>3, <2>1, <2>2
<1>11. EventsOf({a})
  <2>1. \A x \in Buffers : Wrote(x) # a BY NewDefs DEF a
  <2> QED BY <1>2, <1>7, <1>9, <1>10, <2>1 DEF EventsOf
<1>12. BuffersOf
  <2> DEFINE r == NewBuffer("live", d, c, n, defs)
  <2>1. r.defs = defs /\ r.st = "live" BY DEF NewBuffer
  <2>2. \A x \in Elems(defs) : x \in Events /\ x[1] \in Kinds /\ x[2] = n BY NewDefs DEF e, a
  <2>3. buf' = [buf EXCEPT ![n] = r] BY <1>3
  <2> HIDE DEF r
  <2> QED BY <1>2, <2>1, <2>2, <2>3, BufferNew
<1>13. WritersOf /\ FuturesOf BY <1>4, WritersFewer, FuturesSame
<1> QED BY <1>11, <1>12, <1>13, DefinedStays

(* DonateWithControlDependency hands on the definition events.              *)
LEMMA DonateDefined ==
  ASSUME DeviceInv, DefinedInv, NEW b \in Buffers, DonateWithControlDependency(b)
  PROVE  DefinedInv'
<1>1. PICK n \in Buffers : n = New /\ ~Used(n)
  BY NewFacts DEF DonateWithControlDependency, DeviceInv
<1> DEFINE e == <<"dependency", n>>
           r == NewBuffer("live", buf[b].dev, buf[b].cell, buf[b].val, <<e>> \o buf[b].defs)
<1>2. /\ buf[b].st = "live" /\ buf' = [buf EXCEPT ![b] = ConfirmDonation(b), ![n] = r]
      /\ UNCHANGED <<ev, stream, tasks, pool, ready>>
  BY <1>1 DEF DonateWithControlDependency, Live
<1>3. ~Begun(n) /\ b # n BY <1>1, <1>2 DEF Used, Begun
<1>4. Made(b) BY <1>2, StMade DEF DeviceInv
<1>5. ConfirmDonation(b).st = "gone" /\ ConfirmDonation(b).defs = buf[b].defs
  BY <1>4 DEF Made, MadeBuffer, ConfirmDonation
<1>6. r.st = "live" /\ r.defs = <<e>> \o buf[b].defs BY DEF NewBuffer
<1>7. e \in Events /\ e[1] \in Kinds /\ e[2] = n BY NameFacts DEF Kinds
<1> HIDE DEF r, e
<1>8. \A x \in Buffers : buf'[x] = IF x = n THEN r ELSE IF x = b THEN ConfirmDonation(b) ELSE buf[x]
  BY <1>2, <1>3 DEF DeviceInv, Typed, BufTyped
<1>9. DefinitionFits(n)'
  <2>1. buf[b].defs \in Seq(Events) BY <1>4, MadeFacts DEF DeviceInv
  <2>2. Elems(<<e>>) = {e} /\ <<e>> \in Seq(Events) BY <1>7 DEF Elems
  <2>3. \A x \in Elems(<<e>> \o buf[b].defs) : x = e \/ x \in DefinitionEvents(b)
    BY <2>1, <2>2, ConcatFacts DEF Elems, DefinitionEvents
  <2>4. (DefinitionEvents(n))' = Elems(<<e>> \o buf[b].defs)
    BY <1>6, <1>8 DEF DefinitionEvents, Elems
  <2>5. \A x \in DefinitionEvents(b) : x \in Events /\ x[1] \in Kinds /\ Begun(x[2]) /\ x[2] \in Buffers
    BY NameFacts DEF DefinedInv, DefinitionFits
  <2>6. \A x \in Buffers : Begun(x) => Begun(x)' BY <1>5, <1>6, <1>8 DEF Begun
  <2>7. Begun(n)' BY <1>6, <1>8 DEF Begun
  <2> QED BY <1>7, <2>3, <2>4, <2>5, <2>6, <2>7 DEF DefinitionFits
<1>10. BuffersOf BY <1>3, <1>5, <1>6, <1>8, <1>9 DEF BuffersOf, Begun
<1>11. WritersOf /\ FuturesOf BY <1>2, WritersFewer, FuturesSame
<1> QED BY <1>2, <1>10, <1>11, HostDefined

(* The dependency is resolved: its event is set and done at once.           *)
LEMMA DependencyReadyDefined ==
  ASSUME DeviceInv, DefinedInv, NEW n \in Buffers, NEW status, DependencyReady(n, status)
  PROVE  DefinedInv'
<1> DEFINE e == <<"dependency", n>>
           r == [seq |-> 1, stream |-> NoStream, status |-> "ok", on |-> {}, done |-> TRUE]
<1>1. /\ ev' = [ev EXCEPT ![e] = r] /\ tasks' = Awakened(tasks, e)
      /\ UNCHANGED <<buf, stream, pool, ready>>
  BY DEF DependencyReady
<1>2. e \in Events /\ r.done /\ \A b \in Buffers : Wrote(b) # e BY NameFacts DEF Wrote
<1> HIDE DEF e, r
<1>3. \A x \in Events : ev'[x] = IF x = e THEN r ELSE ev[x] BY <1>1 DEF DeviceInv, Typed, EvTyped
<1>4. EventsOf({e}) BY <1>1, <1>2, <1>3, StreamsSame DEF EventsOf
<1>5. WritersOf BY <1>1, WritersAwakened
<1>6. BuffersOf /\ FuturesOf BY <1>1, BuffersSame, FuturesSame
<1> QED BY <1>4, <1>5, <1>6, DefinedStays

(* A task that writes its buffer was the only one that would.               *)
LEMMA WriteDefined ==
  ASSUME DeviceInv, DefinedInv, NEW t \in tasks, Writer(t),
         tasks' = Awakened(tasks \ {t}, Wrote(t.buf)),
         \A x \in Events : x # Wrote(t.buf) => (ev'[x].done <=> ev[x].done),
         PendingOf({Wrote(t.buf)}), BuffersOf, UNCHANGED <<pool, ready>>
  PROVE  DefinedInv'
<1>1. t.buf \in Buffers /\ Made(t.buf) BY TaskFacts
<1>2. Begun(t.buf) BY <1>1 DEF Made, MadeBuffer, Begun
<1>3. Unwritten(t.buf) BY DEF Unwritten, Writers
<1>4. ~ev[Wrote(t.buf)].done BY <1>1, <1>3 DEF DefinedInv, WriteAhead
<1>5. WritersOf /\ \A b \in Buffers : Writers(tasks, b)' => Writers(tasks \ {t}, b)
  BY WritersAwakened
<1>6. ~Writers(tasks \ {t}, t.buf) BY DEF Writers, DefinedInv, OneWriter
<1>7. ~Unwritten(t.buf)' BY <1>1, <1>2, <1>5, <1>6 DEF Unwritten, BuffersOf
<1>8. \A b \in Buffers : Wrote(b) = Wrote(t.buf) => b = t.buf BY DEF Wrote
<1>9. EventsOf({Wrote(t.buf)}) BY <1>4, <1>7, <1>8 DEF EventsOf
<1>10. FuturesOf BY FuturesSame
<1> QED BY <1>5, <1>9, <1>10, DefinedStays

LEMMA TransferH2DDefined ==
  ASSUME DeviceInv, DefinedInv, NEW t \in tasks, TransferH2D(t)
  PROVE  DefinedInv'
<1> DEFINE b == t.buf
           e == Wrote(b)
           s == <<"h2d", buf[b].dev>>
           evs == SetSequencingEvent(ev, e, s)
           u == AddUsageEvent(evs, buf[b].usage, s, e, Retain)
           D == IF Retain THEN {b} ELSE {}
           A == Access({}, {Contents(b)}, e)
           C == Callback(D, {})
           r == [buf[b] EXCEPT !.usage = u]
<1>1. b \in Buffers /\ Made(b) BY TaskFacts
<1>2. buf[b].dev \in Devices /\ Contents(b) \in Memory BY <1>1, MadeFacts DEF DeviceInv
<1>3. s \in Streams /\ e \in Events BY <1>1, <1>2, NameFacts DEF Wrote
<1>4. /\ ev' = evs /\ buf' = [buf EXCEPT ![b] = r] /\ tasks' = Awakened(tasks \ {t}, e)
      /\ stream' = [stream EXCEPT ![s] = (stream[s] \o A) \o C]
      /\ UNCHANGED <<pool, ready>> /\ Writer(t)
  BY DEF TransferH2D, Wrote, Writer
<1>5. r.defs = buf[b].defs /\ r.st = buf[b].st BY <1>1, DefsKept
<1>6. buf[b].st # "unborn" BY <1>1 DEF Made, MadeBuffer
<1>7. D \in SUBSET Buffers /\ {Contents(b)} \in SUBSET Memory /\ {} \in SUBSET Memory
      /\ {} \in SUBSET Cells
  BY <1>1, <1>2
<1> HIDE DEF b, e, s, u, D, r
<1>8. SetsOf(A, {e}) BY <1>3, <1>7, SetsFacts
<1>9. SetsOf(C, {e}) BY <1>3, <1>7, SetsFacts
<1> HIDE DEF A, C
<1>10. PendingOf({e}) BY <1>3, <1>4, <1>8, <1>9, StreamTwoSets DEF DeviceInv, Typed
<1>11. \A x \in Events : x # e => (ev'[x].done <=> ev[x].done)
  BY <1>3, <1>4, DoneAfterSet DEF evs, DeviceInv, Typed
<1> HIDE DEF evs
<1>12. BuffersOf BY <1>1, <1>4, <1>5, <1>6, BufferKept
<1> QED BY <1>4, <1>10, <1>11, <1>12, WriteDefined DEF e, b

LEMMA AsyncCopyToDeviceDefined ==
  ASSUME DeviceInv, DefinedInv, NEW t \in tasks, AsyncCopyToDevice(t)
  PROVE  DefinedInv'
<1> DEFINE s == <<"d2d", buf[t.src].dev>>
           e == Wrote(t.buf)
           E == DefinitionEvents(t.src)
           D == {t.src}
           W == Waits(s, E)
           A == Access({Contents(t.src)}, {Contents(t.buf)}, e)
           C == Callback(D, {})
<1>1. t.buf \in Buffers /\ Made(t.buf) /\ t.src \in Buffers /\ Made(t.src) BY TaskFacts
<1>2. /\ buf[t.src].dev \in Devices /\ Contents(t.src) \in Memory
      /\ E \in SUBSET Events /\ Contents(t.buf) \in Memory
  BY <1>1, MadeFacts DEF DeviceInv
<1>3. s \in Streams /\ e \in Events BY <1>1, <1>2, NameFacts DEF Wrote
<1>4. /\ tasks' = Awakened(tasks \ {t}, e) /\ UNCHANGED <<buf, pool, ready>> /\ t.kind = "copy"
      /\ \/ /\ stream' = [stream EXCEPT ![s] = ((stream[s] \o W) \o A) \o C]
            /\ ev' = SetSequencingEvent(DefinedOn(s, E), e, s)
         \/ /\ stream' = [stream EXCEPT ![s] = stream[s] \o C]
            /\ ev' = [ev EXCEPT ![e].status = "error"]
  BY Zenon DEF AsyncCopyToDevice, Wrote
<1>5. /\ D \in SUBSET Buffers /\ {Contents(t.src)} \in SUBSET Memory
      /\ {Contents(t.buf)} \in SUBSET Memory /\ {} \in SUBSET Cells
  BY <1>1, <1>2
<1>6. Writer(t) BY <1>4 DEF Writer
<1> HIDE DEF e, s, E, D
<1>7. SetsOf(W, {e}) BY <1>2, <1>3, <1>5, SetsFacts
<1>8. SetsOf(A, {e}) BY <1>2, <1>3, <1>5, SetsFacts
<1>9. SetsOf(C, {e}) BY <1>2, <1>3, <1>5, SetsFacts
<1> HIDE DEF W, A, C
<1>10. PendingOf({e})
  <2>1. CASE stream' = [stream EXCEPT ![s] = ((stream[s] \o W) \o A) \o C]
    BY <1>3, <1>7, <1>8, <1>9, <2>1, StreamThreeSets DEF DeviceInv, Typed
  <2>2. CASE stream' = [stream EXCEPT ![s] = stream[s] \o C]
    BY <1>3, <1>9, <2>2, StreamSets DEF DeviceInv, Typed
  <2> QED BY <1>4, <2>1, <2>2
<1>11. \A x \in Events : x # e => (ev'[x].done <=> ev[x].done)
  <2>1. CASE ev' = SetSequencingEvent(DefinedOn(s, E), e, s)
    BY <1>3, <2>1, DoneAfterSet DEF DeviceInv, Typed
  <2>2. CASE ev' = [ev EXCEPT ![e].status = "error"]
    BY <1>3, <2>2, DoneAfterError DEF DeviceInv, Typed, EvTyped
  <2> QED BY <1>4, <2>1, <2>2
<1>12. BuffersOf BY <1>4, BuffersSame
<1> QED BY <1>4, <1>6, <1>10, <1>11, <1>12, WriteDefined DEF e

LEMMA AsyncToLiteralDefined ==
  ASSUME DeviceInv, DefinedInv, NEW t \in tasks, AsyncToLiteral(t)
  PROVE  DefinedInv'
<1> DEFINE b == t.buf
           e == <<"read", b>>
           s == <<"d2h", buf[b].dev>>
           E == DefinitionEvents(b)
           D == {b}
           W == Waits(s, E)
           A == Access({Contents(b)}, {}, e)
           C == Callback(D, {})
<1>1. b \in Buffers /\ Made(b) BY TaskFacts
<1>2. buf[b].dev \in Devices /\ Contents(b) \in Memory /\ E \in SUBSET Events
  BY <1>1, MadeFacts DEF DeviceInv
<1>3. s \in Streams /\ e \in Events BY <1>1, <1>2, NameFacts
<1>4. /\ tasks' \subseteq tasks /\ UNCHANGED <<buf, pool, ready>>
      /\ stream' = [stream EXCEPT ![s] = ((stream[s] \o W) \o A) \o C]
      /\ ev' = SetSequencingEvent(DefinedOn(s, E), e, s)
  BY Zenon DEF AsyncToLiteral
<1>5. /\ D \in SUBSET Buffers /\ {Contents(b)} \in SUBSET Memory /\ {} \in SUBSET Memory
      /\ {} \in SUBSET Cells
  BY <1>1, <1>2
<1>6. e[1] \notin Kinds /\ \A x \in Buffers : Wrote(x) # e BY DEF Kinds, Wrote
<1> HIDE DEF b, e, s, E, D
<1>7. SetsOf(W, {e}) BY <1>2, <1>3, <1>5, SetsFacts
<1>8. SetsOf(A, {e}) BY <1>2, <1>3, <1>5, SetsFacts
<1>9. SetsOf(C, {e}) BY <1>2, <1>3, <1>5, SetsFacts
<1> HIDE DEF W, A, C
<1>10. PendingOf({e})
  BY <1>3, <1>4, <1>7, <1>8, <1>9, StreamThreeSets DEF DeviceInv, Typed
<1>11. \A x \in Events : x # e => (ev'[x].done <=> ev[x].done)
  BY <1>3, <1>4, DoneAfterSet DEF DeviceInv, Typed
<1>12. EventsOf({e}) BY <1>6, <1>10, <1>11 DEF EventsOf
<1>13. BuffersOf /\ WritersOf /\ FuturesOf BY <1>4, BuffersSame, WritersFewer, FuturesSame
<1> QED BY <1>12, <1>13, DefinedStays

LEMMA ExecuteFailsDefined ==
  ASSUME DeviceInv, DefinedInv, NEW out \in Buffers, ExecuteFails(out)
  PROVE  DefinedInv'
<1> DEFINE d == buf[CHOOSE b \in call[out].ins : TRUE].dev
           s == <<"compute", d>>
           E == ExecutionEvents(call[out].ins, call[out].don)
           r == [buf[out] EXCEPT !.st = "gone"]
           W == Waits(s, E)
<1>1. /\ call[out].op = "execute" /\ stream' = [stream EXCEPT ![s] = stream[s] \o W]
      /\ ev' = DefinedOn(s, E) /\ buf' = [buf EXCEPT ![out] = r]
      /\ UNCHANGED <<tasks, pool, ready>>
  BY DEF ExecuteFails
<1>2. d \in Devices /\ E \in SUBSET Events BY <1>1, ExecutionFacts
<1>3. s \in Streams BY <1>2, NameFacts
<1>4. r.defs = buf[out].defs /\ r.st = "gone" BY DefsKept
<1> HIDE DEF d, E, r, s
<1>5. SetsOf(W, {})
  <2>1. <<"written", out>> \in Events /\ {} \in SUBSET Memory /\ {} \in SUBSET Buffers
        /\ {} \in SUBSET Cells
    BY NameFacts
  <2> QED BY <1>2, <2>1, SetsFacts
<1> HIDE DEF W
<1>6. PendingOf({}) BY <1>1, <1>3, <1>5, StreamSets DEF DeviceInv, Typed
<1>7. \A x \in Events : ev'[x].done = ev[x].done BY <1>1, DoneAfterWait DEF DeviceInv, Typed
<1>8. EventsOf({}) BY <1>6, <1>7, NothingSet
<1>9. BuffersOf BY <1>1, <1>4, BufferKept
<1>10. WritersOf /\ FuturesOf BY <1>1, WritersFewer, FuturesSame
<1> QED BY <1>8, <1>9, <1>10, DefinedStays

(* CopyToDevice returns: two buffers get a usage event.                     *)
LEMMA CopyToDeviceReturnDefined ==
  ASSUME DeviceInv, DefinedInv, NEW dst \in Buffers, CopyToDeviceReturn(dst)
  PROVE  DefinedInv'
<1>1. /\ call[dst].op = "copy" /\ buf[dst].st = "making" /\ dst \notin call[dst].ins
      /\ call[dst].ins \subseteq Buffers /\ \A i \in call[dst].ins : Made(i)
  BY CallFacts DEF CallFits, CopyToDeviceReturn
<1> DEFINE D == IF Retain THEN {dst} ELSE {}
           C == Callback(D, {})
<1>2. PICK src \in call[dst].ins : \E u, v :
        /\ buf' = [buf EXCEPT ![dst].st = "live", ![dst].usage = u, ![src].usage = v]
        /\ stream' = [stream EXCEPT ![<<"d2d", buf[src].dev>>] = @ \o C]
  <2> DEFINE S(i) == <<"d2d", buf[i].dev>>
             e == <<"written", dst>>
             U(i) == AddUsageEvent(ev, buf[dst].usage, S(i), e, Retain)
             V(i) == AddUsageEvent(ev, buf[i].usage, S(i), e, TRUE)
  <2>1. PICK src \in call[dst].ins :
          /\ buf' = [buf EXCEPT ![dst].st = "live",
                ![dst].usage = AddUsageEvent(ev, @, S(src), e, Retain),
                ![src].usage = AddUsageEvent(ev, @, S(src), e, TRUE)]
          /\ stream' = [stream EXCEPT ![S(src)] = @ \o C]
    BY DEF CopyToDeviceReturn
  <2>2. src # dst /\ src \in Buffers BY <1>1
  <2>3. buf \in [Buffers -> MadeBuffer \cup NoBuffer] BY DEF DeviceInv, Typed, BufTyped
  <2>4. Made(dst) BY <1>1, StMade DEF DeviceInv
  <2>5. buf' = [buf EXCEPT ![dst].st = "live", ![dst].usage = U(src), ![src].usage = V(src)]
    BY <2>1, <2>2, <2>3, <2>4 DEF Made, MadeBuffer
  <2> QED BY <2>1, <2>5
<1>3. UNCHANGED <<ev, tasks, pool, ready>> BY DEF CopyToDeviceReturn
<1>4. src \in Buffers /\ src # dst /\ Made(src) /\ Made(dst) BY <1>1, StMade DEF DeviceInv
<1> PICK u, v :
      /\ buf' = [buf EXCEPT ![dst].st = "live", ![dst].usage = u, ![src].usage = v]
      /\ stream' = [stream EXCEPT ![<<"d2d", buf[src].dev>>] = @ \o C]
  BY <1>2
<1> DEFINE s == <<"d2d", buf[src].dev>>
<1>5. buf[src].dev \in Devices BY <1>4, MadeFacts DEF DeviceInv
<1>6. s \in Streams BY <1>5, NameFacts
<1>7. D \in SUBSET Buffers OBVIOUS
<1> HIDE DEF D, s
<1>8. SetsOf(C, {})
  <2>1. <<"written", dst>> \in Events /\ {} \in SUBSET Memory /\ {} \in SUBSET Events
        /\ {} \in SUBSET Cells
    BY NameFacts
  <2> QED BY <1>7, <2>1, SetsFacts
<1> HIDE DEF C
<1>9. stream' = [stream EXCEPT ![s] = stream[s] \o C] BY DEF s
<1>10. PendingOf({}) BY <1>6, <1>8, <1>9, StreamSets DEF DeviceInv, Typed
<1>11. EventsOf({}) BY <1>3, <1>10, NothingSet
<1>12. BuffersOf
  <2> DEFINE r1 == [buf[dst] EXCEPT !.st = "live", !.usage = u]
             r2 == [buf[src] EXCEPT !.usage = v]
  <2>1. buf \in [Buffers -> MadeBuffer \cup NoBuffer] BY DEF DeviceInv, Typed, BufTyped
  <2>2. /\ r1.defs = buf[dst].defs /\ r1.st = "live"
        /\ r2.defs = buf[src].defs /\ r2.st = buf[src].st
    BY <1>4 DEF Made, MadeBuffer
  <2>3. buf' = [buf EXCEPT ![dst] = r1, ![src] = r2] BY <1>4, <2>1 DEF Made, MadeBuffer
  <2> HIDE DEF r1, r2
  <2>4. \A x \in Buffers : buf'[x] = IF x = src THEN r2 ELSE IF x = dst THEN r1 ELSE buf[x]
    BY <1>4, <2>1, <2>3
  <2> QED BY <2>2, <2>4 DEF BuffersOf, Begun
<1>13. WritersOf /\ FuturesOf BY <1>3, WritersFewer, FuturesSame
<1> QED BY <1>11, <1>12, <1>13, DefinedStays

(* The output of an execution is new: nobody was about to write it.         *)
LEMMA ExecuteHelperDefined ==
  ASSUME DeviceInv, DefinedInv, NEW out \in Buffers, ExecuteHelper(out)
  PROVE  DefinedInv'
<1> DEFINE ins == call[out].ins
           don == call[out].don
           d   == buf[CHOOSE b \in ins : TRUE].dev
           s   == <<"compute", d>>
           e   == Wrote(out)
           E   == ExecutionEvents(ins, don)
           evs == SetSequencingEvent(DefinedOn(s, E), e, s)
           kept == IF Retain THEN {out} \cup (ins \ don) ELSE {}
           reads == {Contents(b) : b \in ins}
           add(u) == AddUsageEvent(evs, u, s, e, Retain)
<1>1. call[out].op = "execute" BY Zenon DEF ExecuteHelper
<1>2. PICK c \in Cells, back \in SUBSET Cells :
        /\ buf' = [b \in Buffers |->
             CASE b = out -> [NewBuffer("live", d, c, out, <<e>>) EXCEPT !.usage = add(<<>>)]
               [] b \in don -> ConfirmDonation(b)
               [] b \in ins \ don -> [buf[b] EXCEPT !.usage = add(buf[b].usage)]
               [] OTHER -> buf[b]]
        /\ stream' = [stream EXCEPT ![s] =
             ((stream[s] \o Waits(s, E)) \o Access(reads, {[cell |-> c, val |-> out]}, e))
               \o Callback(kept, back)]
  <2>1. PICK c \in Cells :
          LET alias == \E b \in don : buf[b].cell = c
              back  == IF Retain /\ ~alias THEN {buf[b].cell : b \in don} ELSE {}
          IN  /\ buf' = [b \in Buffers |->
                   CASE b = out -> [NewBuffer("live", d, c, out, <<e>>) EXCEPT !.usage = add(<<>>)]
                     [] b \in don -> ConfirmDonation(b)
                     [] b \in ins \ don -> [buf[b] EXCEPT !.usage = add(buf[b].usage)]
                     [] OTHER -> buf[b]]
              /\ stream' = [stream EXCEPT ![s] =
                   ((stream[s] \o Waits(s, E))
                      \o Access(reads, {[cell |-> c, val |-> out]}, e))
                     \o Callback(kept, back)]
    BY Zenon DEF ExecuteHelper, Wrote
  <2> DEFINE back == IF Retain /\ ~(\E b \in don : buf[b].cell = c)
                     THEN {buf[b].cell : b \in don} ELSE {}
  <2>2. back \in SUBSET Cells
    <3>1. don \subseteq ins /\ ins \subseteq Buffers /\ \A b \in ins : Made(b)
      BY <1>1, ExecutionFacts
    <3> HIDE DEF ins, don
    <3>2. \A b \in don : buf[b].cell \in Cells BY <3>1, MadeFacts DEF DeviceInv
    <3> QED BY <3>2
  <2> QED BY <2>1, <2>2, Zenon
<1>3. ev' = evs /\ UNCHANGED <<tasks, pool, ready>> BY Zenon DEF ExecuteHelper, Wrote
<1>4. /\ buf[out].st = "unborn" /\ ~Made(out) /\ ins \subseteq Buffers /\ don \subseteq ins
      /\ \A b \in ins : Made(b) /\ b # out
  BY <1>1, ExecutionFacts
<1>5. d \in Devices /\ E \in SUBSET Events BY <1>1, ExecutionFacts
<1>6. s \in Streams /\ e \in Events /\ out \in 0..NumBuffers
  BY <1>5, NameFacts, BufferNumbers DEF Wrote
<1>7. ~Begun(out) /\ ~Writers(tasks, out)
  BY <1>4, TaskFacts DEF Begun, Writers
<1> HIDE DEF d, E, s, e
<1>8. \A x \in Events : x # e => (ev'[x].done <=> ev[x].done)
  BY <1>3, <1>6, DoneAfterSet DEF DeviceInv, Typed
<1> HIDE DEF evs, ins, don
<1>9. PendingOf({e})
  <2> DEFINE W == Waits(s, E)
             w == {[cell |-> c, val |-> out]}
             A == Access(reads, w, e)
             C == Callback(kept, back)
  <2>1. kept \in SUBSET Buffers BY <1>4
  <2>2. \A b \in ins : Contents(b) \in Memory BY <1>4, MadeFacts DEF DeviceInv
  <2>3. reads \in SUBSET Memory /\ w \in SUBSET Memory BY <1>6, <2>2 DEF Memory
  <2> HIDE DEF kept, reads, w
  <2>4. SetsOf(W, {e}) BY <1>5, <1>6, <2>1, <2>3, SetsFacts
  <2>5. SetsOf(A, {e}) BY <1>5, <1>6, <2>1, <2>3, SetsFacts
  <2>6. SetsOf(C, {e}) BY <1>5, <1>6, <2>1, <2>3, SetsFacts
  <2>7. stream' = [stream EXCEPT ![s] = ((stream[s] \o W) \o A) \o C] BY <1>2 DEF w
  <2> HIDE DEF W, A, C
  <2> QED BY <1>6, <2>4, <2>5, <2>6, <2>7, StreamThreeSets DEF DeviceInv, Typed
<1> HIDE DEF add
<1>10. buf'[out].st = "live" /\ buf'[out].defs = <<e>>
  <2> DEFINE u == add(<<>>)
  <2>1. buf'[out] = [NewBuffer("live", d, c, out, <<e>>) EXCEPT !.usage = u] BY <1>2, <1>4
  <2> HIDE DEF u
  <2> QED BY <2>1 DEF NewBuffer
<1>11. ASSUME NEW b \in Buffers, b # out PROVE buf'[b].defs = buf[b].defs /\ (Begun(b) => Begun(b)')
  <2>1. CASE b \in don
    <3>1. buf'[b] = ConfirmDonation(b) BY <1>2, <1>11, <2>1
    <3>2. Made(b) BY <1>4, <2>1
    <3> QED BY <3>1, <3>2 DEF Made, MadeBuffer, ConfirmDonation, Begun
  <2>2. CASE b \in ins \ don
    <3> DEFINE u == add(buf[b].usage)
    <3>1. buf'[b] = [buf[b] EXCEPT !.usage = u] BY <1>2, <1>11, <2>2
    <3> HIDE DEF u
    <3>2. [buf[b] EXCEPT !.usage = u].defs = buf[b].defs /\ [buf[b] EXCEPT !.usage = u].st = buf[b].st
      BY DefsKept
    <3> QED BY <3>1, <3>2 DEF Begun
  <2>3. CASE b \notin ins /\ b \notin don
    <3>1. buf'[b] = buf[b] BY <1>2, <1>11, <2>3
    <3> QED BY <3>1 DEF Begun
  <2> QED BY <1>4, <2>1, <2>2, <2>3
<1>12. DefinitionFits(out)'
  <2> DEFINE defs == <<e>>
  <2>1. \A x \in Elems(defs) : x \in Events /\ x[1] \in Kinds /\ x[2] = out BY NewDefs DEF e
  <2>2. buf'[out].defs = defs BY <1>10
  <2> HIDE DEF defs
  <2>3. (DefinitionEvents(out))' = Elems(defs) BY <2>2 DEF DefinitionEvents, Elems
  <2> QED BY <1>10, <2>1, <2>3 DEF DefinitionFits, Begun
<1>13. BuffersOf BY <1>7, <1>10, <1>11, <1>12 DEF BuffersOf, Begun
<1>14. ~Unwritten(out)'
  <2>1. Begun(out)' BY <1>10 DEF Begun
  <2> QED BY <1>3, <1>7, <2>1 DEF Unwritten, Writers
<1>15. EventsOf({e})
  <2>1. e[2] = out /\ \A x \in Buffers : Wrote(x) = e => x = out BY DEF e, Wrote
  <2> QED BY <1>7, <1>8, <1>9, <1>14, <2>1 DEF EventsOf
<1>16. WritersOf /\ FuturesOf BY <1>3, WritersFewer, FuturesSame
<1> QED BY <1>13, <1>15, <1>16, DefinedStays

(* A stream passes an operation: its event is done, and what is still to be *)
(* written is not what it set.                                              *)
LEMMA StreamStepDefined ==
  ASSUME DeviceInv, DefinedInv, NEW s \in Streams, StreamStep(s)
  PROVE  DefinedInv'
<1> DEFINE o == Head(stream[s])
<1>1. /\ stream \in [Streams -> Seq(StreamOp)] /\ ev \in [Events -> Event]
  BY DEF DeviceInv, Typed, StreamTyped, EvTyped
<1>2. /\ stream[s] # <<>> /\ stream' = [stream EXCEPT ![s] = Tail(stream[s])]
      /\ UNCHANGED <<buf, tasks, pool, ready>>
      /\ ev' = IF o.op \in {"access", "record"} THEN [ev EXCEPT ![o.event].done = TRUE] ELSE ev
  BY <1>1 DEF StreamStep, Enabled, Advance
<1>3. /\ o \in StreamOp /\ o \in Elems(stream[s])
      /\ Elems(Tail(stream[s])) \subseteq Elems(stream[s])
  BY <1>1, <1>2, TailFacts
<1> HIDE DEF o
<1>4. o \in Pending BY <1>3 DEF Pending, StreamOps, Elems
<1>5. \A S : PendingOf(S)
  <2>1. \A x \in Elems(Tail(stream[s])) : x \in Elems(stream[s]) BY <1>3
  <2> DEFINE r == Tail(stream[s])
  <2>2. stream' = [stream EXCEPT ![s] = r] BY <1>2
  <2> HIDE DEF r
  <2> QED BY <2>1, <2>2, StreamGrown DEF r, DeviceInv, Typed
<1>6. BuffersOf /\ WritersOf /\ FuturesOf BY <1>2, BuffersSame, WritersFewer, FuturesSame
<1>7. CASE ~Sets(o)
  <2>1. ev' = ev BY <1>2, <1>7 DEF Sets
  <2>2. EventsOf({}) BY <1>5, <2>1, NothingSet
  <2> QED BY <1>6, <2>2, DefinedStays
<1>8. CASE Sets(o)
  <2> DEFINE e == o.event
             r == [ev[e] EXCEPT !.done = TRUE]
  <2>1. e \in Events BY <1>3, <1>8 DEF Sets, StreamOp, WaitOp, AccessOp, RecordOp, CallbackOp
  <2>2. ev' = [ev EXCEPT ![e] = r] BY <1>2, <1>8 DEF Sets
  <2>3. \A b \in Buffers : Unwritten(b) => Wrote(b) # e
    BY <1>4, <1>8 DEF DefinedInv, WriteAhead
  <2> HIDE DEF e
  <2>4. r.done
    <3>1. ev[e] \in Event BY <1>1, <2>1
    <3> QED BY <3>1 DEF Event
  <2> HIDE DEF r
  <2>5. \A x \in Events : ev'[x] = IF x = e THEN r ELSE ev[x] BY <1>1, <2>1, <2>2
  <2>6. \A b \in Buffers : Unwritten(b)' => Unwritten(b)
    BY <1>2 DEF Unwritten, Writers, Begun
  <2>7. EventsOf({e}) BY <1>5, <2>1, <2>3, <2>4, <2>5, <2>6 DEF EventsOf
  <2> QED BY <1>6, <2>7, DefinedStays
<1> QED BY <1>7, <1>8

LEMMA InitDefined == Init => DefinedInv
<1> SUFFICES ASSUME Init PROVE DefinedInv OBVIOUS
<1>1. /\ tasks = {} /\ pool = {} /\ \A s \in Streams : stream[s] = <<>>
      /\ \A b \in Buffers : buf[b] = Unborn /\ ready[b] = "none"
      /\ \A e \in Events : ev[e] = NotSet
  BY DEF Init
<1>2. Pending = {} BY <1>1 DEF Pending, StreamOps
<1>3. ASSUME NEW b \in Buffers PROVE DefinitionFits(b) /\ WriteAhead(b) /\ ReadyFits(b)
  <2>1. DefinitionEvents(b) = {} BY <1>1 DEF DefinitionEvents, Unborn
  <2>2. Wrote(b) \in Events BY NameFacts DEF Wrote
  <2>3. ~ev[Wrote(b)].done BY <1>1, <2>2 DEF NotSet
  <2> QED BY <1>1, <1>2, <2>1, <2>3 DEF DefinitionFits, WriteAhead, ReadyFits
<1> QED BY <1>1, <1>3 DEF DefinedInv, OneWriter

LEMMA NextDefined == DeviceInv /\ DefinedInv /\ [Next]_vars => DefinedInv'
<1> SUFFICES ASSUME DeviceInv, DefinedInv, [Next]_vars PROVE DefinedInv' OBVIOUS
<1>1. CASE Start
  <2>1. ASSUME NEW d \in Devices,
               BufferFromHostBuffer(d) \/ CreateErrorBuffer(d) \/ Execute(d)
        PROVE  DefinedInv'
    BY <2>1, BufferFromHostBufferDefined, CreateErrorBufferDefined, CallsDefined
  <2>2. ASSUME NEW b \in Buffers,
               ToLiteral(b) \/ GetReadyFuture(b) \/ DonateWithControlDependency(b)
        PROVE  DefinedInv'
    BY <2>2, AsksDefined, DonateDefined
  <2>3. ASSUME NEW b \in Buffers, NEW op \in {"delete", "release"},
               AwaitDonation(b, op) \/ Release(b, op, "none")
        PROVE  DefinedInv'
    BY <2>3, CallsDefined
  <2>4. ASSUME NEW b \in Buffers, DropExternalReference(b) PROVE DefinedInv'
    BY <2>4, CallsDefined
  <2>5. ASSUME NEW b \in Buffers, NEW d \in Devices, CopyToDevice(b, d) PROVE DefinedInv'
    BY <2>5, CopyToDeviceDefined
  <2> QED BY <1>1, <2>1, <2>2, <2>3, <2>4, <2>5 DEF Start
<1>2. CASE Resolve BY <1>2, DependencyReadyDefined DEF Resolve
<1>3. ASSUME NEW b \in Buffers, HostStep(b) PROVE DefinedInv'
  <2>1. CASE ExecuteHelper(b) \/ ExecuteFails(b) \/ CopyToDeviceReturn(b)
    BY <2>1, ExecuteHelperDefined, ExecuteFailsDefined, CopyToDeviceReturnDefined
  <2>2. CASE ReleaseNothing(b) \/ Delete(b) \/ ReleaseDeviceMemoryOwnership(b)
    BY <2>2, CallsDefined
  <2>3. ASSUME NEW op \in {"delete", "release"}, Release(b, op, Awaiting(op)) PROVE DefinedInv'
    BY <2>3, CallsDefined
  <2> QED BY <1>3, <2>1, <2>2, <2>3 DEF HostStep
<1>4. CASE Work
  <2>1. PICK t \in tasks : Block(t) \/ RunTask(t) BY <1>4 DEF Work
  <2> QED BY <2>1, TaskEndsDefined, TransferH2DDefined, AsyncToLiteralDefined,
             AsyncCopyToDeviceDefined, AsyncWaitForEventsDefined
          DEF RunTask
<1>5. CASE Drain BY <1>5, PoolStreamDoneDefined DEF Drain
<1>6. ASSUME NEW s \in Streams, StreamStep(s) PROVE DefinedInv' BY <1>6, StreamStepDefined
<1>7. CASE (\E d \in Devices : RunCallback(d)) \/ UNCHANGED vars BY <1>7, RunCallbackDefined
<1> QED BY <1>1, <1>2, <1>3, <1>4, <1>5, <1>6, <1>7 DEF Next

(* A ready future speaks the truth: the definition events of the buffer,    *)
(* for one donated with a control dependency those of the buffer it comes   *)
(* from, have completed, and the dependency is resolved.                    *)
THEOREM ReadyAfterDependencyTheorem == Spec => []ReadyAfterDependency
<1>1. DeviceInv /\ DefinedInv => ReadyAfterDependency
  BY DEF DeviceInv, DependenciesFit, DependencyFits, DefinedInv, ReadyFits, AllDone,
         ReadyAfterDependency
<1>2. Spec => [](DeviceInv /\ DefinedInv)
  BY InitInv, InitDefined, NextInv, NextDefined, PTL DEF Spec
<1> QED BY <1>1, <1>2, PTL
=============================================================================
