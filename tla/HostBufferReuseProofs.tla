------------------------ MODULE HostBufferReuseProofs ------------------------
(***************************************************************************)
(* Theorems about HostBufferReuse, for any host buffers, threads, options  *)
(* and bounds.  Shape says how pool entries, PJRT_Buffers and calls fit    *)
(* together; it takes the entries and buffers as arguments because one     *)
(* call may create the arena, pack a slot, drop a cached view and hand out *)
(* a new one, and each of these is a lemma of its own.                     *)
(***************************************************************************)
EXTENDS HostBufferReuse, ArenaCopyPlanProofs

-----------------------------------------------------------------------------
(* The kinds of records and values the variables hold.                      *)
Entry  == [pooled : BOOLEAN, ptr : Places \cup {Own(NoBuffer)}, sequence : Nat,
           offset : Nat, member : BOOLEAN, pending : BOOLEAN, valid : BOOLEAN,
           cached : Buffers \cup {NoBuffer}, in_use : BOOLEAN]
Buffer == [st : {"free", "held", "owner", "kept"}, h : Hosts \cup {0},
           snap : 0..MaxVersion, place : Places \cup {Own(NoBuffer)},
           deleted : BOOLEAN, lost : BOOLEAN]
Call   == [op : {"idle", "transfer", "execute", "running", "to_host"},
           h : Hosts \cup {0}, b : Buffers \cup {NoBuffer}, args : SUBSET Buffers]

Typed ==
    /\ opt \in Options
    /\ host \in [Hosts -> 0..MaxVersion]
    /\ entry \in [Hosts -> Entry]
    /\ staging \in [Hosts -> Contents]
    /\ memory \in [Places -> Contents]
    /\ dma \subseteq Buffers \X (0..MaxVersion)
    /\ buffer \in [Buffers -> Buffer]
    /\ call \in [Threads -> Call]
    /\ reading \in [Threads -> SUBSET ((Places \cup {Own(NoBuffer)}) \X (0..MaxVersion))]
    /\ executed \in BOOLEAN

(* The states of a buffer that shows memory to somebody.                    *)
Shown == {"held", "kept"}

(* A slot belongs to a pooled entry, a pooled entry outside the arena to a  *)
(* buffer that only the pool owns, and a cached view shows its entry's slot.*)
EntryFits(en, buf, h) ==
    /\ en[h].member => en[h].pooled /\ en[h].ptr = Slot(h)
    /\ en[h].pending => en[h].member
    /\ en[h].valid => en[h].member
    /\ en[h].pooled /\ ~en[h].member =>
         \E o \in Buffers : en[h].ptr = Own(o) /\ buf[o].st = "owner"
    /\ en[h].cached # NoBuffer =>
         /\ en[h].member
         /\ buf[en[h].cached].st \in Shown
         /\ buf[en[h].cached].place = Slot(h)
    /\ en[h].in_use <=> (en[h].cached # NoBuffer /\ buf[en[h].cached].st = "held")

(* A buffer shows the slot of its host pointer, its own memory, or memory   *)
(* of a buffer that the pool keeps.                                         *)
ViewFits(en, buf, b) ==
    buf[b].st \in Shown =>
       /\ buf[b].h \in Hosts
       /\ \/ buf[b].place = Slot(buf[b].h) /\ en[buf[b].h].member
          \/ buf[b].place = Own(b)
          \/ \E o \in Buffers : buf[b].place = Own(o) /\ buf[o].st = "owner"

(* Entries do not share memory, and what shows the memory of an entry was   *)
(* transferred from its pointer.                                            *)
PoolsApart(en, buf) ==
    \A g \in Hosts : en[g].pooled =>
      /\ \A h \in Hosts : en[h].pooled /\ en[h].ptr = en[g].ptr => h = g
      /\ \A b \in Buffers :
           buf[b].st \in Shown /\ buf[b].place = en[g].ptr => buf[b].h = g

(* Only its own call knows the buffer of a transfer; calls keep arguments.  *)
CallFits(en, buf, cal, t) ==
    /\ cal[t].op = "transfer" =>
         /\ cal[t].h \in Hosts /\ cal[t].b \in Buffers /\ buf[cal[t].b].st = "owner"
         /\ \A g \in Hosts : en[g].pooled => en[g].ptr # Own(cal[t].b)
         /\ \A b \in Buffers : buf[b].st \in Shown => buf[b].place # Own(cal[t].b)
         /\ \A u \in Threads : cal[u].op = "transfer" => u = t
    /\ \A b \in cal[t].args : b \in Buffers /\ buf[b].st = "held"
    /\ cal[t].op \in {"idle", "transfer"} => cal[t].args = {}

Shape(en, buf, cal) ==
    /\ \A h \in Hosts : EntryFits(en, buf, h)
    /\ \A b \in Buffers : ViewFits(en, buf, b)
    /\ PoolsApart(en, buf)
    /\ \A t \in Threads : CallFits(en, buf, cal, t)

-----------------------------------------------------------------------------
(* Places are told apart by what they belong to.                            *)
LEMMA PlaceFacts ==
  /\ \A b, c : Own(b) = Own(c) => b = c
  /\ \A g, h : Slot(g) = Slot(h) => g = h
  /\ \A b, h : Own(b) # Slot(h)
  /\ \A b \in Buffers : Own(b) \in Places
  /\ \A h \in Hosts : Slot(h) \in Places
  /\ NoBuffer \notin Buffers /\ Buffers \subseteq Nat
<1>1. \A b, c : Own(b) = Own(c) => b = c BY DEF Own
<1>2. \A g, h : Slot(g) = Slot(h) => g = h BY DEF Slot
<1>3. \A b, h : Own(b) # Slot(h) BY DEF Own, Slot
<1>4. NoBuffer \notin Buffers /\ Buffers \subseteq Nat BY DEF NoBuffer, Buffers
<1> QED BY <1>1, <1>2, <1>3, <1>4 DEF Places

(* The smallest of some numbers is one of them.                             *)
LEMMA SmallestIsIn ==
  ASSUME NEW S \in SUBSET Nat, S # {}
  PROVE  Min(S) \in S
BY LeastNumber DEF Min

(* Records that differ in nothing Shape looks at.                           *)
SameViews(buf, buf2) ==
  \A b \in Buffers : /\ buf2[b].st = buf[b].st /\ buf2[b].h = buf[b].h
                     /\ buf2[b].place = buf[b].place
SameEntry(en, en2, g) ==
  /\ en2[g].pooled = en[g].pooled /\ en2[g].ptr = en[g].ptr
  /\ en2[g].member = en[g].member /\ en2[g].cached = en[g].cached
  /\ en2[g].in_use = en[g].in_use

SameButCached(e, e2) ==
  /\ e2.pooled = e.pooled /\ e2.ptr = e.ptr /\ e2.sequence = e.sequence
  /\ e2.offset = e.offset /\ e2.member = e.member
  /\ e2.pending = e.pending /\ e2.valid = e.valid
OnlyCachedMoves(en, en2, h) ==
  /\ en \in [Hosts -> Entry] /\ en2 \in [Hosts -> Entry] /\ h \in Hosts
  /\ SameButCached(en[h], en2[h])
  /\ \A g \in Hosts : g # h => en2[g] = en[g]

(* What a slot holds, what a call does and what a buffer should hold do not *)
(* disturb Shape.                                                           *)
LeavesShape(en, en2, buf, buf2, cal, cal2) ==
  /\ en \in [Hosts -> Entry] /\ en2 \in [Hosts -> Entry]
  /\ \A g \in Hosts : /\ SameEntry(en, en2, g)
                      /\ en2[g].pending => en2[g].member
                      /\ en2[g].valid => en2[g].member
  /\ SameViews(buf, buf2)
  /\ \A t \in Threads :
        /\ cal2[t].op = "transfer" => cal2[t] = cal[t]
        /\ \A b \in cal2[t].args : b \in Buffers /\ buf[b].st = "held"
        /\ cal2[t].op \in {"idle", "transfer"} => cal2[t].args = {}

(* Steps that leave what Shape looks at keep it.                            *)
LEMMA ShapeKept ==
  ASSUME NEW en, NEW en2, NEW buf, NEW buf2, NEW cal, NEW cal2,
         Shape(en, buf, cal), LeavesShape(en, en2, buf, buf2, cal, cal2)
  PROVE  Shape(en2, buf2, cal2)
<1> USE DEF LeavesShape
<1>0. \A g \in Hosts : en[g].cached \in Buffers \cup {NoBuffer} BY DEF Entry
<1>1. \A h \in Hosts : EntryFits(en2, buf2, h)
  BY <1>0 DEF Shape, EntryFits, SameViews, SameEntry
<1>2. \A b \in Buffers : ViewFits(en2, buf2, b)
  BY DEF Shape, ViewFits, SameViews, SameEntry
<1>3. PoolsApart(en2, buf2)
  BY DEF Shape, PoolsApart, SameViews, SameEntry
<1>4. \A t \in Threads : CallFits(en2, buf2, cal2, t)
  BY DEF Shape, CallFits, SameViews, SameEntry
<1> QED BY <1>1, <1>2, <1>3, <1>4 DEF Shape

(* The arena is created: pooled entries that have no slot get one.          *)
MakesArena(en, en2) ==
  /\ en \in [Hosts -> Entry] /\ en2 \in [Hosts -> Entry]
  /\ \A g \in Hosts : ~en[g].member
  /\ \A g \in Hosts : ~en[g].pooled => en2[g] = en[g]
  /\ \A g \in Hosts : en[g].pooled =>
        /\ en2[g].pooled /\ en2[g].member /\ en2[g].ptr = Slot(g)
        /\ en2[g].pending = en[g].pending /\ ~en2[g].valid
        /\ en2[g].cached = en[g].cached /\ en2[g].in_use = en[g].in_use

(* A new arena keeps Shape: an entry that gets a slot had no cached view.   *)
LEMMA ShapeArena ==
  ASSUME NEW en, NEW en2, NEW buf, NEW cal,
         Shape(en, buf, cal), MakesArena(en, en2)
  PROVE  Shape(en2, buf, cal)
<1> USE DEF MakesArena
<1>1. \A h \in Hosts : EntryFits(en2, buf, h)
  BY DEF Shape, EntryFits
<1>2. \A b \in Buffers : ViewFits(en2, buf, b)
  BY DEF Shape, ViewFits
<1>3. PoolsApart(en2, buf)
  <2>1. \A b \in Buffers, g \in Hosts :
           buf[b].st \in Shown => buf[b].place # Slot(g)
    BY PlaceFacts DEF Shape, ViewFits
  <2> QED BY <2>1, PlaceFacts DEF PoolsApart
<1>4. \A t \in Threads : CallFits(en2, buf, cal, t)
  BY PlaceFacts DEF Shape, CallFits
<1> QED BY <1>1, <1>2, <1>3, <1>4 DEF Shape

(* A free buffer becomes a view of a pooled entry's memory.                 *)
ShowsNew(en, buf, buf2, h, m) ==
  /\ en \in [Hosts -> Entry] /\ h \in Hosts /\ en[h].pooled /\ m \in Buffers
  /\ buf[m].st = "free" /\ buf2[m].st = "held" /\ buf2[m].h = h
  /\ buf2[m].place = en[h].ptr
  /\ \A b \in Buffers : b # m => buf2[b] = buf[b]

(* A new view keeps Shape, since nobody showed the free buffer before.      *)
LEMMA ShapeNewView ==
  ASSUME NEW en, NEW buf, NEW buf2, NEW cal, NEW h, NEW m,
         Shape(en, buf, cal), ShowsNew(en, buf, buf2, h, m)
  PROVE  Shape(en, buf2, cal)
<1> USE DEF ShowsNew
<1>0. /\ \A g \in Hosts : en[g].cached \in Buffers \cup {NoBuffer} /\ en[g].cached # m
      /\ \A o \in Buffers : buf[o].st = "owner" => o # m /\ buf2[o].st = "owner"
      /\ \A o \in Buffers : buf[o].st = "held" => o # m /\ buf2[o].st = "held"
  BY PlaceFacts DEF Shape, EntryFits, Shown, Entry
<1>1. \A g \in Hosts : EntryFits(en, buf2, g)
  BY <1>0 DEF Shape, EntryFits
<1>2. ViewFits(en, buf2, m)
  BY <1>0 DEF Shape, EntryFits, ViewFits
<1>3. ASSUME NEW b \in Buffers, b # m PROVE ViewFits(en, buf2, b)
  BY <1>0, <1>3 DEF Shape, ViewFits
<1>4. PoolsApart(en, buf2)
  BY DEF Shape, PoolsApart
<1>5. ASSUME NEW t \in Threads PROVE CallFits(en, buf2, cal, t)
  <2>1. CallFits(en, buf, cal, t) BY DEF Shape
  <2>2. \A b \in cal[t].args : buf2[b].st = "held"
    BY <1>0, <2>1 DEF CallFits
  <2> QED BY <1>0, <2>1, <2>2 DEF CallFits
<1> QED BY <1>1, <1>2, <1>3, <1>4, <1>5 DEF Shape

(* A view of its slot is cached for an entry that has none.                 *)
Caches(en, en2, buf, h, m) ==
  /\ en[h].member /\ m \in Buffers /\ buf[m].st = "held"
  /\ buf[m].place = Slot(h) /\ en2[h].cached = m /\ en2[h].in_use = TRUE
  /\ OnlyCachedMoves(en, en2, h)

(* Caching a view keeps Shape: the view belongs to one entry.               *)
LEMMA ShapeCache ==
  ASSUME NEW en, NEW en2, NEW buf, NEW cal, NEW h, NEW m,
         Shape(en, buf, cal), Caches(en, en2, buf, h, m)
  PROVE  Shape(en2, buf, cal)
<1> USE DEF Caches, OnlyCachedMoves, SameButCached
<1>0. EntryFits(en2, buf, h)
  BY PlaceFacts DEF Shape, EntryFits, Shown
<1>1. ASSUME NEW g \in Hosts PROVE EntryFits(en2, buf, g)
  BY <1>0, ZenonT(30) DEF Shape, EntryFits
<1>2. \A b \in Buffers : ViewFits(en2, buf, b)
  BY DEF Shape, ViewFits
<1>3. PoolsApart(en2, buf)
  BY DEF Shape, PoolsApart
<1>4. \A t \in Threads : CallFits(en2, buf, cal, t)
  BY DEF Shape, CallFits
<1> QED BY <1>1, <1>2, <1>3, <1>4 DEF Shape

(* A cached view that nobody holds is dropped.                              *)
DropsCached(en, en2, buf, buf2, h) ==
  /\ en[h].cached # NoBuffer /\ ~en[h].in_use /\ en2[h].cached = NoBuffer
  /\ ~en2[h].in_use /\ OnlyCachedMoves(en, en2, h)
  /\ buf2[en[h].cached].st = "free"
  /\ \A b \in Buffers : b # en[h].cached => buf2[b] = buf[b]

(* Dropping a cached view keeps Shape, since no call uses it.               *)
LEMMA ShapeDrop ==
  ASSUME NEW en, NEW en2, NEW buf, NEW buf2, NEW cal, NEW h,
         Shape(en, buf, cal), DropsCached(en, en2, buf, buf2, h)
  PROVE  Shape(en2, buf2, cal)
<1> USE DEF DropsCached, OnlyCachedMoves, SameButCached
<1> DEFINE c == en[h].cached
<1>0. c \in Buffers /\ buf[c].st = "kept" /\ buf[c].place = Slot(h)
  BY DEF Entry, Shape, EntryFits, Shown
<1>1. \A o \in Buffers : buf[o].st = "owner" \/ buf[o].st = "held" => o # c
  BY <1>0
<1>2. \A g \in Hosts : g # h => /\ en[g].cached # c
                                /\ en[g].cached \in Buffers \cup {NoBuffer}
  BY <1>0, PlaceFacts DEF Shape, EntryFits, Entry
<1> HIDE DEF c
<1>3. \A b \in Buffers : b # c => buf2[b] = buf[b] BY DEF c
<1>4. buf2[c].st = "free" BY DEF c
<1>5. \A g \in Hosts : EntryFits(en2, buf2, g)
  BY <1>1, <1>2, <1>3 DEF Shape, EntryFits
<1>6. \A b \in Buffers : ViewFits(en2, buf2, b)
  BY <1>1, <1>3, <1>4 DEF Shape, ViewFits, Shown
<1>7. PoolsApart(en2, buf2)
  BY <1>3, <1>4 DEF Shape, PoolsApart, Shown
<1>8. ASSUME NEW t \in Threads PROVE CallFits(en2, buf2, cal, t)
  <2>1. CallFits(en, buf, cal, t) BY DEF Shape
  <2> QED BY <1>1, <1>3, <1>4, <2>1 DEF CallFits, Shown
<1> QED BY <1>5, <1>6, <1>7, <1>8 DEF Shape

(* The caller gets the cached view again.                                   *)
ShowsCached(en, en2, buf, buf2, h) ==
  /\ en[h].cached # NoBuffer /\ en2[h].in_use = TRUE
  /\ en2[h].cached = en[h].cached /\ OnlyCachedMoves(en, en2, h)
  /\ buf2[en[h].cached].st = "held" /\ buf2[en[h].cached].h = h
  /\ buf2[en[h].cached].place = buf[en[h].cached].place
  /\ \A b \in Buffers : b # en[h].cached => buf2[b] = buf[b]

(* Handing out the cached view again keeps Shape: nobody else holds it.     *)
LEMMA ShapeHandOut ==
  ASSUME NEW en, NEW en2, NEW buf, NEW buf2, NEW cal, NEW h,
         Shape(en, buf, cal), ShowsCached(en, en2, buf, buf2, h)
  PROVE  Shape(en2, buf2, cal)
<1> USE DEF ShowsCached, OnlyCachedMoves, SameButCached
<1> DEFINE c == en[h].cached
<1>0. /\ c \in Buffers /\ buf[c].st \in Shown /\ buf[c].place = Slot(h)
      /\ en[h].member /\ en[h].ptr = Slot(h) /\ en[h].pooled
  BY DEF Entry, Shape, EntryFits
<1>1. \A o \in Buffers : buf[o].st = "owner" => o # c
  BY <1>0 DEF Shown
<1>2. \A g \in Hosts : g # h => /\ en[g].cached # c
                                /\ en[g].cached \in Buffers \cup {NoBuffer}
  BY <1>0, PlaceFacts DEF Shape, EntryFits, Entry
<1> HIDE DEF c
<1>3. \A b \in Buffers : b # c => buf2[b] = buf[b] BY DEF c
<1>4. /\ buf2[c].st = "held" /\ buf2[c].h = h /\ buf2[c].place = Slot(h)
      /\ en[h].cached = c /\ c # NoBuffer
  BY <1>0 DEF c
<1>5. EntryFits(en2, buf2, h)
  BY <1>0, <1>4 DEF Shape, EntryFits, Shown
<1>6. ASSUME NEW g \in Hosts, g # h PROVE EntryFits(en2, buf2, g)
  BY <1>1, <1>2, <1>3, <1>6 DEF Shape, EntryFits
<1>7. ViewFits(en2, buf2, c)
  BY <1>0, <1>4 DEF ViewFits
<1>8. ASSUME NEW b \in Buffers, b # c PROVE ViewFits(en2, buf2, b)
  BY <1>1, <1>3, <1>8 DEF Shape, ViewFits
<1>9. PoolsApart(en2, buf2)
  BY <1>0, <1>3, <1>4, PlaceFacts DEF Shape, PoolsApart, Shown
<1>10. ASSUME NEW t \in Threads PROVE CallFits(en2, buf2, cal, t)
  <2>1. CallFits(en, buf, cal, t) BY DEF Shape
  <2>2. \A b \in cal[t].args : buf2[b].st = "held" BY <1>3, <1>4, <2>1 DEF CallFits
  <2>3. ASSUME cal[t].op = "transfer"
        PROVE  /\ buf2[cal[t].b].st = "owner"
               /\ \A b \in Buffers : buf2[b].st \in Shown => buf2[b].place # Own(cal[t].b)
    <3>1. buf2[cal[t].b].st = "owner" BY <1>1, <1>3, <2>1, <2>3 DEF CallFits
    <3>2. buf2[c].place # Own(cal[t].b) BY <1>4, PlaceFacts
    <3> QED BY <1>3, <2>1, <2>3, <3>1, <3>2 DEF CallFits
  <2> QED BY <2>1, <2>2, <2>3 DEF CallFits
<1> QED BY <1>5, <1>6, <1>7, <1>8, <1>9, <1>10 DEF Shape

(* A transfer takes a buffer that is free and shown by nobody.              *)
Transfers(en, buf, buf2, cal, cal2, t, h, m) ==
  /\ en \in [Hosts -> Entry] /\ t \in Threads /\ h \in Hosts /\ m \in Buffers
  /\ buf[m].st = "free" /\ buf2[m].st = "owner"
  /\ \A b \in Buffers : b # m => buf2[b] = buf[b]
  /\ \A u \in Threads : cal[u].op # "transfer"
  /\ cal2[t].op = "transfer" /\ cal2[t].h = h /\ cal2[t].b = m
  /\ cal2[t].args = {}
  /\ \A u \in Threads : u # t => cal2[u] = cal[u]

(* A transfer that begins keeps Shape, since it is the only one.            *)
LEMMA ShapeTransfer ==
  ASSUME NEW en, NEW buf, NEW buf2, NEW cal, NEW cal2, NEW t, NEW h, NEW m,
         Shape(en, buf, cal), Transfers(en, buf, buf2, cal, cal2, t, h, m)
  PROVE  Shape(en, buf2, cal2)
<1> USE DEF Transfers
<1>0. /\ \A g \in Hosts : en[g].cached \in Buffers \cup {NoBuffer} /\ en[g].cached # m
      /\ \A o \in Buffers : buf[o].st = "owner" => buf2[o].st = "owner"
      /\ \A o \in Buffers : buf[o].st = "held" => buf2[o].st = "held"
      /\ buf2[m].st \notin Shown
  BY PlaceFacts DEF Shape, EntryFits, Shown, Entry
<1>1. \A g \in Hosts : EntryFits(en, buf2, g)
  BY <1>0 DEF Shape, EntryFits
<1>2. \A b \in Buffers : ViewFits(en, buf2, b)
  BY <1>0 DEF Shape, ViewFits
<1>3. PoolsApart(en, buf2)
  BY <1>0 DEF Shape, PoolsApart
<1>4. \A g \in Hosts : en[g].pooled => en[g].ptr # Own(m)
  BY PlaceFacts DEF Shape, EntryFits
<1>5. \A b \in Buffers : buf2[b].st \in Shown => buf2[b].place # Own(m)
  BY <1>0, PlaceFacts DEF Shape, ViewFits
<1>6. CallFits(en, buf2, cal2, t)
  BY <1>4, <1>5 DEF CallFits
<1>7. ASSUME NEW u \in Threads, u # t PROVE CallFits(en, buf2, cal2, u)
  BY <1>0, <1>7 DEF CallFits, Shape
<1> QED BY <1>1, <1>2, <1>3, <1>6, <1>7 DEF Shape

(* The transferred buffer becomes the memory of a new pool entry.           *)
Pools(en, en2, cal, cal2, t, h) ==
  /\ en \in [Hosts -> Entry] /\ en2 \in [Hosts -> Entry] /\ t \in Threads
  /\ cal[t].op = "transfer" /\ h \in Hosts /\ ~en[h].pooled /\ en2[h].pooled
  /\ ~en2[h].member /\ ~en2[h].pending /\ ~en2[h].valid
  /\ en2[h].ptr = Own(cal[t].b) /\ en2[h].cached = NoBuffer
  /\ en2[h].in_use = FALSE
  /\ \A g \in Hosts : g # h => en2[g] = en[g]
  /\ cal2[t].op = "idle" /\ cal2[t].args = {}
  /\ \A u \in Threads : u # t => cal2[u] = cal[u]

(* Pooling the transferred buffer keeps Shape: no entry has its memory.     *)
LEMMA ShapePool ==
  ASSUME NEW en, NEW en2, NEW buf, NEW cal, NEW cal2, NEW t, NEW h,
         Shape(en, buf, cal), Pools(en, en2, cal, cal2, t, h)
  PROVE  Shape(en2, buf, cal2)
<1> USE DEF Pools
<1>0. CallFits(en, buf, cal, t) BY DEF Shape
<1>1. EntryFits(en2, buf, h) BY <1>0 DEF EntryFits, CallFits
<1>2. ASSUME NEW g \in Hosts, g # h PROVE EntryFits(en2, buf, g)
  BY <1>2 DEF Shape, EntryFits
<1>3. ~en[h].member BY DEF Shape, EntryFits
<1>4. \A b \in Buffers : ViewFits(en2, buf, b)
  BY <1>3 DEF Shape, ViewFits
<1>5. PoolsApart(en2, buf)
  BY <1>0 DEF Shape, PoolsApart, CallFits
<1>6. ASSUME NEW u \in Threads PROVE CallFits(en2, buf, cal2, u)
  BY <1>0 DEF CallFits, Shape
<1> QED BY <1>1, <1>2, <1>4, <1>5, <1>6 DEF Shape

(* Or the caller gets the transferred buffer itself.                        *)
ShowsOwn(en, buf, buf2, cal, cal2, t, m) ==
  /\ en \in [Hosts -> Entry] /\ t \in Threads /\ cal[t].op = "transfer"
  /\ m \in Buffers /\ m = cal[t].b /\ buf2[m].st = "held" /\ buf2[m].h = cal[t].h
  /\ buf2[m].place = Own(m)
  /\ \A b \in Buffers : b # m => buf2[b] = buf[b]
  /\ cal2[t].op = "idle" /\ cal2[t].args = {}
  /\ \A u \in Threads : u # t => cal2[u] = cal[u]

(* Giving the transferred buffer to the caller keeps Shape.                 *)
LEMMA ShapeOwnBuffer ==
  ASSUME NEW en, NEW buf, NEW buf2, NEW cal, NEW cal2, NEW t, NEW m,
         Shape(en, buf, cal), ShowsOwn(en, buf, buf2, cal, cal2, t, m)
  PROVE  Shape(en, buf2, cal2)
<1> USE DEF ShowsOwn
<1>0. CallFits(en, buf, cal, t) BY DEF Shape
<1>1. /\ \A g \in Hosts : en[g].cached \in Buffers \cup {NoBuffer} /\ en[g].cached # m
      /\ \A o \in Buffers : buf[o].st = "held" => buf2[o].st = "held"
      /\ buf[m].st = "owner"
  BY <1>0, PlaceFacts DEF Shape, EntryFits, Shown, Entry, CallFits
<1>2. ASSUME NEW g \in Hosts PROVE EntryFits(en, buf2, g)
  <2>1. EntryFits(en, buf, g) BY DEF Shape
  <2>2. en[g].pooled => en[g].ptr # Own(m) BY <1>0 DEF CallFits
  <2> QED BY <1>1, <2>1, <2>2 DEF EntryFits
<1>3. ViewFits(en, buf2, m) BY <1>0 DEF ViewFits, CallFits
<1>4. ASSUME NEW b \in Buffers, b # m PROVE ViewFits(en, buf2, b)
  <2>1. ViewFits(en, buf, b) BY DEF Shape
  <2>2. buf[b].st \in Shown => buf[b].place # Own(m) BY <1>0 DEF CallFits
  <2> QED BY <1>4, <2>1, <2>2 DEF ViewFits
<1>5. PoolsApart(en, buf2)
  BY <1>0 DEF Shape, PoolsApart, CallFits
<1>6. ASSUME NEW u \in Threads PROVE CallFits(en, buf2, cal2, u)
  <2>1. CASE u = t BY <2>1 DEF CallFits
  <2>2. CASE u # t
    <3>1. CallFits(en, buf, cal, u) /\ cal2[u] = cal[u] /\ cal[u].op # "transfer"
      BY <1>0, <2>2 DEF Shape, CallFits
    <3> QED BY <1>1, <3>1 DEF CallFits
  <2> QED BY <2>1, <2>2
<1> QED BY <1>2, <1>3, <1>4, <1>5, <1>6 DEF Shape

(* The caller destroys a view that is not cached.                           *)
Destroys(en, buf, buf2, cal, m) ==
  /\ en \in [Hosts -> Entry] /\ m \in Buffers /\ buf[m].st = "held"
  /\ en[buf[m].h].cached # m /\ buf2[m].st = "free"
  /\ \A b \in Buffers : b # m => buf2[b] = buf[b]
  /\ \A t \in Threads : m \notin cal[t].args

(* Destroying a view keeps Shape, since no call and no entry refers to it.  *)
LEMMA ShapeDestroy ==
  ASSUME NEW en, NEW buf, NEW buf2, NEW cal, NEW m,
         Shape(en, buf, cal), Destroys(en, buf, buf2, cal, m)
  PROVE  Shape(en, buf2, cal)
<1> USE DEF Destroys
<1>0. ViewFits(en, buf, m) /\ buf[m].h \in Hosts BY DEF Shape, ViewFits, Shown
<1>1. /\ \A g \in Hosts : en[g].cached \in Buffers \cup {NoBuffer}
      /\ \A o \in Buffers : buf[o].st = "owner" => o # m
      /\ buf2[m].st \notin Shown
  BY DEF Entry, Shown
<1>2. \A g \in Hosts : en[g].cached # m
  BY <1>0, <1>1, PlaceFacts DEF Shape, EntryFits, ViewFits, Shown
<1>3. \A g \in Hosts : EntryFits(en, buf2, g)
  BY <1>1, <1>2 DEF Shape, EntryFits
<1>4. \A b \in Buffers : ViewFits(en, buf2, b)
  BY <1>1 DEF Shape, ViewFits
<1>5. PoolsApart(en, buf2)
  BY <1>1 DEF Shape, PoolsApart
<1>6. ASSUME NEW t \in Threads PROVE CallFits(en, buf2, cal, t)
  <2>1. CallFits(en, buf, cal, t) BY DEF Shape
  <2> QED BY <1>1, <2>1 DEF CallFits
<1> QED BY <1>3, <1>4, <1>5, <1>6 DEF Shape

(* A cached view is kept when the caller destroys it.                       *)
Keeps(en, en2, buf, buf2, cal, h, m) ==
  /\ m \in Buffers /\ en[h].cached = m /\ buf[m].st = "held"
  /\ en2[h].in_use = FALSE /\ en2[h].cached = m /\ OnlyCachedMoves(en, en2, h)
  /\ buf2[m].st = "kept" /\ buf2[m].h = buf[m].h /\ buf2[m].place = buf[m].place
  /\ \A b \in Buffers : b # m => buf2[b] = buf[b]
  /\ \A t \in Threads : m \notin cal[t].args

(* Keeping a cached view keeps Shape: it is no longer in use.               *)
LEMMA ShapeKeep ==
  ASSUME NEW en, NEW en2, NEW buf, NEW buf2, NEW cal, NEW h, NEW m,
         Shape(en, buf, cal), Keeps(en, en2, buf, buf2, cal, h, m)
  PROVE  Shape(en2, buf2, cal)
<1> USE DEF Keeps, OnlyCachedMoves, SameButCached
<1>0. EntryFits(en, buf, h) /\ m # NoBuffer BY PlaceFacts DEF Shape
<1>1. /\ \A g \in Hosts : g # h => /\ en[g].cached # m
                                   /\ en[g].cached \in Buffers \cup {NoBuffer}
      /\ \A o \in Buffers : buf[o].st = "owner" => o # m
  BY <1>0, PlaceFacts DEF Shape, EntryFits, Entry
<1>2. EntryFits(en2, buf2, h)
  BY <1>0 DEF EntryFits, Shown
<1>3. ASSUME NEW g \in Hosts, g # h PROVE EntryFits(en2, buf2, g)
  BY <1>1, <1>3 DEF Shape, EntryFits
<1>4. ViewFits(en2, buf2, m)
  BY <1>0, <1>1 DEF Shape, ViewFits, Shown
<1>5. ASSUME NEW b \in Buffers, b # m PROVE ViewFits(en2, buf2, b)
  BY <1>1, <1>5 DEF Shape, ViewFits
<1>6. PoolsApart(en2, buf2)
  BY DEF Shape, PoolsApart, Shown
<1>7. ASSUME NEW t \in Threads PROVE CallFits(en2, buf2, cal, t)
  <2>1. CallFits(en, buf, cal, t) BY DEF Shape
  <2> QED BY <1>1, <2>1 DEF CallFits, Shown
<1> QED BY <1>2, <1>3, <1>4, <1>5, <1>6, <1>7 DEF Shape

-----------------------------------------------------------------------------
(* What handing out a view of h does: m is the buffer the caller gets, or   *)
(* NoBuffer if that failed, and views that are kept may go.                 *)
HandsOut(h, en, m) ==
  /\ m \in Buffers \cup {NoBuffer}
  /\ OnlyCachedMoves(en, entry', h)
  /\ buffer' \in [Buffers -> Buffer]
  /\ \A b \in Buffers : b # m =>
       \/ buffer'[b] = buffer[b]
       \/ buffer'[b].st = "free" /\ buffer[b].st = "kept"
  /\ m # NoBuffer =>
       /\ buffer[m].st \in {"free", "kept"}
       /\ buffer'[m].st = "held" /\ buffer'[m].h = h /\ buffer'[m].snap = host[h]
       /\ buffer'[m].place = en[h].ptr /\ buffer'[m].lost = FALSE
  /\ Shape(entry', buffer', call)

(* The cached view is handed out again.                                     *)
LEMMA HandOutCachedViewStep ==
  ASSUME Typed, NEW h \in Hosts, NEW en \in [Hosts -> Entry],
         Shape(en, buffer, call), HandOutCachedView(h, en)
  PROVE  HandsOut(h, en, en[h].cached)
<1> DEFINE c == en[h].cached
           p == buffer[c].place
           d == buffer[c].deleted
           v == [View(h, p) EXCEPT !.deleted = d]
<1>1. c \in Buffers /\ c # NoBuffer /\ ~en[h].in_use
  BY DEF HandOutCachedView, Offered, Entry
<1>2. EntryFits(en, buffer, h) BY DEF Shape
<1>3. /\ en[h].member /\ en[h].ptr = Slot(h) /\ p = Slot(h)
      /\ buffer[c].st = "kept"
  BY <1>1, <1>2 DEF EntryFits, Shown
<1>4. p \in Places /\ d \in BOOLEAN
  BY <1>1, <1>3, PlaceFacts DEF Typed, Buffer
<1>5. entry' = [en EXCEPT ![h].in_use = TRUE] BY DEF HandOutCachedView
<1>6. buffer' = [buffer EXCEPT ![c] = v] BY DEF HandOutCachedView
<1>7. /\ OnlyCachedMoves(en, entry', h)
      /\ entry'[h].cached = c /\ entry'[h].in_use = TRUE
  BY <1>5 DEF Entry, SameButCached, OnlyCachedMoves
<1> HIDE DEF p, d
<1>8. /\ v \in Buffer /\ v.st = "held" /\ v.h = h /\ v.snap = host[h]
      /\ v.place = p /\ v.lost = FALSE
  BY <1>4 DEF View, Free, Buffer, Typed
<1> HIDE DEF v
<1>9. /\ buffer' \in [Buffers -> Buffer] /\ buffer'[c] = v
      /\ \A b \in Buffers : b # c => buffer'[b] = buffer[b]
  BY <1>1, <1>6, <1>8 DEF Typed
<1>10. ShowsCached(en, entry', buffer, buffer', h)
  BY <1>1, <1>3, <1>7, <1>8, <1>9 DEF ShowsCached, p
<1>11. Shape(entry', buffer', call) BY <1>10, ShapeHandOut
<1> HIDE DEF c
<1>12. HandsOut(h, en, c)
  BY <1>1, <1>3, <1>7, <1>8, <1>9, <1>11 DEF HandsOut
<1> QED BY <1>12 DEF c

(* A new view is handed out, and maybe cached in place of a deleted one.    *)
LEMMA HandOutNewViewStep ==
  ASSUME Typed, NEW h \in Hosts, NEW en \in [Hosts -> Entry], NEW cache \in BOOLEAN,
         Shape(en, buffer, call), HandOutNewView(h, en, cache),
         en[h].pooled, cache => en[h].member
  PROVE  \E m : HandsOut(h, en, m)
<1> DEFINE e == en[h]
           drop == cache /\ e.cached # NoBuffer /\ ~e.in_use
           left == IF drop THEN [buffer EXCEPT ![e.cached] = Free] ELSE buffer
           kept == IF drop THEN NoBuffer ELSE e.cached
           free == {b \in Buffers : left[b].st = "free"}
           mid  == [en EXCEPT ![h].cached = kept]
           m    == Min(free)
<1>1. /\ OnlyCachedMoves(en, mid, h)
      /\ mid[h].cached = kept /\ mid[h].in_use = e.in_use /\ mid \in [Hosts -> Entry]
  BY ZenonT(30) DEF Entry, SameButCached, OnlyCachedMoves
<1>2. EntryFits(en, buffer, h) BY DEF Shape
<1>3. ASSUME drop PROVE e.cached \in Buffers /\ buffer[e.cached].st = "kept"
  BY <1>2, <1>3 DEF EntryFits, Shown, Entry
<1>4. Free \in Buffer /\ Free.st = "free" BY ReuseAssumption DEF Free, Buffer
<1>5. /\ left \in [Buffers -> Buffer]
      /\ \A b \in Buffers : \/ left[b] = buffer[b]
                            \/ left[b].st = "free" /\ buffer[b].st = "kept"
  BY <1>3, <1>4 DEF Typed
<1>6. Shape(mid, left, call)
  <2>1. CASE drop
    <3>1. DropsCached(en, mid, buffer, left, h)
      BY <1>1, <1>3, <1>4, <2>1 DEF DropsCached, Typed
    <3> QED BY <3>1, ShapeDrop
  <2>2. CASE ~drop
    <3>1. mid = en BY <2>2 DEF Entry
    <3> QED BY <2>2, <3>1
  <2> QED BY <2>1, <2>2
<1>7. e.ptr \in Places /\ mid[h].ptr = e.ptr /\ mid[h].pooled /\ mid[h].member = e.member
  BY <1>1, <1>2, PlaceFacts DEF EntryFits, SameButCached, OnlyCachedMoves
<1>8. CASE /\ free # {} /\ buffer' = [left EXCEPT ![m] = View(h, e.ptr)]
           /\ entry' = IF cache /\ kept = NoBuffer
                       THEN [en EXCEPT ![h].cached = m, ![h].in_use = TRUE] ELSE en
  <2>1. m \in free
    BY <1>8, SmallestIsIn, PlaceFacts
  <2>2. m \in Buffers /\ left[m].st = "free" /\ m # NoBuffer BY <2>1, PlaceFacts
  <2> DEFINE p == e.ptr
             v == View(h, p)
  <2>0. p \in Places BY <1>7
  <2> HIDE DEF p
  <2>3. /\ v \in Buffer /\ v.st = "held" /\ v.h = h /\ v.snap = host[h]
        /\ v.place = p /\ v.lost = FALSE
    BY <2>0 DEF View, Free, Buffer, Typed
  <2>4. buffer' = [left EXCEPT ![m] = v] BY <1>8 DEF p
  <2>5. entry' = IF cache /\ kept = NoBuffer
                 THEN [en EXCEPT ![h].cached = m, ![h].in_use = TRUE] ELSE en
    BY <1>8
  <2> HIDE DEF v, left, m, free
  <2>6. /\ buffer' \in [Buffers -> Buffer] /\ buffer'[m] = v
        /\ \A b \in Buffers : b # m => buffer'[b] = left[b]
    BY <1>5, <2>2, <2>3, <2>4
  <2>7. Shape(mid, buffer', call)
    <3>1. ShowsNew(mid, left, buffer', h, m)
      BY <1>1, <1>7, <2>2, <2>3, <2>6 DEF ShowsNew, p
    <3> QED BY <1>6, <3>1, ShapeNewView
  <2>8. OnlyCachedMoves(en, entry', h)
    BY <2>2, <2>5, ZenonT(30) DEF Entry, SameButCached, OnlyCachedMoves
  <2>9. Shape(entry', buffer', call)
    <3>1. CASE cache /\ kept = NoBuffer
      <4>1. entry'[h].cached = m /\ entry'[h].in_use = TRUE
        BY <2>2, <2>5, <3>1 DEF Entry
      <4>2. en[h].member /\ mid[h].member /\ e.ptr = Slot(h)
        BY <1>2, <1>7, <3>1 DEF EntryFits
      <4>3. OnlyCachedMoves(mid, entry', h)
        BY <1>1, <2>8 DEF SameButCached, OnlyCachedMoves
      <4> HIDE DEF mid
      <4>4. Caches(mid, entry', buffer', h, m)
        BY <2>2, <2>3, <2>6, <4>1, <4>2, <4>3 DEF Caches, p
      <4> QED BY <2>7, <4>4, ShapeCache
    <3>2. CASE ~(cache /\ kept = NoBuffer)
      <4>1. kept = e.cached
        BY <3>2
      <4>2. mid = en BY <4>1 DEF Entry
      <4> QED BY <2>5, <2>7, <3>2, <4>2
    <3> QED BY <3>1, <3>2
  <2>10. buffer[m].st \in {"free", "kept"} BY <1>5, <2>2
  <2>11. HandsOut(h, en, m)
    BY <1>5, <2>2, <2>3, <2>6, <2>8, <2>9, <2>10 DEF HandsOut, p
  <2> QED BY <2>11
<1>9. CASE buffer' = left /\ entry' = mid
  <2> HIDE DEF left, mid
  <2>1. HandsOut(h, en, NoBuffer)
    BY <1>1, <1>5, <1>6, <1>9 DEF HandsOut
  <2> QED BY <2>1
<1> QED BY <1>8, <1>9 DEF HandOutNewView

-----------------------------------------------------------------------------
(* The layout of the arena: slots lie inside it and do not overlap, so that *)
(* one slot may be packed and flushed without the others.                   *)
PooledIn(en)  == {h \in Hosts : en[h].pooled}
MembersIn(en) == {h \in Hosts : en[h].member}
SlotBytes     == AlignReusableHostBufferArenaOffset(Bytes)

Layout(en) ==
  /\ \A h \in Hosts : ~en[h].member => en[h].offset = 0
  /\ \A h \in PooledIn(en) : en[h].sequence < Cardinality(PooledIn(en))
  /\ \A g, h \in PooledIn(en) : en[g].sequence = en[h].sequence => g = h
  /\ \A h \in MembersIn(en) :
       en[h].offset + Bytes <= Cardinality(MembersIn(en)) * SlotBytes
  /\ \A g, h \in MembersIn(en) :
       g # h => \/ en[g].offset + Bytes <= en[h].offset
                \/ en[h].offset + Bytes <= en[g].offset

(* A slot is at least as large as a buffer, by less than the alignment.     *)
LEMMA SlotBytesFacts ==
  SlotBytes \in Nat /\ Bytes <= SlotBytes /\ SlotBytes <= Bytes + Alignment
<1> DEFINE q == (Bytes + Alignment - 1) \div Alignment
<1>1. /\ Bytes \in Nat \ {0} /\ Alignment \in Nat \ {0} BY ReuseAssumption
<1>2. /\ q \in Int /\ Alignment * q <= Bytes + Alignment - 1
      /\ Bytes + Alignment - 1 < Alignment * q + Alignment
  BY <1>1
<1> QED BY <1>1, <1>2 DEF SlotBytes, AlignReusableHostBufferArenaOffset

(* Cardinalities of sets of host pointers.                                  *)
LEMMA HostSets ==
  ASSUME NEW S \in SUBSET Hosts
  PROVE  /\ IsFiniteSet(S) /\ Cardinality(S) \in Nat
         /\ Cardinality(S) <= Cardinality(Hosts) /\ Cardinality(Hosts) \in Nat
         /\ \A T \in SUBSET S : \A x \in S \ T : Cardinality(T) + 1 <= Cardinality(S)
<1>1. IsFiniteSet(Hosts) /\ IsFiniteSet(S) BY ReuseAssumption, FS_Subset
<1>2. Cardinality(S) <= Cardinality(Hosts) BY <1>1, FS_Subset
<1>3. ASSUME NEW T \in SUBSET S, NEW x \in S \ T
      PROVE  Cardinality(T) + 1 <= Cardinality(S)
  <2>1. IsFiniteSet(T) /\ IsFiniteSet(T \cup {x}) /\ T \cup {x} \subseteq S
    BY <1>1, FS_Subset, FS_AddElement
  <2>2. Cardinality(T \cup {x}) = Cardinality(T) + 1 BY <2>1, FS_AddElement
  <2> QED BY <1>1, <2>1, <2>2, FS_Subset
<1> QED BY <1>1, <1>2, <1>3, FS_CardinalityType

(* Products of small numbers of slots.                                      *)
LEMMA MoreSlots ==
  ASSUME NEW m \in Nat, NEW n \in Nat, m + 1 <= n, NEW a \in Nat
  PROVE  m * a + a <= n * a
<1>1. PICK k \in Nat : n = m + 1 + k
  <2>1. n - m - 1 \in Nat /\ n = m + 1 + (n - m - 1) OBVIOUS
  <2> QED BY <2>1
<1>2. n * a = m * a + a + k * a BY <1>1
<1>3. k * a \in Nat /\ m * a \in Nat OBVIOUS
<1> QED BY <1>2, <1>3

(* Products grow with their factors.                                        *)
LEMMA Products ==
  ASSUME NEW m \in Nat, NEW n \in Nat, m <= n, NEW a \in Nat
  PROVE  m * a <= n * a /\ a * m <= a * n
<1>1. PICK k \in Nat : n = m + k
  <2>1. n - m \in Nat /\ n = m + (n - m) OBVIOUS
  <2> QED BY <2>1
<1>2. n * a = m * a + k * a BY <1>1
<1>3. k * a \in Nat /\ m * a \in Nat /\ a * m = m * a /\ a * n = n * a OBVIOUS
<1> QED BY <1>2, <1>3

(* Creating the arena lays out the slots.                                   *)
LEMMA ArenaLayout ==
  ASSUME Typed, Layout(entry), Members = {}
  PROVE  Layout(ArenaCreated) /\ MakesArena(entry, ArenaCreated)
<1> DEFINE en == ArenaCreated
           Pre(h) == {g \in Pooled : Before(g, h)}
<1>1. /\ Pooled = PooledIn(entry) /\ Pooled \subseteq Hosts
      /\ \A h \in Hosts : ~entry[h].member
      /\ \A h \in Hosts : Pre(h) \in SUBSET Hosts
  BY DEF Pooled, PooledIn, Members
<1>2. ASSUME NEW h \in Pooled
      PROVE  /\ en[h].pooled = entry[h].pooled /\ en[h].ptr = Slot(h)
             /\ en[h].sequence = entry[h].sequence
             /\ en[h].offset = Cardinality(Pre(h)) * SlotBytes
             /\ en[h].member = TRUE /\ en[h].valid = FALSE
             /\ en[h].pending = entry[h].pending
             /\ en[h].cached = entry[h].cached /\ en[h].in_use = entry[h].in_use
  BY <1>1, <1>2, ZenonT(30) DEF ArenaCreated, Typed, Entry, TotalBytes, SlotBytes
<1>3. \A h \in Hosts : h \notin Pooled => en[h] = entry[h] BY DEF ArenaCreated
<1>4. \A h \in Hosts : Cardinality(Pre(h)) * SlotBytes \in Nat
  BY <1>1, HostSets, SlotBytesFacts
<1>5. en \in [Hosts -> Entry]
  <2>1. ASSUME NEW h \in Hosts PROVE en[h] \in Entry
    <3>1. CASE h \notin Pooled BY <1>3, <3>1 DEF Typed
    <3>2. CASE h \in Pooled
      <4> DEFINE o == TotalBytes(Pre(h))
      <4>1. o \in Nat BY <1>4 DEF TotalBytes, SlotBytes
      <4>2. en[h] = [entry[h] EXCEPT !.offset = o, !.member = TRUE, !.valid = FALSE,
                                     !.ptr = Slot(h)]
        BY <3>2 DEF ArenaCreated
      <4> HIDE DEF o, en
      <4>3. entry[h] \in Entry /\ Slot(h) \in Places BY PlaceFacts DEF Typed
      <4> QED BY <4>1, <4>2, <4>3 DEF Entry
    <3> QED BY <3>1, <3>2
  <2> QED BY <2>1, Zenon DEF ArenaCreated
<1> HIDE DEF en
<1>6. \A h \in Hosts : en[h].pooled = entry[h].pooled /\ (en[h].member <=> h \in Pooled)
  BY <1>1, <1>2, <1>3 DEF Pooled
<1>7. PooledIn(en) = Pooled /\ MembersIn(en) = Pooled
  BY <1>6 DEF PooledIn, MembersIn, Pooled
<1>8. MakesArena(entry, en)
  <2>1. \A g \in Hosts : ~entry[g].pooled => en[g] = entry[g] BY <1>3 DEF Pooled
  <2>2. \A g \in Hosts : entry[g].pooled => g \in Pooled BY DEF Pooled
  <2> QED BY <1>1, <1>2, <1>5, <2>1, <2>2 DEF MakesArena, Typed
<1>9. ASSUME NEW g \in Pooled, NEW h \in Pooled, Before(g, h)
      PROVE  en[g].offset + SlotBytes <= en[h].offset
  <2>1. /\ entry[g].sequence \in Nat /\ entry[h].sequence \in Nat /\ g \in Nat /\ h \in Nat
        /\ \A x \in Pooled : entry[x].sequence \in Nat /\ x \in Nat
    BY <1>1, ReuseAssumption DEF Typed, Entry
  <2>2. Pre(g) \subseteq Pre(h) /\ g \in Pre(h) /\ g \notin Pre(g)
    <3>1. \A x \in Pooled : Before(x, g) => Before(x, h)
      BY <1>9, <2>1 DEF Before
    <3>2. ~Before(g, g) BY <2>1 DEF Before
    <3> QED BY <1>9, <3>1, <3>2
  <2>3. /\ Cardinality(Pre(g)) + 1 <= Cardinality(Pre(h))
        /\ Cardinality(Pre(g)) \in Nat /\ Cardinality(Pre(h)) \in Nat
    BY <1>1, <2>2, HostSets
  <2> QED BY <1>2, <2>3, MoreSlots, SlotBytesFacts
<1>10. ASSUME NEW h \in Pooled
       PROVE  en[h].offset + SlotBytes <= Cardinality(Pooled) * SlotBytes
  <2>1. entry[h].sequence \in Nat /\ h \in Nat
    BY <1>1, ReuseAssumption DEF Typed, Entry
  <2>2. Pre(h) \subseteq Pooled /\ h \notin Pre(h) BY <2>1 DEF Before
  <2>3. /\ Cardinality(Pre(h)) + 1 <= Cardinality(Pooled)
        /\ Cardinality(Pre(h)) \in Nat /\ Cardinality(Pooled) \in Nat
    BY <1>1, <2>2, HostSets
  <2> QED BY <1>2, <2>3, MoreSlots, SlotBytesFacts
<1>11. \A h \in Hosts : ~en[h].member => en[h].offset = 0
  BY <1>1, <1>3, <1>6 DEF Layout
<1>12. /\ \A h \in Pooled : en[h].sequence < Cardinality(Pooled)
       /\ \A g, h \in Pooled : en[g].sequence = en[h].sequence => g = h
  <2>1. /\ \A h \in Pooled : entry[h].sequence < Cardinality(Pooled)
        /\ \A g, h \in Pooled : entry[g].sequence = entry[h].sequence => g = h
    BY <1>1 DEF Layout
  <2>2. \A h \in Pooled : en[h].sequence = entry[h].sequence BY <1>2
  <2> QED BY <2>1, <2>2
<1>13. \A h \in Pooled : /\ en[h].offset + Bytes <= Cardinality(Pooled) * SlotBytes
                         /\ en[h].offset \in Nat
  <2>1. \A h \in Pooled : en[h].offset \in Nat BY <1>1, <1>5 DEF Entry
  <2>2. Cardinality(Pooled) * SlotBytes \in Nat BY <1>1, HostSets, SlotBytesFacts
  <2> QED BY <1>10, <2>1, <2>2, SlotBytesFacts, ReuseAssumption
<1>14. ASSUME NEW g \in Pooled, NEW h \in Pooled, g # h
       PROVE  \/ en[g].offset + Bytes <= en[h].offset
              \/ en[h].offset + Bytes <= en[g].offset
  <2>1. /\ entry[g].sequence \in Nat /\ entry[h].sequence \in Nat /\ g \in Nat /\ h \in Nat
        /\ entry[g].sequence # entry[h].sequence
    BY <1>1, <1>14, ReuseAssumption DEF Typed, Entry, Layout
  <2>2. Before(g, h) \/ Before(h, g) BY <1>14, <2>1 DEF Before
  <2> QED BY <1>9, <1>13, <2>2, SlotBytesFacts, ReuseAssumption
<1>15. Layout(en) BY <1>7, <1>11, <1>12, <1>13, <1>14 DEF Layout
<1> QED BY <1>8, <1>15 DEF en

(* The layout depends on four fields of the entries.                        *)
SameLayout(en, en2) ==
  \A g \in Hosts : /\ en2[g].pooled = en[g].pooled /\ en2[g].sequence = en[g].sequence
                   /\ en2[g].offset = en[g].offset /\ en2[g].member = en[g].member

(* So it is kept by all that does not create or pool anything.              *)
LEMMA LayoutKept ==
  ASSUME NEW en, NEW en2, Layout(en), SameLayout(en, en2)
  PROVE  Layout(en2)
<1>1. PooledIn(en2) = PooledIn(en) /\ MembersIn(en2) = MembersIn(en)
  BY DEF SameLayout, PooledIn, MembersIn
<1>2. PooledIn(en) \subseteq Hosts /\ MembersIn(en) \subseteq Hosts
  BY DEF PooledIn, MembersIn
<1> HIDE DEF PooledIn, MembersIn
<1>3. \A h \in Hosts : ~en2[h].member => en2[h].offset = 0
  BY DEF Layout, SameLayout
<1>4. /\ \A h \in PooledIn(en) : en2[h].sequence < Cardinality(PooledIn(en))
      /\ \A g, h \in PooledIn(en) : en2[g].sequence = en2[h].sequence => g = h
  BY <1>2 DEF Layout, SameLayout
<1>5. /\ \A h \in MembersIn(en) :
           en2[h].offset + Bytes <= Cardinality(MembersIn(en)) * SlotBytes
  BY <1>2 DEF Layout, SameLayout
<1>6. \A g, h \in MembersIn(en) :
           g # h => \/ en2[g].offset + Bytes <= en2[h].offset
                    \/ en2[h].offset + Bytes <= en2[g].offset
  BY <1>2 DEF Layout, SameLayout
<1> QED BY <1>1, <1>3, <1>4, <1>5, <1>6 DEF Layout

ReuseInv == Typed /\ Shape(entry, buffer, call) /\ Layout(entry)

(* The entries with which a call goes on, with or without a new arena.      *)
GoesOn(en) ==
  /\ en \in [Hosts -> Entry] /\ Shape(en, buffer, call) /\ Layout(en)
  /\ en = entry \/ MakesArena(entry, en)

(* Creating the arena, or not.                                              *)
LEMMA ArenaStep ==
  ASSUME ReuseInv, NEW en \in GetOrCreateReusableHostBufferArena
  PROVE  GoesOn(en)
<1>1. en = entry \/ (en = ArenaCreated /\ Members = {})
  BY DEF GetOrCreateReusableHostBufferArena
<1>2. CASE en = entry BY <1>2 DEF GoesOn, ReuseInv, Typed
<1>3. CASE en = ArenaCreated /\ Members = {}
  <2>1. Layout(en) /\ MakesArena(entry, en) BY <1>3, ArenaLayout DEF ReuseInv
  <2>2. Shape(en, buffer, call) BY <2>1, ShapeArena DEF ReuseInv
  <2>3. en \in [Hosts -> Entry] BY <2>1 DEF MakesArena
  <2> QED BY <2>1, <2>2, <2>3 DEF GoesOn
<1> QED BY <1>1, <1>2, <1>3

(* An entry with its slot packed.                                           *)
Packs(h, en, en2) ==
  /\ en2 \in [Hosts -> Entry]
  /\ \A g \in Hosts : g # h => en2[g] = en[g]
  /\ en2[h].pooled = en[h].pooled /\ en2[h].ptr = en[h].ptr
  /\ en2[h].sequence = en[h].sequence /\ en2[h].offset = en[h].offset
  /\ en2[h].member = en[h].member /\ en2[h].valid = en[h].valid
  /\ en2[h].cached = en[h].cached /\ en2[h].in_use = en[h].in_use
  /\ en2[h].pending = ~(opt.trust_contents /\ en[h].valid)

(* What a call that finds a slot does.                                      *)
LEMMA ReuseSlotStep ==
  ASSUME ReuseInv, NEW h \in Hosts, NEW en, GoesOn(en), ReuseSlot(h, en)
  PROVE  /\ en[h].member /\ ~en[h].pending /\ memory' = memory
         /\ staging' = IF opt.trust_contents /\ en[h].valid THEN staging
                       ELSE [staging EXCEPT ![h] = host[h]]
         /\ \E en2, m : Packs(h, en, en2) /\ HandsOut(h, en2, m)
<1> DEFINE en2 == [en EXCEPT ![h].pending = ~(opt.trust_contents /\ en[h].valid)]
<1>1. /\ en[h].member /\ ~en[h].pending /\ memory' = memory
      /\ staging' = IF opt.trust_contents /\ en[h].valid THEN staging
                    ELSE [staging EXCEPT ![h] = host[h]]
  BY DEF ReuseSlot
<1>2. HandOutView(h, en2, opt.cache) BY DEF ReuseSlot
<1>3. en \in [Hosts -> Entry] /\ opt.cache \in BOOLEAN
  BY DEF GoesOn, ReuseInv, Typed, Options
<1>4. Packs(h, en, en2) BY <1>3 DEF Packs, Entry
<1> HIDE DEF en2
<1>5. en2 \in [Hosts -> Entry] BY <1>4 DEF Packs
<1>6. en[h].pooled BY <1>1 DEF GoesOn, Shape, EntryFits
<1>7. Shape(en2, buffer, call)
  <2>1. \A g \in Hosts : EntryFits(en, buffer, g) BY DEF GoesOn, Shape
  <2>2. \A g \in Hosts : /\ SameEntry(en, en2, g)
                         /\ en2[g].pending => en2[g].member
                         /\ en2[g].valid => en2[g].member
    BY <1>1, <1>4, <2>1 DEF Packs, SameEntry, EntryFits
  <2>3. \A t \in Threads : CallFits(en, buffer, call, t) BY DEF GoesOn, Shape
  <2>4. LeavesShape(en, en2, buffer, buffer, call, call)
    BY <1>3, <1>5, <2>2, <2>3 DEF LeavesShape, SameViews, CallFits
  <2> QED BY <2>4, ShapeKept DEF GoesOn
<1>8. en2[h].pooled /\ en2[h].member BY <1>1, <1>4, <1>6 DEF Packs
<1>9. CASE HandOutCachedView(h, en2)
  <2>1. HandsOut(h, en2, en2[h].cached)
    BY <1>5, <1>7, <1>9, HandOutCachedViewStep DEF ReuseInv
  <2> QED BY <1>1, <1>4, <2>1
<1>10. CASE HandOutNewView(h, en2, opt.cache)
  <2>1. \E m : HandsOut(h, en2, m)
    BY <1>3, <1>5, <1>7, <1>8, <1>10, HandOutNewViewStep DEF ReuseInv
  <2> QED BY <1>1, <1>4, <2>1
<1> QED BY <1>2, <1>9, <1>10 DEF HandOutView

(* What a call that finds a pooled buffer does.                             *)
LEMMA ReuseOwnStep ==
  ASSUME ReuseInv, NEW h \in Hosts, NEW en, GoesOn(en), ReuseOwn(h, en), en[h].pooled
  PROVE  /\ ~en[h].member /\ staging' = staging
         /\ \/ memory' = [memory EXCEPT ![en[h].ptr] = host[h]] /\ \E m : HandsOut(h, en, m)
            \/ entry' = en /\ memory' = memory /\ buffer' = buffer
<1>1. en \in [Hosts -> Entry] /\ Shape(en, buffer, call) BY DEF GoesOn
<1>2. ASSUME HandOutView(h, en, FALSE) PROVE \E m : HandsOut(h, en, m)
  BY <1>1, <1>2, HandOutNewViewStep DEF HandOutView, ReuseInv
<1> QED BY <1>2 DEF ReuseOwn

-----------------------------------------------------------------------------
(* The invariant initially.                                                 *)
LEMMA InitReuse == Init => ReuseInv
<1> SUFFICES ASSUME Init PROVE ReuseInv OBVIOUS
<1> USE DEF Init
<1>1. NoEntry \in Entry /\ Own(NoBuffer) \in Places \cup {Own(NoBuffer)}
  BY DEF NoEntry, Entry
<1>2. Free \in Buffer BY ReuseAssumption DEF Free, Buffer
<1>3. Idle \in Call BY DEF Idle, Call
<1>4. Typed
  <2>1. host \in [Hosts -> 0..MaxVersion] BY ReuseAssumption
  <2>2. /\ staging \in [Hosts -> Contents] /\ memory \in [Places -> Contents]
    BY DEF Contents
  <2>3. /\ entry \in [Hosts -> Entry] /\ buffer \in [Buffers -> Buffer]
        /\ call \in [Threads -> Call]
    BY <1>1, <1>2, <1>3
  <2>4. reading \in [Threads -> SUBSET ((Places \cup {Own(NoBuffer)}) \X (0..MaxVersion))]
    OBVIOUS
  <2> QED BY <2>1, <2>2, <2>3, <2>4 DEF Typed
<1>5. \A h \in Hosts : EntryFits(entry, buffer, h) BY DEF EntryFits, NoEntry
<1>6. \A b \in Buffers : ViewFits(entry, buffer, b) BY DEF ViewFits, Free, Shown
<1>7. PoolsApart(entry, buffer) BY DEF PoolsApart, NoEntry
<1>8. \A t \in Threads : CallFits(entry, buffer, call, t) BY DEF CallFits, Idle
<1>9. Layout(entry) BY DEF Layout, PooledIn, MembersIn, NoEntry
<1> QED BY <1>4, <1>5, <1>6, <1>7, <1>8, <1>9 DEF ReuseInv, Shape

(* A call that the pool answers.                                            *)
LEMMA TryReuseStep ==
  ASSUME ReuseInv, NEW t \in Threads, NEW h \in Hosts, TryReuseHostBuffer(t, h)
  PROVE  ReuseInv'
<1>1. PICK en \in GetOrCreateReusableHostBufferArena : ReuseSlot(h, en) \/ ReuseOwn(h, en)
  BY DEF TryReuseHostBuffer
<1>2. GoesOn(en) /\ en \in [Hosts -> Entry] BY <1>1, ArenaStep DEF GoesOn
<1>3. en[h].pooled BY <1>2 DEF TryReuseHostBuffer, GoesOn, MakesArena
<1>4. UNCHANGED <<opt, host, dma, call, reading, executed>> BY DEF TryReuseHostBuffer
<1>5. host[h] \in Contents BY DEF ReuseInv, Typed, Contents
<1>6. ASSUME NEW en2, NEW m, HandsOut(h, en2, m), SameLayout(en, en2)
      PROVE  /\ entry' \in [Hosts -> Entry] /\ buffer' \in [Buffers -> Buffer]
             /\ Shape(entry', buffer', call') /\ Layout(entry')
  <2>1. SameLayout(en2, entry')
    BY <1>6 DEF HandsOut, OnlyCachedMoves, SameButCached, SameLayout
  <2>2. Layout(entry') BY <1>2, <1>6, <2>1, LayoutKept DEF GoesOn
  <2> QED BY <1>4, <1>6, <2>2 DEF HandsOut, OnlyCachedMoves
<1>7. CASE ReuseSlot(h, en)
  <2>1. /\ memory' = memory
        /\ staging' = IF opt.trust_contents /\ en[h].valid THEN staging
                      ELSE [staging EXCEPT ![h] = host[h]]
    BY <1>2, <1>7, ReuseSlotStep
  <2>2. PICK en2, m : Packs(h, en, en2) /\ HandsOut(h, en2, m)
    BY <1>2, <1>7, ReuseSlotStep
  <2>3. SameLayout(en, en2) BY <2>2 DEF Packs, SameLayout
  <2>4. /\ entry' \in [Hosts -> Entry] /\ buffer' \in [Buffers -> Buffer]
        /\ Shape(entry', buffer', call') /\ Layout(entry')
    BY <1>6, <2>2, <2>3
  <2>5. staging' \in [Hosts -> Contents] BY <1>5, <2>1 DEF ReuseInv, Typed
  <2> QED BY <1>4, <2>1, <2>4, <2>5 DEF ReuseInv, Typed
<1>8. CASE ReuseOwn(h, en)
  <2>1. /\ staging' = staging
        /\ \/ memory' = [memory EXCEPT ![en[h].ptr] = host[h]] /\ \E m : HandsOut(h, en, m)
           \/ entry' = en /\ memory' = memory /\ buffer' = buffer
    BY <1>2, <1>3, <1>8, ReuseOwnStep
  <2>2. memory' \in [Places -> Contents] BY <1>5, <2>1 DEF ReuseInv, Typed
  <2>3. SameLayout(en, en) BY DEF SameLayout
  <2>4. /\ entry' \in [Hosts -> Entry] /\ buffer' \in [Buffers -> Buffer]
        /\ Shape(entry', buffer', call') /\ Layout(entry')
    <3>1. CASE \E m : HandsOut(h, en, m) BY <1>6, <2>3, <3>1
    <3>2. CASE entry' = en /\ buffer' = buffer
      BY <1>2, <1>4, <3>2 DEF GoesOn, ReuseInv, Typed
    <3> QED BY <2>1, <3>1, <3>2
  <2> QED BY <1>4, <2>1, <2>2, <2>4 DEF ReuseInv, Typed
<1> QED BY <1>1, <1>7, <1>8

(* A buffer that is free.                                                   *)
LEMMA UnusedFacts ==
  ASSUME Unused # {}
  PROVE  Min(Unused) \in Buffers /\ buffer[Min(Unused)].st = "free" /\ ~Read(Min(Unused))
<1>1. Min(Unused) \in Unused BY SmallestIsIn, PlaceFacts DEF Unused
<1> QED BY <1>1 DEF Unused

(* The client's own transfer begins.                                        *)
LEMMA BaseTransferStep ==
  ASSUME ReuseInv, NEW t \in Threads, NEW h \in Hosts, BaseTransfer(t, h)
  PROVE  ReuseInv'
<1> DEFINE m == Min(Unused)
           c == [Idle EXCEPT !.op = "transfer", !.h = h, !.b = m]
<1>1. m \in Buffers /\ buffer[m].st = "free" BY UnusedFacts DEF BaseTransfer
<1>2. /\ buffer' = [buffer EXCEPT ![m].st = "owner"]
      /\ memory' = [memory EXCEPT ![Own(m)] = Garbage]
      /\ dma' = dma \cup {<<m, host[h]>>}
      /\ call' = [call EXCEPT ![t] = c]
      /\ UNCHANGED <<opt, host, entry, staging, reading, executed>>
      /\ GateOpen({"transfer"})
  BY DEF BaseTransfer
<1> HIDE DEF m
<1>3. /\ buffer' \in [Buffers -> Buffer] /\ buffer'[m].st = "owner"
      /\ \A b \in Buffers : b # m => buffer'[b] = buffer[b]
  BY <1>1, <1>2 DEF ReuseInv, Typed, Buffer
<1>4. /\ c \in Call /\ c.op = "transfer" /\ c.h = h /\ c.b = m /\ c.args = {}
  BY <1>1 DEF Idle, Call
<1> HIDE DEF c
<1>5. /\ call' \in [Threads -> Call] /\ call'[t] = c
      /\ \A u \in Threads : u # t => call'[u] = call[u]
  BY <1>2, <1>4 DEF ReuseInv, Typed
<1>6. Transfers(entry, buffer, buffer', call, call', t, h, m)
  BY <1>1, <1>2, <1>3, <1>4, <1>5 DEF Transfers, GateOpen, ReuseInv, Typed
<1>7. Shape(entry', buffer', call') BY <1>2, <1>6, ShapeTransfer DEF ReuseInv
<1>8. memory' \in [Places -> Contents] BY <1>2 DEF ReuseInv, Typed, Contents
<1>9. dma' \subseteq Buffers \X (0..MaxVersion) BY <1>1, <1>2 DEF ReuseInv, Typed
<1> QED BY <1>2, <1>3, <1>5, <1>7, <1>8, <1>9 DEF ReuseInv, Typed

(* The transfer's call ends: the buffer is pooled or given to the caller.   *)
LEMMA MaybePoolStep ==
  ASSUME ReuseInv, NEW t \in Threads, MaybePoolHostBuffer(t)
  PROVE  ReuseInv'
<1> DEFINE b == call[t].b
           h == call[t].h
           v == View(h, Own(b))
<1>1. /\ call[t].op = "transfer" /\ call' = [call EXCEPT ![t] = Idle]
      /\ UNCHANGED <<opt, host, staging, memory, dma, reading, executed>>
  BY DEF MaybePoolHostBuffer
<1>2. CallFits(entry, buffer, call, t) BY DEF ReuseInv, Shape
<1>3. h \in Hosts /\ b \in Buffers /\ Own(b) \in Places BY <1>1, <1>2, PlaceFacts DEF CallFits
<1>4. /\ call' \in [Threads -> Call] /\ call'[t].op = "idle" /\ call'[t].args = {}
      /\ \A u \in Threads : u # t => call'[u] = call[u]
  BY <1>1 DEF ReuseInv, Typed, Idle, Call
<1> HIDE DEF b, h
<1>5. v \in Buffer /\ v.st = "held" /\ v.h = h /\ v.place = Own(b)
  BY <1>3 DEF View, Free, Buffer, ReuseInv, Typed
<1> HIDE DEF v
<1>6. CASE /\ ~entry[h].pooled /\ Unused # {}
           /\ entry' = [entry EXCEPT ![h] = [NoEntry EXCEPT !.pooled = TRUE, !.ptr = Own(b),
                                               !.sequence = Cardinality(Pooled)]]
           /\ buffer' = [buffer EXCEPT ![Min(Unused)] = v]
  <2> DEFINE m == Min(Unused)
             e == [NoEntry EXCEPT !.pooled = TRUE, !.ptr = Own(b),
                                  !.sequence = Cardinality(Pooled)]
  <2>1. m \in Buffers /\ buffer[m].st = "free" BY <1>6, UnusedFacts
  <2>2. Cardinality(Pooled) \in Nat /\ Pooled \in SUBSET Hosts BY HostSets DEF Pooled
  <2>3. /\ e \in Entry /\ e.pooled = TRUE /\ e.ptr = Own(b)
        /\ e.sequence = Cardinality(Pooled) /\ e.offset = 0
        /\ e.member = FALSE /\ e.pending = FALSE /\ e.valid = FALSE
        /\ e.cached = NoBuffer /\ e.in_use = FALSE
    BY <1>3, <2>2 DEF NoEntry, Entry
  <2>4. entry' = [entry EXCEPT ![h] = e] /\ buffer' = [buffer EXCEPT ![m] = v] BY <1>6
  <2> HIDE DEF m, e
  <2>5. /\ entry' \in [Hosts -> Entry] /\ entry'[h] = e
        /\ \A g \in Hosts : g # h => entry'[g] = entry[g]
    BY <1>3, <2>3, <2>4 DEF ReuseInv, Typed
  <2>6. /\ buffer' \in [Buffers -> Buffer] /\ buffer'[m] = v
        /\ \A c \in Buffers : c # m => buffer'[c] = buffer[c]
    BY <1>5, <2>1, <2>4 DEF ReuseInv, Typed
  <2>7. Pools(entry, entry', call, call', t, h)
    BY <1>1, <1>3, <1>4, <1>6, <2>3, <2>5 DEF Pools, ReuseInv, Typed, b
  <2>8. Shape(entry', buffer, call') BY <2>7, ShapePool DEF ReuseInv
  <2>9. ShowsNew(entry', buffer, buffer', h, m)
    BY <1>3, <1>5, <2>1, <2>3, <2>5, <2>6 DEF ShowsNew
  <2>10. Shape(entry', buffer', call') BY <2>8, <2>9, ShapeNewView
  <2>11. Layout(entry')
    <3>1. PooledIn(entry) = Pooled BY DEF Pooled, PooledIn
    <3>2. PooledIn(entry') = Pooled \cup {h} /\ h \notin Pooled
      BY <1>3, <1>6, <2>3, <2>5 DEF PooledIn, Pooled
    <3>3. Cardinality(Pooled \cup {h}) = Cardinality(Pooled) + 1
      BY <2>2, <3>2, HostSets, FS_AddElement
    <3>4. MembersIn(entry') = MembersIn(entry) /\ h \notin MembersIn(entry)
      <4>1. ~entry[h].member
        BY <1>3, <1>6 DEF ReuseInv, Shape, EntryFits
      <4> QED BY <1>3, <2>3, <2>5, <4>1 DEF MembersIn
    <3>5. \A g \in Pooled : /\ entry'[g] = entry[g] /\ entry[g].sequence \in Nat
                            /\ entry[g].sequence < Cardinality(Pooled)
      BY <2>2, <2>5, <3>1, <3>2 DEF ReuseInv, Layout, Typed, Entry
    <3>6. \A g \in PooledIn(entry') : entry'[g].sequence < Cardinality(PooledIn(entry'))
      BY <2>2, <2>3, <2>5, <3>2, <3>3, <3>5
    <3>7. \A f, g \in PooledIn(entry') : entry'[f].sequence = entry'[g].sequence => f = g
      <4>1. \A f, g \in Pooled : entry[f].sequence = entry[g].sequence => f = g
        BY <3>1 DEF ReuseInv, Layout
      <4>2. \A g \in Pooled : entry'[g].sequence # entry'[h].sequence
        BY <2>2, <2>3, <2>5, <3>5
      <4> QED BY <3>2, <3>5, <4>1, <4>2
    <3>8. \A g \in MembersIn(entry) : g \in Hosts /\ entry'[g] = entry[g]
      BY <2>5, <3>4 DEF MembersIn
    <3>9. \A g \in Hosts : ~entry'[g].member => entry'[g].offset = 0
      BY <2>3, <2>5 DEF ReuseInv, Layout
    <3>10. /\ \A f \in MembersIn(entry) :
                entry'[f].offset + Bytes <= Cardinality(MembersIn(entry)) * SlotBytes
           /\ \A f, g \in MembersIn(entry) :
                f # g => \/ entry'[f].offset + Bytes <= entry'[g].offset
                         \/ entry'[g].offset + Bytes <= entry'[f].offset
      BY <3>8 DEF ReuseInv, Layout
    <3> QED BY <3>4, <3>6, <3>7, <3>9, <3>10 DEF Layout
  <2> QED BY <1>1, <1>4, <2>5, <2>6, <2>10, <2>11 DEF ReuseInv, Typed
<1>7. CASE buffer' = [buffer EXCEPT ![b] = v] /\ entry' = entry
  <2>1. /\ buffer' \in [Buffers -> Buffer] /\ buffer'[b] = v
        /\ \A c \in Buffers : c # b => buffer'[c] = buffer[c]
    BY <1>3, <1>5, <1>7 DEF ReuseInv, Typed
  <2>2. ShowsOwn(entry, buffer, buffer', call, call', t, b)
    BY <1>1, <1>3, <1>4, <1>5, <2>1 DEF ShowsOwn, ReuseInv, Typed, b, h
  <2>3. Shape(entry', buffer', call') BY <1>7, <2>2, ShapeOwnBuffer DEF ReuseInv
  <2> QED BY <1>1, <1>4, <1>7, <2>1, <2>3 DEF ReuseInv, Typed
<1> QED BY <1>6, <1>7 DEF MaybePoolHostBuffer, b, h, v

(* The device after some slots were copied.                                 *)
LEMMA WithSlotsFacts ==
  ASSUME Typed, NEW S \in SUBSET Hosts
  PROVE  /\ WithSlots(S) \in [Places -> Contents]
         /\ \A h \in S : WithSlots(S)[Slot(h)] = staging[h]
         /\ \A h \in Hosts : h \notin S => WithSlots(S)[Slot(h)] = memory[Slot(h)]
         /\ \A b \in Buffers : WithSlots(S)[Own(b)] = memory[Own(b)]
<1>1. \A h : Slot(h)[2] = h BY DEF Slot
<1>2. ASSUME NEW p \in Places
      PROVE  (IF \E h \in S : p = Slot(h) THEN staging[p[2]] ELSE memory[p]) \in Contents
  BY <1>1 DEF Typed
<1>3. WithSlots(S) \in [Places -> Contents] BY <1>2 DEF WithSlots
<1>4. \A p \in Places : WithSlots(S)[p] = IF \E h \in S : p = Slot(h)
                                          THEN staging[p[2]] ELSE memory[p]
  BY DEF WithSlots
<1>5. ASSUME NEW h \in S PROVE WithSlots(S)[Slot(h)] = staging[h]
  <2>1. Slot(h) \in Places BY PlaceFacts
  <2> QED BY <1>1, <1>4, <2>1
<1>6. ASSUME NEW h \in Hosts, h \notin S PROVE WithSlots(S)[Slot(h)] = memory[Slot(h)]
  <2>1. Slot(h) \in Places /\ \A g \in S : Slot(h) # Slot(g) BY <1>6, PlaceFacts
  <2> QED BY <1>4, <2>1
<1>7. ASSUME NEW b \in Buffers PROVE WithSlots(S)[Own(b)] = memory[Own(b)]
  <2>1. Own(b) \in Places /\ \A g \in S : Own(b) # Slot(g) BY PlaceFacts
  <2> QED BY <1>4, <2>1
<1> QED BY <1>3, <1>5, <1>6, <1>7

(* The entries after a flush.                                               *)
FlushesEntries(en, ok) ==
  /\ en \in [Hosts -> Entry] /\ SameLayout(entry, en)
  /\ \A h \in Hosts : SameEntry(entry, en, h)
  /\ \A h \in Hosts : /\ en[h].pending = FALSE
                      /\ en[h].valid = IF entry[h].pending /\ opt.trust_contents
                                       THEN ok ELSE entry[h].valid

(* A flush clears pending and, where contents are trusted, sets             *)
(* device_contents_valid by its success.                                    *)
LEMMA AfterFlushFacts ==
  ASSUME Typed, NEW ok \in BOOLEAN
  PROVE  FlushesEntries(AfterFlush(ok), ok)
<1> DEFINE en == AfterFlush(ok)
           w(h) == IF entry[h].pending /\ opt.trust_contents THEN ok ELSE entry[h].valid
<1>1. ASSUME NEW h \in Hosts
      PROVE  /\ en[h] \in Entry /\ SameEntry(entry, en, h)
             /\ en[h].sequence = entry[h].sequence /\ en[h].offset = entry[h].offset
             /\ en[h].pending = FALSE /\ en[h].valid = w(h)
  <2>1. en[h] = [entry[h] EXCEPT !.pending = FALSE, !.valid = w(h)]
    BY DEF AfterFlush
  <2>2. w(h) \in BOOLEAN /\ entry[h] \in Entry BY DEF Typed, Entry
  <2> HIDE DEF w, en
  <2> QED BY <2>1, <2>2 DEF Entry, SameEntry
<1>2. en = [h \in Hosts |-> en[h]] BY DEF AfterFlush
<1>3. en \in [Hosts -> Entry] BY <1>1, <1>2
<1>4. SameLayout(entry, en) BY <1>1 DEF SameLayout, SameEntry
<1> HIDE DEF en
<1>5. FlushesEntries(en, ok) BY <1>1, <1>3, <1>4 DEF FlushesEntries
<1> QED BY <1>5 DEF en

(* What a failed flush does to the buffers: it may report them lost.        *)
OnlyLost(buf, buf2) ==
  /\ buf2 \in [Buffers -> Buffer]
  /\ \A b \in Buffers : /\ buf2[b].st = buf[b].st /\ buf2[b].h = buf[b].h
                        /\ buf2[b].place = buf[b].place /\ buf2[b].snap = buf[b].snap
                        /\ buf2[b].lost = FALSE => buf[b].lost = FALSE

(* An execution begins, with a flush that may fail after some copies.       *)
ExecuteEffect(t, args) ==
  \/ /\ \E S \in SUBSET Hosts :
          /\ memory' = WithSlots(S) /\ S \subseteq Members
          /\ S = Flushed \/ (S = {} /\ Pending = {})
     /\ FlushesEntries(entry', TRUE)
     /\ call' \in [Threads -> Call]
     /\ call'[t].op = "execute" /\ call'[t].args = args
     /\ \A u \in Threads : u # t => call'[u] = call[u]
     /\ buffer' = buffer
  \/ /\ \E S \in SUBSET Hosts :
          /\ S \subseteq Members
          /\ memory' = WithSlots(S)
          /\ \A b \in Buffers : \A h \in Pending \ S :
               /\ buffer[b].st = "held" /\ buffer[b].place = Slot(h)
               /\ memory[Slot(h)] # buffer[b].snap
               => buffer'[b].lost
          /\ \A b \in Buffers : buffer'[b].lost =>
               \/ buffer[b].lost
               \/ \E h \in Pending \ S :
                    buffer[b].place = Slot(h) /\ memory[Slot(h)] # buffer[b].snap
     /\ FlushesEntries(entry', FALSE)
     /\ OnlyLost(buffer, buffer')
     /\ call' = call

(* FlushReusableHostBufferArena at the head of Execute, when it succeeds    *)
(* and when it fails.                                                       *)
LEMMA ExecuteFacts ==
  ASSUME Typed, NEW t \in Threads, NEW args \in SUBSET Held, Execute(t, args)
  PROVE  ExecuteEffect(t, args)
<1>0. Members \subseteq Hosts /\ Flushed \subseteq Members /\ Held \subseteq Buffers
  BY DEF Members, Flushed, Held
<1>1. CASE FlushReusableHostBufferArena(t, args)
  <2> DEFINE c == [Idle EXCEPT !.op = "execute", !.args = args]
  <2>1. /\ memory' = IF Pending = {} THEN memory ELSE WithSlots(Flushed)
        /\ entry' = AfterFlush(TRUE) /\ buffer' = buffer
        /\ call' = [call EXCEPT ![t] = c]
    BY <1>1 DEF FlushReusableHostBufferArena
  <2>2. c \in Call /\ c.op = "execute" /\ c.args = args BY <1>0 DEF Idle, Call
  <2> HIDE DEF c
  <2>3. /\ call' \in [Threads -> Call] /\ call'[t] = c
        /\ \A u \in Threads : u # t => call'[u] = call[u]
    BY <2>1, <2>2 DEF Typed
  <2>4. FlushesEntries(entry', TRUE) BY <2>1, AfterFlushFacts
  <2>5. CASE Pending = {}
    <3>1. WithSlots({}) = memory BY DEF WithSlots, Typed
    <3>2. memory' = WithSlots({}) /\ {} \in SUBSET Hosts /\ {} \subseteq Members
      BY <2>1, <2>5, <3>1
    <3> QED BY <2>1, <2>2, <2>3, <2>4, <2>5, <3>2 DEF ExecuteEffect
  <2>6. CASE Pending # {}
    <3>1. memory' = WithSlots(Flushed) /\ Flushed \in SUBSET Hosts BY <1>0, <2>1, <2>6
    <3> QED BY <1>0, <2>1, <2>2, <2>3, <2>4, <3>1 DEF ExecuteEffect
  <2> QED BY <2>5, <2>6
<1>2. CASE FlushFails(t)
  <2>1. entry' = AfterFlush(FALSE) /\ call' = call BY <1>2 DEF FlushFails
  <2>2. FlushesEntries(entry', FALSE) BY <2>1, AfterFlushFacts
  <2>3. PICK S \in SUBSET Flushed :
          /\ memory' = WithSlots(S)
          /\ buffer' = [b \in Buffers |->
                IF b \in Held /\ \E h \in Pending \ S :
                      buffer[b].place = Slot(h) /\ memory[Slot(h)] # buffer[b].snap
                THEN [buffer[b] EXCEPT !.lost = TRUE] ELSE buffer[b]]
    BY <1>2 DEF FlushFails
  <2>4. S \in SUBSET Hosts /\ S \subseteq Members BY <1>0, <2>3
  <2> DEFINE Loses(b) == b \in Held /\ \E h \in Pending \ S :
                           buffer[b].place = Slot(h) /\ memory[Slot(h)] # buffer[b].snap
  <2>5. \A b \in Buffers :
          buffer'[b] = IF Loses(b) THEN [buffer[b] EXCEPT !.lost = TRUE] ELSE buffer[b]
    BY <2>3
  <2>6. buffer' = [b \in Buffers |-> buffer'[b]] BY <2>3
  <2>7. \A b \in Buffers : \A h \in Pending \ S :
               (/\ buffer[b].st = "held" /\ buffer[b].place = Slot(h)
                /\ memory[Slot(h)] # buffer[b].snap) => Loses(b)
    BY DEF Held
  <2>8. \A b \in Buffers : Loses(b) => \E h \in Pending \ S :
                    buffer[b].place = Slot(h) /\ memory[Slot(h)] # buffer[b].snap
    OBVIOUS
  <2> HIDE DEF Loses
  <2>9. ASSUME NEW b \in Buffers
        PROVE  /\ buffer'[b] \in Buffer
               /\ buffer'[b].st = buffer[b].st /\ buffer'[b].h = buffer[b].h
               /\ buffer'[b].place = buffer[b].place /\ buffer'[b].snap = buffer[b].snap
               /\ buffer'[b].lost = IF Loses(b) THEN TRUE ELSE buffer[b].lost
    BY <2>5 DEF Typed, Buffer
  <2>10. OnlyLost(buffer, buffer')
    BY <2>6, <2>9 DEF OnlyLost
  <2>11. /\ \A b \in Buffers : Loses(b) => buffer'[b].lost
         /\ \A b \in Buffers : buffer'[b].lost => buffer[b].lost \/ Loses(b)
    BY <2>9
  <2> QED BY <2>1, <2>2, <2>3, <2>4, <2>7, <2>8, <2>10, <2>11 DEF ExecuteEffect
<1> QED BY <1>1, <1>2 DEF Execute

(* An execution begins.                                                     *)
LEMMA ExecuteStep ==
  ASSUME ReuseInv, NEW t \in Threads, NEW args \in SUBSET Held, Execute(t, args)
  PROVE  ReuseInv'
<1>1. ExecuteEffect(t, args) BY ExecuteFacts DEF ReuseInv
<1>2. UNCHANGED <<opt, host, staging, dma, reading, executed>> BY DEF Execute
<1>3. ASSUME NEW S \in SUBSET Hosts, memory' = WithSlots(S)
      PROVE  memory' \in [Places -> Contents]
  BY <1>3, WithSlotsFacts DEF ReuseInv
<1>4. ASSUME NEW ok, FlushesEntries(entry', ok)
      PROVE  /\ Layout(entry') /\ entry' \in [Hosts -> Entry]
             /\ \A g \in Hosts : /\ SameEntry(entry, entry', g)
                                 /\ entry'[g].pending => entry'[g].member
  <2>1. Layout(entry') BY <1>4, LayoutKept DEF FlushesEntries, ReuseInv
  <2> QED BY <1>4, <2>1 DEF FlushesEntries
<1>5. \A u \in Threads : CallFits(entry, buffer, call, u) BY DEF ReuseInv, Shape
<1>6. ASSUME entry' \in [Hosts -> Entry], NEW ok \in BOOLEAN, FlushesEntries(entry', ok)
      PROVE  \A g \in Hosts : entry'[g].valid => entry'[g].member
  <2>1. \A g \in Hosts : EntryFits(entry, buffer, g) BY DEF ReuseInv, Shape
  <2> QED BY <1>6, <2>1 DEF FlushesEntries, EntryFits, SameEntry
<1>7. CASE buffer' = buffer /\ call' \in [Threads -> Call] /\ FlushesEntries(entry', TRUE)
           /\ call'[t].op = "execute" /\ call'[t].args = args
           /\ \A u \in Threads : u # t => call'[u] = call[u]
  <2>1. SameViews(buffer, buffer') BY <1>7 DEF SameViews
  <2>2. \A u \in Threads :
            /\ call'[u].op = "transfer" => call'[u] = call[u]
            /\ \A b \in call'[u].args : b \in Buffers /\ buffer[b].st = "held"
            /\ call'[u].op \in {"idle", "transfer"} => call'[u].args = {}
    BY <1>5, <1>7 DEF CallFits, Held
  <2>3. LeavesShape(entry, entry', buffer, buffer', call, call')
    BY <1>4, <1>6, <1>7, <2>1, <2>2 DEF LeavesShape, ReuseInv, Typed
  <2>4. Shape(entry', buffer', call') BY <2>3, ShapeKept DEF ReuseInv
  <2>5. memory' \in [Places -> Contents]
    BY <1>1, <1>3 DEF ExecuteEffect
  <2> QED BY <1>2, <1>4, <1>7, <2>4, <2>5 DEF ReuseInv, Typed
<1>8. CASE OnlyLost(buffer, buffer') /\ call' = call /\ FlushesEntries(entry', FALSE)
  <2>1. SameViews(buffer, buffer') BY <1>8 DEF SameViews, OnlyLost
  <2>2. \A u \in Threads :
            /\ call'[u].op = "transfer" => call'[u] = call[u]
            /\ \A b \in call'[u].args : b \in Buffers /\ buffer[b].st = "held"
            /\ call'[u].op \in {"idle", "transfer"} => call'[u].args = {}
    BY <1>5, <1>8 DEF CallFits
  <2>3. LeavesShape(entry, entry', buffer, buffer', call, call')
    BY <1>4, <1>6, <1>8, <2>1, <2>2 DEF LeavesShape, ReuseInv, Typed
  <2>4. Shape(entry', buffer', call') BY <2>3, ShapeKept DEF ReuseInv
  <2>5. memory' \in [Places -> Contents]
    BY <1>1, <1>3 DEF ExecuteEffect
  <2> QED BY <1>2, <1>4, <1>8, <2>4, <2>5 DEF ReuseInv, Typed, OnlyLost
<1> QED BY <1>1, <1>7, <1>8 DEF ExecuteEffect

(* A call goes on while entries and buffers stay.                           *)
LEMMA CallStep ==
  ASSUME ReuseInv, UNCHANGED <<opt, host, entry, staging, memory, dma, buffer>>,
         call' \in [Threads -> Call],
         reading' \in [Threads -> SUBSET ((Places \cup {Own(NoBuffer)}) \X (0..MaxVersion))],
         executed' \in BOOLEAN,
         \A u \in Threads :
            /\ call'[u].op = "transfer" => call'[u] = call[u]
            /\ \A b \in call'[u].args : b \in Buffers /\ buffer[b].st = "held"
            /\ call'[u].op \in {"idle", "transfer"} => call'[u].args = {}
  PROVE  ReuseInv'
<1>1. \A h \in Hosts : EntryFits(entry, buffer, h) BY DEF ReuseInv, Shape
<1>2. LeavesShape(entry, entry', buffer, buffer', call, call')
  BY <1>1 DEF LeavesShape, SameEntry, SameViews, ReuseInv, Typed, EntryFits
<1>3. Shape(entry', buffer', call') BY <1>2, ShapeKept DEF ReuseInv
<1> QED BY <1>3 DEF ReuseInv, Typed

(* What the device is told to read.                                         *)
LEMMA ReadsType ==
  ASSUME Typed, NEW args \in SUBSET Buffers
  PROVE  Reads(args) \subseteq (Places \cup {Own(NoBuffer)}) \X (0..MaxVersion)
<1>1. \A b \in Buffers : /\ buffer[b].place \in Places \cup {Own(NoBuffer)}
                         /\ buffer[b].snap \in 0..MaxVersion
  BY DEF Typed, Buffer
<1> QED BY <1>1 DEF Reads

(* The program is launched or refused.                                      *)
LEMMA BaseExecuteStep ==
  ASSUME ReuseInv, NEW t \in Threads, BaseExecute(t)
  PROVE  ReuseInv'
<1> DEFINE args == call[t].args
<1>1. /\ UNCHANGED <<opt, host, entry, staging, memory, dma, buffer>>
      /\ executed' \in BOOLEAN
  BY DEF BaseExecute, ReuseInv, Typed
<1>2. \A u \in Threads : CallFits(entry, buffer, call, u) BY DEF ReuseInv, Shape
<1>3. args \in SUBSET Buffers BY <1>2 DEF CallFits
<1> HIDE DEF args
<1>4. reading' \in [Threads -> SUBSET ((Places \cup {Own(NoBuffer)}) \X (0..MaxVersion))]
  <2>1. reading' = reading \/ reading' = [reading EXCEPT ![t] = Reads(args)]
    BY DEF BaseExecute, args
  <2> QED BY <1>3, <2>1, ReadsType DEF ReuseInv, Typed
<1>5. /\ call' \in [Threads -> Call]
      /\ \A u \in Threads : u # t => call'[u] = call[u]
      /\ \/ call'[t].op = "running" /\ call'[t].args = args
         \/ call'[t].op = "idle" /\ call'[t].args = {}
  <2>1. Idle \in Call /\ Idle.op = "idle" /\ Idle.args = {} BY DEF Idle, Call
  <2>2. CASE call' = [call EXCEPT ![t] = Idle] BY <2>1, <2>2 DEF ReuseInv, Typed
  <2>3. CASE call' = [call EXCEPT ![t].op = "running"]
    BY <2>3 DEF ReuseInv, Typed, Call, args
  <2> QED BY <2>2, <2>3 DEF BaseExecute
<1>6. \A u \in Threads :
            /\ call'[u].op = "transfer" => call'[u] = call[u]
            /\ \A b \in call'[u].args : b \in Buffers /\ buffer[b].st = "held"
            /\ call'[u].op \in {"idle", "transfer"} => call'[u].args = {}
  BY <1>2, <1>5 DEF CallFits, args
<1> QED BY <1>1, <1>4, <1>5, <1>6, CallStep

(* The device has read what it was told to.                                 *)
LEMMA DeviceCompletesStep ==
  ASSUME ReuseInv, NEW t \in Threads, DeviceCompletes(t)
  PROVE  ReuseInv'
<1>1. /\ UNCHANGED <<opt, host, entry, staging, memory, dma, buffer>>
      /\ executed' \in BOOLEAN
  BY DEF DeviceCompletes, ReuseInv, Typed
<1>2. \A u \in Threads : CallFits(entry, buffer, call, u) BY DEF ReuseInv, Shape
<1>3. reading' \in [Threads -> SUBSET ((Places \cup {Own(NoBuffer)}) \X (0..MaxVersion))]
  BY DEF DeviceCompletes, ReuseInv, Typed
<1>4. Idle \in Call /\ Idle.op = "idle" /\ Idle.args = {} BY DEF Idle, Call
<1>5. call' = call \/ call' = [call EXCEPT ![t] = Idle] BY DEF DeviceCompletes
<1>6. call' \in [Threads -> Call] BY <1>4, <1>5 DEF ReuseInv, Typed
<1>7. \A u \in Threads : call'[u] = call[u] \/ call'[u] = Idle
  BY <1>5 DEF ReuseInv, Typed
<1>8. \A u \in Threads :
            /\ call'[u].op = "transfer" => call'[u] = call[u]
            /\ \A b \in call'[u].args : b \in Buffers /\ buffer[b].st = "held"
            /\ call'[u].op \in {"idle", "transfer"} => call'[u].args = {}
  BY <1>2, <1>4, <1>7 DEF CallFits
<1> QED BY <1>1, <1>3, <1>6, <1>8, CallStep

(* The caller copies a buffer to the host.                                  *)
LEMMA ToHostStep ==
  ASSUME ReuseInv, NEW t \in Threads, NEW b \in Buffers, BufferToHostBuffer(t, b)
  PROVE  ReuseInv'
<1> DEFINE c == [Idle EXCEPT !.op = "to_host", !.args = {b}]
<1>1. /\ UNCHANGED <<opt, host, entry, staging, memory, dma, buffer>>
      /\ executed' \in BOOLEAN /\ buffer[b].st = "held"
      /\ reading' = [reading EXCEPT ![t] = Reads({b})]
      /\ call' = [call EXCEPT ![t] = c]
  BY DEF BufferToHostBuffer, ReuseInv, Typed, Held
<1>2. \A u \in Threads : CallFits(entry, buffer, call, u) BY DEF ReuseInv, Shape
<1>3. reading' \in [Threads -> SUBSET ((Places \cup {Own(NoBuffer)}) \X (0..MaxVersion))]
  BY <1>1, ReadsType DEF ReuseInv, Typed
<1>4. c \in Call /\ c.op = "to_host" /\ c.args = {b} BY DEF Idle, Call
<1> HIDE DEF c
<1>5. /\ call' \in [Threads -> Call] /\ call'[t] = c
      /\ \A u \in Threads : u # t => call'[u] = call[u]
  BY <1>1, <1>4 DEF ReuseInv, Typed
<1>6. \A u \in Threads :
            /\ call'[u].op = "transfer" => call'[u] = call[u]
            /\ \A d \in call'[u].args : d \in Buffers /\ buffer[d].st = "held"
            /\ call'[u].op \in {"idle", "transfer"} => call'[u].args = {}
  BY <1>1, <1>2, <1>4, <1>5 DEF CallFits
<1> QED BY <1>1, <1>3, <1>5, <1>6, CallStep

(* What destroying a buffer does: a cached view is kept.                    *)
DestroyEffect(b) ==
  LET h == buffer[b].h IN
  /\ h \in Hosts /\ buffer[b].st = "held" /\ NotInCall(b)
  /\ buffer' \in [Buffers -> Buffer]
  /\ \A c \in Buffers : c # b => buffer'[c] = buffer[c]
  /\ \/ /\ entry[h].cached = b /\ OnlyCachedMoves(entry, entry', h)
        /\ entry'[h].in_use = FALSE /\ entry'[h].cached = b
        /\ buffer'[b].st = "kept" /\ buffer'[b].h = h
        /\ buffer'[b].place = buffer[b].place
     \/ /\ entry[h].cached # b /\ entry' = entry
        /\ buffer'[b].st = "free"

(* BufferDestroy does that.                                                 *)
LEMMA DestroyFacts ==
  ASSUME ReuseInv, NEW b \in Buffers, BufferDestroy(b)
  PROVE  DestroyEffect(b)
<1> DEFINE h == buffer[b].h
<1>1. ViewFits(entry, buffer, b) BY DEF ReuseInv, Shape
<1>2. buffer[b].st = "held" /\ NotInCall(b) BY DEF BufferDestroy, Held
<1>3. h \in Hosts BY <1>1, <1>2 DEF ViewFits, Shown
<1>4. buffer[b] \in Buffer /\ entry \in [Hosts -> Entry] BY DEF ReuseInv, Typed
<1>5. CASE entry[h].cached = b
  <2> DEFINE v == [buffer[b] EXCEPT !.st = "kept", !.snap = 0, !.lost = FALSE]
  <2>1. entry' = [entry EXCEPT ![h].in_use = FALSE] BY <1>5 DEF BufferDestroy
  <2>2. buffer' = [buffer EXCEPT ![b] = v] BY <1>5 DEF BufferDestroy
  <2>3. v \in Buffer /\ v.st = "kept" /\ v.h = buffer[b].h /\ v.place = buffer[b].place
    <3>1. 0 \in 0..MaxVersion BY ReuseAssumption
    <3> QED BY <1>4, <3>1 DEF Buffer
  <2> HIDE DEF v, h
  <2>4. /\ buffer' \in [Buffers -> Buffer] /\ buffer'[b] = v
        /\ \A c \in Buffers : c # b => buffer'[c] = buffer[c]
    BY <2>2, <2>3 DEF ReuseInv, Typed
  <2>5. /\ OnlyCachedMoves(entry, entry', h)
        /\ entry'[h].in_use = FALSE /\ entry'[h].cached = entry[h].cached
    BY <1>3, <1>4, <2>1 DEF Entry, SameButCached, OnlyCachedMoves
  <2> QED BY <1>2, <1>3, <1>5, <2>3, <2>4, <2>5 DEF DestroyEffect, h
<1>6. CASE entry[h].cached # b
  <2>1. entry' = entry BY <1>6 DEF BufferDestroy
  <2>2. buffer' = [buffer EXCEPT ![b] = Free] BY <1>6 DEF BufferDestroy
  <2>3. Free \in Buffer /\ Free.st = "free" BY ReuseAssumption DEF Free, Buffer
  <2>4. /\ buffer' \in [Buffers -> Buffer] /\ buffer'[b] = Free
        /\ \A c \in Buffers : c # b => buffer'[c] = buffer[c]
    BY <2>2, <2>3 DEF ReuseInv, Typed
  <2> QED BY <1>2, <1>3, <1>6, <2>1, <2>3, <2>4 DEF DestroyEffect
<1> QED BY <1>5, <1>6

(* The caller destroys a buffer.                                            *)
LEMMA BufferDestroyStep ==
  ASSUME ReuseInv, NEW b \in Buffers, BufferDestroy(b)
  PROVE  ReuseInv'
<1> DEFINE h == buffer[b].h
<1>1. DestroyEffect(b) BY DestroyFacts
<1>2. /\ UNCHANGED <<opt, host, staging, call, reading, executed>>
      /\ dma' \subseteq dma
      /\ memory' = memory \/ memory' = [memory EXCEPT ![Own(b)] = Garbage]
  BY DEF BufferDestroy
<1>3. memory' \in [Places -> Contents] BY <1>2 DEF ReuseInv, Typed, Contents
<1>4. \A t \in Threads : b \notin call[t].args BY <1>1 DEF DestroyEffect, NotInCall
<1> HIDE DEF h
<1>5. CASE entry[h].cached = b
  <2>1. Keeps(entry, entry', buffer, buffer', call, h, b)
    BY <1>1, <1>4, <1>5 DEF DestroyEffect, Keeps, h
  <2>2. SameLayout(entry, entry') /\ entry' \in [Hosts -> Entry]
    BY <2>1 DEF Keeps, OnlyCachedMoves, SameButCached, SameLayout
  <2>3. Shape(entry', buffer', call) BY <2>1, ShapeKeep DEF ReuseInv
  <2>4. Layout(entry') BY <2>2, LayoutKept DEF ReuseInv
  <2> QED BY <1>1, <1>2, <1>3, <2>2, <2>3, <2>4 DEF ReuseInv, Typed, DestroyEffect
<1>6. CASE entry[h].cached # b
  <2>1. Destroys(entry, buffer, buffer', call, b) /\ entry' = entry
    BY <1>1, <1>4, <1>6 DEF DestroyEffect, Destroys, h, ReuseInv, Typed
  <2>2. Shape(entry', buffer', call) BY <2>1, ShapeDestroy DEF ReuseInv
  <2> QED BY <1>1, <1>2, <1>3, <2>1, <2>2 DEF ReuseInv, Typed, DestroyEffect
<1> QED BY <1>5, <1>6

(* The caller deletes a buffer.                                             *)
LEMMA BufferDeleteStep ==
  ASSUME ReuseInv, NEW b \in Buffers, BufferDelete(b)
  PROVE  ReuseInv' /\ OnlyLost(buffer, buffer')
<1>1. /\ UNCHANGED <<opt, host, entry, staging, memory, dma, call, reading, executed>>
      /\ buffer' = [buffer EXCEPT ![b].deleted = TRUE]
  BY DEF BufferDelete
<1>2. OnlyLost(buffer, buffer')
  BY <1>1 DEF OnlyLost, ReuseInv, Typed, Buffer
<1>3. /\ \A h \in Hosts : EntryFits(entry, buffer, h)
      /\ \A t \in Threads : CallFits(entry, buffer, call, t)
  BY DEF ReuseInv, Shape
<1>4. \A h \in Hosts : /\ SameEntry(entry, entry', h)
                       /\ entry'[h].pending => entry'[h].member
                       /\ entry'[h].valid => entry'[h].member
  BY <1>1, <1>3 DEF SameEntry, EntryFits
<1>5. LeavesShape(entry, entry', buffer, buffer', call, call')
  BY <1>1, <1>2, <1>3, <1>4 DEF LeavesShape, SameViews, OnlyLost, ReuseInv, Typed, CallFits
<1>6. Shape(entry', buffer', call') BY <1>5, ShapeKept DEF ReuseInv
<1> QED BY <1>1, <1>2, <1>6 DEF ReuseInv, Typed, OnlyLost

(* Neither the caller's writes nor a transfer that reaches the device moves *)
(* anything.                                                                *)
LEMMA ContentsStep ==
  ASSUME ReuseInv, (\E h \in Hosts : WriteHost(h)) \/ (\E transfer \in dma : TransferCompletes(transfer))
  PROVE  ReuseInv'
<1>1. CASE \E h \in Hosts : WriteHost(h)
  <2>1. PICK h \in Hosts : WriteHost(h) BY <1>1
  <2>2. host' \in [Hosts -> 0..MaxVersion]
    <3>1. host[h] + 1 \in 0..MaxVersion /\ host' = [host EXCEPT ![h] = host[h] + 1]
      BY <2>1, ReuseAssumption DEF WriteHost, ReuseInv, Typed
    <3> QED BY <3>1 DEF ReuseInv, Typed
  <2> QED BY <2>1, <2>2 DEF WriteHost, ReuseInv, Typed
<1>2. CASE \E transfer \in dma : TransferCompletes(transfer)
  <2>1. PICK transfer \in dma : TransferCompletes(transfer) BY <1>2
  <2>2. transfer[2] \in Contents BY DEF ReuseInv, Typed, Contents
  <2>3. memory' \in [Places -> Contents]
    BY <2>1, <2>2 DEF TransferCompletes, ReuseInv, Typed
  <2> QED BY <2>1, <2>3 DEF TransferCompletes, ReuseInv, Typed
<1> QED BY <1>1, <1>2

(* Every step keeps the invariant.                                          *)
LEMMA NextReuse == ReuseInv /\ [Next]_vars => ReuseInv'
<1> SUFFICES ASSUME ReuseInv, [Next]_vars PROVE ReuseInv' OBVIOUS
<1>1. ASSUME NEW t \in Threads, NEW h \in Hosts,
             TryReuseHostBuffer(t, h) \/ BaseTransfer(t, h)
      PROVE  ReuseInv'
  BY <1>1, TryReuseStep, BaseTransferStep
<1>2. ASSUME NEW t \in Threads, MaybePoolHostBuffer(t) \/ BaseExecute(t) \/ DeviceCompletes(t)
      PROVE  ReuseInv'
  BY <1>2, MaybePoolStep, BaseExecuteStep, DeviceCompletesStep
<1>3. ASSUME NEW t \in Threads, NEW args \in SUBSET Held, Execute(t, args)
      PROVE  ReuseInv'
  BY <1>3, ExecuteStep
<1>4. ASSUME NEW t \in Threads, NEW b \in Buffers, BufferToHostBuffer(t, b)
      PROVE  ReuseInv'
  BY <1>4, ToHostStep
<1>5. ASSUME NEW b \in Buffers, BufferDestroy(b) \/ BufferDelete(b) PROVE ReuseInv'
  BY <1>5, BufferDestroyStep, BufferDeleteStep
<1>6. CASE UNCHANGED vars BY <1>6 DEF vars, ReuseInv, Typed
<1> QED BY <1>1, <1>2, <1>3, <1>4, <1>5, <1>6, ContentsStep DEF Next

(* The invariant holds always.                                              *)
LEMMA ReuseInvariant == Spec => []ReuseInv
<1> QED BY InitReuse, NextReuse, PTL DEF Spec

(* Every variable of the plugin holds a value of its kind: the versions of  *)
(* host data, the entries of g_reuse_host_buffers, the arena, the device    *)
(* memory, the PJRT_Buffers and the calls.                                  *)
THEOREM TypeOKTheorem == Spec => []TypeOK
<1>1. ReuseInv => TypeOK
  <2> SUFFICES ASSUME ReuseInv PROVE TypeOK OBVIOUS
  <2> USE DEF ReuseInv, Typed
  <2>1. ASSUME NEW h \in Hosts
        PROVE  entry[h].offset \in 0..(Cardinality(Hosts) * (Bytes + Alignment))
    <3> DEFINE n == Cardinality(MembersIn(entry))
               N == Cardinality(Hosts)
    <3>1. n \in Nat /\ N \in Nat /\ n <= N BY HostSets DEF MembersIn
    <3>2. /\ entry[h].offset \in Nat /\ Bytes \in Nat /\ Alignment \in Nat
          /\ Bytes + Alignment \in Nat
      BY ReuseAssumption DEF Entry
    <3>3. entry[h].member => entry[h].offset + Bytes <= n * SlotBytes
      BY DEF Layout, MembersIn
    <3>4. ~entry[h].member => entry[h].offset = 0 BY DEF Layout
    <3> HIDE DEF n, N
    <3>5. n * SlotBytes <= N * SlotBytes BY <3>1, SlotBytesFacts, Products
    <3>6. N * SlotBytes <= N * (Bytes + Alignment)
      BY <3>1, <3>2, SlotBytesFacts, Products
    <3>7. n * SlotBytes \in Nat /\ N * SlotBytes \in Nat /\ N * (Bytes + Alignment) \in Nat
      BY <3>1, <3>2, SlotBytesFacts
    <3>8. entry[h].offset <= N * (Bytes + Alignment)
      <4> DEFINE x == n * SlotBytes
                 y == N * SlotBytes
                 z == N * (Bytes + Alignment)
      <4>1. x \in Nat /\ y \in Nat /\ z \in Nat /\ x <= y /\ y <= z BY <3>5, <3>6, <3>7
      <4>2. entry[h].member => entry[h].offset + Bytes <= x BY <3>3
      <4> HIDE DEF x, y, z
      <4>3. entry[h].offset <= z BY <3>2, <3>4, <4>1, <4>2
      <4> QED BY <4>3 DEF z
    <3> QED BY <3>2, <3>7, <3>8 DEF N
  <2>2. \A h \in Hosts : /\ entry[h].member => entry[h].pooled
                         /\ entry[h].pending => entry[h].member
    BY DEF Shape, EntryFits
  <2>3. \A h \in Hosts : /\ entry[h].ptr \in Places \cup {Own(NoBuffer)}
                         /\ entry[h].cached \in Buffers \cup {NoBuffer}
    BY DEF Entry
  <2>4. dma \subseteq Buffers \X Contents BY DEF Contents
  <2>5. \A b \in Buffers : buffer[b].st \in {"free", "held", "owner", "kept"} BY DEF Buffer
  <2>6. \A t \in Threads :
          call[t].op \in {"idle", "transfer", "execute", "running", "to_host"}
    BY DEF Call
  <2> QED BY <2>1, <2>2, <2>3, <2>4, <2>5, <2>6 DEF TypeOK
<1> QED BY <1>1, ReuseInvariant, PTL

(* MaybePoolHostBuffer, TryReuseHostBuffer and BufferDestroy together see   *)
(* to it that cached_view_in_use is set exactly while a caller holds the    *)
(* cached view, which shows the slot of its entry: it is never handed out   *)
(* twice.                                                                   *)
THEOREM CachedViewTheorem == Spec => []CachedViewHasOneHolder
<1>1. ReuseInv => CachedViewHasOneHolder
  BY DEF ReuseInv, Shape, EntryFits, Shown, CachedViewHasOneHolder
<1> QED BY <1>1, ReuseInvariant, PTL

(* The slots of the arena are within it and do not overlap.                 *)
SlotsAreApart ==
  /\ \A h \in Members : entry[h].offset + Bytes <= TotalBytes(Members)
  /\ \A g, h \in Members : g # h =>
       \/ entry[g].offset + Bytes <= entry[h].offset
       \/ entry[h].offset + Bytes <= entry[g].offset

(* GetOrCreateReusableHostBufferArena gives each member an offset of its    *)
(* own, aligned, so packing one slot or copying it to the device never      *)
(* touches the bytes of another, for any alignment and buffer size.         *)
THEOREM SlotsAreApartTheorem == Spec => []SlotsAreApart
<1>1. ReuseInv => SlotsAreApart
  <2>1. MembersIn(entry) = Members BY DEF MembersIn, Members
  <2> QED BY <2>1 DEF ReuseInv, Layout, SlotsAreApart, TotalBytes, SlotBytes
<1> QED BY <1>1, ReuseInvariant, PTL

-----------------------------------------------------------------------------
(***************************************************************************)
(* The contents of the slots.                                              *)
(***************************************************************************)
(* No packed slot is left out of a flush, whichever plan is chosen: it is   *)
(* a dirty range of the arena, and those are within one copy.               *)
LEMMA FlushCovers ==
  ASSUME ReuseInv
  PROVE  Pending \subseteq Flushed
<1> DEFINE total == TotalBytes(Members)
           dirty == {DirtyRange(h) : h \in Pending}
           plan  == PlanReusableHostBufferArenaCopies(
                      total, dirty, MaxDirtyRanges, MergeGapBytes, CopyOverheadBytes)
<1>1. MembersIn(entry) = Members /\ Members \in SUBSET Hosts /\ Pending \in SUBSET Hosts
  BY DEF MembersIn, Members, Pending
<1>2. total \in Nat
  BY <1>1, HostSets, SlotBytesFacts DEF TotalBytes, SlotBytes
<1>3. ASSUME NEW h \in Pending
      PROVE  /\ h \in Members /\ DirtyRange(h) \in RangeType
             /\ DirtyRange(h).offset = entry[h].offset
             /\ DirtyRange(h).bytes = Bytes /\ Bytes > 0
             /\ End(DirtyRange(h)) = entry[h].offset + Bytes
             /\ entry[h].offset + Bytes <= total
             /\ entry[h].offset \in Nat /\ Bytes \in Nat
  <2>1. h \in Hosts /\ entry[h].pending BY <1>1 DEF Pending
  <2>2. h \in Members BY <2>1 DEF Members, ReuseInv, Shape, EntryFits
  <2>3. entry[h].offset \in Nat /\ Bytes \in Nat /\ Bytes > 0
    BY <2>1, ReuseAssumption DEF ReuseInv, Typed, Entry
  <2>4. entry[h].offset + Bytes <= total
    BY <1>1, <2>2 DEF ReuseInv, Layout, TotalBytes, SlotBytes
  <2> QED BY <2>2, <2>3, <2>4 DEF DirtyRange, End, RangeType
<1>4. IsFiniteSet(dirty)
  <2> DEFINE f == [h \in Pending |-> DirtyRange(h)]
  <2>1. f \in Surjection(Pending, dirty) BY DEF Surjection
  <2>2. IsFiniteSet(Pending) BY <1>1, HostSets
  <2> HIDE DEF f, dirty
  <2> QED BY <2>1, <2>2, FS_Surjection
<1>5. dirty \in SUBSET RangeType BY <1>3
<1> SUFFICES ASSUME NEW h \in Pending
             PROVE  \E i \in DOMAIN CopyPlan :
                      /\ CopyPlan[i].offset <= entry[h].offset
                      /\ End(DirtyRange(h)) <= End(CopyPlan[i])
  BY <1>3 DEF Flushed
<1>6. CopyPlan = plan \/ CopyPlan = FullArenaPlan(total)
  BY DEF CopyPlan
<1>7. CopyPlan = plan => (DirtyRanges /\ plan # <<>>) \/ CopyPlan = FullArenaPlan(total)
  BY DEF CopyPlan
<1>8. CASE CopyPlan = FullArenaPlan(total)
  <2>1. total > 0 BY <1>2, <1>3
  <2> DEFINE full == [offset |-> 0, bytes |-> total]
  <2>2. CopyPlan = <<full>> BY <1>8, <2>1 DEF FullArenaPlan
  <2>3. full.offset = 0 /\ End(full) = total BY <1>2 DEF End
  <2> HIDE DEF full, total
  <2>4. 1 \in DOMAIN CopyPlan /\ CopyPlan[1] = full BY <2>2
  <2>5. full.offset <= entry[h].offset /\ End(DirtyRange(h)) <= End(full)
    BY <1>2, <1>3, <2>3
  <2> QED BY <2>4, <2>5
<1>9. CASE CopyPlan = plan /\ DirtyRanges /\ plan # <<>>
  <2>1. DirtyRange(h) \in dirty /\ DirtyRange(h).bytes > 0 /\ End(DirtyRange(h)) <= total
    BY <1>3
  <2>2. MergeGapBytes \in Nat BY ReuseAssumption
  <2> HIDE DEF dirty, total
  <2>3. PICK i \in DOMAIN plan : /\ plan[i].offset <= DirtyRange(h).offset
                                 /\ End(DirtyRange(h)) <= End(plan[i])
    BY <1>2, <1>4, <1>5, <2>1, <2>2, DirtyRangeIsCopied
  <2> HIDE DEF plan
  <2> QED BY <1>3, <1>9, <2>3
<1> QED BY <1>6, <1>7, <1>8, <1>9

(* device_contents_valid is only set when contents are trusted, and a slot  *)
(* that is valid or waits to become it has been packed with what the host   *)
(* buffer holds, so that copying it again does no harm.                     *)
Valid(en, st, mem, ho) ==
  \A h \in Hosts :
    /\ en[h].valid => /\ opt.trust_contents /\ ~en[h].pending
                      /\ st[h] = ho[h] /\ mem[Slot(h)] = ho[h]
    /\ en[h].pending /\ opt.trust_contents => st[h] = ho[h]

SlotsKept(mem, mem2) == \A h \in Hosts : mem2[Slot(h)] = mem[Slot(h)]

(* Memory outside the arena.                                                *)
LEMMA OwnIsNoSlot ==
  ASSUME Typed, NEW b \in Buffers, NEW v, memory' = [memory EXCEPT ![Own(b)] = v]
  PROVE  SlotsKept(memory, memory')
<1>1. \A h \in Hosts : Slot(h) \in Places /\ Slot(h) # Own(b) BY PlaceFacts
<1> QED BY <1>1 DEF SlotsKept, Typed

(* Steps that leave the slots, the staged and the host data keep Valid.     *)
LEMMA ValidKept ==
  ASSUME Valid(entry, staging, memory, host), SlotsKept(memory, memory'),
         UNCHANGED <<opt, staging, host>>,
         \A h \in Hosts : entry'[h].valid = entry[h].valid /\ entry'[h].pending = entry[h].pending
  PROVE  Valid(entry, staging, memory, host)'
BY DEF Valid, SlotsKept

(* A call that the pool answers.                                            *)
LEMMA TryReuseValid ==
  ASSUME ReuseInv, Valid(entry, staging, memory, host),
         NEW t \in Threads, NEW h \in Hosts, TryReuseHostBuffer(t, h)
  PROVE  Valid(entry, staging, memory, host)'
<1>1. PICK en \in GetOrCreateReusableHostBufferArena : ReuseSlot(h, en) \/ ReuseOwn(h, en)
  BY DEF TryReuseHostBuffer
<1>2. GoesOn(en) /\ en \in [Hosts -> Entry] BY <1>1, ArenaStep DEF GoesOn
<1>3. en[h].pooled BY <1>2 DEF TryReuseHostBuffer, GoesOn, MakesArena
<1>4. opt' = opt /\ host' = host BY DEF TryReuseHostBuffer
<1>5. Valid(en, staging, memory, host)
  BY <1>2 DEF Valid, GoesOn, MakesArena
<1>6. CASE ReuseSlot(h, en)
  <2>1. /\ memory' = memory /\ ~en[h].pending
        /\ staging' = IF opt.trust_contents /\ en[h].valid THEN staging
                      ELSE [staging EXCEPT ![h] = host[h]]
    BY <1>2, <1>6, ReuseSlotStep
  <2>2. PICK en2, m : Packs(h, en, en2) /\ HandsOut(h, en2, m)
    BY <1>2, <1>6, ReuseSlotStep
  <2>3. /\ \A g \in Hosts : /\ entry'[g].valid = en2[g].valid
                            /\ entry'[g].pending = en2[g].pending
    BY <2>2 DEF HandsOut, OnlyCachedMoves, SameButCached
  <2>4. /\ \A g \in Hosts : entry'[g].valid = en[g].valid
        /\ \A g \in Hosts : g # h => entry'[g].pending = en[g].pending
        /\ entry'[h].pending = ~(opt.trust_contents /\ en[h].valid)
    BY <2>2, <2>3 DEF Packs
  <2>5. \A g \in Hosts : g # h => staging'[g] = staging[g] BY <2>1 DEF ReuseInv, Typed
  <2>6. CASE opt.trust_contents /\ en[h].valid
    BY <1>4, <1>5, <2>1, <2>4, <2>6 DEF Valid
  <2>7. CASE ~(opt.trust_contents /\ en[h].valid)
    <3>1. staging'[h] = host[h] BY <2>1, <2>7 DEF ReuseInv, Typed
    <3> QED BY <1>4, <1>5, <2>1, <2>4, <2>5, <2>7, <3>1 DEF Valid
  <2> QED BY <2>6, <2>7
<1>7. CASE ReuseOwn(h, en)
  <2>1. /\ staging' = staging /\ ~en[h].member
        /\ \/ memory' = [memory EXCEPT ![en[h].ptr] = host[h]] /\ \E m : HandsOut(h, en, m)
           \/ entry' = en /\ memory' = memory /\ buffer' = buffer
    BY <1>2, <1>3, <1>7, ReuseOwnStep
  <2>2. \A g \in Hosts : entry'[g].valid = en[g].valid /\ entry'[g].pending = en[g].pending
    BY <2>1 DEF HandsOut, OnlyCachedMoves, SameButCached
  <2>3. PICK o \in Buffers : en[h].ptr = Own(o)
    BY <1>2, <1>3, <2>1 DEF GoesOn, Shape, EntryFits
  <2>4. SlotsKept(memory, memory')
    BY <2>1, <2>3, OwnIsNoSlot DEF SlotsKept, ReuseInv
  <2> QED BY <1>4, <1>5, <2>1, <2>2, <2>4 DEF Valid, SlotsKept
<1> QED BY <1>1, <1>6, <1>7

(* A flush makes the packed slots valid.                                    *)
LEMMA ExecuteValid ==
  ASSUME ReuseInv, Valid(entry, staging, memory, host),
         NEW t \in Threads, NEW args \in SUBSET Held, Execute(t, args)
  PROVE  Valid(entry, staging, memory, host)'
<1>1. ExecuteEffect(t, args) BY ExecuteFacts DEF ReuseInv
<1>2. opt' = opt /\ host' = host /\ staging' = staging BY DEF Execute
<1>3. ASSUME NEW S \in SUBSET Hosts, memory' = WithSlots(S)
      PROVE  /\ \A h \in S : memory'[Slot(h)] = staging[h]
             /\ \A h \in Hosts : h \notin S => memory'[Slot(h)] = memory[Slot(h)]
  BY <1>3, WithSlotsFacts DEF ReuseInv
<1>4. CASE FlushesEntries(entry', TRUE) /\ \E S \in SUBSET Hosts :
              memory' = WithSlots(S) /\ (S = Flushed \/ (S = {} /\ Pending = {}))
  <2>1. PICK S \in SUBSET Hosts :
              memory' = WithSlots(S) /\ (S = Flushed \/ (S = {} /\ Pending = {}))
    BY <1>4
  <2>2. \A h \in Hosts : entry[h].pending => h \in S
    BY <2>1, FlushCovers DEF Pending
  <2> SUFFICES ASSUME NEW h \in Hosts, entry'[h].valid
               PROVE  opt.trust_contents /\ staging[h] = host[h] /\ memory'[Slot(h)] = host[h]
    BY <1>2, <1>4 DEF Valid, FlushesEntries
  <2>3. CASE entry[h].pending /\ opt.trust_contents
    BY <1>3, <2>1, <2>2, <2>3 DEF Valid
  <2>4. CASE entry[h].valid
    BY <1>3, <2>1, <2>4 DEF Valid
  <2> QED BY <1>4, <2>3, <2>4 DEF FlushesEntries
<1>5. CASE FlushesEntries(entry', FALSE) /\ \E S \in SUBSET Hosts : memory' = WithSlots(S)
  <2>1. PICK S \in SUBSET Hosts : memory' = WithSlots(S) BY <1>5
  <2> SUFFICES ASSUME NEW h \in Hosts, entry'[h].valid
               PROVE  opt.trust_contents /\ staging[h] = host[h] /\ memory'[Slot(h)] = host[h]
    BY <1>2, <1>5 DEF Valid, FlushesEntries
  <2>2. entry[h].valid BY <1>5 DEF FlushesEntries
  <2> QED BY <1>3, <2>1, <2>2 DEF Valid
<1> QED BY <1>1, <1>4, <1>5 DEF ExecuteEffect

(* All other steps.                                                         *)
LEMMA OtherValid ==
  ASSUME ReuseInv, Valid(entry, staging, memory, host), [Next]_vars,
         ~ \E t \in Threads, h \in Hosts : TryReuseHostBuffer(t, h),
         ~ \E t \in Threads : \E args \in SUBSET Held : Execute(t, args)
  PROVE  Valid(entry, staging, memory, host)'
<1>1. ASSUME NEW t \in Threads, NEW h \in Hosts, BaseTransfer(t, h)
      PROVE  Valid(entry, staging, memory, host)'
  <2>1. PICK m \in Buffers : memory' = [memory EXCEPT ![Own(m)] = Garbage]
    BY <1>1, UnusedFacts DEF BaseTransfer
  <2>2. SlotsKept(memory, memory') BY <2>1, OwnIsNoSlot DEF ReuseInv
  <2> QED BY <1>1, <2>2, ValidKept DEF BaseTransfer
<1>2. ASSUME NEW t \in Threads, MaybePoolHostBuffer(t)
      PROVE  Valid(entry, staging, memory, host)'
  <2> DEFINE h == call[t].h
             e == [NoEntry EXCEPT !.pooled = TRUE, !.ptr = Own(call[t].b),
                                  !.sequence = Cardinality(Pooled)]
  <2>1. \/ entry' = entry \/ (entry' = [entry EXCEPT ![h] = e] /\ ~entry[h].pooled)
    BY <1>2 DEF MaybePoolHostBuffer
  <2>2. e.valid = FALSE /\ e.pending = FALSE BY DEF NoEntry
  <2>3. h \in Hosts BY <1>2 DEF MaybePoolHostBuffer, ReuseInv, Shape, CallFits
  <2>4. ~entry[h].pooled => ~entry[h].valid /\ ~entry[h].pending
    BY <2>3 DEF ReuseInv, Shape, EntryFits
  <2> HIDE DEF e, h
  <2>5. \A g \in Hosts : /\ entry'[g].valid = entry[g].valid
                         /\ entry'[g].pending = entry[g].pending
    <3>1. entry[h].valid \in BOOLEAN /\ entry[h].pending \in BOOLEAN
      BY <2>3 DEF ReuseInv, Typed, Entry
    <3> QED BY <2>1, <2>2, <2>3, <2>4, <3>1 DEF ReuseInv, Typed
  <2> QED BY <1>2, <2>5, ValidKept DEF MaybePoolHostBuffer, SlotsKept
<1>3. ASSUME NEW transfer \in dma, TransferCompletes(transfer)
      PROVE  Valid(entry, staging, memory, host)'
  <2>1. transfer[1] \in Buffers BY DEF ReuseInv, Typed
  <2>2. SlotsKept(memory, memory')
    BY <1>3, <2>1, OwnIsNoSlot DEF ReuseInv, TransferCompletes
  <2> QED BY <1>3, <2>2, ValidKept DEF TransferCompletes
<1>4. ASSUME NEW b \in Buffers, BufferDestroy(b)
      PROVE  Valid(entry, staging, memory, host)'
  <2>1. \A g \in Hosts : /\ entry'[g].valid = entry[g].valid
                         /\ entry'[g].pending = entry[g].pending
    BY <1>4, DestroyFacts DEF DestroyEffect, OnlyCachedMoves, SameButCached
  <2>2. memory' = memory \/ memory' = [memory EXCEPT ![Own(b)] = Garbage]
    BY <1>4 DEF BufferDestroy
  <2>3. SlotsKept(memory, memory') BY <2>2, OwnIsNoSlot DEF ReuseInv, SlotsKept
  <2> QED BY <1>4, <2>1, <2>3, ValidKept DEF BufferDestroy
<1>5. ASSUME NEW h \in Hosts, WriteHost(h) PROVE Valid(entry, staging, memory, host)'
  BY <1>5 DEF Valid, WriteHost, MayWrite
<1>6. ASSUME UNCHANGED <<opt, host, entry, staging, memory>>
      PROVE  Valid(entry, staging, memory, host)'
  BY <1>6 DEF Valid
<1>7. ASSUME NEW t \in Threads, BaseExecute(t) \/ DeviceCompletes(t)
      PROVE  Valid(entry, staging, memory, host)'
  BY <1>6, <1>7 DEF BaseExecute, DeviceCompletes
<1>8. ASSUME NEW b \in Buffers,
             BufferDelete(b) \/ \E t \in Threads : BufferToHostBuffer(t, b)
      PROVE  Valid(entry, staging, memory, host)'
  BY <1>6, <1>8 DEF BufferDelete, BufferToHostBuffer
<1>9. CASE UNCHANGED vars BY <1>6, <1>9 DEF vars
<1> QED BY <1>1, <1>2, <1>3, <1>4, <1>5, <1>7, <1>8, <1>9 DEF Next

(* Every step keeps the valid slots valid.                                  *)
LEMMA ValidNext ==
  ASSUME ReuseInv, Valid(entry, staging, memory, host), [Next]_vars
  PROVE  Valid(entry, staging, memory, host)'
BY TryReuseValid, ExecuteValid, OtherValid

(* TryReuseHostBuffer skips the packing of a slot whose                     *)
(* device_contents_valid is set. It may: the slot then holds the data of    *)
(* the host buffer and waits for no flush, whatever plan of copies the      *)
(* flushes chose and whether they failed, for every semantics of the        *)
(* transfers.                                                               *)
THEOREM ValidSlotsTheorem == Spec => []ValidSlotsHoldHostData
<1>1. Init => Valid(entry, staging, memory, host)
  BY DEF Init, Valid, NoEntry
<1>2. ReuseInv /\ Valid(entry, staging, memory, host) /\ [Next]_vars
        => Valid(entry, staging, memory, host)'
  BY ValidNext
<1>3. Valid(entry, staging, memory, host) => ValidSlotsHoldHostData
  BY DEF Valid, ValidSlotsHoldHostData
<1> QED BY <1>1, <1>2, <1>3, ReuseInvariant, PTL DEF Spec

-----------------------------------------------------------------------------
(***************************************************************************)
(* What the caller's buffers hold when it keeps the promise of kZeroCopy:  *)
(* the host data stays as it is while a buffer of it is alive.  Then all   *)
(* buffers that show the same memory should hold the same data.            *)
(***************************************************************************)
ZeroCopy == Semantics = "kZeroCopy" /\ ForceCopy = FALSE

Promise(buf, ho) ==
  \A b \in Buffers : buf[b].st = "held" => buf[b].snap = ho[buf[b].h]

(* A transfer belongs to a call that waits for it.                          *)
InFlight(dm, cal, mem, ho) ==
  /\ \A transfer \in dm : \E t \in Threads :
       /\ cal[t].op = "transfer" /\ cal[t].b = transfer[1]
       /\ transfer[2] = ho[cal[t].h]
  /\ \A t \in Threads : cal[t].op = "transfer" =>
       \/ \E transfer \in dm : transfer[1] = cal[t].b
       \/ mem[Own(cal[t].b)] = ho[cal[t].h]

(* Place p holds v, or it is a slot with v packed that waits for a flush.   *)
Backs(en, st, mem, p, v) ==
  /\ \A h \in Hosts : p = Slot(h) => st[h] = v /\ (en[h].pending \/ mem[p] = v)
  /\ \A o \in Buffers : p = Own(o) => mem[p] = v

Backed(en, buf, st, mem) ==
  \A b \in Buffers : buf[b].st = "held" /\ ~buf[b].lost =>
    Backs(en, st, mem, buf[b].place, buf[b].snap)

DataInv ==
  /\ ReuseInv /\ Valid(entry, staging, memory, host)
  /\ Promise(buffer, host) /\ InFlight(dma, call, memory, host)
  /\ Backed(entry, buffer, staging, memory)

(* A buffer in the caller's hands whose contents are on the device.         *)
OnDevice(buf, mem, b) ==
  buf[b].st = "held" /\ ~buf[b].lost /\ mem[buf[b].place] = buf[b].snap

(* What a step does to the data: the caller's buffers are still backed, and *)
(* the arguments of a call that were on the device are still there.         *)
DataStep ==
  /\ Promise(buffer', host') /\ InFlight(dma', call', memory', host')
  /\ Backed(entry', buffer', staging', memory')
  /\ \A b \in Buffers : OnDevice(buffer, memory, b) /\ ~NotInCall(b) =>
       /\ buffer'[b].place = buffer[b].place /\ buffer'[b].snap = buffer[b].snap
       /\ OnDevice(buffer', memory', b)

(* The memory that a buffer in the caller's hands shows.                    *)
LEMMA HeldPlace ==
  ASSUME ReuseInv, NEW b \in Buffers, buffer[b].st = "held"
  PROVE  /\ buffer[b].h \in Hosts
         /\ \A h \in Hosts : buffer[b].place = Slot(h) => h = buffer[b].h
         /\ \A o \in Buffers : buffer[b].place = Own(o) => o = b \/ buffer[o].st = "owner"
         /\ \/ buffer[b].place = Slot(buffer[b].h) /\ entry[buffer[b].h].member
            \/ \E o \in Buffers : buffer[b].place = Own(o)
         /\ buffer[b].place \in Places
<1>1. ViewFits(entry, buffer, b) /\ buffer[b].st \in Shown BY DEF ReuseInv, Shape, Shown
<1> QED BY <1>1, PlaceFacts DEF ViewFits

(* Nothing of the data moves when entries, buffers and memory stay.         *)
LEMMA SameData ==
  ASSUME DataInv, UNCHANGED <<host, entry, staging, memory, dma, buffer>>,
         \A t \in Threads : call'[t].op = "transfer" \/ call[t].op = "transfer"
                              => call'[t] = call[t]
  PROVE  DataStep
<1>1. InFlight(dma', call', memory', host') BY DEF DataInv, InFlight
<1> QED BY <1>1 DEF DataInv, DataStep, Promise, Backed, Backs, OnDevice

(* The caller's buffers after a view m of h was handed out.                 *)
LEMMA HandedOut ==
  ASSUME DataInv, NEW h \in Hosts, NEW en, NEW m, HandsOut(h, en, m), host' = host
  PROVE  /\ Promise(buffer', host')
         /\ \A b \in Buffers : buffer'[b].st = "held" =>
              \/ buffer[b].st = "held" /\ buffer'[b] = buffer[b]
              \/ /\ buffer'[b].place = en[h].ptr /\ buffer'[b].snap = host[h]
                 /\ buffer'[b].lost = FALSE
         /\ \A b \in Buffers : buffer[b].st = "held" => buffer'[b] = buffer[b]
<1>1. \A b \in Buffers : buffer'[b].st = "held" =>
              \/ buffer[b].st = "held" /\ buffer'[b] = buffer[b]
              \/ /\ buffer'[b].place = en[h].ptr /\ buffer'[b].snap = host[h]
                 /\ buffer'[b].lost = FALSE /\ buffer'[b].h = h
  BY PlaceFacts DEF HandsOut
<1>2. \A b \in Buffers : buffer[b].st = "held" => buffer'[b] = buffer[b]
  BY PlaceFacts DEF HandsOut
<1> QED BY <1>1, <1>2 DEF DataInv, Promise

(* A call that the pool answers.                                            *)
LEMMA TryReuseData ==
  ASSUME DataInv, NEW t \in Threads, NEW h \in Hosts, TryReuseHostBuffer(t, h)
  PROVE  DataStep
<1> USE DEF DataInv
<1>1. PICK en \in GetOrCreateReusableHostBufferArena : ReuseSlot(h, en) \/ ReuseOwn(h, en)
  BY DEF TryReuseHostBuffer
<1>2. GoesOn(en) /\ en \in [Hosts -> Entry] BY <1>1, ArenaStep DEF GoesOn
<1>3. en[h].pooled BY <1>2 DEF TryReuseHostBuffer, GoesOn, MakesArena
<1>4. UNCHANGED <<opt, host, dma, call>> /\ GateOpen({"transfer"}) BY DEF TryReuseHostBuffer
<1>5. /\ Valid(en, staging, memory, host)
      /\ \A g \in Hosts : en[g].pending = entry[g].pending
  BY <1>2 DEF Valid, GoesOn, MakesArena
<1>6. InFlight(dma', call', memory', host')
  BY <1>4 DEF InFlight, GateOpen
<1>7. CASE ReuseSlot(h, en)
  <2>1. /\ memory' = memory /\ ~en[h].pending /\ en[h].member
        /\ staging' = IF opt.trust_contents /\ en[h].valid THEN staging
                      ELSE [staging EXCEPT ![h] = host[h]]
    BY <1>2, <1>7, ReuseSlotStep
  <2>2. PICK en2, m : Packs(h, en, en2) /\ HandsOut(h, en2, m)
    BY <1>2, <1>7, ReuseSlotStep
  <2>3. /\ \A g \in Hosts : entry'[g].pending = en2[g].pending
        /\ \A g \in Hosts : g # h => entry'[g].pending = entry[g].pending
        /\ entry'[h].pending = ~(opt.trust_contents /\ en[h].valid)
    BY <1>5, <2>2 DEF HandsOut, OnlyCachedMoves, SameButCached, Packs
  <2>4. en2[h].ptr = Slot(h)
    BY <1>2, <2>1, <2>2 DEF GoesOn, Shape, EntryFits, Packs
  <2>5. /\ Promise(buffer', host')
        /\ \A b \in Buffers : buffer'[b].st = "held" =>
              \/ buffer[b].st = "held" /\ buffer'[b] = buffer[b]
              \/ /\ buffer'[b].place = Slot(h) /\ buffer'[b].snap = host[h]
                 /\ buffer'[b].lost = FALSE
        /\ \A b \in Buffers : buffer[b].st = "held" => buffer'[b] = buffer[b]
    BY <1>4, <2>2, <2>4, HandedOut
  <2>6. /\ staging'[h] = host[h] /\ \A g \in Hosts : g # h => staging'[g] = staging[g]
        /\ entry'[h].pending \/ memory'[Slot(h)] = host[h]
    <3>1. CASE opt.trust_contents /\ en[h].valid
      BY <1>5, <2>1, <3>1 DEF Valid
    <3>2. CASE ~(opt.trust_contents /\ en[h].valid)
      BY <2>1, <2>3, <3>2 DEF ReuseInv, Typed
    <3> QED BY <3>1, <3>2
  <2>7. Backs(entry', staging', memory', Slot(h), host[h])
    BY <2>6, PlaceFacts DEF Backs
  <2>8. ASSUME NEW b \in Buffers, buffer'[b].st = "held", ~buffer'[b].lost
        PROVE  Backs(entry', staging', memory', buffer'[b].place, buffer'[b].snap)
    <3>1. CASE buffer[b].st = "held" /\ buffer'[b] = buffer[b]
      <4>1. Backs(entry, staging, memory, buffer[b].place, buffer[b].snap)
        BY <2>8, <3>1 DEF Backed
      <4>2. CASE buffer[b].place = Slot(h)
        <5>1. buffer[b].snap = host[h] BY <3>1, <4>2, HeldPlace DEF Promise
        <5> QED BY <2>7, <3>1, <4>2, <5>1
      <4>3. CASE buffer[b].place # Slot(h)
        BY <2>1, <2>3, <2>6, <3>1, <4>1, <4>3 DEF Backs
      <4> QED BY <4>2, <4>3
    <3>2. CASE buffer'[b].place = Slot(h) /\ buffer'[b].snap = host[h]
      BY <2>7, <3>2
    <3> QED BY <2>5, <2>8, <3>1, <3>2
  <2>9. \A b \in Buffers : OnDevice(buffer, memory, b) =>
          buffer'[b] = buffer[b] /\ OnDevice(buffer', memory', b)
    BY <2>1, <2>5 DEF OnDevice
  <2> QED BY <1>6, <2>5, <2>8, <2>9 DEF DataStep, Backed
<1>8. CASE ReuseOwn(h, en)
  <2>1. /\ staging' = staging /\ ~en[h].member
        /\ \/ memory' = [memory EXCEPT ![en[h].ptr] = host[h]] /\ \E m : HandsOut(h, en, m)
           \/ entry' = en /\ memory' = memory /\ buffer' = buffer
    BY <1>2, <1>3, <1>8, ReuseOwnStep
  <2>2. \A g \in Hosts : entry'[g].pending = entry[g].pending
    BY <1>5, <2>1 DEF HandsOut, OnlyCachedMoves, SameButCached
  <2>3. PICK o \in Buffers : en[h].ptr = Own(o)
    BY <1>2, <1>3, <2>1 DEF GoesOn, Shape, EntryFits
  <2>4. CASE entry' = en /\ memory' = memory /\ buffer' = buffer
    BY <1>4, <1>6, <2>1, <2>2, <2>4 DEF DataStep, Promise, Backed, Backs, OnDevice
  <2>5. CASE memory' = [memory EXCEPT ![Own(o)] = host[h]] /\ \E m : HandsOut(h, en, m)
    <3>1. PICK m : HandsOut(h, en, m) BY <2>5
    <3>2. /\ Promise(buffer', host')
          /\ \A b \in Buffers : buffer'[b].st = "held" =>
              \/ buffer[b].st = "held" /\ buffer'[b] = buffer[b]
              \/ /\ buffer'[b].place = Own(o) /\ buffer'[b].snap = host[h]
                 /\ buffer'[b].lost = FALSE
          /\ \A b \in Buffers : buffer[b].st = "held" => buffer'[b] = buffer[b]
      BY <1>4, <2>3, <3>1, HandedOut
    <3>3. /\ memory'[Own(o)] = host[h]
          /\ \A p \in Places : p # Own(o) => memory'[p] = memory[p]
      BY <2>5, PlaceFacts DEF ReuseInv, Typed
    <3>4. ASSUME NEW b \in Buffers, buffer[b].st = "held", buffer[b].place = Own(o)
          PROVE  buffer[b].snap = host[h]
      <4>1. buffer[b].h = h
        BY <1>2, <1>3, <2>3, <3>4 DEF GoesOn, Shape, PoolsApart, Shown
      <4> QED BY <3>4, <4>1 DEF Promise
    <3>5. Backs(entry', staging', memory', Own(o), host[h])
      BY <3>3, PlaceFacts DEF Backs
    <3>6. ASSUME NEW b \in Buffers, buffer'[b].st = "held", ~buffer'[b].lost
          PROVE  Backs(entry', staging', memory', buffer'[b].place, buffer'[b].snap)
      <4>1. CASE buffer[b].st = "held" /\ buffer'[b] = buffer[b]
        <5>1. Backs(entry, staging, memory, buffer[b].place, buffer[b].snap)
          BY <3>6, <4>1 DEF Backed
        <5>2. CASE buffer[b].place = Own(o)
          BY <3>4, <3>5, <4>1, <5>2
        <5>3. CASE buffer[b].place # Own(o)
          <6>1. buffer[b].place \in Places BY <4>1, HeldPlace
          <6>2. memory'[buffer[b].place] = memory[buffer[b].place] BY <3>3, <5>3, <6>1
          <6> QED BY <2>1, <2>2, <4>1, <5>1, <6>2 DEF Backs
        <5> QED BY <5>2, <5>3
      <4>2. CASE buffer'[b].place = Own(o) /\ buffer'[b].snap = host[h]
        BY <3>5, <4>2
      <4> QED BY <3>2, <3>6, <4>1, <4>2
    <3>7. \A b \in Buffers : OnDevice(buffer, memory, b) =>
            buffer'[b] = buffer[b] /\ OnDevice(buffer', memory', b)
      BY <3>2, <3>3, <3>4, HeldPlace DEF OnDevice
    <3> QED BY <1>6, <3>2, <3>6, <3>7 DEF DataStep, Backed
  <2> QED BY <2>1, <2>3, <2>4, <2>5
<1> QED BY <1>1, <1>7, <1>8

(* The client's own transfer begins: it writes memory that nobody shows.    *)
LEMMA BaseTransferData ==
  ASSUME DataInv, NEW t \in Threads, NEW h \in Hosts, BaseTransfer(t, h)
  PROVE  DataStep
<1> USE DEF DataInv
<1> DEFINE m == Min(Unused)
           c == [Idle EXCEPT !.op = "transfer", !.h = h, !.b = m]
<1>1. m \in Buffers /\ buffer[m].st = "free" BY UnusedFacts DEF BaseTransfer
<1>2. /\ buffer' = [buffer EXCEPT ![m].st = "owner"]
      /\ memory' = [memory EXCEPT ![Own(m)] = Garbage]
      /\ dma' = dma \cup {<<m, host[h]>>}
      /\ call' = [call EXCEPT ![t] = c]
      /\ UNCHANGED <<host, entry, staging>> /\ GateOpen({"transfer"})
  BY DEF BaseTransfer
<1> HIDE DEF m
<1>3. c.op = "transfer" /\ c.h = h /\ c.b = m BY DEF Idle
<1> HIDE DEF c
<1>4. /\ buffer'[m].st = "owner"
      /\ \A b \in Buffers : b # m => buffer'[b] = buffer[b]
      /\ \A b \in Buffers : buffer'[b].st = "held" => b # m /\ buffer[b].st = "held"
  BY <1>1, <1>2 DEF ReuseInv, Typed, Buffer
<1>5. /\ call'[t] = c
      /\ \A u \in Threads : u # t => call'[u] = call[u] /\ call[u].op # "transfer"
      /\ call[t].op # "transfer"
  BY <1>2 DEF ReuseInv, Typed, GateOpen
<1>6. ASSUME NEW b \in Buffers, buffer[b].st = "held"
      PROVE  /\ b # m /\ buffer[b].place \in Places
             /\ memory'[buffer[b].place] = memory[buffer[b].place]
  <2>1. b # m /\ buffer[b].place # Own(m) /\ buffer[b].place \in Places
    BY <1>1, <1>6, HeldPlace
  <2> QED BY <1>2, <2>1 DEF ReuseInv, Typed
<1>7. InFlight(dma', call', memory', host')
  <2>1. dma = {} BY <1>5 DEF InFlight
  <2>2. <<m, host[h]>>[1] = m /\ <<m, host[h]>>[2] = host[h] OBVIOUS
  <2>3. \A transfer \in dma' : transfer = <<m, host[h]>> BY <1>2, <2>1
  <2>4. <<m, host[h]>> \in dma' BY <1>2
  <2>5. call'[t].op = "transfer" /\ call'[t].b = m /\ call'[t].h = h BY <1>3, <1>5
  <2>6. \A u \in Threads : call'[u].op = "transfer" => u = t BY <1>5
  <2>7. host' = host BY <1>2
  <2> QED BY <2>2, <2>3, <2>4, <2>5, <2>6, <2>7 DEF InFlight
<1>8. Promise(buffer', host') BY <1>2, <1>4 DEF Promise
<1>9. Backed(entry', buffer', staging', memory')
  BY <1>2, <1>4, <1>6 DEF Backed, Backs
<1>10. \A b \in Buffers : OnDevice(buffer, memory, b) =>
          buffer'[b] = buffer[b] /\ OnDevice(buffer', memory', b)
  BY <1>4, <1>6 DEF OnDevice
<1> QED BY <1>7, <1>8, <1>9, <1>10 DEF DataStep

(* The data of a transfer reaches memory that only its call knows.          *)
LEMMA TransferCompletesData ==
  ASSUME DataInv, NEW transfer \in dma, TransferCompletes(transfer)
  PROVE  DataStep
<1> USE DEF DataInv
<1> DEFINE m == transfer[1]
<1>1. /\ memory' = [memory EXCEPT ![Own(m)] = transfer[2]] /\ dma' = dma \ {transfer}
      /\ UNCHANGED <<host, entry, staging, buffer, call>>
  BY DEF TransferCompletes
<1>2. PICK t \in Threads : /\ call[t].op = "transfer" /\ call[t].b = m
                           /\ transfer[2] = host[call[t].h]
  BY DEF InFlight
<1>3. CallFits(entry, buffer, call, t) BY DEF ReuseInv, Shape
<1>4. /\ m \in Buffers /\ Own(m) \in Places
      /\ \A b \in Buffers : buffer[b].st = "held" => buffer[b].place # Own(m)
      /\ \A u \in Threads : call[u].op = "transfer" => u = t
  BY <1>2, <1>3, PlaceFacts DEF CallFits, Shown
<1> HIDE DEF m
<1>5. ASSUME NEW b \in Buffers, buffer[b].st = "held"
      PROVE  memory'[buffer[b].place] = memory[buffer[b].place]
  <2>1. buffer[b].place # Own(m) /\ buffer[b].place \in Places BY <1>4, <1>5, HeldPlace
  <2> QED BY <1>1, <2>1 DEF ReuseInv, Typed
<1>6. InFlight(dma', call', memory', host')
  <2>1. memory'[Own(m)] = transfer[2] BY <1>1, <1>4 DEF ReuseInv, Typed
  <2> QED BY <1>1, <1>2, <1>4, <2>1 DEF InFlight
<1>7. Backed(entry', buffer', staging', memory')
  BY <1>1, <1>5 DEF Backed, Backs
<1>8. \A b \in Buffers : OnDevice(buffer, memory, b) =>
         buffer'[b] = buffer[b] /\ OnDevice(buffer', memory', b)
  BY <1>1, <1>5 DEF OnDevice
<1>9. Promise(buffer', host') BY <1>1 DEF Promise
<1> QED BY <1>6, <1>7, <1>8, <1>9 DEF DataStep

(* The call of a transfer returns: with kZeroCopy it has waited for it.     *)
LEMMA MaybePoolData ==
  ASSUME DataInv, ZeroCopy, NEW t \in Threads, MaybePoolHostBuffer(t)
  PROVE  DataStep
<1> USE DEF DataInv
<1> DEFINE b == call[t].b
           h == call[t].h
           v == View(h, Own(b))
<1>1. /\ call[t].op = "transfer" /\ call' = [call EXCEPT ![t] = Idle]
      /\ UNCHANGED <<host, staging, memory, dma>> /\ DoneWithHostBuffer(b)
  BY DEF MaybePoolHostBuffer
<1>2. CallFits(entry, buffer, call, t) BY DEF ReuseInv, Shape
<1>3. /\ h \in Hosts /\ b \in Buffers /\ Own(b) \in Places /\ buffer[b].st = "owner"
      /\ \A u \in Threads : call[u].op = "transfer" => u = t
  BY <1>1, <1>2, PlaceFacts DEF CallFits
<1>4. memory[Own(b)] = host[h] /\ dma = {}
  <2>1. ~Transferring(b) BY <1>1 DEF DoneWithHostBuffer, Staged, ZeroCopy
  <2>2. memory[Own(b)] = host[h] BY <1>1, <2>1 DEF InFlight, Transferring
  <2>3. dma = {} BY <1>3, <2>1 DEF InFlight, Transferring
  <2> QED BY <2>2, <2>3
<1>5. \A u \in Threads : call'[u].op # "transfer"
  BY <1>1, <1>3 DEF ReuseInv, Typed, Idle
<1> HIDE DEF b, h
<1>6. v.st = "held" /\ v.h = h /\ v.place = Own(b) /\ v.snap = host[h]
  BY DEF View, Free
<1> HIDE DEF v
<1>7. PICK m \in Buffers : /\ buffer' = [buffer EXCEPT ![m] = v]
                           /\ buffer[m].st \in {"free", "owner"}
  <2>1. CASE Unused # {} /\ buffer' = [buffer EXCEPT ![Min(Unused)] = v]
    BY <2>1, UnusedFacts
  <2>2. CASE buffer' = [buffer EXCEPT ![b] = v] BY <1>3, <2>2
  <2> QED BY <2>1, <2>2 DEF MaybePoolHostBuffer, b, h, v
<1>8. /\ buffer'[m] = v /\ \A c \in Buffers : c # m => buffer'[c] = buffer[c]
      /\ \A c \in Buffers : buffer[c].st = "held" => c # m
  BY <1>7 DEF ReuseInv, Typed
<1>9. \A g \in Hosts : entry[g].pending => entry'[g].pending
  <2>1. CASE entry' = entry BY <2>1
  <2>2. CASE ~entry[h].pooled /\ \E e : entry' = [entry EXCEPT ![h] = e]
    <3>1. ~entry[h].pending BY <1>3, <2>2 DEF ReuseInv, Shape, EntryFits
    <3> QED BY <2>2, <3>1 DEF ReuseInv, Typed
  <2> QED BY <2>1, <2>2 DEF MaybePoolHostBuffer, h
<1>10. Promise(buffer', host') BY <1>1, <1>6, <1>8 DEF Promise
<1>11. InFlight(dma', call', memory', host') BY <1>1, <1>4, <1>5 DEF InFlight
<1>12. Backed(entry', buffer', staging', memory')
  <2>1. Backs(entry', staging', memory', v.place, v.snap)
    BY <1>1, <1>4, <1>6, PlaceFacts DEF Backs
  <2>2. ASSUME NEW c \in Buffers, buffer[c].st = "held", ~buffer[c].lost
        PROVE  Backs(entry', staging', memory', buffer[c].place, buffer[c].snap)
    BY <1>1, <1>9, <2>2 DEF Backed, Backs
  <2> QED BY <1>8, <2>1, <2>2 DEF Backed
<1>13. \A c \in Buffers : OnDevice(buffer, memory, c) =>
         buffer'[c] = buffer[c] /\ OnDevice(buffer', memory', c)
  BY <1>1, <1>8 DEF OnDevice
<1> QED BY <1>10, <1>11, <1>12, <1>13 DEF DataStep

(* A flush brings the packed data to the device; when it fails, the buffers *)
(* it did not serve are reported lost.                                      *)
LEMMA ExecuteData ==
  ASSUME DataInv,
         NEW t \in Threads, NEW args \in SUBSET Held, Execute(t, args)
  PROVE  DataStep
<1> USE DEF DataInv
<1>1. ExecuteEffect(t, args) BY ExecuteFacts DEF ReuseInv
<1>2. UNCHANGED <<host, staging, dma>> BY DEF Execute
<1>3. PICK S \in SUBSET Hosts :
        /\ memory' = WithSlots(S)
        /\ \/ Pending \subseteq S /\ buffer' = buffer
           \/ /\ \A b \in Buffers : \A h \in Pending \ S :
                   /\ buffer[b].st = "held" /\ buffer[b].place = Slot(h)
                   /\ memory[Slot(h)] # buffer[b].snap
                   => buffer'[b].lost
              /\ \A b \in Buffers : buffer'[b].lost =>
                   \/ buffer[b].lost
                   \/ \E h \in Pending \ S :
                        buffer[b].place = Slot(h) /\ memory[Slot(h)] # buffer[b].snap
              /\ OnlyLost(buffer, buffer')
  BY <1>1, FlushCovers DEF ExecuteEffect
<1>4. /\ \A h \in S : memory'[Slot(h)] = staging[h]
      /\ \A h \in Hosts : h \notin S => memory'[Slot(h)] = memory[Slot(h)]
      /\ \A b \in Buffers : memory'[Own(b)] = memory[Own(b)]
  BY <1>3, WithSlotsFacts DEF ReuseInv
<1>5. \A b \in Buffers :
        /\ buffer'[b].st = buffer[b].st /\ buffer'[b].h = buffer[b].h
        /\ buffer'[b].place = buffer[b].place /\ buffer'[b].snap = buffer[b].snap
        /\ ~buffer'[b].lost => ~buffer[b].lost
  BY <1>3 DEF OnlyLost, ReuseInv, Typed, Buffer
<1>6. \A u \in Threads : call'[u].op = "transfer" \/ call[u].op = "transfer"
                           => call'[u] = call[u]
  <2>1. call[t].op = "idle" BY DEF Execute, Idle
  <2>2. \/ call' = call
        \/ call'[t].op = "execute" /\ \A u \in Threads : u # t => call'[u] = call[u]
    BY <1>1 DEF ExecuteEffect
  <2> QED BY <2>1, <2>2
<1>7. InFlight(dma', call', memory', host')
  <2>1. \A u \in Threads : call[u].op = "transfer" => call[u].b \in Buffers
    BY DEF ReuseInv, Shape, CallFits
  <2> QED BY <1>2, <1>4, <1>6, <2>1 DEF InFlight
<1>8. Promise(buffer', host') BY <1>2, <1>5 DEF Promise
<1>9. ASSUME NEW b \in Buffers, buffer[b].st = "held", ~buffer[b].lost
      PROVE  /\ \A h \in Hosts : buffer[b].place = Slot(h) =>
                  /\ staging[h] = buffer[b].snap
                  /\ ~buffer'[b].lost \/ memory[Slot(h)] = buffer[b].snap
                       => memory'[Slot(h)] = buffer[b].snap
             /\ memory[buffer[b].place] = buffer[b].snap => ~buffer'[b].lost
             /\ \A o \in Buffers : buffer[b].place = Own(o) =>
                  memory'[Own(o)] = buffer[b].snap
  <2>1. Backs(entry, staging, memory, buffer[b].place, buffer[b].snap)
    BY <1>9 DEF Backed
  <2>2. ASSUME NEW h \in Hosts, buffer[b].place = Slot(h),
               ~buffer'[b].lost \/ memory[Slot(h)] = buffer[b].snap
        PROVE  memory'[Slot(h)] = buffer[b].snap
    <3>1. CASE h \in S BY <1>4, <2>1, <2>2, <3>1 DEF Backs
    <3>2. CASE h \notin S
      <4>1. CASE memory[Slot(h)] = buffer[b].snap BY <1>4, <3>2, <4>1
      <4>2. CASE memory[Slot(h)] # buffer[b].snap
        <5>1. h \in Pending BY <2>1, <2>2, <4>2 DEF Backs, Pending
        <5> QED BY <1>3, <1>9, <2>2, <3>2, <4>2, <5>1
      <4> QED BY <4>1, <4>2
    <3> QED BY <3>1, <3>2
  <2>3. ASSUME memory[buffer[b].place] = buffer[b].snap PROVE ~buffer'[b].lost
    BY <1>3, <1>9, <2>3
  <2>4. \A o \in Buffers : buffer[b].place = Own(o) => memory'[Own(o)] = buffer[b].snap
    BY <1>4, <2>1 DEF Backs
  <2>5. \A h \in Hosts : buffer[b].place = Slot(h) => staging[h] = buffer[b].snap
    BY <2>1 DEF Backs
  <2> QED BY <2>2, <2>3, <2>4, <2>5
<1>10. Backed(entry', buffer', staging', memory')
  BY <1>2, <1>5, <1>9 DEF Backed, Backs
<1>11. ASSUME NEW b \in Buffers, OnDevice(buffer, memory, b)
       PROVE  OnDevice(buffer', memory', b)
  <2>1. buffer[b].st = "held" /\ ~buffer[b].lost BY <1>11 DEF OnDevice
  <2>2. \/ \E h \in Hosts : buffer[b].place = Slot(h)
        \/ \E o \in Buffers : buffer[b].place = Own(o)
    BY <2>1, HeldPlace
  <2>3. memory'[buffer[b].place] = buffer[b].snap /\ ~buffer'[b].lost
    BY <1>9, <1>11, <2>1, <2>2 DEF OnDevice
  <2> QED BY <1>5, <2>1, <2>3 DEF OnDevice
<1> QED BY <1>5, <1>7, <1>8, <1>10, <1>11 DEF DataStep

(* A buffer that is destroyed takes no memory with it that others show.     *)
LEMMA BufferDestroyData ==
  ASSUME DataInv, NEW b \in Buffers, BufferDestroy(b)
  PROVE  DataStep
<1> USE DEF DataInv
<1>1. DestroyEffect(b) BY DestroyFacts
<1>2. /\ UNCHANGED <<host, staging, call>> /\ dma' \subseteq dma
      /\ \A transfer \in dma : transfer[1] # b => transfer \in dma'
      /\ memory' = memory \/ memory' = [memory EXCEPT ![Own(b)] = Garbage]
  BY DEF BufferDestroy
<1>3. /\ buffer[b].st = "held" /\ NotInCall(b)
      /\ \A c \in Buffers : c # b => buffer'[c] = buffer[c]
      /\ buffer'[b].st # "held"
      /\ \A g \in Hosts : entry'[g].pending = entry[g].pending
  BY <1>1 DEF DestroyEffect, OnlyCachedMoves, SameButCached
<1>4. \A p \in Places : p # Own(b) => memory'[p] = memory[p]
  BY <1>2 DEF ReuseInv, Typed
<1>5. ASSUME NEW c \in Buffers, c # b, buffer[c].st = "held"
      PROVE  memory'[buffer[c].place] = memory[buffer[c].place]
  <2>1. buffer[c].place # Own(b) /\ buffer[c].place \in Places
    BY <1>3, <1>5, HeldPlace
  <2> QED BY <1>4, <2>1
<1>6. InFlight(dma', call', memory', host')
  <2>1. \A t \in Threads : call[t].op = "transfer" =>
          call[t].b # b /\ call[t].b \in Buffers
    BY <1>3 DEF ReuseInv, Shape, CallFits
  <2>2. \A t \in Threads : call[t].op = "transfer" =>
          memory'[Own(call[t].b)] = memory[Own(call[t].b)]
    BY <1>4, <2>1, PlaceFacts
  <2> QED BY <1>2, <2>1, <2>2 DEF InFlight
<1>7. Promise(buffer', host') BY <1>2, <1>3 DEF Promise
<1>8. Backed(entry', buffer', staging', memory')
  BY <1>2, <1>3, <1>5 DEF Backed, Backs
<1>9. ASSUME NEW c \in Buffers, OnDevice(buffer, memory, c), ~NotInCall(c)
      PROVE  buffer'[c] = buffer[c] /\ OnDevice(buffer', memory', c)
  BY <1>3, <1>5, <1>9 DEF OnDevice
<1> QED BY <1>6, <1>7, <1>8, <1>9 DEF DataStep

(* The caller writes host data of which it holds no buffer.                 *)
LEMMA WriteHostData ==
  ASSUME DataInv, ZeroCopy, NEW h \in Hosts, WriteHost(h)
  PROVE  DataStep
<1> USE DEF DataInv
<1>1. /\ UNCHANGED <<entry, staging, memory, dma, buffer, call>> /\ MayWrite(h)
      /\ \A g \in Hosts : g # h => host'[g] = host[g]
  BY DEF WriteHost, ReuseInv, Typed
<1>2. /\ \A b \in Buffers : buffer[b].st = "held" => buffer[b].h # h
      /\ \A t \in Threads : call[t].op = "transfer" => call[t].h # h
  BY <1>1 DEF MayWrite, ZeroCopy, Held
<1>3. Promise(buffer', host') BY <1>1, <1>2, HeldPlace DEF Promise
<1>4. InFlight(dma', call', memory', host')
  <2>1. \A t \in Threads : call[t].op = "transfer" => host'[call[t].h] = host[call[t].h]
    BY <1>1, <1>2 DEF ReuseInv, Shape, CallFits
  <2> QED BY <1>1, <2>1 DEF InFlight
<1> QED BY <1>1, <1>3, <1>4 DEF DataStep, Backed, Backs, OnDevice

(* Every step keeps the caller's buffers backed.                            *)
LEMMA NextData ==
  ASSUME DataInv, ZeroCopy, [Next]_vars
  PROVE  DataStep
<1>1. ASSUME NEW t \in Threads, BaseExecute(t) \/ DeviceCompletes(t) PROVE DataStep
  <2>1. UNCHANGED <<host, entry, staging, memory, dma, buffer>>
    BY <1>1 DEF BaseExecute, DeviceCompletes
  <2>2. /\ call[t].op # "transfer" \/ call' = call
        /\ \/ call' = call \/ call' = [call EXCEPT ![t] = Idle]
           \/ call' = [call EXCEPT ![t].op = "running"]
    BY <1>1 DEF BaseExecute, DeviceCompletes
  <2>3. \A u \in Threads : call'[u].op = "transfer" \/ call[u].op = "transfer"
                             => call'[u] = call[u]
    BY <2>2 DEF DataInv, ReuseInv, Typed, Call, Idle
  <2> QED BY <2>1, <2>3, SameData
<1>2. ASSUME NEW t \in Threads, NEW b \in Buffers, BufferToHostBuffer(t, b) PROVE DataStep
  <2> DEFINE c == [Idle EXCEPT !.op = "to_host", !.args = {b}]
  <2>1. /\ UNCHANGED <<host, entry, staging, memory, dma, buffer>>
        /\ call[t].op = "idle" /\ call' = [call EXCEPT ![t] = c]
    BY <1>2 DEF BufferToHostBuffer, Idle
  <2>2. c.op = "to_host" BY DEF Idle
  <2> HIDE DEF c
  <2>3. \A u \in Threads : call'[u].op = "transfer" \/ call[u].op = "transfer"
                             => call'[u] = call[u]
    BY <2>1, <2>2 DEF DataInv, ReuseInv, Typed
  <2> QED BY <2>1, <2>3, SameData
<1>3. ASSUME NEW b \in Buffers, BufferDelete(b) PROVE DataStep
  <2>1. /\ UNCHANGED <<host, entry, staging, memory, dma, call>>
        /\ buffer' = [buffer EXCEPT ![b].deleted = TRUE]
    BY <1>3 DEF BufferDelete
  <2>2. \A c \in Buffers : /\ buffer'[c].st = buffer[c].st /\ buffer'[c].h = buffer[c].h
                           /\ buffer'[c].place = buffer[c].place
                           /\ buffer'[c].snap = buffer[c].snap
                           /\ buffer'[c].lost = buffer[c].lost
    BY <2>1 DEF DataInv, ReuseInv, Typed, Buffer
  <2>3. Promise(buffer', host') BY <2>1, <2>2 DEF DataInv, Promise
  <2>4. InFlight(dma', call', memory', host') BY <2>1 DEF DataInv, InFlight
  <2>5. Backed(entry', buffer', staging', memory') BY <2>1, <2>2 DEF DataInv, Backed, Backs
  <2> QED BY <2>1, <2>2, <2>3, <2>4, <2>5 DEF DataStep, OnDevice
<1>4. CASE UNCHANGED vars BY <1>4, SameData DEF vars
<1> QED BY <1>1, <1>2, <1>3, <1>4, TryReuseData, BaseTransferData, MaybePoolData, ExecuteData,
           TransferCompletesData, BufferDestroyData, WriteHostData DEF Next

(* So the data of the caller's buffers is an invariant.                     *)
LEMMA DataInvariant ==
  ASSUME ZeroCopy
  PROVE  Spec => []DataInv
<1>1. Init => DataInv
  <2> SUFFICES ASSUME Init PROVE DataInv OBVIOUS
  <2>1. Valid(entry, staging, memory, host) BY DEF Init, Valid, NoEntry
  <2>2. InFlight(dma, call, memory, host) BY DEF Init, InFlight, Idle
  <2> QED BY <2>1, <2>2, InitReuse DEF Init, DataInv, Promise, Backed, Free
<1>2. ReuseInv' /\ DataInv /\ [Next]_vars => DataInv'
  <2> SUFFICES ASSUME ReuseInv', DataInv, [Next]_vars PROVE DataInv' OBVIOUS
  <2>1. DataStep BY NextData
  <2>2. Valid(entry, staging, memory, host)' BY ValidNext DEF DataInv
  <2> QED BY <2>1, <2>2 DEF DataInv, DataStep
<1> QED BY <1>1, <1>2, ReuseInvariant, PTL DEF Spec

(* If the base client has the data when a transfer returns (kZeroCopy, no   *)
(* forced copy), the data of each buffer in the caller's hands is on the    *)
(* device or packed in a slot that the next Execute flushes, unless a       *)
(* failed flush reported it lost. Without ZeroCopy it is false: a transfer  *)
(* that is still under way may overwrite memory the pool has reused.        *)
THEOREM BuffersAreBackedTheorem ==
  ASSUME ZeroCopy
  PROVE  Spec => []BuffersAreBacked
<1>1. DataInv => BuffersAreBacked
  <2> SUFFICES ASSUME DataInv, NEW b \in Buffers, buffer[b].st = "held", ~buffer[b].lost
               PROVE  \/ memory[buffer[b].place] = buffer[b].snap
                      \/ \E h \in Pending : /\ buffer[b].place = Slot(h)
                                            /\ staging[h] = buffer[b].snap
    BY DEF BuffersAreBacked, Held
  <2>1. Backs(entry, staging, memory, buffer[b].place, buffer[b].snap)
    BY DEF DataInv, Backed
  <2> QED BY <2>1, HeldPlace DEF Backs, Pending, DataInv
<1> QED BY <1>1, DataInvariant, PTL

(* What the device reads for a call are arguments of the call that are on   *)
(* the device, and so are the arguments of an execution after its flush.    *)
Reading ==
  \A t \in Threads :
    /\ call[t].op = "execute" =>
         \A b \in call[t].args : ~buffer[b].lost => OnDevice(buffer, memory, b)
    /\ \A r \in reading[t] :
         /\ call[t].op \in {"running", "to_host"}
         /\ \E b \in call[t].args : /\ r = <<buffer[b].place, buffer[b].snap>>
                                    /\ OnDevice(buffer, memory, b)

(* A buffer that was reported lost stays so while a call uses it.           *)
LEMMA LostStays ==
  ASSUME ReuseInv, [Next]_vars, NEW b \in Buffers, buffer[b].st = "held",
         ~NotInCall(b), ~buffer'[b].lost
  PROVE  ~buffer[b].lost
<1>1. ASSUME NEW t \in Threads, NEW h \in Hosts, TryReuseHostBuffer(t, h)
      PROVE  buffer'[b] = buffer[b]
  <2>1. PICK en \in GetOrCreateReusableHostBufferArena : ReuseSlot(h, en) \/ ReuseOwn(h, en)
    BY <1>1 DEF TryReuseHostBuffer
  <2>2. GoesOn(en) BY <2>1, ArenaStep
  <2>3. en[h].pooled BY <1>1, <2>2 DEF TryReuseHostBuffer, GoesOn, MakesArena
  <2>4. (\E en2, m : HandsOut(h, en2, m)) \/ buffer' = buffer
    BY <2>1, <2>2, <2>3, ReuseSlotStep, ReuseOwnStep
  <2> QED BY <2>4, PlaceFacts DEF HandsOut
<1>2. ASSUME NEW t \in Threads, NEW h \in Hosts, BaseTransfer(t, h)
      PROVE  buffer'[b] = buffer[b]
  <2>1. PICK m \in Buffers : /\ buffer' = [buffer EXCEPT ![m].st = "owner"]
                             /\ buffer[m].st = "free"
    BY <1>2, UnusedFacts DEF BaseTransfer
  <2> QED BY <2>1 DEF ReuseInv, Typed
<1>3. ASSUME NEW t \in Threads, MaybePoolHostBuffer(t) PROVE buffer'[b] = buffer[b]
  <2> DEFINE c == call[t].b
             v == View(call[t].h, Own(c))
  <2>1. buffer[c].st = "owner" /\ c \in Buffers
    BY <1>3 DEF MaybePoolHostBuffer, ReuseInv, Shape, CallFits
  <2> HIDE DEF v
  <2>2. CASE Unused # {} /\ buffer' = [buffer EXCEPT ![Min(Unused)] = v]
    BY <2>2, UnusedFacts DEF ReuseInv, Typed
  <2>3. CASE buffer' = [buffer EXCEPT ![c] = v]
    BY <2>1, <2>3 DEF ReuseInv, Typed
  <2> QED BY <1>3, <2>2, <2>3 DEF MaybePoolHostBuffer, v
<1>4. ASSUME NEW t \in Threads, NEW args \in SUBSET Held, Execute(t, args)
      PROVE  ~buffer[b].lost
  BY <1>4, ExecuteFacts DEF ExecuteEffect, OnlyLost, ReuseInv, Typed, Buffer
<1>5. ASSUME NEW c \in Buffers, BufferDestroy(c) PROVE buffer'[b] = buffer[b]
  BY <1>5, DestroyFacts DEF DestroyEffect
<1>6. ASSUME NEW c \in Buffers, BufferDelete(c) PROVE buffer'[b].lost = buffer[b].lost
  BY <1>6 DEF BufferDelete, ReuseInv, Typed, Buffer
<1>7. CASE buffer' = buffer BY <1>7
<1>8. ASSUME NEW t \in Threads, \/ BaseExecute(t) \/ DeviceCompletes(t)
                                \/ \E c \in Buffers : BufferToHostBuffer(t, c)
      PROVE  buffer' = buffer
  BY <1>8, Zenon DEF BaseExecute, DeviceCompletes, BufferToHostBuffer
<1>9. ASSUME \/ \E transfer \in dma : TransferCompletes(transfer)
             \/ \E h \in Hosts : WriteHost(h)
      PROVE  buffer' = buffer
  BY <1>9 DEF TransferCompletes, WriteHost
<1>10. CASE UNCHANGED vars BY <1>10 DEF vars
<1> QED BY <1>1, <1>2, <1>3, <1>4, <1>5, <1>6, <1>7, <1>8, <1>9, <1>10 DEF Next

(* What a call that goes on uses is still on the device.                    *)
LEMMA ReadingKept ==
  ASSUME DataInv, DataStep, [Next]_vars, Reading, NEW t \in Threads,
         call'[t] = call[t], reading'[t] = reading[t]
  PROVE  /\ call'[t].op = "execute" =>
              \A b \in call'[t].args : ~buffer'[b].lost => OnDevice(buffer', memory', b)
         /\ \A r \in reading'[t] :
              /\ call'[t].op \in {"running", "to_host"}
              /\ \E b \in call'[t].args : /\ r = <<buffer'[b].place, buffer'[b].snap>>
                                          /\ OnDevice(buffer', memory', b)
<1>1. \A b \in call[t].args : b \in Buffers /\ buffer[b].st = "held" /\ ~NotInCall(b)
  BY DEF DataInv, ReuseInv, Shape, CallFits, NotInCall
<1>2. ASSUME NEW b \in call[t].args, OnDevice(buffer, memory, b)
      PROVE  /\ OnDevice(buffer', memory', b)
             /\ buffer'[b].place = buffer[b].place /\ buffer'[b].snap = buffer[b].snap
  BY <1>1, <1>2 DEF DataStep
<1>3. ASSUME call[t].op = "execute", NEW b \in call[t].args, ~buffer'[b].lost
      PROVE  OnDevice(buffer', memory', b)
  <2>1. ~buffer[b].lost BY <1>1, <1>3, LostStays DEF DataInv
  <2> QED BY <1>2, <1>3, <2>1 DEF Reading
<1>4. ASSUME NEW r \in reading[t]
      PROVE  /\ call[t].op \in {"running", "to_host"}
             /\ \E b \in call[t].args : /\ r = <<buffer'[b].place, buffer'[b].snap>>
                                        /\ OnDevice(buffer', memory', b)
  <2>1. PICK b \in call[t].args : /\ r = <<buffer[b].place, buffer[b].snap>>
                                  /\ OnDevice(buffer, memory, b)
    BY DEF Reading
  <2> QED BY <1>2, <2>1 DEF Reading
<1> QED BY <1>3, <1>4

(* What the device is told to read is what the buffers should hold.         *)
LEMMA ReadsOnDevice ==
  ASSUME NEW args, \A b \in args : ~buffer[b].lost => OnDevice(buffer, memory, b),
         NEW r \in Reads(args)
  PROVE  \E b \in args : /\ r = <<buffer[b].place, buffer[b].snap>>
                         /\ OnDevice(buffer, memory, b)
BY DEF Reads

(* A buffer in the caller's hands that waits for no flush is on the device. *)
LEMMA BackedOnDevice ==
  ASSUME ReuseInv, NEW en, NEW st, NEW mem, Backed(en, buffer, st, mem),
         NEW b \in Buffers, buffer[b].st = "held", ~buffer[b].lost,
         \A h \in Hosts : buffer[b].place = Slot(h) => ~en[h].pending
  PROVE  OnDevice(buffer, mem, b)
<1>1. Backs(en, st, mem, buffer[b].place, buffer[b].snap) BY DEF Backed
<1> QED BY <1>1, HeldPlace DEF Backs, OnDevice

(* Every step keeps Reading, where the client waits for its executions and  *)
(* only reads back what an Execute has flushed.                             *)
LEMMA NextReading ==
  ASSUME DataInv, DataStep, Reading, [Next]_vars,
         "to_host" \notin Ops, "no_events" \notin Ops
  PROVE  Reading'
<1> DEFINE Kept(t) == call'[t] = call[t] /\ reading'[t] = reading[t]
           Good(t) == /\ call'[t].op = "execute" =>
                           \A b \in call'[t].args : ~buffer'[b].lost => OnDevice(buffer', memory', b)
                      /\ \A r \in reading'[t] :
                           /\ call'[t].op \in {"running", "to_host"}
                           /\ \E b \in call'[t].args :
                                 /\ r = <<buffer'[b].place, buffer'[b].snap>>
                                 /\ OnDevice(buffer', memory', b)
<1>1. \A t \in Threads : Kept(t) => Good(t)
  BY ReadingKept
<1>2. (\A t \in Threads : Good(t)) => Reading' BY DEF Reading
<1>3. /\ call \in [Threads -> Call]
      /\ reading \in [Threads -> SUBSET ((Places \cup {Own(NoBuffer)}) \X (0..MaxVersion))]
  BY DEF DataInv, ReuseInv, Typed
<1>4. /\ Idle.op = "idle" /\ Idle.args = {} BY DEF Idle
<1>5. \A t \in Threads : call[t].op \notin {"running", "to_host"} => reading[t] = {}
  BY DEF Reading
<1> HIDE DEF Kept, Good
<1>6. ASSUME NEW t \in Threads, NEW h \in Hosts, TryReuseHostBuffer(t, h) PROVE Reading'
  BY <1>1, <1>2, <1>6 DEF TryReuseHostBuffer, Kept
<1>7. ASSUME NEW t \in Threads, NEW h \in Hosts, BaseTransfer(t, h) PROVE Reading'
  <2> DEFINE c == [Idle EXCEPT !.op = "transfer", !.h = h, !.b = Min(Unused)]
  <2>1. reading' = reading /\ call[t] = Idle /\ call' = [call EXCEPT ![t] = c]
    BY <1>7 DEF BaseTransfer
  <2>2. c.op = "transfer" BY DEF Idle
  <2> HIDE DEF c
  <2>3. call'[t].op = "transfer" /\ reading'[t] = {} BY <1>3, <1>4, <1>5, <2>1, <2>2
  <2>4. Good(t) BY <2>3 DEF Good
  <2> QED BY <1>1, <1>2, <1>3, <2>1, <2>4 DEF Kept
<1>8. ASSUME NEW t \in Threads, MaybePoolHostBuffer(t) PROVE Reading'
  <2>1. /\ reading' = reading /\ call[t].op = "transfer"
        /\ call' = [call EXCEPT ![t] = Idle]
    BY <1>8 DEF MaybePoolHostBuffer
  <2>2. call'[t].op = "idle" /\ reading'[t] = {} BY <1>3, <1>4, <1>5, <2>1
  <2>3. Good(t) BY <2>2 DEF Good
  <2> QED BY <1>1, <1>2, <1>3, <2>1, <2>3 DEF Kept
<1>9. ASSUME NEW t \in Threads, NEW args \in SUBSET Held, Execute(t, args) PROVE Reading'
  <2>1. ExecuteEffect(t, args) BY <1>9, ExecuteFacts DEF DataInv, ReuseInv
  <2>2. reading' = reading /\ reading[t] = {} BY <1>9 DEF Execute
  <2>3. CASE call' = call BY <1>1, <1>2, <2>2, <2>3 DEF Kept
  <2>4. CASE /\ FlushesEntries(entry', TRUE) /\ buffer' = buffer
             /\ call'[t].op = "execute" /\ call'[t].args = args
             /\ \A u \in Threads : u # t => call'[u] = call[u]
    <3>1. \A h \in Hosts : ~entry'[h].pending BY <2>4 DEF FlushesEntries
    <3>2. \A b \in args : b \in Buffers /\ buffer'[b].st = "held" BY <2>4 DEF Held
    <3>3. \A b \in args : ~buffer'[b].lost => OnDevice(buffer', memory', b)
      <4>1. Backed(entry', buffer, staging', memory') /\ ReuseInv
        BY <2>4 DEF DataStep, DataInv
      <4> QED BY <2>4, <3>1, <3>2, <4>1, BackedOnDevice
    <3>4. Good(t) BY <2>2, <2>4, <3>3 DEF Good
    <3> QED BY <1>1, <1>2, <2>2, <2>4, <3>4 DEF Kept
  <2> QED BY <2>1, <2>3, <2>4 DEF ExecuteEffect
<1>10. ASSUME NEW t \in Threads, BaseExecute(t) PROVE Reading'
  <2> DEFINE args == call[t].args
  <2>1. call[t].op = "execute" /\ buffer' = buffer /\ memory' = memory
    BY <1>10 DEF BaseExecute
  <2>2. CASE /\ reading' = [reading EXCEPT ![t] = Reads(args)]
             /\ call' = [call EXCEPT ![t].op = "running"]
    <3>1. \A b \in args : ~buffer[b].lost => OnDevice(buffer, memory, b)
      BY <2>1 DEF Reading
    <3> HIDE DEF args
    <3>2. \A r \in Reads(args) : \E b \in args :
             r = <<buffer[b].place, buffer[b].snap>> /\ OnDevice(buffer, memory, b)
      BY <3>1, ReadsOnDevice
    <3>3. /\ call'[t].op = "running" /\ call'[t].args = args
          /\ reading'[t] = Reads(args)
      BY <1>3, <2>2 DEF Call, args
    <3>4. Good(t) BY <2>1, <3>2, <3>3 DEF Good
    <3> QED BY <1>1, <1>2, <1>3, <2>2, <3>4 DEF Kept
  <2>3. CASE reading' = reading /\ call' = [call EXCEPT ![t] = Idle]
    <3>1. call'[t].op = "idle" /\ reading'[t] = {} BY <1>3, <1>4, <1>5, <2>1, <2>3
    <3>2. Good(t) BY <3>1 DEF Good
    <3> QED BY <1>1, <1>2, <1>3, <2>3, <3>2 DEF Kept
  <2> QED BY <1>10, <2>2, <2>3 DEF BaseExecute
<1>11. ASSUME NEW t \in Threads, DeviceCompletes(t) PROVE Reading'
  <2>1. /\ reading' = [reading EXCEPT ![t] = {}]
        /\ call' = IF call[t].op \in {"running", "to_host"} THEN [call EXCEPT ![t] = Idle] ELSE call
        /\ call[t].op \in {"running", "to_host"} \/ reading[t] # {}
    BY <1>11 DEF DeviceCompletes
  <2>2. call' = [call EXCEPT ![t] = Idle] BY <1>5, <2>1
  <2>3. call'[t].op = "idle" /\ reading'[t] = {} BY <1>3, <1>4, <2>1, <2>2
  <2>4. Good(t) BY <2>3 DEF Good
  <2> QED BY <1>1, <1>2, <1>3, <2>1, <2>2, <2>4 DEF Kept
<1>12. ASSUME NEW t \in Threads, NEW b \in Buffers, BufferToHostBuffer(t, b) PROVE Reading'
  <2> DEFINE c == [Idle EXCEPT !.op = "to_host", !.args = {b}]
  <2>1. /\ \A h \in Pending : buffer[b].place # Slot(h)
        /\ buffer[b].st = "held" /\ buffer' = buffer /\ memory' = memory
        /\ reading' = [reading EXCEPT ![t] = Reads({b})]
        /\ call' = [call EXCEPT ![t] = c]
    BY <1>12 DEF BufferToHostBuffer, Held
  <2>2. c.op = "to_host" /\ c.args = {b} BY DEF Idle
  <2> HIDE DEF c
  <2>3. ~buffer[b].lost => OnDevice(buffer, memory, b)
    BY <2>1, BackedOnDevice DEF Pending, DataInv
  <2>4. \A r \in Reads({b}) : \E d \in {b} :
             r = <<buffer[d].place, buffer[d].snap>> /\ OnDevice(buffer, memory, d)
    BY <2>3, ReadsOnDevice
  <2>5. /\ call'[t].op = "to_host" /\ call'[t].args = {b} /\ reading'[t] = Reads({b})
    BY <1>3, <2>1, <2>2
  <2>6. ASSUME NEW r \in reading'[t]
        PROVE  \E d \in call'[t].args : /\ r = <<buffer'[d].place, buffer'[d].snap>>
                                        /\ OnDevice(buffer', memory', d)
    <3>1. PICK d \in {b} : /\ r = <<buffer[d].place, buffer[d].snap>>
                           /\ OnDevice(buffer, memory, d)
      BY <2>4, <2>5
    <3> QED BY <2>1, <2>5, <3>1
  <2>7. Good(t) BY <2>5, <2>6 DEF Good
  <2> QED BY <1>1, <1>2, <1>3, <2>1, <2>7 DEF Kept
<1>13. ASSUME UNCHANGED <<call, reading>> PROVE Reading'
  BY <1>1, <1>2, <1>13 DEF Kept
<1>14. ASSUME \/ \E transfer \in dma : TransferCompletes(transfer)
              \/ \E b \in Buffers : BufferDestroy(b) \/ BufferDelete(b)
              \/ \E h \in Hosts : WriteHost(h)
              \/ UNCHANGED vars
       PROVE  Reading'
  BY <1>13, <1>14, Zenon DEF TransferCompletes, BufferDestroy, BufferDelete, WriteHost, vars
<1> QED BY <1>6, <1>7, <1>8, <1>9, <1>10, <1>11, <1>12, <1>14 DEF Next

(* Then a program, and a copy to the host that follows a flush, read in     *)
(* each buffer what the host buffer held when it was transferred. Excluded  *)
(* are the two calls for which it is false: a copy to the host of a slot    *)
(* that was packed and not flushed ("to_host"), and an execution whose      *)
(* caller takes no completion events and so may write or destroy what the   *)
(* device still reads ("no_events").                                        *)
THEOREM ReadsSeeHostDataTheorem ==
  ASSUME ZeroCopy, "to_host" \notin Ops, "no_events" \notin Ops
  PROVE  Spec => []ReadsSeeHostData
<1>1. Init => Reading BY DEF Init, Reading, Idle
<1>2. DataInv /\ Reading /\ [Next]_vars => Reading'
  BY NextData, NextReading
<1>3. Reading => ReadsSeeHostData
  <2> SUFFICES ASSUME Reading, NEW t \in Threads, NEW r \in reading[t]
               PROVE  memory[r[1]] = r[2]
    BY DEF ReadsSeeHostData
  <2>1. PICK b : r = <<buffer[b].place, buffer[b].snap>> /\ OnDevice(buffer, memory, b)
    BY DEF Reading
  <2> QED BY <2>1 DEF OnDevice
<1> QED BY <1>1, <1>2, <1>3, DataInvariant, PTL DEF Spec
====
