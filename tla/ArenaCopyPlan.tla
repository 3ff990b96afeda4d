--------------------------- MODULE ArenaCopyPlan ---------------------------
(***************************************************************************)
(* The layout of the transfer arena and the copies that bring its dirty    *)
(* ranges to the device (reusable_host_buffer_arena_plan.cc), as operators. *)
(* A range is a record of an offset and a number of bytes. The vector of   *)
(* dirty ranges is a set: it is sorted first, and merging makes duplicates *)
(* disappear.                                                              *)
(***************************************************************************)
EXTENDS Integers, Sequences, FiniteSets, FiniteSetsExt, SequencesExt

CONSTANT SizeMax  \* std::numeric_limits<size_t>::max()

ASSUME SizeMaxAssumption == SizeMax \in Nat

SaturatingAdd(lhs, rhs) == IF rhs > SizeMax - lhs THEN SizeMax ELSE lhs + rhs

SaturatingTimes(n, each) ==
    IF each # 0 /\ n > SizeMax \div each THEN SizeMax ELSE n * each

End(range) == range.offset + range.bytes

FullArenaPlan(arena_bytes) ==
    IF arena_bytes > 0 THEN <<[offset |-> 0, bytes |-> arena_bytes]>> ELSE <<>>

\* Ranges that are empty or start behind the arena go, the others are cut.
Normalized(arena_bytes, dirty) ==
    {[r EXCEPT !.bytes = Min({@, arena_bytes - r.offset})] :
        r \in {d \in dirty : d.bytes # 0 /\ d.offset < arena_bytes}}

\* std::sort by offset; the order of ranges with the same offset is open.
ByOffset(ranges) ==
    CHOOSE s \in [1..Cardinality(ranges) -> ranges] :
        \A i, j \in 1..Cardinality(ranges) :
            i < j => s[i] # s[j] /\ s[i].offset <= s[j].offset

\* Fault: the joined range ends where the next one does.
MergeShrinks(plan, range, merge_gap) ==
    IF plan # <<>> /\ range.offset - End(Last(plan)) <= merge_gap
    THEN [plan EXCEPT ![Len(plan)].bytes = End(range) - Last(plan).offset]
    ELSE Append(plan, range)

\* The next range in order is joined to the previous one when it overlaps it
\* or the gap between them is small.
Merge(plan, range, merge_gap) ==
    IF plan # <<>> /\ range.offset - End(Last(plan)) <= merge_gap
    THEN [plan EXCEPT ![Len(plan)].bytes =
             Max({End(Last(plan)), End(range)}) - Last(plan).offset]
    ELSE Append(plan, range)

Merged(ranges, merge_gap) ==
    FoldLeft(LAMBDA plan, range : Merge(plan, range, merge_gap), <<>>, ranges)

TransferredBytes(plan) ==
    FoldLeft(LAMBDA sum, range : SaturatingAdd(sum, range.bytes), 0, plan)

PlanReusableHostBufferArenaCopies(arena_bytes, dirty, max_ranges, merge_gap, overhead) ==
    LET plan == Merged(ByOffset(Normalized(arena_bytes, dirty)), merge_gap)
        range_cost == SaturatingAdd(TransferredBytes(plan),
                                    SaturatingTimes(Len(plan), overhead))
        full_cost == SaturatingAdd(arena_bytes, overhead)
    IN  IF plan = <<>> THEN <<>>
        ELSE IF Len(plan) > max_ranges \/ range_cost >= full_cost
             THEN FullArenaPlan(arena_bytes)
             ELSE plan

(***************************************************************************)
(* What a copy plan promises.                                              *)
(***************************************************************************)
BytesOf(range) == range.offset .. End(range) - 1

\* Every dirty byte of the arena is copied and nothing is if none is dirty; the
\* copies lie in the arena, in order and further apart than the gap.
CopiesDirtyBytes(plan, arena_bytes, dirty, merge_gap) ==
    LET arena == 0 .. arena_bytes - 1
        dirty_bytes == (UNION {BytesOf(r) : r \in dirty}) \cap arena
        copied == UNION {BytesOf(plan[i]) : i \in DOMAIN plan}
    IN  /\ dirty_bytes \subseteq copied /\ copied \subseteq arena
        /\ dirty_bytes = {} => plan = <<>>
        /\ \A i \in 1 .. Len(plan) - 1 : plan[i + 1].offset > End(plan[i]) + merge_gap

\* The copies are no more than permitted and cheaper than one copy of the arena,
\* unless that is the plan.
IsCheap(plan, arena_bytes, max_ranges, overhead) ==
    LET copied == UNION {BytesOf(plan[i]) : i \in DOMAIN plan}
    IN  \/ plan \in {<<>>, FullArenaPlan(arena_bytes)}
        \/ /\ Len(plan) <= max_ranges
           /\ Cardinality(copied) + Len(plan) * overhead < arena_bytes + overhead

CorrectPlan(plan, arena_bytes, dirty, max_ranges, merge_gap, overhead) ==
    /\ CopiesDirtyBytes(plan, arena_bytes, dirty, merge_gap)
    /\ IsCheap(plan, arena_bytes, max_ranges, overhead)
=============================================================================
