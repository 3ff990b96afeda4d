------------------------- MODULE MCHostBufferReuse -------------------------
(***************************************************************************)
(* Small instances of HostBufferReuse for TLC, and the inputs on which the *)
(* copy plan is compared with what it promises.                            *)
(***************************************************************************)
EXTENDS HostBufferReuse, TLC

CONSTANTS t1, t2

ThreadSymmetry == Permutations(Threads)

(* Arenas of up to five bytes with up to three dirty ranges that overlap,    *)
(* touch, are empty, or pass the end of the arena, and costs up to the      *)
(* largest size_t.                                                         *)
Ranges == [offset : {0, 1, 3, 5}, bytes : {0, 1, 2, 4}]
DirtySets == UNION {kSubset(n, Ranges) : n \in 0..3}

(* PlanReusableHostBufferArenaCopies keeps the promise of CorrectPlan on     *)
(* all of these inputs, which depend on no state: the initial ones do.      *)
CopyPlanIsCorrect ==
    Init =>
    \A arena_bytes \in {0, 1, 4, 5}, dirty \in DirtySets, max_ranges \in 0..2,
       merge_gap \in 0..1, overhead \in {0, 1, SizeMax} :
        CorrectPlan(
            PlanReusableHostBufferArenaCopies(arena_bytes, dirty, max_ranges, merge_gap, overhead),
            arena_bytes, dirty, max_ranges, merge_gap, overhead)
=============================================================================
