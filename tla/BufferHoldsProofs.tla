------------------------- MODULE BufferHoldsProofs -------------------------
(***************************************************************************)
(* Proofs about BufferHolds: the hold protocol is safe for any number of   *)
(* threads, buffers and arguments and any set of calls.                    *)
(***************************************************************************)
EXTENDS BufferHolds, FiniteSetTheorems, TLAPS

\* A hold counter that reads 0 means that there is no such hold: what a
\* thread learns when its mu_.Await returns.
LEMMA ZeroMeansNone ==
    ASSUME HoldsInv, NEW b \in Buffers, NEW ty \in HoldType, holds[b][ty] = 0
    PROVE  \A h \in scoped : ~(h.buf = b /\ h.type = ty)
<1>1. IsFiniteSet(HoldsOn(b, ty))
  BY FS_Subset DEF HoldsInv, HoldsOn
<1>2. Cardinality(HoldsOn(b, ty)) = 0
  BY DEF HoldsInv, HoldsAreCounted
<1>3. HoldsOn(b, ty) = {}
  BY <1>1, <1>2, FS_EmptySet
<1> QED
  BY <1>3 DEF HoldsOn

\* Taking a hold keeps the counters exact.
LEMMA AddHoldCounts ==
    ASSUME HoldsInv, NEW t \in Threads, NEW b \in Buffers, NEW ty \in HoldType,
           AddHold(t, b, ty),
           \A h \in Mine(t) : h.arg # next[t]
    PROVE  /\ holds' \in [Buffers -> [HoldType -> Nat]]
           /\ scoped' \subseteq ScopedHold
           /\ IsFiniteSet(scoped')
           /\ HoldsAreCounted'
<1> DEFINE n == [thread |-> t, arg |-> next[t], buf |-> b, type |-> ty]
<1>1. n \in ScopedHold /\ n \notin scoped
  BY DEF HoldsInv, TypeOK, ScopedHold, Mine
<1>2. scoped' = scoped \cup {n}
  BY DEF AddHold
<1>3. IsFiniteSet(scoped')
  BY <1>2, FS_AddElement DEF HoldsInv
<1>4. holds' \in [Buffers -> [HoldType -> Nat]]
  BY DEF HoldsInv, TypeOK, AddHold
<1>5. ASSUME NEW c \in Buffers, NEW u \in HoldType
      PROVE  holds'[c][u] = Cardinality(HoldsOn(c, u)')
  <2>1. IsFiniteSet(HoldsOn(c, u))
    BY FS_Subset DEF HoldsInv, HoldsOn
  <2>2. holds[c][u] = Cardinality(HoldsOn(c, u))
    BY DEF HoldsInv, HoldsAreCounted
  <2>3. CASE c = b /\ u = ty
    <3>1. HoldsOn(c, u)' = HoldsOn(c, u) \cup {n}
      BY <1>2, <2>3 DEF HoldsOn
    <3>2. n \notin HoldsOn(c, u)
      BY <1>1 DEF HoldsOn
    <3>3. Cardinality(HoldsOn(c, u)') = Cardinality(HoldsOn(c, u)) + 1
      BY <2>1, <3>1, <3>2, FS_AddElement
    <3>4. holds'[c][u] = holds[c][u] + 1
      BY <2>3 DEF HoldsInv, TypeOK, AddHold
    <3> QED
      BY <2>2, <3>3, <3>4
  <2>4. CASE ~(c = b /\ u = ty)
    <3>1. HoldsOn(c, u)' = HoldsOn(c, u)
      BY <1>2, <2>4 DEF HoldsOn
    <3>2. holds'[c][u] = holds[c][u]
      BY <2>4 DEF HoldsInv, TypeOK, AddHold
    <3> QED
      BY <2>2, <3>1, <3>2
  <2> QED
    BY <2>3, <2>4
<1> QED
  BY <1>1, <1>2, <1>3, <1>4, <1>5 DEF HoldsInv, TypeOK, HoldsAreCounted

\* Giving a hold back keeps the counters exact, and non-negative.
LEMMA RemoveHoldCounts ==
    ASSUME HoldsInv, NEW h \in scoped, RemoveHold(h)
    PROVE  /\ holds' \in [Buffers -> [HoldType -> Nat]]
           /\ scoped' \subseteq ScopedHold
           /\ IsFiniteSet(scoped')
           /\ HoldsAreCounted'
<1>1. h \in ScopedHold /\ h.buf \in Buffers /\ h.type \in HoldType
  BY DEF HoldsInv, TypeOK, ScopedHold
<1>2. scoped' = scoped \ {h}
  BY DEF RemoveHold
<1>3. IsFiniteSet(scoped')
  BY <1>2, FS_RemoveElement DEF HoldsInv
<1>4. ASSUME NEW c \in Buffers, NEW u \in HoldType
      PROVE  /\ holds'[c][u] = Cardinality(HoldsOn(c, u)')
             /\ holds'[c][u] \in Nat
  <2>1. IsFiniteSet(HoldsOn(c, u))
    BY FS_Subset DEF HoldsInv, HoldsOn
  <2>2. holds[c][u] = Cardinality(HoldsOn(c, u))
    BY DEF HoldsInv, HoldsAreCounted
  <2>3. IsFiniteSet(HoldsOn(c, u)')
    BY <1>3, FS_Subset DEF HoldsOn
  <2>4. Cardinality(HoldsOn(c, u)') \in Nat
    BY <2>3, FS_CardinalityType
  <2>5. CASE c = h.buf /\ u = h.type
    <3>1. HoldsOn(c, u)' = HoldsOn(c, u) \ {h}
      BY <1>2 DEF HoldsOn
    <3>2. h \in HoldsOn(c, u)
      BY <2>5 DEF HoldsOn
    <3>3. Cardinality(HoldsOn(c, u)') = Cardinality(HoldsOn(c, u)) - 1
      BY <2>1, <3>1, <3>2, FS_RemoveElement
    <3>4. holds'[c][u] = holds[c][u] - 1
      BY <2>5, <1>1 DEF HoldsInv, TypeOK, RemoveHold
    <3> QED
      BY <2>2, <2>4, <3>3, <3>4
  <2>6. CASE ~(c = h.buf /\ u = h.type)
    <3>1. HoldsOn(c, u)' = HoldsOn(c, u)
      BY <1>2, <2>6 DEF HoldsOn
    <3>2. holds'[c][u] = holds[c][u]
      BY <2>6, <1>1 DEF HoldsInv, TypeOK, RemoveHold
    <3> QED
      BY <2>2, <2>4, <3>1, <3>2
  <2> QED
    BY <2>5, <2>6
<1>5. holds' \in [Buffers -> [HoldType -> Nat]]
  <2>1. holds' = [c \in Buffers |-> [u \in HoldType |-> holds'[c][u]]]
    BY <1>1 DEF HoldsInv, TypeOK, RemoveHold
  <2> QED
    BY <2>1, <1>4
<1> QED
  BY <1>2, <1>3, <1>4, <1>5 DEF HoldsInv, TypeOK, HoldsAreCounted

-----------------------------------------------------------------------------
\* The argument a thread asks for, and the buffer a Release works on.
LEMMA ArgType ==
    ASSUME HoldsInv, NEW t \in Threads, pc[t] # "idle", HasArg(t)
    PROVE  Arg(t).buf \in Buffers /\ Arg(t).type \in HoldType
<1>1. call[t] \in Calls
  BY DEF HoldsInv, Phases
<1>2. call[t].args \in Seq(Argument) /\ next[t] \in 1..Len(call[t].args)
  BY <1>1, CallsAssumption DEF Call, HasArg
<1>3. call[t].args[next[t]] \in Argument
  BY <1>2
<1> QED
  BY <1>3 DEF Arg, Argument

LEMMA TargetType ==
    ASSUME HoldsInv, NEW t \in Threads, pc[t] \in {"release", "drain"}
    PROVE  Target(t) \in Buffers
<1>1. call[t] \in Calls /\ call[t].op = "release"
  BY DEF HoldsInv, Phases
<1>2. call[t].args \in Seq(Argument) /\ Len(call[t].args) = 1
  BY <1>1, CallsAssumption DEF Call
<1>3. call[t].args[1] \in Argument
  BY <1>2
<1> QED
  BY <1>3 DEF Target, Argument

\* The state of the buffers and of the holds on them.
bufferVars == <<valid, holds, in_use, memory, taken, scoped>>

\* A step that only moves thread t on, without touching a buffer or a hold,
\* keeps the invariant if it is consistent with what t holds.
LEMMA LocalStep ==
    ASSUME HoldsInv, NEW t \in Threads, UNCHANGED bufferVars, TypeOK',
           \A u \in Threads \ {t} :
              pc'[u] = pc[u] /\ call'[u] = call[u] /\ next'[u] = next[u],
           pc'[t] # "idle" => call'[t] \in Calls,
           pc'[t] = "release" => call'[t].op = "release",
           pc'[t] \notin {"drain", "await_usage"},
           pc'[t] \in {"idle", "release"} => Mine(t) = {},
           \A h \in Mine(t) : h.arg < next'[t],
           \A h \in Mine(t), g \in scoped :
              h.type = Donation /\ g.buf = h.buf => g = h
    PROVE  HoldsInv'
<1> USE DEF bufferVars
<1>1. IsFiniteSet(scoped') /\ HoldsAreCounted'
  BY DEF HoldsInv, HoldsAreCounted, HoldsOn
<1>2. Phases'
  BY DEF HoldsInv, Phases, HasArg
<1>3. HoldsInCalls'
  <2> SUFFICES ASSUME NEW h \in scoped
               PROVE  /\ pc'[h.thread] \notin {"idle", "release", "drain"}
                      /\ \/ h.arg < next'[h.thread]
                         \/ /\ pc'[h.thread] = "await_usage"
                            /\ h.arg = next'[h.thread]
                            /\ h.buf = Arg(h.thread)'.buf
                            /\ h.type = Donation
    BY DEF HoldsInCalls
  <2>1. h.thread \in Threads
    BY DEF HoldsInv, TypeOK, ScopedHold
  <2>2. CASE h.thread = t
    BY <2>2 DEF Mine
  <2>3. CASE h.thread # t
    BY <2>1, <2>3 DEF HoldsInv, HoldsInCalls, Arg
  <2> QED
    BY <2>2, <2>3
<1>4. DonationExclusive'
  <2> SUFFICES ASSUME NEW h \in scoped, h.type = Donation
               PROVE  /\ valid[h.buf]
                      /\ \A g \in scoped : g.buf = h.buf /\ g # h =>
                            g.type = Usage /\ ~Granted(h)'
    BY DEF DonationExclusive
  <2>1. h.thread \in Threads
    BY DEF HoldsInv, TypeOK, ScopedHold
  <2>2. CASE h.thread = t
    BY <2>2 DEF HoldsInv, DonationExclusive, Mine
  <2>3. CASE h.thread # t
    BY <2>1, <2>3 DEF HoldsInv, DonationExclusive, Granted
  <2> QED
    BY <2>2, <2>3
<1>5. /\ UsageHoldKeepsEventsOpen' /\ ExternalNeverDonated'
      /\ ValidIsOwned' /\ TakenWhenNotOwned'
  BY DEF HoldsInv, UsageHoldKeepsEventsOpen, ExternalNeverDonated,
      ValidIsOwned, TakenWhenNotOwned
<1>6. DrainsAlone'
  <2>1. \A u \in Threads : pc'[u] = "drain" =>
           u # t /\ pc[u] = "drain" /\ Target(u)' = Target(u)
    BY DEF Target
  <2> QED
    BY <2>1 DEF HoldsInv, DrainsAlone
<1> QED
  BY <1>1, <1>2, <1>3, <1>4, <1>5, <1>6 DEF HoldsInv

\* The steps that move one thread on and leave buffers and holds alone.
LEMMA LocalActions ==
    ASSUME HoldsInv, NEW t \in Threads,
           \/ Begin(t) \/ RefuseAlias(t) \/ AcquireFails(t) \/ Acquired(t)
           \/ Launch(t) \/ AfterRun(t) \/ Commit(t) \/ ConfirmedAll(t)
           \/ Unwound(t)
    PROVE  HoldsInv'
<1> USE DEF Begin, RefuseAlias, MayAsk, AcquireFails, Acquired, Launch,
            AfterRun, Commit, ConfirmedAll, Unwound, Return
<1>1. UNCHANGED bufferVars
  BY DEF bufferVars
<1>2. TypeOK'
  <2>1. pc' \in [Threads -> Pcs]
    BY DEF HoldsInv, TypeOK, Pcs
  <2>2. call' \in [Threads -> Calls \cup {NoCall}]
    BY DEF HoldsInv, TypeOK
  <2>3. next' \in [Threads -> Nat]
    BY DEF HoldsInv, TypeOK
  <2>4. inflight' \in Int /\ callbacks' \in Nat
    BY DEF HoldsInv, TypeOK
  <2> QED
    BY <1>1, <2>1, <2>2, <2>3, <2>4 DEF HoldsInv, TypeOK, bufferVars
<1>3. \A u \in Threads \ {t} :
         pc'[u] = pc[u] /\ call'[u] = call[u] /\ next'[u] = next[u]
  BY DEF HoldsInv, TypeOK
<1>4. pc'[t] # "idle" => call'[t] \in Calls
  BY DEF HoldsInv, TypeOK, Phases
<1>5. /\ pc'[t] = "release" => call'[t].op = "release"
      /\ pc'[t] \notin {"drain", "await_usage"}
  BY DEF HoldsInv, TypeOK
<1>6. pc'[t] \in {"idle", "release"} => Mine(t) = {}
  BY DEF HoldsInv, TypeOK, HoldsInCalls, Mine
<1>7. pc[t] # "await_usage"
  OBVIOUS
<1>8. \A h \in Mine(t) : h.arg < next[t] /\ h.arg < next'[t]
  BY <1>7 DEF HoldsInv, TypeOK, HoldsInCalls, Mine
<1>9. \A h \in Mine(t), g \in scoped :
         h.type = Donation /\ g.buf = h.buf => g = h
  BY <1>8 DEF HoldsInv, DonationExclusive, Granted, Mine
<1> HIDE DEF Begin, RefuseAlias, MayAsk, AcquireFails, Acquired, Launch,
             AfterRun, Commit, ConfirmedAll, Unwound, Return
<1> QED
  BY <1>1, <1>2, <1>3, <1>4, <1>5, <1>6, <1>8, <1>9, LocalStep

\* The end of the wait for usage holds: the donation hold becomes exclusive.
LEMMA AwaitUsageStep ==
    ASSUME HoldsInv, NEW t \in Threads, AwaitUsage(t)
    PROVE  HoldsInv'
<1>1. UNCHANGED bufferVars /\ TypeOK'
  BY DEF AwaitUsage, bufferVars, HoldsInv, TypeOK, Pcs
<1>2. \A u \in Threads \ {t} :
         pc'[u] = pc[u] /\ call'[u] = call[u] /\ next'[u] = next[u]
  BY DEF AwaitUsage, HoldsInv, TypeOK
<1>3. pc'[t] = "acquire" /\ call'[t] = call[t] /\ next'[t] = next[t] + 1
  BY DEF AwaitUsage, HoldsInv, TypeOK
<1>4. call'[t] \in Calls
  BY <1>3 DEF AwaitUsage, HoldsInv, Phases
<1>5. \A h \in Mine(t) : h.arg < next'[t]
  <2> SUFFICES ASSUME NEW h \in Mine(t) PROVE h.arg < next'[t]
    OBVIOUS
  <2>1. h.arg \in Nat /\ next[t] \in Nat /\ h.thread = t /\ h \in scoped
    BY DEF HoldsInv, TypeOK, ScopedHold, Mine
  <2>2. h.arg <= next[t]
    BY <2>1 DEF HoldsInv, HoldsInCalls
  <2> QED
    BY <1>3, <2>1, <2>2
<1>6. \A g \in scoped : ~(g.buf = Arg(t).buf /\ g.type = Usage)
  <2>1. Arg(t).buf \in Buffers
    BY ArgType DEF AwaitUsage, HoldsInv, Phases
  <2> QED
    BY <2>1, ZeroMeansNone DEF AwaitUsage, HoldType
<1>7. ASSUME NEW h \in Mine(t), NEW g \in scoped, h.type = Donation,
             g.buf = h.buf, g # h
      PROVE  FALSE
  <2>1. h \in scoped /\ h.thread = t
    BY <1>7 DEF Mine
  <2>2. g.type = Usage /\ ~Granted(h)
    BY <1>7, <2>1 DEF HoldsInv, DonationExclusive
  <2>3. h.buf = Arg(t).buf
    BY <2>1, <2>2 DEF HoldsInv, HoldsInCalls, Granted
  <2> QED
    BY <1>6, <1>7, <2>2, <2>3
<1> QED
  BY <1>1, <1>2, <1>3, <1>4, <1>5, <1>7, LocalStep

-----------------------------------------------------------------------------
\* A usage or external hold is taken on a buffer without a donation hold.
LEMMA AcquireSharedStep ==
    ASSUME HoldsInv, NEW t \in Threads, AcquireShared(t)
    PROVE  HoldsInv'
<1> DEFINE b == Arg(t).buf
           n == [thread |-> t, arg |-> next[t], buf |-> b,
                 type |-> Arg(t).type]
<1>1. /\ b \in Buffers /\ Arg(t).type \in HoldType /\ Arg(t).type # Donation
      /\ pc[t] = "acquire" /\ valid[b]
  BY ArgType DEF AcquireShared, MayAsk
<1>2. \A h \in scoped : h.thread = t => h.arg < next[t]
  BY <1>1 DEF HoldsInv, HoldsInCalls
<1>3. \A h \in Mine(t) : h.arg # next[t]
  BY <1>2 DEF Mine, HoldsInv, TypeOK, ScopedHold
<1>4. AddHold(t, b, Arg(t).type)
  BY DEF AcquireShared
<1>5. /\ holds' \in [Buffers -> [HoldType -> Nat]]
      /\ scoped' \subseteq ScopedHold
      /\ IsFiniteSet(scoped')
      /\ HoldsAreCounted'
  BY <1>1, <1>3, <1>4, AddHoldCounts
<1>6. scoped' = scoped \cup {n}
  BY <1>4 DEF AddHold
<1>7. /\ next' = [next EXCEPT ![t] = @ + 1]
      /\ UNCHANGED <<valid, in_use, memory, taken, pc, call, inflight,
                     callbacks>>
  BY DEF AcquireShared
<1>8. TypeOK'
  BY <1>5, <1>7 DEF HoldsInv, TypeOK
<1>9. Phases'
  BY <1>1, <1>7 DEF HoldsInv, TypeOK, Phases, HasArg
<1>10. \A h \in scoped : ~(h.buf = b /\ h.type = Donation)
  BY <1>1, ZeroMeansNone DEF AcquireShared, MayAsk, HoldType
<1>11. HoldsInCalls'
  <2> SUFFICES ASSUME NEW h \in scoped'
               PROVE  /\ pc[h.thread] \notin {"idle", "release", "drain"}
                      /\ \/ h.arg < next'[h.thread]
                         \/ /\ pc[h.thread] = "await_usage"
                            /\ h.arg = next'[h.thread]
                            /\ h.buf = Arg(h.thread)'.buf
                            /\ h.type = Donation
    BY <1>7 DEF HoldsInCalls
  <2>1. CASE h = n
    BY <2>1, <1>1, <1>7 DEF HoldsInv, TypeOK
  <2>2. CASE h \in scoped /\ h.thread = t
    BY <2>2, <1>1, <1>2, <1>7 DEF HoldsInv, TypeOK, ScopedHold
  <2>3. CASE h \in scoped /\ h.thread # t
    BY <2>3, <1>7 DEF HoldsInv, TypeOK, ScopedHold, HoldsInCalls, Arg
  <2> QED
    BY <2>1, <2>2, <2>3, <1>6
<1>12. DonationExclusive'
  <2> SUFFICES ASSUME NEW h \in scoped', h.type = Donation
               PROVE  /\ valid[h.buf]
                      /\ \A g \in scoped' : g.buf = h.buf /\ g # h =>
                            g.type = Usage /\ ~Granted(h)'
    BY <1>7 DEF DonationExclusive
  <2>1. h \in scoped /\ h.buf # b
    BY <1>1, <1>6, <1>10
  <2>2. \A g \in scoped' : g.buf = h.buf => g \in scoped
    BY <2>1, <1>6
  <2>3. ASSUME NEW g \in scoped, g.buf = h.buf, g # h
        PROVE  g.type = Usage /\ ~Granted(h)'
    <3>1. g.type = Usage /\ ~Granted(h)
      BY <2>1, <2>3 DEF HoldsInv, DonationExclusive
    <3>2. h.thread # t
      BY <1>2, <2>1, <3>1 DEF Granted
    <3> QED
      BY <1>7, <3>1, <3>2 DEF Granted, HoldsInv, TypeOK
  <2> QED
    BY <2>1, <2>2, <2>3 DEF HoldsInv, DonationExclusive
<1>13. /\ UsageHoldKeepsEventsOpen' /\ ExternalNeverDonated'
       /\ ValidIsOwned' /\ TakenWhenNotOwned'
  BY <1>1, <1>6, <1>7 DEF HoldsInv, UsageHoldKeepsEventsOpen,
                          ExternalNeverDonated, ValidIsOwned, TakenWhenNotOwned
<1>14. DrainsAlone'
  BY <1>7 DEF HoldsInv, DrainsAlone, Target
<1> QED
  BY <1>5, <1>8, <1>9, <1>11, <1>12, <1>13, <1>14 DEF HoldsInv

\* A donation hold is counted: from here on only usage holds may remain.
LEMMA AcquireDonationStep ==
    ASSUME HoldsInv, NEW t \in Threads, AcquireDonation(t)
    PROVE  HoldsInv'
<1> DEFINE b == Arg(t).buf
           n == [thread |-> t, arg |-> next[t], buf |-> b, type |-> Donation]
<1>1. b \in Buffers /\ pc[t] = "acquire" /\ HasArg(t) /\ valid[b]
  BY ArgType DEF AcquireDonation, MayAsk
<1>2. \A h \in scoped : h.thread = t => h.arg < next[t]
  BY <1>1 DEF HoldsInv, HoldsInCalls
<1>3. \A h \in Mine(t) : h.arg # next[t]
  BY <1>2 DEF Mine, HoldsInv, TypeOK, ScopedHold
<1>4. AddHold(t, b, Donation)
  BY DEF AcquireDonation
<1>5. /\ holds' \in [Buffers -> [HoldType -> Nat]]
      /\ scoped' \subseteq ScopedHold
      /\ IsFiniteSet(scoped')
      /\ HoldsAreCounted'
  BY <1>1, <1>3, <1>4, AddHoldCounts DEF HoldType
<1>6. scoped' = scoped \cup {n}
  BY <1>4 DEF AddHold
<1>7. /\ pc' = [pc EXCEPT ![t] = "await_usage"]
      /\ UNCHANGED <<valid, in_use, memory, taken, call, next, inflight,
                     callbacks>>
  BY DEF AcquireDonation
<1>8. TypeOK'
  BY <1>5, <1>7 DEF HoldsInv, TypeOK, Pcs
<1>9. Phases'
  BY <1>1, <1>7 DEF HoldsInv, TypeOK, Phases, HasArg
<1>10. \A h \in scoped : h.buf = b => h.type = Usage
  <2>1. \A h \in scoped : ~(h.buf = b /\ h.type = Donation)
    BY <1>1, ZeroMeansNone DEF AcquireDonation, MayAsk, HoldType
  <2>2. \A h \in scoped : ~(h.buf = b /\ h.type = External)
    BY <1>1, ZeroMeansNone DEF AcquireDonation, HoldType
  <2> QED
    BY <2>1, <2>2 DEF HoldsInv, TypeOK, ScopedHold, HoldType
<1>11. HoldsInCalls'
  <2> SUFFICES ASSUME NEW h \in scoped'
               PROVE  /\ pc'[h.thread] \notin {"idle", "release", "drain"}
                      /\ \/ h.arg < next[h.thread]
                         \/ /\ pc'[h.thread] = "await_usage"
                            /\ h.arg = next[h.thread]
                            /\ h.buf = Arg(h.thread).buf
                            /\ h.type = Donation
    BY <1>7 DEF HoldsInCalls, Arg
  <2>1. CASE h = n
    BY <2>1, <1>7 DEF HoldsInv, TypeOK
  <2>2. CASE h \in scoped
    BY <2>2, <1>1, <1>7 DEF HoldsInv, TypeOK, HoldsInCalls, ScopedHold
  <2> QED
    BY <2>1, <2>2, <1>6
<1>12. DonationExclusive'
  <2> SUFFICES ASSUME NEW h \in scoped', h.type = Donation,
                      NEW g \in scoped', g.buf = h.buf, g # h
               PROVE  g.type = Usage /\ ~Granted(h)
    <3>1. \A h \in scoped' : h.type = Donation => valid[h.buf]
      BY <1>1, <1>6 DEF HoldsInv, DonationExclusive
    <3> QED
      BY <1>7, <3>1 DEF DonationExclusive, Granted
  <2>1. CASE h = n
    BY <2>1, <1>6, <1>10 DEF Granted, HoldsInv, TypeOK
  <2>2. CASE h \in scoped
    <3>1. h.buf # b
      BY <2>2, <1>10 DEF Usage, Donation
    <3>2. g \in scoped
      BY <3>1, <1>6
    <3> QED
      BY <2>2, <3>2 DEF HoldsInv, DonationExclusive
  <2> QED
    BY <2>1, <2>2, <1>6
<1>13. /\ UsageHoldKeepsEventsOpen' /\ ExternalNeverDonated'
       /\ ValidIsOwned' /\ TakenWhenNotOwned'
  BY <1>6, <1>7 DEF HoldsInv, UsageHoldKeepsEventsOpen, ExternalNeverDonated,
                    ValidIsOwned, TakenWhenNotOwned, Usage, External, Donation
<1>14. DrainsAlone'
  BY <1>7 DEF HoldsInv, TypeOK, DrainsAlone, Target
<1> QED
  BY <1>5, <1>8, <1>9, <1>11, <1>12, <1>13, <1>14 DEF HoldsInv

\* A hold is converted or dropped.
LEMMA RemoveHoldStep ==
    ASSUME HoldsInv, NEW h \in scoped, RemoveHold(h),
           UNCHANGED <<valid, in_use, memory, taken, pc, call, next, inflight,
                       callbacks>>
    PROVE  HoldsInv'
<1>1. /\ holds' \in [Buffers -> [HoldType -> Nat]]
      /\ scoped' \subseteq ScopedHold
      /\ IsFiniteSet(scoped')
      /\ HoldsAreCounted'
  BY RemoveHoldCounts
<1>2. scoped' \subseteq scoped
  BY DEF RemoveHold
<1>3. TypeOK' /\ Phases'
  BY <1>1 DEF HoldsInv, TypeOK, Phases, HasArg
<1>4. HoldsInCalls'
  BY <1>2 DEF HoldsInv, HoldsInCalls, Arg
<1>5. DonationExclusive'
  BY <1>2 DEF HoldsInv, DonationExclusive, Granted
<1>6. /\ UsageHoldKeepsEventsOpen' /\ ExternalNeverDonated'
      /\ ValidIsOwned' /\ TakenWhenNotOwned'
  BY <1>2 DEF HoldsInv, UsageHoldKeepsEventsOpen, ExternalNeverDonated,
              ValidIsOwned, TakenWhenNotOwned
<1>7. DrainsAlone'
  BY DEF HoldsInv, DrainsAlone, Target
<1> QED
  BY <1>1, <1>3, <1>4, <1>5, <1>6, <1>7 DEF HoldsInv

\* A donation is confirmed: it was the only hold on the buffer.
LEMMA ConfirmDonationStep ==
    ASSUME HoldsInv, NEW t \in Threads, ConfirmDonation(t)
    PROVE  HoldsInv'
<1>1. PICK h \in scoped :
         /\ h.thread = t /\ h.type = Donation /\ pc[t] # "await_usage"
         /\ holds' = [holds EXCEPT ![h.buf][Donation] = 0]
         /\ scoped' = scoped \ {h}
         /\ in_use' = [in_use EXCEPT ![h.buf] = FALSE]
         /\ memory' = [memory EXCEPT ![h.buf] = "donated"]
         /\ taken' = [taken EXCEPT ![h.buf] = @ + 1]
         /\ valid' = [valid EXCEPT ![h.buf] = FALSE]
  BY DEF ConfirmDonation, IsFirst, Mine
<1>2. UNCHANGED <<pc, call, next, inflight, callbacks>>
  BY DEF ConfirmDonation
<1>3. h.buf \in Buffers
  BY DEF HoldsInv, TypeOK, ScopedHold
<1>4. Granted(h)
  BY <1>1 DEF HoldsInv, HoldsInCalls, Granted
<1>5. \A g \in scoped : g.buf = h.buf => g = h
  BY <1>1, <1>4 DEF HoldsInv, DonationExclusive
<1>6. valid[h.buf]
  BY <1>1 DEF HoldsInv, DonationExclusive
<1>7. RemoveHold(h)
  <2>1. HoldsOn(h.buf, Donation) = {h}
    BY <1>1, <1>5 DEF HoldsOn
  <2>2. holds[h.buf][Donation] = 1
    BY <2>1, <1>3, FS_Singleton DEF HoldsInv, HoldsAreCounted, HoldType
  <2> QED
    BY <1>1, <1>3, <2>2 DEF RemoveHold
<1>8. /\ holds' \in [Buffers -> [HoldType -> Nat]]
      /\ scoped' \subseteq ScopedHold
      /\ IsFiniteSet(scoped')
      /\ HoldsAreCounted'
  BY <1>7, RemoveHoldCounts
<1>9. TypeOK' /\ Phases'
  BY <1>1, <1>2, <1>8 DEF HoldsInv, TypeOK, Phases, HasArg
<1>10. HoldsInCalls'
  BY <1>1, <1>2 DEF HoldsInv, HoldsInCalls, Arg
<1>11. \A g \in scoped' : g \in scoped /\ g.buf # h.buf /\ g.buf \in Buffers
  BY <1>1, <1>5 DEF HoldsInv, TypeOK, ScopedHold
<1>12. DonationExclusive'
  BY <1>1, <1>2, <1>11 DEF HoldsInv, TypeOK, DonationExclusive, Granted
<1>13. UsageHoldKeepsEventsOpen' /\ ExternalNeverDonated' /\ ValidIsOwned'
  BY <1>1, <1>11 DEF HoldsInv, TypeOK, UsageHoldKeepsEventsOpen,
                     ExternalNeverDonated, ValidIsOwned
<1>15. TakenWhenNotOwned'
  <2>1. memory[h.buf] = "owned"
    BY <1>3, <1>6 DEF HoldsInv, ValidIsOwned
  <2> QED
    BY <1>1, <1>3, <2>1 DEF HoldsInv, TypeOK, TakenWhenNotOwned
<1>14. DrainsAlone'
  <2>1. \A u \in Threads : pc[u] = "drain" => Target(u) # h.buf
    BY <1>6 DEF HoldsInv, DrainsAlone
  <2>2. \A u \in Threads : pc[u] = "drain" => Target(u) \in Buffers
    BY TargetType
  <2> QED
    BY <1>1, <1>2, <2>1, <2>2 DEF HoldsInv, TypeOK, DrainsAlone, Target
<1> QED
  BY <1>8, <1>9, <1>10, <1>12, <1>13, <1>14, <1>15 DEF HoldsInv

\* Release takes the buffer away from everybody who comes later.
LEMMA ReleaseStep ==
    ASSUME HoldsInv, NEW t \in Threads, Release(t)
    PROVE  HoldsInv'
<1> DEFINE b == Target(t)
<1>1. pc[t] = "release" /\ b \in Buffers /\ holds[b][Donation] = 0
  BY TargetType DEF Release
<1>2. Mine(t) = {}
  BY <1>1 DEF HoldsInv, HoldsInCalls, Mine
<1>3. CASE ~valid[b]
  <2>1. UNCHANGED bufferVars /\ Return(t) /\ UNCHANGED <<inflight, callbacks>>
    BY <1>3 DEF Release, bufferVars
  <2>2. TypeOK'
    BY <2>1 DEF HoldsInv, TypeOK, Return, bufferVars, Pcs
  <2>3. /\ pc'[t] = "idle"
        /\ \A u \in Threads \ {t} :
              pc'[u] = pc[u] /\ call'[u] = call[u] /\ next'[u] = next[u]
    BY <2>1 DEF HoldsInv, TypeOK, Return
  <2> QED
    BY <1>2, <2>1, <2>2, <2>3, LocalStep
<1>4. CASE valid[b]
  <2>1. /\ valid' = [valid EXCEPT ![b] = FALSE]
        /\ pc' = [pc EXCEPT ![t] = "drain"]
        /\ UNCHANGED <<holds, in_use, memory, taken, scoped, call, next,
                       inflight, callbacks>>
    BY <1>4 DEF Release
  <2>2. TypeOK' /\ IsFiniteSet(scoped') /\ HoldsAreCounted'
    BY <2>1 DEF HoldsInv, TypeOK, Pcs, HoldsAreCounted, HoldsOn
  <2>3. Phases'
    BY <1>1, <2>1 DEF HoldsInv, TypeOK, Phases, HasArg
  <2>4. HoldsInCalls'
    BY <1>2, <2>1 DEF HoldsInv, TypeOK, ScopedHold, HoldsInCalls, Arg, Mine
  <2>5. \A h \in scoped : ~(h.buf = b /\ h.type = Donation)
    BY <1>1, ZeroMeansNone DEF HoldType
  <2>6. DonationExclusive'
    BY <2>1, <2>5 DEF HoldsInv, TypeOK, ScopedHold, DonationExclusive, Granted
  <2>7. /\ UsageHoldKeepsEventsOpen' /\ ExternalNeverDonated'
        /\ ValidIsOwned' /\ TakenWhenNotOwned'
    BY <2>1 DEF HoldsInv, TypeOK, UsageHoldKeepsEventsOpen,
                ExternalNeverDonated, ValidIsOwned, TakenWhenNotOwned
  <2>8. DrainsAlone'
    <3>1. \A u \in Threads : pc[u] = "drain" =>
             Target(u) \in Buffers /\ ~valid[Target(u)]
      BY TargetType DEF HoldsInv, DrainsAlone
    <3>2. in_use[b] /\ memory[b] = "owned"
      BY <1>1, <1>4 DEF HoldsInv, ValidIsOwned
    <3>3. \A u \in Threads : Target(u)' = Target(u)
      BY <2>1 DEF Target
    <3>4. \A u \in Threads : pc'[u] = "drain" =>
             u = t \/ (pc[u] = "drain" /\ Target(u) # b)
      BY <1>4, <2>1, <3>1 DEF HoldsInv, TypeOK
    <3> QED
      BY <1>1, <2>1, <3>1, <3>2, <3>3, <3>4 DEF HoldsInv, TypeOK, DrainsAlone
  <2> QED
    BY <2>2, <2>3, <2>4, <2>6, <2>7, <2>8 DEF HoldsInv
<1> QED
  BY <1>3, <1>4

\* Release has waited for the usage holds and takes events and memory.
LEMMA DrainStep ==
    ASSUME HoldsInv, NEW t \in Threads, Drain(t)
    PROVE  HoldsInv'
<1> DEFINE b == Target(t)
<1>1. pc[t] = "drain" /\ b \in Buffers /\ holds[b][Usage] = 0
  BY TargetType DEF Drain
<1>2. /\ in_use' = [in_use EXCEPT ![b] = FALSE]
      /\ memory' = [memory EXCEPT ![b] = "released"]
      /\ taken' = [taken EXCEPT ![b] = @ + 1]
      /\ pc' = [pc EXCEPT ![t] = "idle"]
      /\ call' = [call EXCEPT ![t] = NoCall]
      /\ next' = [next EXCEPT ![t] = 1]
      /\ UNCHANGED <<valid, holds, scoped, inflight, callbacks>>
  BY DEF Drain, Return
<1>3. \A h \in scoped : h.thread # t
  BY <1>1 DEF HoldsInv, HoldsInCalls
<1>4. TypeOK' /\ IsFiniteSet(scoped') /\ HoldsAreCounted'
  <2>1. TypeOK'
    BY <1>1, <1>2 DEF HoldsInv, TypeOK, Pcs
  <2> QED
    BY <1>2, <2>1 DEF HoldsInv, HoldsAreCounted, HoldsOn
<1>5. Phases'
  BY <1>2 DEF HoldsInv, TypeOK, Phases, HasArg
<1>6. HoldsInCalls'
  BY <1>2, <1>3 DEF HoldsInv, TypeOK, ScopedHold, HoldsInCalls, Arg
<1>7. DonationExclusive'
  BY <1>2, <1>3 DEF HoldsInv, TypeOK, ScopedHold, DonationExclusive, Granted
<1>8. \A h \in scoped : ~(h.buf = b /\ h.type = Usage)
  BY <1>1, ZeroMeansNone DEF HoldType
<1>9. ~valid[b] /\ memory[b] = "owned"
  BY <1>1 DEF HoldsInv, DrainsAlone
<1>10. UsageHoldKeepsEventsOpen' /\ ExternalNeverDonated' /\ ValidIsOwned'
  BY <1>2, <1>8, <1>9 DEF HoldsInv, TypeOK, ScopedHold, ValidIsOwned,
                          UsageHoldKeepsEventsOpen, ExternalNeverDonated
<1>12. TakenWhenNotOwned'
  <2>1. taken[b] = 0
    BY <1>1, <1>9 DEF HoldsInv, TakenWhenNotOwned
  <2>2. taken'[b] = 1 /\ memory'[b] = "released"
    BY <1>1, <1>2, <2>1 DEF HoldsInv, TypeOK
  <2>3. \A c \in Buffers \ {b} : taken'[c] = taken[c] /\ memory'[c] = memory[c]
    BY <1>1, <1>2 DEF HoldsInv, TypeOK
  <2> QED
    BY <2>2, <2>3 DEF HoldsInv, TakenWhenNotOwned
<1>11. DrainsAlone'
  <2>1. \A u \in Threads : pc'[u] = "drain" =>
           /\ u # t /\ pc[u] = "drain" /\ Target(u)' = Target(u)
           /\ Target(u) # b /\ Target(u) \in Buffers
    BY <1>1, <1>2, TargetType DEF HoldsInv, TypeOK, DrainsAlone, Target
  <2> QED
    BY <1>2, <2>1 DEF HoldsInv, TypeOK, DrainsAlone
<1> QED
  BY <1>4, <1>5, <1>6, <1>7, <1>10, <1>11, <1>12 DEF HoldsInv

-----------------------------------------------------------------------------
LEMMA HoldsInvInit == Init => HoldsInv
<1> SUFFICES ASSUME Init PROVE HoldsInv
  OBVIOUS
<1> USE DEF Init
<1>1. TypeOK
  BY DEF TypeOK, Pcs
<1>2. IsFiniteSet(scoped)
  BY FS_EmptySet
<1>3. HoldsAreCounted
  <2>1. \A b \in Buffers, ty \in HoldType : HoldsOn(b, ty) = {}
    BY DEF HoldsOn
  <2> QED
    BY <2>1, FS_EmptySet DEF HoldsAreCounted
<1>4. /\ Phases /\ HoldsInCalls /\ DonationExclusive
      /\ ValidIsOwned /\ TakenWhenNotOwned /\ DrainsAlone
  BY DEF Phases, HoldsInCalls, DonationExclusive, ValidIsOwned,
         TakenWhenNotOwned, DrainsAlone
<1>5. UsageHoldKeepsEventsOpen /\ ExternalNeverDonated
  BY DEF UsageHoldKeepsEventsOpen, ExternalNeverDonated
<1> QED
  BY <1>1, <1>2, <1>3, <1>4, <1>5 DEF HoldsInv

\* Nothing of HoldsInv depends on more than the variables.
LEMMA HoldsInvStutter ==
    ASSUME HoldsInv, UNCHANGED <<valid, holds, in_use, memory, taken, scoped,
                                 pc, call, next>>,
           inflight' \in Int, callbacks' \in Nat
    PROVE  HoldsInv'
BY DEF HoldsInv, TypeOK, HoldsAreCounted, HoldsOn, Phases, HasArg, HoldsInCalls,
       Arg, DonationExclusive, Granted, UsageHoldKeepsEventsOpen,
       ExternalNeverDonated, ValidIsOwned, TakenWhenNotOwned, DrainsAlone, Target

LEMMA HoldsInvNext == HoldsInv /\ [Next]_vars => HoldsInv'
<1> SUFFICES ASSUME HoldsInv, [Next]_vars PROVE HoldsInv'
  OBVIOUS
<1>1. ASSUME NEW t \in Threads, Begin(t) \/ Continue(t) PROVE HoldsInv'
  <2>1. CASE \/ Begin(t) \/ RefuseAlias(t) \/ AcquireFails(t) \/ Acquired(t)
             \/ Launch(t) \/ AfterRun(t) \/ Commit(t) \/ ConfirmedAll(t)
             \/ Unwound(t)
    BY <2>1, LocalActions
  <2>2. CASE AwaitUsage(t)
    BY <2>2, AwaitUsageStep
  <2>3. CASE AcquireShared(t)
    BY <2>3, AcquireSharedStep
  <2>4. CASE AcquireDonation(t)
    BY <2>4, AcquireDonationStep
  <2>5. CASE ConvertUsageHold(t)
    BY <2>5, RemoveHoldStep DEF ConvertUsageHold
  <2>6. CASE DropHold(t)
    BY <2>6, RemoveHoldStep DEF DropHold
  <2>7. CASE ConfirmDonation(t)
    BY <2>7, ConfirmDonationStep
  <2>8. CASE Release(t)
    BY <2>8, ReleaseStep
  <2>9. CASE Drain(t)
    BY <2>9, DrainStep
  <2> QED
    BY <1>1, <2>1, <2>2, <2>3, <2>4, <2>5, <2>6, <2>7, <2>8, <2>9 DEF Continue
<1>2. CASE ComputeCallback
  BY <1>2, HoldsInvStutter DEF ComputeCallback, HoldsInv, TypeOK
<1>3. CASE UNCHANGED vars
  BY <1>3, HoldsInvStutter DEF vars, HoldsInv, TypeOK
<1> QED
  BY <1>1, <1>2, <1>3 DEF Next

\* Type correctness: holds_ are decremented on every way out of a call, and no
\* count ever falls below zero; every hold belongs to a buffer and a thread.
THEOREM TypeOKTheorem == Spec => []TypeOK
<1>1. HoldsInv => TypeOK
  BY DEF HoldsInv
<1> QED
  BY <1>1, HoldsInvInit, HoldsInvNext, PTL DEF Spec

\* For any number of threads, buffers and arguments: holds_ counts the live
\* ScopedHold objects on every path of the hold protocol.
THEOREM HoldsAreCountedTheorem == Spec => []HoldsAreCounted
<1>1. HoldsInv => HoldsAreCounted
  BY DEF HoldsInv
<1> QED
  BY <1>1, HoldsInvInit, HoldsInvNext, PTL DEF Spec

\* A granted donation hold excludes every other hold, a usage hold can always
\* be converted, and memory shared externally is never donated: the CHECKs
\* of ConfirmDonation, AddUsageEvent and GetBufferForHoldLocked cannot fail.
THEOREM HoldsProtectTheorem ==
    Spec => []HoldsProtect
<1>1. HoldsInv => HoldsProtect
  BY DEF HoldsInv, HoldsProtect
<1> QED
  BY <1>1, HoldsInvInit, HoldsInvNext, PTL DEF Spec

\* The device memory of a buffer is taken at most once: two Releases, two
\* donations, or a Release and a donation never both take it.
THEOREM MemoryTakenOnceTheorem == Spec => []MemoryTakenOnce
<1>1. HoldsInv => MemoryTakenOnce
  BY DEF HoldsInv, TakenWhenNotOwned, MemoryTakenOnce
<1> QED
  BY <1>1, HoldsInvInit, HoldsInvNext, PTL DEF Spec

-----------------------------------------------------------------------------
\* compute_semaphore_ is never leaked and never released twice.
LEMMA ReservationInvNext ==
    HoldsInv /\ ReservationInv /\ [Next]_vars => ReservationInv'
<1> SUFFICES ASSUME HoldsInv, ReservationInv, [Next]_vars PROVE ReservationInv'
  OBVIOUS
<1>1. IsFiniteSet(Reserving) /\ Cardinality(Reserving) \in Nat
  BY ThreadsAssumption, FS_Subset, FS_CardinalityType DEF Reserving
<1>2. /\ inflight = Cardinality(Reserving) + callbacks
      /\ inflight <= MaxInflight /\ inflight \in Int /\ callbacks \in Nat
      /\ MaxInflight \in Nat
  BY InflightAssumption DEF ReservationInv, ReservationsAccounted, HoldsInv,
                            TypeOK
<1>3. ASSUME Reserving' = Reserving, UNCHANGED <<inflight, callbacks>>
      PROVE  ReservationsAccounted'
  BY <1>2, <1>3 DEF ReservationsAccounted
<1>4. ASSUME NEW t \in Threads, t \in Reserving, Reserving' = Reserving \ {t},
             \/ inflight' = inflight - 1 /\ callbacks' = callbacks
             \/ inflight' = inflight /\ callbacks' = callbacks + 1
      PROVE  ReservationsAccounted'
  <2>1. Cardinality(Reserving') = Cardinality(Reserving) - 1
    BY <1>1, <1>4, FS_RemoveElement
  <2> QED
    BY <1>1, <1>2, <1>4, <2>1 DEF ReservationsAccounted
<1>5. CASE ComputeCallback \/ UNCHANGED vars
  <2>1. Reserving' = Reserving /\ UNCHANGED <<pc, call>>
    BY <1>5 DEF ComputeCallback, vars, Reserving
  <2>2. ReservationsAccounted'
    BY <1>1, <1>2, <1>5, <2>1 DEF ComputeCallback, vars, ReservationsAccounted
  <2> QED
    BY <2>1, <2>2 DEF ReservationInv
<1>6. ASSUME NEW t \in Threads, Begin(t) \/ Continue(t) PROVE ReservationInv'
  <2>1. \A u \in Threads \ {t} : pc'[u] = pc[u] /\ call'[u] = call[u]
    BY <1>6 DEF HoldsInv, TypeOK, Begin, Continue, RefuseAlias, AcquireShared,
                AcquireDonation, AwaitUsage, AcquireFails, Acquired, Launch,
                AfterRun, ConvertUsageHold, ConfirmDonation, Commit,
                ConfirmedAll, DropHold, Unwound, Release, Drain, Return
  <2>2. pc'[t] \in {"enqueue", "launched", "confirm"} =>
           call'[t].op = "execute"
    BY <1>6 DEF ReservationInv, HoldsInv, TypeOK, Begin, Continue, RefuseAlias,
                AcquireShared, AcquireDonation, AwaitUsage, AcquireFails,
                Acquired, Launch, AfterRun, ConvertUsageHold, ConfirmDonation,
                Commit, ConfirmedAll, DropHold, Unwound, Release, Drain, Return
  <2>3. ReservationsAccounted'
    <3>1. CASE Launch(t)
      <4>1. t \notin Reserving /\ Reserving' = Reserving \cup {t}
        BY <3>1, <2>1, <2>2 DEF Launch, Reserving, HoldsInv, TypeOK
      <4>2. Cardinality(Reserving') = Cardinality(Reserving) + 1
        BY <1>1, <4>1, FS_AddElement
      <4> QED
        BY <1>1, <1>2, <3>1, <4>2 DEF Launch, ReservationsAccounted
    <3>2. CASE AfterRun(t)
      <4>1. t \in Reserving
        BY <3>2 DEF AfterRun, Reserving, ReservationInv
      <4>2. CASE pc'[t] = "unwind"
        <5>1. inflight' = inflight - 1 /\ callbacks' = callbacks
          BY <3>2, <4>2 DEF AfterRun, HoldsInv, TypeOK
        <5>2. Reserving' = Reserving \ {t}
          BY <2>1, <4>2 DEF Reserving
        <5> QED
          BY <1>4, <4>1, <5>1, <5>2
      <4>3. CASE pc'[t] \in {"commit", "confirm"}
        <5>1. UNCHANGED <<inflight, callbacks, call>>
          BY <3>2, <4>3 DEF AfterRun, HoldsInv, TypeOK
        <5>2. Reserving' = Reserving
          BY <2>1, <4>1, <4>3, <5>1 DEF Reserving
        <5> QED
          BY <1>3, <5>1, <5>2
      <4> QED
        BY <3>2, <4>2, <4>3 DEF AfterRun, HoldsInv, TypeOK
    <3>3. CASE ConfirmedAll(t)
      <4>1. t \in Reserving /\ Reserving' = Reserving \ {t}
        BY <3>3, <2>1 DEF ConfirmedAll, Return, Reserving, ReservationInv,
                          HoldsInv, TypeOK
      <4> QED
        BY <1>4, <3>3, <4>1 DEF ConfirmedAll
    <3>4. CASE Commit(t)
      <4>1. pc[t] = "commit" /\ pc'[t] = "idle" /\ inflight' = inflight
        BY <3>4 DEF Commit, Return, HoldsInv, TypeOK
      <4>2. CASE call[t].op = "execute"
        <5>1. t \in Reserving /\ Reserving' = Reserving \ {t}
          BY <2>1, <4>1, <4>2 DEF Reserving
        <5> QED
          BY <1>4, <3>4, <4>1, <4>2, <5>1 DEF Commit
      <4>3. CASE call[t].op # "execute"
        <5>1. Reserving' = Reserving
          BY <2>1, <4>1, <4>3 DEF Reserving
        <5> QED
          BY <1>3, <3>4, <4>1, <4>3, <5>1 DEF Commit
      <4> QED
        BY <4>2, <4>3
    <3>5. CASE Begin(t) \/ (Continue(t) /\ ~Launch(t) /\ ~AfterRun(t)
                              /\ ~ConfirmedAll(t) /\ ~Commit(t))
      <4>1. /\ UNCHANGED <<inflight, callbacks>>
            /\ t \in Reserving <=> (t \in Reserving)'
        BY <3>5 DEF HoldsInv, TypeOK, Begin, Continue, RefuseAlias,
                    AcquireShared, AcquireDonation, AwaitUsage, AcquireFails,
                    Acquired, ConvertUsageHold, ConfirmDonation, DropHold,
                    Unwound, Release, Drain, Return, Reserving, MayAsk
      <4>2. Reserving' = Reserving
        BY <2>1, <4>1 DEF Reserving
      <4> QED
        BY <1>3, <4>1, <4>2
    <3> QED
      BY <1>6, <3>1, <3>2, <3>3, <3>4, <3>5
  <2> QED
    BY <2>1, <2>2, <2>3 DEF ReservationInv
<1> QED
  BY <1>5, <1>6 DEF Next

\* Every reservation of compute_semaphore_ is owned by an execution being
\* enqueued or by a callback still to run, on every error path.
THEOREM ReservationsTheorem == Spec => []ReservationsAccounted
<1>1. Init => ReservationInv
  <2> SUFFICES ASSUME Init PROVE ReservationInv
    OBVIOUS
  <2>1. Reserving = {}
    BY DEF Init, Reserving
  <2>2. Cardinality(Reserving) = 0
    BY <2>1, FS_EmptySet
  <2> QED
    BY <2>2, InflightAssumption DEF Init, ReservationInv, ReservationsAccounted
<1>2. ReservationInv => ReservationsAccounted
  BY DEF ReservationInv
<1> QED
  BY <1>1, <1>2, HoldsInvInit, HoldsInvNext, ReservationInvNext, PTL DEF Spec
=============================================================================
