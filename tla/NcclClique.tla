----------------------------- MODULE NcclClique -----------------------------
(***************************************************************************)
(* NCCL communicators (xla/service/gpu/nccl_utils.cc) and the collectives  *)
(* that lock them (NcclCollectiveThunk::ExecuteOnStream).                  *)
(*                                                                         *)
(* Several runs execute at once, each with one thread per local rank, and  *)
(* every thread of a run makes the same collectives in the same order.     *)
(* The threads of one collective meet in RendezvousSingle (module          *)
(* Rendezvous), of which only the contract is used here: its function is   *)
(* executed once, when all have arrived, and all receive the result.       *)
(* Leaving the rendezvous changes nothing anybody sees, so the step that   *)
(* executes the function moves the whole group on.                         *)
(*                                                                         *)
(* A communicator that was made does not fail later, and a collective is   *)
(* complete on the devices once every rank has launched it.                *)
(***************************************************************************)
EXTENDS Integers, Sequences, FiniteSets

CONSTANTS Ranks,          \* the local participants
          Runs,           \* run ids of the executions in progress
          Cliques,        \* clique keys: participants and stream
          Program,        \* the cliques of each run's collectives, in order
          LocalCliques,   \* cliques without participants on other hosts
          SkipCliques     \* cliques of the P2P stream: may_skip_rendezvous

ASSUME ProgramAssumption ==
    /\ Runs \subseteq Nat
    /\ Program \in [Runs -> Seq(Cliques)]
    /\ LocalCliques \subseteq Cliques /\ SkipCliques \subseteq Cliques

Threads == Runs \X Ranks
Comms   == Cliques \X Ranks

VARIABLES
    pc, op,        \* each thread's place in its op-th collective
    sharers,       \* threads that share the clique's Lock, {} when it is free
    run_id,        \* NcclCliqueState: the run that last acquired it ...
    ready,         \* ... whether `ready` was notified ...
    status,        \* ... the first error of an initialization ...
    communicators, \* ... and the ranks whose initialization is over
    holder,        \* who holds the Lock of a communicator: {} or one thread
    published,     \* all_communicators.communicators, in the order they were added
    unchecked,     \* those the async error thread, holding the mutex, has left
    checking,      \* whether that thread holds all_communicators.mu
    launched,      \* ranks that launched a run's collective on their stream
    first_call,    \* first_call_to_execute_ of the collective's thunk
    order          \* history: the collectives that locked a communicator

clique_vars == <<sharers, run_id, ready, status, communicators>>
check_vars  == <<published, unchecked, checking>>
vars == <<pc, op, clique_vars, holder, check_vars, launched, first_call, order>>

Group(t)  == <<t[1], op[t]>>                    \* the rendezvous key
Clique(t) == Program[t[1]][op[t]]
Comm(t)   == <<Clique(t), t[2]>>
Members(run) == {run} \X Ranks
Groups == UNION {{run} \X (1 .. Len(Program[run])) : run \in Runs}

PC == {"call", "rendezvous", "clique", "init", "notify", "wait", "comm", "run",
       "block", "failed", "done"}

TypeOK ==
    /\ pc \in [Threads -> PC]
    /\ \A t \in Threads : op[t] \in 1 .. Len(Program[t[1]]) + 1
    /\ sharers \in [Cliques -> SUBSET Threads]
    /\ run_id \in [Cliques -> Runs \cup {-1}]
    /\ ready \in [Cliques -> BOOLEAN]
    /\ status \in [Cliques -> {"ok", "error"}]
    /\ communicators \in [Cliques -> SUBSET Ranks]
    /\ holder \in [Comms -> {{}} \cup {{t} : t \in Threads}]
    /\ published \in Seq(Comms) /\ unchecked \in Seq(Comms)
    /\ checking \in BOOLEAN
    /\ launched \in [Groups -> SUBSET Ranks]
    /\ first_call \in [Groups -> BOOLEAN]
    /\ order \in [Comms -> Seq(Groups)]

\* The executables may all have run before, with other devices.
Init ==
    /\ pc = [t \in Threads |-> "call"] /\ op = [t \in Threads |-> 1]
    /\ sharers = [c \in Cliques |-> {}]
    /\ run_id = [c \in Cliques |-> -1]
    /\ ready = [c \in Cliques |-> FALSE]
    /\ status = [c \in Cliques |-> "ok"]
    /\ communicators = [c \in Cliques |-> {}]
    /\ holder = [m \in Comms |-> {}]
    /\ published = <<>> /\ unchecked = <<>> /\ checking = FALSE
    /\ launched = [g \in Groups |-> {}]
    /\ \E fresh \in BOOLEAN : first_call = [g \in Groups |-> fresh]
    /\ order = [m \in Comms |-> <<>>]

Goto(t, label) == pc' = [pc EXCEPT ![t] = label]

\* A thread drops its pointer to the clique's Lock; the last one unlocks it.
DropClique(t) == sharers' = [sharers EXCEPT ![Clique(t)] = @ \ {t}]

\* may_skip_rendezvous: the clique is ready and the run already has it.
MaySkip(t) ==
    /\ Clique(t) \in SkipCliques
    /\ ready[Clique(t)] /\ run_id[Clique(t)] = t[1]

\* AcquireNcclClique takes the Lock for this thread alone.
SkipRendezvous(t) ==
    /\ pc[t] = "call" /\ op[t] <= Len(Program[t[1]])
    /\ sharers[Clique(t)] = {} /\ MaySkip(t)
    /\ sharers' = [sharers EXCEPT ![Clique(t)] = {t}]
    /\ Goto(t, "clique")
    /\ UNCHANGED <<op, run_id, ready, status, communicators, holder, check_vars,
                   launched, first_call, order>>

\* It joins the rendezvous of the run's threads instead; where that might have
\* been skipped, the Lock was taken and given back.
EnterRendezvous(t) ==
    /\ pc[t] = "call" /\ op[t] <= Len(Program[t[1]])
    /\ Clique(t) \in SkipCliques => sharers[Clique(t)] = {} /\ ~MaySkip(t)
    /\ Goto(t, "rendezvous")
    /\ UNCHANGED <<op, clique_vars, holder, check_vars, launched, first_call, order>>

\* All threads of the run wait for clique c.
AllArrived(run, c) ==
    \E i \in 1 .. Len(Program[run]) : Program[run][i] = c /\
        \A t \in Members(run) : pc[t] = "rendezvous" /\ op[t] = i

\* TF_RET_CHECK(is_local || run_id >= clique->run_id).
RunIdInOrder(run, c) == c \in LocalCliques \/ run >= run_id[c]

\* Fault: the lock stays with one thread of the group.
GrantCliqueToOne(run, c) ==
    /\ AllArrived(run, c)
    /\ sharers[c] = {} /\ RunIdInOrder(run, c)
    /\ sharers' = [sharers EXCEPT ![c] = {CHOOSE t \in Members(run) : TRUE}]
    /\ run_id' = [run_id EXCEPT ![c] = run]
    /\ pc' = [t \in Threads |-> IF t[1] = run THEN "clique" ELSE pc[t]]
    /\ UNCHANGED <<op, ready, status, communicators, holder, check_vars,
                   launched, first_call, order>>

\* The function of the rendezvous locks the clique for the group.
GrantClique(run, c) ==
    /\ AllArrived(run, c)
    /\ sharers[c] = {} /\ RunIdInOrder(run, c)
    /\ sharers' = [sharers EXCEPT ![c] = Members(run)]
    /\ run_id' = [run_id EXCEPT ![c] = run]
    /\ pc' = [t \in Threads |-> IF t[1] = run THEN "clique" ELSE pc[t]]
    /\ UNCHANGED <<op, ready, status, communicators, holder, check_vars,
                   launched, first_call, order>>

\* It fails for the whole group: no unique id (asked for when the clique is
\* new), or run ids out of order.
RefuseClique(run, c) ==
    /\ AllArrived(run, c)
    /\ sharers[c] = {} /\ (run_id[c] < 0 \/ ~RunIdInOrder(run, c))
    /\ pc' = [t \in Threads |-> IF t[1] = run THEN "failed" ELSE pc[t]]
    /\ UNCHANGED <<op, clique_vars, holder, check_vars, launched, first_call, order>>

\* state.ready.HasBeenNotified() is asked without a lock, and ncclCommInitRank
\* called: whatever happens to the clique before it returns is not seen.
BeginInit(t) ==
    /\ pc[t] = "clique" /\ ~ready[Clique(t)]
    /\ Goto(t, "init")
    /\ UNCHANGED <<op, clique_vars, holder, check_vars, launched, first_call, order>>

\* Fault: a rank whose initialization failed is not registered.
InitRankFails(t, result) ==
    LET c == Clique(t)
        init == IF result = "ok" THEN communicators[c] \cup {t[2]} ELSE communicators[c] IN
    /\ pc[t] = "init"
    /\ status' = [status EXCEPT ![c] = IF @ = "ok" THEN result ELSE @]
    /\ communicators' = [communicators EXCEPT ![c] = init]
    /\ \/ init = Ranks /\ Goto(t, "notify") /\ UNCHANGED sharers
       \/ init # Ranks /\ result = "ok" /\ Goto(t, "wait") /\ UNCHANGED sharers
       \/ init # Ranks /\ result # "ok" /\ Goto(t, "failed") /\ DropClique(t)
    /\ UNCHANGED <<op, run_id, ready, holder, check_vars, launched, first_call, order>>

\* Fault: the last but one to register notifies.
InitRankEarly(t, result) ==
    LET c == Clique(t)
        init == communicators[c] \cup {t[2]}
        last == Cardinality(init) >= Cardinality(Ranks) - 1 IN
    /\ pc[t] = "init"
    /\ status' = [status EXCEPT ![c] = IF @ = "ok" THEN result ELSE @]
    /\ communicators' = [communicators EXCEPT ![c] = init]
    /\ \/ last /\ Goto(t, "notify") /\ UNCHANGED sharers
       \/ ~last /\ result = "ok" /\ Goto(t, "wait") /\ UNCHANGED sharers
       \/ ~last /\ result # "ok" /\ Goto(t, "failed") /\ DropClique(t)
    /\ UNCHANGED <<op, run_id, ready, holder, check_vars, launched, first_call, order>>

\* ncclCommInitRank returns and its result is registered under state.mu.  The
\* last rank will notify; of the others, those that failed return at once.
InitRank(t, result) ==
    LET c == Clique(t)
        init == communicators[c] \cup {t[2]} IN
    /\ pc[t] = "init"
    /\ status' = [status EXCEPT ![c] = IF @ = "ok" THEN result ELSE @]
    /\ communicators' = [communicators EXCEPT ![c] = init]
    /\ \/ init = Ranks /\ Goto(t, "notify") /\ UNCHANGED sharers
       \/ init # Ranks /\ result = "ok" /\ Goto(t, "wait") /\ UNCHANGED sharers
       \/ init # Ranks /\ result # "ok" /\ Goto(t, "failed") /\ DropClique(t)
    /\ UNCHANGED <<op, run_id, ready, holder, check_vars, launched, first_call, order>>

\* state.ready.Notify().
Notify(t) ==
    /\ pc[t] = "notify"
    /\ ready' = [ready EXCEPT ![Clique(t)] = TRUE]
    /\ Goto(t, "wait")
    /\ UNCHANGED <<op, sharers, run_id, status, communicators, holder, check_vars,
                   launched, first_call, order>>

\* After WaitForNotification the communicator is added to all_communicators.
Publish(t) ==
    /\ pc[t] = "wait" /\ ready[Clique(t)]
    /\ ~checking
    /\ published' = Append(published, Comm(t))
    /\ Goto(t, "comm")
    /\ UNCHANGED <<op, clique_vars, holder, unchecked, checking, launched,
                   first_call, order>>

\* The thread found the clique ready or has seen it become ready.
AtComm(t) == pc[t] = "comm" \/ (pc[t] = "clique" /\ ready[Clique(t)])

\* Some rank was not initialized: nobody gets a communicator of this clique.
ReturnStatus(t) ==
    /\ AtComm(t) /\ status[Clique(t)] # "ok"
    /\ DropClique(t)
    /\ Goto(t, "failed")
    /\ UNCHANGED <<op, run_id, ready, status, communicators, holder, check_vars,
                   launched, first_call, order>>

\* Fault: the clique is given up before the communicator is locked.
LockCommLate(t) ==
    /\ AtComm(t) /\ status[Clique(t)] = "ok"
    /\ \/ /\ t \in sharers[Clique(t)] /\ DropClique(t)
          /\ UNCHANGED <<pc, holder, order>>
       \/ /\ t \notin sharers[Clique(t)] /\ holder[Comm(t)] = {}
          /\ holder' = [holder EXCEPT ![Comm(t)] = {t}]
          /\ order' = [order EXCEPT ![Comm(t)] = Append(@, Group(t))]
          /\ Goto(t, "run") /\ UNCHANGED sharers
    /\ UNCHANGED <<op, run_id, ready, status, communicators, check_vars, launched,
                   first_call>>

\* Fault: the status of the clique is not looked at.
LockCommAnyStatus(t) ==
    /\ AtComm(t) /\ holder[Comm(t)] = {}
    /\ holder' = [holder EXCEPT ![Comm(t)] = {t}]
    /\ order' = [order EXCEPT ![Comm(t)] = Append(@, Group(t))]
    /\ DropClique(t)
    /\ Goto(t, "run")
    /\ UNCHANGED <<op, run_id, ready, status, communicators, check_vars, launched,
                   first_call>>

\* Fault: the communicator's lock is shared.
LockCommShared(t) ==
    /\ AtComm(t) /\ status[Clique(t)] = "ok"
    /\ holder' = [holder EXCEPT ![Comm(t)] = @ \cup {t}]
    /\ order' = [order EXCEPT ![Comm(t)] = Append(@, Group(t))]
    /\ DropClique(t)
    /\ Goto(t, "run")
    /\ UNCHANGED <<op, run_id, ready, status, communicators, check_vars, launched,
                   first_call>>

\* The communicator is locked, and only then the clique given up.
LockComm(t) ==
    /\ AtComm(t) /\ status[Clique(t)] = "ok"
    /\ holder[Comm(t)] = {}
    /\ holder' = [holder EXCEPT ![Comm(t)] = {t}]
    /\ order' = [order EXCEPT ![Comm(t)] = Append(@, Group(t))]
    /\ DropClique(t)
    /\ Goto(t, "run")
    /\ UNCHANGED <<op, run_id, ready, status, communicators, check_vars, launched,
                   first_call>>

\* The collective has run on the devices.
Complete(g) == launched[g] = Ranks

\* ExecuteOnStream returns and gives the communicator back.
Return(t) ==
    /\ holder' = [holder EXCEPT ![Comm(t)] = {}]
    /\ op' = [op EXCEPT ![t] = @ + 1]
    /\ Goto(t, IF op[t] = Len(Program[t[1]]) THEN "done" ELSE "call")

\* RunNcclCollective; the first call of a thunk does not return yet.
RunNcclCollective(t) ==
    /\ pc[t] = "run"
    /\ launched' = [launched EXCEPT ![Group(t)] = @ \cup {t[2]}]
    /\ \/ first_call[Group(t)] /\ Goto(t, "block") /\ UNCHANGED <<op, holder>>
       \/ ~first_call[Group(t)] /\ Return(t)
    /\ UNCHANGED <<clique_vars, check_vars, first_call, order>>

\* BlockHostUntilDone: it waits for its stream, holding the communicator.
BlockHostUntilDone(t) ==
    /\ pc[t] = "block" /\ Complete(Group(t))
    /\ first_call' = [first_call EXCEPT ![Group(t)] = FALSE]
    /\ Return(t)
    /\ UNCHANGED <<clique_vars, check_vars, launched, order>>

\* The async error thread wakes up and locks all_communicators.mu ...
BeginCheck ==
    /\ ~checking
    /\ checking' = TRUE /\ unchecked' = published
    /\ UNCHANGED <<pc, op, clique_vars, holder, published, launched, first_call, order>>

\* ... waits for every communicator in turn to be unlocked ...
CheckNcclAsyncError ==
    /\ checking /\ unchecked # <<>>
    /\ holder[Head(unchecked)] = {}
    /\ unchecked' = Tail(unchecked)
    /\ UNCHANGED <<pc, op, clique_vars, holder, published, checking, launched,
                   first_call, order>>

\* ... and sleeps again.
EndCheck ==
    /\ checking /\ unchecked = <<>>
    /\ checking' = FALSE
    /\ UNCHANGED <<pc, op, clique_vars, holder, published, unchecked, launched,
                   first_call, order>>

Step(t) ==
    \/ SkipRendezvous(t) \/ EnterRendezvous(t)
    \/ BeginInit(t) \/ (\E result \in {"ok", "error"} : InitRank(t, result))
    \/ Notify(t) \/ Publish(t) \/ ReturnStatus(t) \/ LockComm(t)
    \/ RunNcclCollective(t) \/ BlockHostUntilDone(t)

Meet(run) == \E c \in Cliques : GrantClique(run, c) \/ RefuseClique(run, c)

Check == BeginCheck \/ CheckNcclAsyncError \/ EndCheck

Work == (\E t \in Threads : Step(t)) \/ (\E run \in Runs : Meet(run))

Next == Work \/ Check

Spec == Init /\ [][Next]_vars

\* Some thread that can go on does so.  The work of the runs is finite, so this
\* is as good as fairness to each of them.  It has to be strong: a thread may
\* find all_communicators.mu locked again and again, but is not kept out of a
\* mutex that is free for 30 seconds between two checks.
FairSpec == Spec /\ SF_vars(Work) /\ WF_vars(Check)
-----------------------------------------------------------------------------
\* The groups of threads lock the communicators of a clique in one order on all
\* ranks: "this group of threads have exclusive access to the clique to prevent
\* threads from different groups locking communicators in the clique".  Where
\* other hosts take part it is the order of the run ids, the one order all hosts
\* agree on.
SameOrder ==
    /\ \A c \in Cliques, r, s \in Ranks :
          \A i \in 1 .. Len(order[<<c, r>>]) :
              i <= Len(order[<<c, s>>]) => order[<<c, r>>][i] = order[<<c, s>>][i]
    /\ \A m \in Comms : m[1] \notin LocalCliques =>
          \A i, j \in 1 .. Len(order[m]) : i < j => order[m][i][1] <= order[m][j][1]

\* All threads of a collective get their communicators or none does: nobody
\* launches a collective whose peers returned an error.
AllOrNobody ==
    \A t, u \in Threads :
        pc[t] = "failed" /\ t[1] = u[1] =>
            \A i \in 1 .. Len(order[<<Clique(t), u[2]>>]) :
                order[<<Clique(t), u[2]>>][i] # Group(t)

\* A group finds a clique either untouched or wholly initialized, so no rank is
\* ever initialized by two groups.
CliqueWholeWhenFree ==
    \A c \in Cliques : sharers[c] = {} /\ communicators[c] # {} => ready[c]

\* "Once `ready` has been notified, the communicators may be accessed without
\* synchronization": they and the status never change again.  A thread asks
\* for `ready` long before it registers its communicator, so this says that
\* nobody is inside ncclCommInitRank when another thread notifies.
ReadyIsFinal ==
    [][\A c \in Cliques : ready[c] =>
          communicators'[c] = communicators[c] /\ status'[c] = status[c]]_vars

\* The async error thread waits, with all_communicators.mu, for a communicator
\* whose holder waits for a peer that waits for all_communicators.mu.
CheckDeadlock ==
    \E t, u \in Threads :
        /\ pc[t] = "block" /\ pc[u] = "wait" /\ Group(t) = Group(u)
        /\ checking /\ unchecked # <<>> /\ Head(unchecked) = Comm(t)

\* Every collective returns, with an error or without, unless the async error
\* thread causes its deadlock.
CallsReturn ==
    \/ <>[]CheckDeadlock
    \/ \A t \in Threads : []<>(pc[t] \in {"done", "failed"})
=============================================================================
