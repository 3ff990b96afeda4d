-------------------------- MODULE NcclCliqueProofs --------------------------
(***************************************************************************)
(* Theorems on NcclClique, for any number of ranks, runs, cliques and      *)
(* collectives.  The properties speak of what has been locked; what makes  *)
(* them true is who shares a clique's Lock, what is known of a clique that *)
(* is not ready yet, and that a communicator's history holds exactly the   *)
(* collectives its rank has come to.                                       *)
(***************************************************************************)
EXTENDS NcclClique, TLAPS

HasClique == {"clique", "init", "notify", "wait", "comm"}
Coming    == {"clique", "init"}
Locked    == {"run", "block"}

(* A clique is shared by the threads that are between the rendezvous and    *)
(* the lock of their communicator, all of the run that acquired it last.    *)
SharersHaveClique ==
    \A t \in Threads, c \in Cliques :
        t \in sharers[c] <=> pc[t] \in HasClique /\ Clique(t) = c

SharersOfRun ==
    \A c \in Cliques : \A t \in sharers[c] : t[1] = run_id[c]

(* While a clique is being initialized, every rank that is not registered   *)
(* is on its way, and when all are registered somebody is about to notify:  *)
(* nobody is still inside ncclCommInitRank when the clique is ready.        *)
OnTheWay ==
    \A c \in Cliques : ~ready[c] /\ (sharers[c] # {} \/ communicators[c] # {}) =>
        /\ run_id[c] \in Runs
        /\ \A r \in Ranks \ communicators[c] :
              <<run_id[c], r>> \in sharers[c] /\ pc[<<run_id[c], r>>] \in Coming
        /\ communicators[c] = Ranks => \E t \in sharers[c] : pc[t] = "notify"

NotTwice ==
    \A c \in Cliques : \A t \in sharers[c] :
        (pc[t] \in Coming /\ ~ready[c]) => t[2] \notin communicators[c]

ReadyIsWhole ==
    /\ \A c \in Cliques : ready[c] => communicators[c] = Ranks
    /\ \A c \in Cliques : \A t \in sharers[c] :
          /\ pc[t] = "notify" => communicators[c] = Ranks
          /\ pc[t] = "comm" => ready[c]
          /\ pc[t] = "init" => ~ready[c]

(* Nobody has locked a communicator of a clique that is not ready, or whose *)
(* initialization failed.                                                   *)
UnusedUntilReady ==
    \A c \in Cliques, r \in Ranks :
        ~ready[c] \/ status[c] # "ok" => order[<<c, r>>] = <<>>

(* A thread that failed did so with its whole group, or with the clique.    *)
FailedTogether ==
    \A t \in Threads : pc[t] = "failed" =>
        \/ status[Clique(t)] # "ok"
        \/ \A u \in Members(t[1]) : pc[u] = "failed" /\ op[u] = op[t]

(* The history of a communicator: the collectives its rank has locked it    *)
(* for, each run's in the order of its program.                             *)
PastLock(o, p, t, i) == i < o[t] \/ (i = o[t] /\ p[t] \in Locked)
HasLocked(t, i) == PastLock(op, pc, t, i)

OnlyLocked ==
    \A c \in Cliques, r \in Ranks : \A k \in 1 .. Len(order[<<c, r>>]) :
        LET g == order[<<c, r>>][k] IN
        Program[g[1]][g[2]] = c /\ HasLocked(<<g[1], r>>, g[2])

AllLocked ==
    \A t \in Threads : \A i \in 1 .. Len(Program[t[1]]) :
        HasLocked(t, i) =>
            \E k \in 1 .. Len(order[<<Program[t[1]][i], t[2]>>]) :
                order[<<Program[t[1]][i], t[2]>>][k] = <<t[1], i>>

ProgramOrder ==
    \A m \in Comms : \A j, k \in 1 .. Len(order[m]) :
        (j < k /\ order[m][j][1] = order[m][k][1]) => order[m][j][2] < order[m][k][2]

RunsInOrder ==
    \A c \in Cliques \ LocalCliques, r \in Ranks :
        \A k \in 1 .. Len(order[<<c, r>>]) : order[<<c, r>>][k][1] <= run_id[c]

(* Without may_skip_rendezvous a group that shares the clique is the only   *)
(* one since all the histories had the same length.                         *)
SameLength(c, r, s) == Len(order[<<c, r>>]) = Len(order[<<c, s>>])

Ahead(t, c, s) ==
    LET n == Len(order[<<c, t[2]>>]) IN
    /\ Len(order[<<c, s>>]) = n + 1
    /\ order[<<c, s>>][n + 1] = Group(t)

OneGroup ==
    \A c \in Cliques \ SkipCliques :
        /\ sharers[c] = {} => \A r, s \in Ranks : SameLength(c, r, s)
        /\ \A t \in sharers[c], s \in Ranks :
              IF <<t[1], s>> \in sharers[c]
              THEN SameLength(c, t[2], s) /\ op[<<t[1], s>>] = op[t]
              ELSE status[c] = "ok" => Ahead(t, c, s)

Typed ==
    /\ TypeOK
    /\ op \in [Threads -> Nat]
    /\ \A t \in Threads : pc[t] \notin {"call", "done"} => op[t] <= Len(Program[t[1]])

(* A clique whose rendezvous nobody may skip, or that only one run uses.    *)
Uses(run, c) == \E i \in 1 .. Len(Program[run]) : Program[run][i] = c
OneAtATime(c) == c \in SkipCliques =>
    \A run, other \in Runs : Uses(run, c) /\ Uses(other, c) => run = other

SameOrderOn(c) ==
    \A r, s \in Ranks : \A i \in 1 .. Len(order[<<c, r>>]) :
        i <= Len(order[<<c, s>>]) => order[<<c, r>>][i] = order[<<c, s>>][i]

SameOrderOneAtATime ==
    /\ \A c \in Cliques : OneAtATime(c) => SameOrderOn(c)
    /\ \A m \in Comms : m[1] \notin LocalCliques =>
          \A i, j \in 1 .. Len(order[m]) : i < j => order[m][i][1] <= order[m][j][1]

(* Whoever launches or waits for a collective holds its communicator.       *)
HoldersRun == \A t \in Threads : pc[t] \in Locked => holder[Comm(t)] = {t}

CliqueInv ==
    SharersHaveClique /\ SharersOfRun /\ OnTheWay /\ NotTwice /\ ReadyIsWhole

HistoryInv ==
    /\ UnusedUntilReady /\ FailedTogether
    /\ OnlyLocked /\ AllLocked /\ ProgramOrder /\ RunsInOrder

OrderInv == OneGroup /\ SameOrderOneAtATime

NcclInv == Typed /\ HoldersRun /\ CliqueInv /\ HistoryInv /\ OrderInv
-----------------------------------------------------------------------------
(* What the kinds of the variables say of one thread.                       *)
LEMMA ThreadFacts ==
  ASSUME Typed, NEW t \in Threads
  PROVE  /\ t[1] \in Runs /\ t[2] \in Ranks /\ t = <<t[1], t[2]>>
         /\ t[1] \in Nat /\ op[t] \in Nat /\ op[t] >= 1 /\ pc[t] \in PC
         /\ Len(Program[t[1]]) \in Nat /\ op[t] <= Len(Program[t[1]]) + 1
         /\ Members(t[1]) \subseteq Threads
         /\ (pc[t] \notin {"call", "done"} \/ op[t] <= Len(Program[t[1]])) =>
               /\ op[t] \in 1 .. Len(Program[t[1]])
               /\ Clique(t) \in Cliques /\ Comm(t) \in Comms /\ Group(t) \in Groups
<1>1. /\ t[1] \in Runs /\ t[2] \in Ranks /\ t = <<t[1], t[2]>> /\ t[1] \in Nat
  <2>1. t[1] \in Runs /\ t[2] \in Ranks /\ t = <<t[1], t[2]>> BY SMT DEF Threads
  <2> QED BY <2>1, ProgramAssumption
<1>2. op[t] \in Nat /\ op[t] >= 1 /\ pc[t] \in PC /\ Len(Program[t[1]]) \in Nat
      /\ op[t] <= Len(Program[t[1]]) + 1
  BY <1>1, ProgramAssumption DEF Typed, TypeOK
<1>3. Members(t[1]) \subseteq Threads BY <1>1 DEF Members, Threads
<1>4. ASSUME pc[t] \notin {"call", "done"} \/ op[t] <= Len(Program[t[1]])
      PROVE  /\ op[t] \in 1 .. Len(Program[t[1]])
             /\ Clique(t) \in Cliques /\ Comm(t) \in Comms /\ Group(t) \in Groups
  <2>1. op[t] \in 1 .. Len(Program[t[1]]) BY <1>2, <1>4 DEF Typed
  <2>2. Clique(t) \in Cliques BY <1>1, <2>1, ProgramAssumption DEF Clique
  <2>3. Comm(t) \in Comms BY <1>1, <2>2 DEF Comm, Comms
  <2>4. Group(t) \in Groups BY <1>1, <2>1 DEF Group, Groups
  <2> QED BY <2>1, <2>2, <2>3, <2>4
<1> QED BY <1>1, <1>2, <1>3, <1>4

(* Where all threads of a run have arrived.                                 *)
LEMMA ArrivedFacts ==
  ASSUME Typed, NEW run \in Runs, NEW c \in Cliques, AllArrived(run, c)
  PROVE  /\ Members(run) \subseteq Threads
         /\ \A t \in Threads : t \in Members(run) <=> t[1] = run
         /\ \E i \in 1 .. Len(Program[run]) :
               /\ Program[run][i] = c
               /\ \A t \in Threads : t[1] = run =>
                     pc[t] = "rendezvous" /\ op[t] = i /\ Clique(t) = c
<1>1. /\ Members(run) \subseteq Threads
      /\ \A t \in Threads : t \in Members(run) <=> t[1] = run
  BY DEF Members, Threads
<1>2. PICK i \in 1 .. Len(Program[run]) : Program[run][i] = c /\
        \A t \in Members(run) : pc[t] = "rendezvous" /\ op[t] = i
  BY DEF AllArrived
<1>3. \A t \in Threads : t[1] = run =>
        pc[t] = "rendezvous" /\ op[t] = i /\ Clique(t) = c
  BY <1>1, <1>2 DEF Clique
<1> QED BY <1>1, <1>2, <1>3

(* A step of a thread leaves the type invariant true ...                    *)
LEMMA TypedStep ==
  ASSUME Typed, NEW t \in Threads, Step(t)
  PROVE  Typed'
<1> USE DEF Typed, TypeOK
<1>0. /\ t[1] \in Runs /\ t[2] \in Ranks /\ op[t] \in Nat /\ op[t] >= 1
      /\ Len(Program[t[1]]) \in Nat
  BY ThreadFacts
<1>1. CASE SkipRendezvous(t)
  <2>1. Clique(t) \in Cliques BY <1>1, ThreadFacts DEF SkipRendezvous
  <2> QED BY <1>1, <2>1 DEF SkipRendezvous, Goto, check_vars, PC
<1>2. CASE EnterRendezvous(t) \/ BeginInit(t)
  BY <1>2 DEF EnterRendezvous, BeginInit, Goto, check_vars, clique_vars, PC
<1>3. ASSUME NEW result \in {"ok", "error"}, InitRank(t, result) PROVE Typed'
  <2>1. Clique(t) \in Cliques BY <1>3, ThreadFacts DEF InitRank
  <2>2. pc' \in [Threads -> PC] BY <1>3 DEF InitRank, Goto, PC
  <2>3. /\ \A u \in Threads : pc'[u] = pc[u] \/ u = t
        /\ pc[t] = "init"
    BY <1>3 DEF InitRank, Goto
  <2>4. sharers' \in [Cliques -> SUBSET Threads]
    BY <1>3, <2>1 DEF InitRank, DropClique
  <2>5. /\ status' \in [Cliques -> {"ok", "error"}]
        /\ communicators' \in [Cliques -> SUBSET Ranks]
    BY <1>0, <1>3, <2>1 DEF InitRank
  <2>6. UNCHANGED <<op, run_id, ready, holder, check_vars, launched, first_call, order>>
    BY <1>3 DEF InitRank
  <2> QED BY <2>2, <2>3, <2>4, <2>5, <2>6 DEF check_vars
<1>4. CASE Notify(t)
  <2>1. Clique(t) \in Cliques BY <1>4, ThreadFacts DEF Notify
  <2> QED BY <1>4, <2>1 DEF Notify, Goto, check_vars, PC
<1>5. CASE Publish(t)
  <2>1. Comm(t) \in Comms BY <1>5, ThreadFacts DEF Publish
  <2>2. published' \in Seq(Comms) BY <1>5, <2>1 DEF Publish
  <2> QED BY <1>5, <2>2 DEF Publish, Goto, clique_vars, PC
<1>6. CASE ReturnStatus(t)
  <2>1. Clique(t) \in Cliques BY <1>6, ThreadFacts DEF ReturnStatus, AtComm
  <2> QED BY <1>6, <2>1 DEF ReturnStatus, AtComm, DropClique, Goto, check_vars, PC
<1>7. CASE LockComm(t)
  <2>1. Clique(t) \in Cliques /\ Comm(t) \in Comms /\ Group(t) \in Groups
    BY <1>7, ThreadFacts DEF LockComm, AtComm
  <2>2. holder' \in [Comms -> {{}} \cup {{u} : u \in Threads}] BY <1>7, <2>1 DEF LockComm
  <2>3. order' \in [Comms -> Seq(Groups)]
    <3>1. Append(order[Comm(t)], Group(t)) \in Seq(Groups) BY <2>1
    <3> QED BY <1>7, <2>1, <3>1 DEF LockComm
  <2>4. sharers' \in [Cliques -> SUBSET Threads] BY <1>7, <2>1 DEF LockComm, DropClique
  <2> QED BY <1>7, <2>2, <2>3, <2>4 DEF LockComm, AtComm, Goto, check_vars, PC
<1>8. ASSUME Return(t), pc[t] \in Locked
      PROVE  /\ holder' \in [Comms -> {{}} \cup {{u} : u \in Threads}]
             /\ pc' \in [Threads -> PC] /\ op' \in [Threads -> Nat]
             /\ \A u \in Threads : op'[u] \in 1 .. Len(Program[u[1]]) + 1
             /\ \A u \in Threads : pc'[u] \notin {"call", "done"} =>
                   op'[u] <= Len(Program[u[1]])
  <2>1. Comm(t) \in Comms /\ op[t] \in 1 .. Len(Program[t[1]])
    BY <1>8, ThreadFacts DEF Locked
  <2>2. holder' \in [Comms -> {{}} \cup {{u} : u \in Threads}] BY <1>8, <2>1 DEF Return
  <2>3. pc' \in [Threads -> PC] BY <1>8 DEF Return, Goto, PC
  <2>4. op' \in [Threads -> Nat] BY <1>8, <1>0 DEF Return
  <2>5. /\ \A u \in Threads : u # t => op'[u] = op[u] /\ pc'[u] = pc[u]
        /\ op'[t] = op[t] + 1 /\ pc'[t] \in {"call", "done"}
    BY <1>8 DEF Return, Goto
  <2>6. ASSUME NEW u \in Threads
        PROVE  /\ op'[u] \in 1 .. Len(Program[u[1]]) + 1
               /\ pc'[u] \notin {"call", "done"} => op'[u] <= Len(Program[u[1]])
    <3>1. CASE u = t BY <1>0, <2>1, <2>5, <3>1
    <3>2. CASE u # t BY <2>5, <3>2
    <3> QED BY <3>1, <3>2
  <2> QED BY <2>2, <2>3, <2>4, <2>6
<1>9. CASE RunNcclCollective(t)
  <2>1. Group(t) \in Groups /\ op[t] <= Len(Program[t[1]])
    BY <1>9, ThreadFacts DEF RunNcclCollective
  <2>2. launched' \in [Groups -> SUBSET Ranks] BY <1>0, <1>9, <2>1 DEF RunNcclCollective
  <2>3. /\ holder' \in [Comms -> {{}} \cup {{u} : u \in Threads}]
        /\ pc' \in [Threads -> PC] /\ op' \in [Threads -> Nat]
        /\ \A u \in Threads : op'[u] \in 1 .. Len(Program[u[1]]) + 1
        /\ \A u \in Threads : pc'[u] \notin {"call", "done"} =>
              op'[u] <= Len(Program[u[1]])
    <3>1. CASE Return(t) BY <1>8, <1>9, <3>1 DEF RunNcclCollective, Locked
    <3>2. CASE Goto(t, "block") /\ UNCHANGED <<op, holder>>
      BY <2>1, <3>2 DEF Goto, PC
    <3> QED BY <1>9, <3>1, <3>2 DEF RunNcclCollective
  <2> QED BY <1>9, <2>2, <2>3 DEF RunNcclCollective, clique_vars, check_vars
<1>10. CASE BlockHostUntilDone(t)
  <2>1. Group(t) \in Groups BY <1>10, ThreadFacts DEF BlockHostUntilDone
  <2>2. first_call' \in [Groups -> BOOLEAN] BY <1>10, <2>1 DEF BlockHostUntilDone
  <2> QED BY <1>8, <1>10, <2>2 DEF BlockHostUntilDone, Locked, clique_vars, check_vars
<1> QED BY <1>1, <1>2, <1>3, <1>4, <1>5, <1>6, <1>7, <1>9, <1>10 DEF Step

(* ... as does one of a rendezvous or of the async error thread.            *)
LEMMA TypedMeet ==
  ASSUME Typed, NEW run \in Runs, NEW c \in Cliques,
         GrantClique(run, c) \/ RefuseClique(run, c)
  PROVE  Typed'
<1> USE DEF Typed, TypeOK
<1>1. AllArrived(run, c) BY DEF GrantClique, RefuseClique
<1>2. /\ pc' \in [Threads -> PC]
      /\ \A t \in Threads : pc'[t] \notin {"call", "done"} => op[t] <= Len(Program[t[1]])
  <2>1. \A t \in Threads : t[1] = run => pc[t] = "rendezvous" BY <1>1, ArrivedFacts
  <2>2. /\ pc' \in [Threads -> PC]
        /\ \A t \in Threads : t[1] # run => pc'[t] = pc[t]
    BY DEF GrantClique, RefuseClique, PC
  <2> QED BY <2>1, <2>2
<1>3. CASE GrantClique(run, c)
  <2>1. Members(run) \subseteq Threads BY <1>1, ArrivedFacts
  <2> QED BY <1>2, <1>3, <2>1 DEF GrantClique, check_vars
<1>4. CASE RefuseClique(run, c)
  BY <1>2, <1>4 DEF RefuseClique, clique_vars, check_vars
<1> QED BY <1>3, <1>4

(* The async error thread keeps its list of communicators one.              *)
LEMMA TypedCheck ==
  ASSUME Typed, Check
  PROVE  Typed'
<1> USE DEF Typed, TypeOK
<1>1. CASE BeginCheck BY <1>1 DEF BeginCheck, clique_vars
<1>2. CASE CheckNcclAsyncError
  <2>1. unchecked' \in Seq(Comms) BY <1>2 DEF CheckNcclAsyncError
  <2> QED BY <1>2, <2>1 DEF CheckNcclAsyncError, clique_vars
<1>3. CASE EndCheck BY <1>3 DEF EndCheck, clique_vars
<1> QED BY <1>1, <1>2, <1>3 DEF Check
-----------------------------------------------------------------------------
(* A thread that shares no clique before or after its step.                 *)
LEMMA CliqueOutside ==
  ASSUME Typed, CliqueInv, NEW t \in Threads,
         pc[t] \notin HasClique, pc'[t] \notin HasClique,
         \A u \in Threads : u # t => pc'[u] = pc[u] /\ op'[u] = op[u],
         UNCHANGED <<sharers, run_id, ready, communicators>>
  PROVE  CliqueInv'
<1> USE DEF CliqueInv
<1>0. \A u \in Threads : u # t => Clique(u)' = Clique(u) BY DEF Clique
<1>1. SharersHaveClique' BY <1>0 DEF SharersHaveClique
<1>2. SharersOfRun' BY DEF SharersOfRun
<1>3. \A c \in Cliques : \A u \in sharers[c] : u \in Threads /\ u # t /\ pc'[u] = pc[u]
  BY DEF SharersHaveClique, Typed, TypeOK
<1>4. OnTheWay' BY <1>3 DEF OnTheWay
<1>5. NotTwice' BY <1>3 DEF NotTwice
<1>6. ReadyIsWhole' BY <1>3 DEF ReadyIsWhole
<1> QED BY <1>1, <1>2, <1>4, <1>5, <1>6

(* A thread gives up a clique that is ready.                                *)
LEMMA CliqueLeft ==
  ASSUME Typed, CliqueInv, NEW t \in Threads,
         pc[t] \in HasClique, pc'[t] \notin HasClique, ready[Clique(t)],
         \A u \in Threads : u # t => pc'[u] = pc[u],
         DropClique(t), UNCHANGED <<op, run_id, ready, communicators>>
  PROVE  CliqueInv'
<1> USE DEF CliqueInv
<1>0. \A u \in Threads : Clique(u)' = Clique(u) BY DEF Clique
<1>1. Clique(t) \in Cliques BY ThreadFacts DEF HasClique
<1>2. /\ sharers'[Clique(t)] = sharers[Clique(t)] \ {t}
      /\ \A c \in Cliques : c # Clique(t) => sharers'[c] = sharers[c]
  BY <1>1 DEF DropClique, Typed, TypeOK
<1>3. \A c \in Cliques : \A u \in sharers'[c] :
        u \in sharers[c] /\ u \in Threads /\ u # t /\ pc'[u] = pc[u]
  <2> SUFFICES ASSUME NEW c \in Cliques, NEW u \in sharers'[c]
               PROVE  u \in sharers[c] /\ u \in Threads /\ u # t
    OBVIOUS
  <2>1. u \in sharers[c] BY <1>2
  <2>2. u \in Threads BY <2>1 DEF Typed, TypeOK
  <2>3. u # t BY <1>2, <2>1 DEF SharersHaveClique
  <2> QED BY <2>1, <2>2, <2>3
<1>4. SharersHaveClique' BY <1>0, <1>2 DEF SharersHaveClique
<1>5. SharersOfRun' BY <1>3 DEF SharersOfRun
<1>6. OnTheWay'
  <2> SUFFICES ASSUME NEW c \in Cliques, ~ready[c],
                      sharers'[c] # {} \/ communicators[c] # {}
               PROVE  /\ run_id[c] \in Runs
                      /\ \A r \in Ranks \ communicators[c] :
                            /\ <<run_id[c], r>> \in sharers'[c]
                            /\ pc'[<<run_id[c], r>>] \in Coming
                      /\ communicators[c] = Ranks =>
                            \E u \in sharers'[c] : pc'[u] = "notify"
    BY DEF OnTheWay
  <2>1. sharers'[c] = sharers[c] BY <1>2
  <2> QED BY <1>3, <2>1 DEF OnTheWay
<1>7. NotTwice' BY <1>3 DEF NotTwice
<1>8. ReadyIsWhole' BY <1>3 DEF ReadyIsWhole
<1> QED BY <1>4, <1>5, <1>6, <1>7, <1>8

(* A thread that shares a clique goes on in it.                             *)
LEMMA StillShares ==
  ASSUME Typed, CliqueInv, NEW t \in Threads,
         pc[t] \in HasClique, pc'[t] \in HasClique,
         \A u \in Threads : u # t => pc'[u] = pc[u],
         UNCHANGED <<op, sharers, run_id>>
  PROVE  /\ SharersHaveClique' /\ SharersOfRun'
         /\ Clique(t) \in Cliques /\ t \in sharers[Clique(t)]
         /\ t[1] = run_id[Clique(t)]
         /\ \A c \in Cliques : \A u \in sharers[c] : u \in Threads
         /\ \A c \in Cliques : t \in sharers[c] => c = Clique(t)
<1> USE DEF CliqueInv
<1>0. \A u \in Threads : Clique(u)' = Clique(u) BY DEF Clique
<1>1. SharersHaveClique' BY <1>0 DEF SharersHaveClique
<1>2. SharersOfRun' BY DEF SharersOfRun
<1>3. Clique(t) \in Cliques BY ThreadFacts DEF HasClique
<1>4. t \in sharers[Clique(t)] /\ \A c \in Cliques : t \in sharers[c] => c = Clique(t)
  BY <1>3 DEF SharersHaveClique
<1> QED BY <1>1, <1>2, <1>3, <1>4 DEF SharersOfRun, Typed, TypeOK

(* A thread that skips the rendezvous shares a clique that is ready.        *)
LEMMA CliqueSkip ==
  ASSUME Typed, CliqueInv, NEW t \in Threads, SkipRendezvous(t)
  PROVE  CliqueInv'
<1> USE DEF CliqueInv
<1> DEFINE d == Clique(t)
<1>0. \A u \in Threads : Clique(u)' = Clique(u) BY DEF SkipRendezvous, Clique
<1>1. d \in Cliques /\ t[1] = run_id[d] /\ ready[d] /\ sharers[d] = {}
  BY ThreadFacts DEF SkipRendezvous, MaySkip
<1>2. /\ sharers'[d] = {t} /\ pc'[t] = "clique" /\ pc[t] = "call"
      /\ \A c \in Cliques : c # d => sharers'[c] = sharers[c]
      /\ \A u \in Threads : u # t => pc'[u] = pc[u]
      /\ UNCHANGED <<run_id, ready, communicators>>
  BY <1>1 DEF SkipRendezvous, Goto, Typed, TypeOK
<1>3. SharersHaveClique'
  <2> SUFFICES ASSUME NEW u \in Threads, NEW c \in Cliques
               PROVE  u \in sharers'[c] <=> pc'[u] \in HasClique /\ Clique(u) = c
    BY <1>0 DEF SharersHaveClique
  <2>1. CASE u = t BY <1>1, <1>2, <2>1 DEF SharersHaveClique, HasClique
  <2>2. CASE u # t BY <1>1, <1>2, <2>2 DEF SharersHaveClique
  <2> QED BY <2>1, <2>2
<1>4. \A c \in Cliques : c # d =>
        \A u \in sharers'[c] : u \in sharers[c] /\ u \in Threads /\ u # t /\ pc'[u] = pc[u]
  BY <1>2 DEF SharersHaveClique, HasClique, Typed, TypeOK
<1>5. SharersOfRun' BY <1>1, <1>2 DEF SharersOfRun
<1>6. OnTheWay' 
  <2> SUFFICES ASSUME NEW c \in Cliques, ~ready[c],
                      sharers'[c] # {} \/ communicators[c] # {}
               PROVE  /\ run_id[c] \in Runs
                      /\ \A r \in Ranks \ communicators[c] :
                            /\ <<run_id[c], r>> \in sharers'[c]
                            /\ pc'[<<run_id[c], r>>] \in Coming
                      /\ communicators[c] = Ranks =>
                            \E u \in sharers'[c] : pc'[u] = "notify"
    BY <1>2 DEF OnTheWay
  <2>1. sharers'[c] = sharers[c] /\ c # d BY <1>1, <1>2
  <2> QED BY <1>4, <2>1 DEF OnTheWay
<1>7. NotTwice' BY <1>1, <1>2, <1>4 DEF NotTwice
<1>8. ReadyIsWhole' BY <1>1, <1>2, <1>4 DEF ReadyIsWhole
<1> QED BY <1>3, <1>5, <1>6, <1>7, <1>8

(* When the last rank notifies, the clique is ready and whole.              *)
LEMMA CliqueNotify ==
  ASSUME Typed, CliqueInv, NEW t \in Threads, Notify(t)
  PROVE  CliqueInv'
<1> USE DEF CliqueInv
<1> DEFINE d == Clique(t)
<1>1. /\ pc[t] = "notify" /\ pc'[t] = "wait"
      /\ \A u \in Threads : u # t => pc'[u] = pc[u]
      /\ UNCHANGED <<op, sharers, run_id, communicators>>
  BY DEF Notify, Goto, Typed, TypeOK
<1>2. /\ SharersHaveClique' /\ SharersOfRun'
      /\ d \in Cliques /\ t \in sharers[d]
      /\ \A c \in Cliques : \A u \in sharers[c] : u \in Threads
      /\ \A c \in Cliques : t \in sharers[c] => c = d
  BY <1>1, StillShares DEF HasClique
<1>3. ready'[d] /\ \A c \in Cliques : c # d => ready'[c] = ready[c]
  BY <1>2 DEF Notify, Typed, TypeOK
<1>4. OnTheWay'
  <2> SUFFICES ASSUME NEW c \in Cliques, ~ready'[c],
                      sharers[c] # {} \/ communicators[c] # {}
               PROVE  /\ run_id[c] \in Runs
                      /\ \A r \in Ranks \ communicators[c] :
                            /\ <<run_id[c], r>> \in sharers[c]
                            /\ pc'[<<run_id[c], r>>] \in Coming
                      /\ communicators[c] = Ranks =>
                            \E u \in sharers[c] : pc'[u] = "notify"
    BY <1>1 DEF OnTheWay
  <2>1. c # d /\ ~ready[c] /\ \A u \in sharers[c] : pc'[u] = pc[u] BY <1>1, <1>2, <1>3
  <2> QED BY <2>1 DEF OnTheWay
<1>5. NotTwice' BY <1>1, <1>2, <1>3 DEF NotTwice
<1>6. ReadyIsWhole'
  <2>1. communicators[d] = Ranks BY <1>1, <1>2 DEF ReadyIsWhole
  <2>2. ASSUME NEW u \in sharers[d], pc'[u] = "init" PROVE FALSE
    <3>1. u \in Threads /\ pc[u] = "init" BY <1>1, <1>2, <2>2
    <3>2. u[2] \in Ranks BY <3>1, ThreadFacts
    <3>3. ~ready[d] BY <1>2, <2>2, <3>1 DEF ReadyIsWhole
    <3> QED BY <1>2, <2>1, <2>2, <3>1, <3>2, <3>3 DEF NotTwice, Coming
  <2> QED BY <1>1, <1>2, <1>3, <2>1, <2>2 DEF ReadyIsWhole
<1> QED BY <1>2, <1>4, <1>5, <1>6

(* After the notification a thread still shares the clique.                 *)
LEMMA CliquePublish ==
  ASSUME Typed, CliqueInv, NEW t \in Threads, Publish(t)
  PROVE  CliqueInv'
<1> USE DEF CliqueInv
<1> DEFINE d == Clique(t)
<1>1. /\ pc[t] = "wait" /\ pc'[t] = "comm" /\ ready[d]
      /\ \A u \in Threads : u # t => pc'[u] = pc[u]
      /\ UNCHANGED <<op, sharers, run_id, communicators, ready>>
  BY DEF Publish, Goto, Typed, TypeOK, clique_vars
<1>2. /\ SharersHaveClique' /\ SharersOfRun'
      /\ d \in Cliques /\ t \in sharers[d]
      /\ \A c \in Cliques : \A u \in sharers[c] : u \in Threads
      /\ \A c \in Cliques : t \in sharers[c] => c = d
  BY <1>1, StillShares DEF HasClique
<1>3. \A c \in Cliques : ~ready[c] => \A u \in sharers[c] : pc'[u] = pc[u]
  BY <1>1, <1>2
<1>4. OnTheWay' BY <1>1, <1>3 DEF OnTheWay
<1>5. NotTwice' BY <1>1, <1>3 DEF NotTwice
<1>6. ReadyIsWhole' BY <1>1, <1>2, <1>3 DEF ReadyIsWhole
<1> QED BY <1>2, <1>4, <1>5, <1>6

(* A thread that finds the clique not ready goes on to initialize its rank. *)
LEMMA CliqueBegin ==
  ASSUME Typed, CliqueInv, NEW t \in Threads, BeginInit(t)
  PROVE  CliqueInv'
<1> USE DEF CliqueInv
<1> DEFINE d == Clique(t)
<1>1. /\ pc[t] = "clique" /\ pc'[t] = "init" /\ ~ready[d]
      /\ \A u \in Threads : u # t => pc'[u] = pc[u]
      /\ UNCHANGED <<op, sharers, run_id, communicators, ready>>
  BY DEF BeginInit, Goto, Typed, TypeOK, clique_vars
<1>2. /\ SharersHaveClique' /\ SharersOfRun'
      /\ d \in Cliques /\ t \in sharers[d]
      /\ \A c \in Cliques : \A u \in sharers[c] : u \in Threads
      /\ \A c \in Cliques : t \in sharers[c] => c = d
  BY <1>1, StillShares DEF HasClique
<1>3. \A c \in Cliques : \A u \in sharers[c] :
        /\ pc'[u] \in Coming <=> pc[u] \in Coming
        /\ pc'[u] = pc[u] \/ (u = t /\ c = d)
  BY <1>1, <1>2 DEF Coming
<1>4. OnTheWay'
  <2>1. \A c \in Cliques : \A u \in sharers[c] : pc[u] = "notify" => pc'[u] = "notify"
    BY <1>1, <1>3
  <2> QED BY <1>1, <1>3, <2>1 DEF OnTheWay
<1>5. NotTwice' BY <1>1, <1>3 DEF NotTwice
<1>6. ReadyIsWhole' BY <1>1, <1>2, <1>3 DEF ReadyIsWhole
<1> QED BY <1>2, <1>4, <1>5, <1>6

(* Nobody registers a rank of a clique that is ready.                       *)
LEMMA InitNotReady ==
  ASSUME Typed, CliqueInv, NEW t \in Threads, NEW result \in {"ok", "error"},
         InitRank(t, result)
  PROVE  Clique(t) \in Cliques /\ pc[t] = "init" /\ ~ready[Clique(t)]
<1>1. Clique(t) \in Cliques /\ pc[t] = "init" BY ThreadFacts DEF InitRank
<1>2. t \in sharers[Clique(t)] BY <1>1 DEF CliqueInv, SharersHaveClique, HasClique
<1> QED BY <1>1, <1>2 DEF CliqueInv, ReadyIsWhole

(* A rank is registered, once, whether it was initialized or not.           *)
LEMMA CliqueInit ==
  ASSUME Typed, CliqueInv, NEW t \in Threads, NEW result \in {"ok", "error"},
         InitRank(t, result)
  PROVE  CliqueInv'
<1> USE DEF CliqueInv
<1> DEFINE d == Clique(t)
           init == communicators[d] \cup {t[2]}
<1>0. /\ \A u \in Threads : Clique(u)' = Clique(u)
      /\ UNCHANGED <<op, run_id, ready>>
  BY DEF InitRank, Clique
<1>1. d \in Cliques /\ pc[t] = "init" /\ t[2] \in Ranks /\ t = <<t[1], t[2]>>
  BY ThreadFacts DEF InitRank
<1>2. /\ t \in sharers[d] /\ t[1] = run_id[d]
      /\ \A c \in Cliques : t \in sharers[c] => c = d
  BY <1>1 DEF SharersHaveClique, SharersOfRun, HasClique
<1>12. ~ready[d] BY InitNotReady
<1>3. /\ communicators'[d] = init
      /\ \A c \in Cliques : c # d => communicators'[c] = communicators[c]
      /\ \A u \in Threads : u # t => pc'[u] = pc[u]
  <2>1. \A u \in Threads : u # t => pc'[u] = pc[u] BY DEF InitRank, Goto, Typed, TypeOK
  <2> QED BY <1>1, <2>1 DEF InitRank, Typed, TypeOK
<1>4. /\ pc'[t] \in {"notify", "wait", "failed"}
      /\ init = Ranks => pc'[t] = "notify"
      /\ pc'[t] = "notify" => init = Ranks
      /\ pc'[t] # "failed" => sharers' = sharers
      /\ pc'[t] = "failed" => DropClique(t)
  BY DEF InitRank, Goto, Typed, TypeOK
<1>5. /\ \A c \in Cliques : c # d => sharers'[c] = sharers[c]
      /\ sharers'[d] = IF pc'[t] = "failed" THEN sharers[d] \ {t} ELSE sharers[d]
  BY <1>1, <1>4 DEF DropClique, Typed, TypeOK
<1>6. \A c \in Cliques : \A u \in sharers'[c] : u \in sharers[c] /\ u \in Threads
  BY <1>5 DEF Typed, TypeOK
<1>7. SharersHaveClique'
  <2> SUFFICES ASSUME NEW u \in Threads, NEW c \in Cliques
               PROVE  u \in sharers'[c] <=> pc'[u] \in HasClique /\ Clique(u) = c
    BY <1>0 DEF SharersHaveClique
  <2>1. CASE u = t BY <1>1, <1>2, <1>4, <1>5, <2>1 DEF HasClique
  <2>2. CASE u # t BY <1>3, <1>5, <2>2 DEF SharersHaveClique
  <2> QED BY <2>1, <2>2
<1>8. SharersOfRun' BY <1>0, <1>6 DEF SharersOfRun
<1>9. OnTheWay'
  <2> SUFFICES ASSUME NEW c \in Cliques, ~ready[c],
                      sharers'[c] # {} \/ communicators'[c] # {}
               PROVE  /\ run_id[c] \in Runs
                      /\ \A r \in Ranks \ communicators'[c] :
                            /\ <<run_id[c], r>> \in sharers'[c]
                            /\ pc'[<<run_id[c], r>>] \in Coming
                      /\ communicators'[c] = Ranks =>
                            \E u \in sharers'[c] : pc'[u] = "notify"
    BY <1>0 DEF OnTheWay
  <2>1. CASE c = d
    <3>1. /\ run_id[d] \in Runs
          /\ \A r \in Ranks \ communicators[d] :
                <<run_id[d], r>> \in sharers[d] /\ pc[<<run_id[d], r>>] \in Coming
      BY <1>1, <1>2, <1>12 DEF OnTheWay
    <3>2. ASSUME NEW r \in Ranks \ init
          PROVE  <<run_id[d], r>> \in sharers'[d] /\ pc'[<<run_id[d], r>>] \in Coming
      <4>1. <<run_id[d], r>> # t BY <1>1
      <4>2. <<run_id[d], r>> \in Threads BY <3>1 DEF Threads
      <4> QED BY <1>3, <1>5, <3>1, <4>1, <4>2
    <3>3. init = Ranks => t \in sharers'[d] /\ pc'[t] = "notify"
      BY <1>2, <1>4, <1>5
    <3> QED BY <1>3, <2>1, <3>1, <3>2, <3>3
  <2>2. CASE c # d
    <3>1. sharers'[c] = sharers[c] /\ communicators'[c] = communicators[c]
      BY <1>3, <1>5, <2>2
    <3>2. \A u \in sharers[c] : pc'[u] = pc[u] BY <1>2, <1>3, <1>6, <2>2, <3>1
    <3> QED BY <3>1, <3>2 DEF OnTheWay
  <2> QED BY <2>1, <2>2
<1>10. NotTwice'
  <2> SUFFICES ASSUME NEW c \in Cliques, NEW u \in sharers'[c],
                      pc'[u] \in Coming, ~ready[c]
               PROVE  u[2] \notin communicators'[c]
    BY <1>0 DEF NotTwice
  <2>1. u \in sharers[c] /\ u \in Threads /\ u # t /\ pc[u] \in Coming
    BY <1>3, <1>4, <1>6 DEF Coming
  <2>2. u[2] \notin communicators[c] BY <2>1 DEF NotTwice
  <2>3. CASE c = d
    <3>1. u[1] = t[1] BY <1>2, <2>1, <2>3 DEF SharersOfRun
    <3>2. u[2] # t[2] BY <1>1, <2>1, <3>1 DEF Threads
    <3> QED BY <1>3, <2>2, <2>3, <3>2
  <2>4. CASE c # d BY <1>3, <2>2, <2>4
  <2> QED BY <2>3, <2>4
<1>11. ReadyIsWhole'
  <2>1. \A c \in Cliques : ready'[c] => communicators'[c] = Ranks
    BY <1>0, <1>1, <1>3, <1>12 DEF ReadyIsWhole
  <2>2. ASSUME NEW c \in Cliques, NEW u \in sharers'[c]
        PROVE  /\ pc'[u] = "notify" => communicators'[c] = Ranks
               /\ pc'[u] = "comm" => ready'[c]
               /\ pc'[u] = "init" => ~ready'[c]
    <3>1. u \in sharers[c] /\ u \in Threads BY <1>6
    <3>2. CASE u = t BY <1>2, <1>3, <1>4, <3>1, <3>2
    <3>3. CASE u # t
      <4>1. pc'[u] = pc[u] BY <1>3, <3>1, <3>3
      <4>2. pc[u] = "notify" => communicators[c] = Ranks /\ communicators'[c] = Ranks
        <5> SUFFICES ASSUME pc[u] = "notify"
                     PROVE  communicators[c] = Ranks /\ communicators'[c] = Ranks
          OBVIOUS
        <5>1. communicators[c] = Ranks BY <3>1 DEF ReadyIsWhole
        <5> QED BY <1>1, <1>3, <5>1
      <4> QED BY <1>0, <3>1, <4>1, <4>2 DEF ReadyIsWhole
    <3> QED BY <3>2, <3>3
  <2> QED BY <2>1, <2>2 DEF ReadyIsWhole
<1> QED BY <1>7, <1>8, <1>9, <1>10, <1>11

(* A clique is granted to a whole group, or refused to it.                  *)
LEMMA CliqueMeet ==
  ASSUME Typed, CliqueInv, NEW run \in Runs, NEW d \in Cliques,
         GrantClique(run, d) \/ RefuseClique(run, d)
  PROVE  CliqueInv'
<1> USE DEF CliqueInv
<1>0. /\ AllArrived(run, d) /\ sharers[d] = {}
      /\ UNCHANGED <<op, ready, communicators>>
  BY DEF GrantClique, RefuseClique, clique_vars
<1>1. /\ Members(run) \subseteq Threads
      /\ \A t \in Threads : t \in Members(run) <=> t[1] = run
      /\ \A t \in Threads : t[1] = run => pc[t] = "rendezvous" /\ Clique(t) = d
  BY <1>0, ArrivedFacts
<1>2. /\ \A t \in Threads : Clique(t)' = Clique(t)
      /\ \A t \in Threads : t[1] # run => pc'[t] = pc[t]
  BY <1>0 DEF GrantClique, RefuseClique, Clique
<1>3. \A c \in Cliques : \A t \in sharers[c] : t \in Threads /\ t[1] # run /\ pc'[t] = pc[t]
  <2>1. \A c \in Cliques : \A t \in sharers[c] : t \in Threads BY DEF Typed, TypeOK
  <2>2. \A c \in Cliques : \A t \in sharers[c] : t[1] # run
    BY <1>1, <2>1 DEF SharersHaveClique, HasClique
  <2> QED BY <1>2, <2>1, <2>2
<1>4. CASE GrantClique(run, d)
  <2>1. /\ sharers'[d] = Members(run) /\ run_id'[d] = run
        /\ \A c \in Cliques : c # d => sharers'[c] = sharers[c] /\ run_id'[c] = run_id[c]
        /\ \A t \in Threads : t[1] = run => pc'[t] = "clique"
    BY <1>4 DEF GrantClique, Typed, TypeOK
  <2>2. communicators[d] # {} => ready[d]
    <3> SUFFICES ASSUME communicators[d] # {}, ~ready[d] PROVE FALSE OBVIOUS
    <3>1. \A r \in Ranks : r \in communicators[d] BY <1>0 DEF OnTheWay
    <3>2. communicators[d] = Ranks BY <3>1 DEF Typed, TypeOK
    <3> QED BY <1>0, <3>2 DEF OnTheWay
  <2>3. SharersHaveClique'
    <3> SUFFICES ASSUME NEW u \in Threads, NEW c \in Cliques
                 PROVE  u \in sharers'[c] <=> pc'[u] \in HasClique /\ Clique(u) = c
      BY <1>2 DEF SharersHaveClique
    <3>1. CASE u[1] = run BY <1>1, <1>3, <2>1, <3>1 DEF HasClique
    <3>2. CASE u[1] # run BY <1>0, <1>1, <1>2, <2>1, <3>2 DEF SharersHaveClique
    <3> QED BY <3>1, <3>2
  <2>4. SharersOfRun'
    <3>1. \A t \in Members(run) : t[1] = run BY DEF Members
    <3> QED BY <2>1, <3>1 DEF SharersOfRun
  <2>5. OnTheWay'
    <3> SUFFICES ASSUME NEW c \in Cliques, ~ready[c],
                        sharers'[c] # {} \/ communicators[c] # {}
                 PROVE  /\ run_id'[c] \in Runs
                        /\ \A r \in Ranks \ communicators[c] :
                              /\ <<run_id'[c], r>> \in sharers'[c]
                              /\ pc'[<<run_id'[c], r>>] \in Coming
                        /\ communicators[c] = Ranks =>
                              \E u \in sharers'[c] : pc'[u] = "notify"
      BY <1>0 DEF OnTheWay
    <3>1. CASE c = d
      <4>1. communicators[d] = {} BY <2>2, <3>1
      <4>2. Ranks # {} BY <2>1, <3>1, <4>1 DEF Members
      <4>3. \A r \in Ranks : <<run, r>> \in Members(run) /\ <<run, r>> \in Threads
                             /\ <<run, r>>[1] = run
        BY DEF Members, Threads
      <4>4. \A r \in Ranks : <<run, r>> \in sharers'[d] /\ pc'[<<run, r>>] = "clique"
        BY <2>1, <4>3
      <4> QED BY <2>1, <3>1, <4>1, <4>2, <4>4 DEF Coming
    <3>2. CASE c # d
      <4>1. sharers'[c] = sharers[c] /\ run_id'[c] = run_id[c] BY <2>1, <3>2
      <4> QED BY <1>3, <4>1 DEF OnTheWay
    <3> QED BY <3>1, <3>2
  <2>6. NotTwice'
    <3> SUFFICES ASSUME NEW c \in Cliques, NEW u \in sharers'[c],
                        pc'[u] \in Coming, ~ready[c]
                 PROVE  u[2] \notin communicators[c]
      BY <1>0 DEF NotTwice
    <3>1. CASE c = d BY <2>2, <3>1
    <3>2. CASE c # d BY <1>3, <2>1, <3>2 DEF NotTwice
    <3> QED BY <3>1, <3>2
  <2>7. ReadyIsWhole'
    <3>1. \A t \in sharers'[d] : pc'[t] = "clique" BY <1>1, <2>1
    <3> QED BY <1>0, <1>3, <2>1, <3>1 DEF ReadyIsWhole
  <2> QED BY <2>3, <2>4, <2>5, <2>6, <2>7
<1>5. CASE RefuseClique(run, d)
  <2>1. /\ UNCHANGED <<sharers, run_id>>
        /\ \A t \in Threads : t[1] = run => pc'[t] = "failed"
    BY <1>5 DEF RefuseClique, clique_vars
  <2>2. SharersHaveClique'
    BY <1>1, <1>2, <2>1 DEF SharersHaveClique, HasClique
  <2>3. SharersOfRun' BY <2>1 DEF SharersOfRun
  <2>4. OnTheWay' BY <1>0, <1>3, <2>1 DEF OnTheWay
  <2>5. NotTwice' BY <1>0, <1>3, <2>1 DEF NotTwice
  <2>6. ReadyIsWhole' BY <1>0, <1>3, <2>1 DEF ReadyIsWhole
  <2> QED BY <2>2, <2>3, <2>4, <2>5, <2>6
<1> QED BY <1>4, <1>5

(* Who shares a clique, and how far it is, stays consistent in every step.  *)
LEMMA CliqueStep ==
  ASSUME Typed, CliqueInv, NEW t \in Threads, Step(t)
  PROVE  CliqueInv'
<1>1. CASE EnterRendezvous(t)
  BY <1>1, CliqueOutside DEF EnterRendezvous, Goto, clique_vars, HasClique, Typed, TypeOK
<1>2. CASE RunNcclCollective(t) \/ BlockHostUntilDone(t)
  <2>1. /\ pc[t] \notin HasClique /\ pc'[t] \notin HasClique
        /\ \A u \in Threads : u # t => pc'[u] = pc[u]
    BY <1>2 DEF RunNcclCollective, BlockHostUntilDone, Return, Goto, HasClique, Typed, TypeOK
  <2>2. \A u \in Threads : u # t => op'[u] = op[u]
    BY <1>2 DEF RunNcclCollective, BlockHostUntilDone, Return, Typed, TypeOK
  <2>3. UNCHANGED <<sharers, run_id, ready, communicators>>
    BY <1>2 DEF RunNcclCollective, BlockHostUntilDone, clique_vars
  <2> QED BY <2>1, <2>2, <2>3, CliqueOutside
<1>3. CASE ReturnStatus(t) \/ LockComm(t)
  <2>1. AtComm(t) BY <1>3 DEF ReturnStatus, LockComm
  <2>2. pc[t] \in HasClique /\ ready[Clique(t)]
    <3>1. pc[t] \in HasClique BY <2>1 DEF AtComm, HasClique
    <3>2. Clique(t) \in Cliques BY <3>1, ThreadFacts DEF HasClique
    <3> QED BY <2>1, <3>1, <3>2 DEF AtComm, CliqueInv, SharersHaveClique, ReadyIsWhole
  <2>3. /\ pc'[t] \notin HasClique
        /\ \A u \in Threads : u # t => pc'[u] = pc[u]
        /\ DropClique(t) /\ UNCHANGED <<op, run_id, ready, communicators>>
    BY <1>3 DEF ReturnStatus, LockComm, Goto, HasClique, Typed, TypeOK
  <2> QED BY <2>2, <2>3, CliqueLeft
<1> QED BY <1>1, <1>2, <1>3, CliqueSkip, CliqueBegin, CliqueInit, CliqueNotify,
           CliquePublish DEF Step
-----------------------------------------------------------------------------
(* The entries of the histories.                                            *)
LEMMA Entries ==
  ASSUME Typed, NEW c \in Cliques, NEW r \in Ranks
  PROVE  /\ <<c, r>> \in Comms
         /\ order[<<c, r>>] \in Seq(Groups) /\ Len(order[<<c, r>>]) \in Nat
         /\ \A k \in 1 .. Len(order[<<c, r>>]) :
               LET g == order[<<c, r>>][k] IN
               /\ g \in Groups /\ g[1] \in Runs /\ g[1] \in Nat /\ g = <<g[1], g[2]>>
               /\ g[2] \in 1 .. Len(Program[g[1]]) /\ <<g[1], r>> \in Threads
<1>1. <<c, r>> \in Comms BY DEF Comms
<1>2. order[<<c, r>>] \in Seq(Groups) /\ Len(order[<<c, r>>]) \in Nat
  BY <1>1 DEF Typed, TypeOK
<1>3. ASSUME NEW g \in Groups
      PROVE  /\ g[1] \in Runs /\ g[1] \in Nat /\ g = <<g[1], g[2]>>
             /\ g[2] \in 1 .. Len(Program[g[1]]) /\ <<g[1], r>> \in Threads
  <2>1. PICK run \in Runs : g \in {run} \X (1 .. Len(Program[run])) BY DEF Groups
  <2>2. g[1] = run /\ g = <<g[1], g[2]>> /\ g[2] \in 1 .. Len(Program[run]) BY <2>1
  <2>3. g[1] \in Nat BY <2>2, ProgramAssumption
  <2> QED BY <2>2, <2>3 DEF Threads
<1>4. \A k \in 1 .. Len(order[<<c, r>>]) : order[<<c, r>>][k] \in Groups BY <1>2
<1> QED BY <1>1, <1>2, <1>3, <1>4, Zenon

(* A program names cliques.                                                 *)
LEMMA Collectives ==
  ASSUME NEW run \in Runs, NEW i \in 1 .. Len(Program[run])
  PROVE  Program[run][i] \in Cliques
<1>1. Program[run] \in Seq(Cliques) BY ProgramAssumption
<1> QED BY <1>1

(* The run ids of the cliques, -1 before the first.                         *)
LEMMA RunIds == Typed => \A c \in Cliques : run_id[c] \in Int
<1> SUFFICES ASSUME Typed, NEW c \in Cliques PROVE run_id[c] \in Int OBVIOUS
<1>1. run_id[c] \in Runs \/ run_id[c] \in {-1} BY DEF Typed, TypeOK
<1>2. \A run \in Runs : run \in Int BY ProgramAssumption
<1>3. -1 \in Int OBVIOUS
<1> QED BY <1>1, <1>2, <1>3

(* The histories are what the places of the threads say as long as nothing  *)
(* is locked and nobody forgets that he has locked.                         *)
LEMMA HistoryKept ==
  ASSUME Typed, OnlyLocked, AllLocked, ProgramOrder, RunsInOrder,
         UNCHANGED order,
         \A u \in Threads : \A i \in Nat : PastLock(op', pc', u, i) <=> PastLock(op, pc, u, i),
         \A c \in Cliques \ LocalCliques : run_id'[c] \in Int /\ run_id[c] <= run_id'[c]
  PROVE  OnlyLocked' /\ AllLocked' /\ ProgramOrder' /\ RunsInOrder'
<1>1. OnlyLocked'
  <2> SUFFICES ASSUME NEW c \in Cliques, NEW r \in Ranks,
                      NEW k \in 1 .. Len(order'[<<c, r>>])
               PROVE  LET g == order'[<<c, r>>][k] IN
                      Program[g[1]][g[2]] = c /\ PastLock(op', pc', <<g[1], r>>, g[2])
    BY Zenon DEF OnlyLocked, HasLocked
  <2> DEFINE g == order[<<c, r>>][k]
  <2>1. Program[g[1]][g[2]] = c /\ PastLock(op, pc, <<g[1], r>>, g[2])
    BY DEF OnlyLocked, HasLocked
  <2>2. <<g[1], r>> \in Threads /\ g[2] \in 1 .. Len(Program[g[1]]) BY Entries
  <2>3. g[2] \in Nat BY <2>2
  <2> HIDE DEF g
  <2>4. PastLock(op', pc', <<g[1], r>>, g[2]) BY <2>1, <2>2, <2>3
  <2> QED BY <2>1, <2>4 DEF g
<1>2. AllLocked'
  <2> SUFFICES ASSUME NEW u \in Threads, NEW i \in 1 .. Len(Program[u[1]]),
                      PastLock(op', pc', u, i)
               PROVE  \E k \in 1 .. Len(order[<<Program[u[1]][i], u[2]>>]) :
                        order[<<Program[u[1]][i], u[2]>>][k] = <<u[1], i>>
    BY DEF AllLocked, HasLocked
  <2>1. i \in Nat OBVIOUS
  <2>2. PastLock(op, pc, u, i) BY <2>1
  <2> QED BY <2>2 DEF AllLocked, HasLocked
<1>3. ProgramOrder' BY DEF ProgramOrder
<1>4. RunsInOrder'
  <2> SUFFICES ASSUME NEW c \in Cliques \ LocalCliques, NEW r \in Ranks,
                      NEW k \in 1 .. Len(order[<<c, r>>])
               PROVE  order[<<c, r>>][k][1] <= run_id'[c]
    BY Zenon DEF RunsInOrder
  <2>1. order[<<c, r>>][k][1] <= run_id[c] BY DEF RunsInOrder
  <2>2. order[<<c, r>>][k][1] \in Int
    <3>1. c \in Cliques OBVIOUS
    <3>2. order[<<c, r>>][k][1] \in Nat BY <3>1, Entries
    <3> QED BY <3>2
  <2>3. run_id[c] \in Int BY RunIds
  <2> QED BY <2>1, <2>2, <2>3
<1> QED BY <1>1, <1>2, <1>3, <1>4

(* Steps of one thread that lock nothing.                                   *)
LEMMA HistoryOthers ==
  ASSUME Typed, HistoryInv, NEW t \in Threads,
         pc[t] # "failed",
         \A u \in Threads : u # t => pc'[u] = pc[u] /\ op'[u] = op[u],
         \A i \in Nat : PastLock(op', pc', t, i) <=> PastLock(op, pc, t, i),
         pc'[t] = "failed" => Clique(t)' \in Cliques /\ status'[Clique(t)'] # "ok",
         \A c \in Cliques : ready[c] => ready'[c] /\ status'[c] = status[c],
         \A c \in Cliques : status[c] # "ok" => status'[c] # "ok",
         UNCHANGED <<run_id, order>>
  PROVE  HistoryInv'
<1> USE DEF HistoryInv
<1>1. UnusedUntilReady' BY DEF UnusedUntilReady
<1>2. FailedTogether'
  <2> SUFFICES ASSUME NEW u \in Threads, pc'[u] = "failed"
               PROVE  \/ status'[Clique(u)'] # "ok"
                      \/ \A v \in Members(u[1]) : pc'[v] = "failed" /\ op'[v] = op'[u]
    BY DEF FailedTogether, Members
  <2>1. CASE u = t BY <2>1
  <2>2. CASE u # t
    <3>1. pc[u] = "failed" /\ op'[u] = op[u] /\ Clique(u)' = Clique(u)
      BY <2>2 DEF Clique
    <3>2. Clique(u) \in Cliques /\ Members(u[1]) \subseteq Threads BY <3>1, ThreadFacts
    <3>3. CASE status[Clique(u)] # "ok" BY <3>1, <3>2, <3>3
    <3>4. CASE \A v \in Members(u[1]) : pc[v] = "failed" /\ op[v] = op[u]
      BY <3>1, <3>2, <3>4
    <3> QED BY <3>1, <3>3, <3>4 DEF FailedTogether
  <2> QED BY <2>1, <2>2
<1>3. \A u \in Threads : \A i \in Nat : PastLock(op', pc', u, i) <=> PastLock(op, pc, u, i)
  <2> SUFFICES ASSUME NEW u \in Threads, NEW i \in Nat
               PROVE  PastLock(op', pc', u, i) <=> PastLock(op, pc, u, i)
    OBVIOUS
  <2>1. CASE u = t BY <2>1
  <2>2. CASE u # t BY <2>2 DEF PastLock
  <2> QED BY <2>1, <2>2
<1>4. \A c \in Cliques \ LocalCliques : run_id'[c] \in Int /\ run_id[c] <= run_id'[c]
  BY RunIds
<1> QED BY <1>1, <1>2, <1>3, <1>4, HistoryKept

(* The communicator of t is locked: its history grows by one entry.         *)
LEMMA HistoryGrows ==
  ASSUME Typed, NEW t \in Threads, LockComm(t)
  PROVE  LET d == Clique(t)
             n == Len(order[<<d, t[2]>>]) IN
         /\ d \in Cliques /\ t[2] \in Ranks /\ n \in Nat
         /\ Len(order'[<<d, t[2]>>]) = n + 1
         /\ order'[<<d, t[2]>>][n + 1] = <<t[1], op[t]>>
         /\ \A k \in 1 .. n : order'[<<d, t[2]>>][k] = order[<<d, t[2]>>][k]
         /\ \A c \in Cliques, r \in Ranks :
               (c # d \/ r # t[2]) => order'[<<c, r>>] = order[<<c, r>>]
<1> DEFINE d == Clique(t)
           m == <<d, t[2]>>
           n == Len(order[m])
<1>1. d \in Cliques /\ t[2] \in Ranks BY ThreadFacts DEF LockComm, AtComm
<1>2. m \in Comms /\ order[m] \in Seq(Groups) /\ n \in Nat BY <1>1, Entries
<1>3. Group(t) \in Groups /\ Group(t) = <<t[1], op[t]>>
  BY ThreadFacts DEF LockComm, AtComm, Group
<1>4. order'[m] = Append(order[m], Group(t)) BY <1>2 DEF LockComm, Comm, Typed, TypeOK
<1>5. ASSUME NEW c \in Cliques, NEW r \in Ranks, c # d \/ r # t[2]
      PROVE  order'[<<c, r>>] = order[<<c, r>>]
  <2>1. <<c, r>> # m BY <1>5
  <2>2. <<c, r>> \in Comms BY DEF Comms
  <2> QED BY <2>1, <2>2 DEF LockComm, Comm, Typed, TypeOK
<1>6. /\ Len(order'[m]) = n + 1 /\ order'[m][n + 1] = Group(t)
      /\ \A k \in 1 .. n : order'[m][k] = order[m][k]
  BY <1>2, <1>3, <1>4
<1> QED BY <1>1, <1>2, <1>3, <1>5, <1>6

(* The thread that locks shares a clique that is ready and whole.           *)
LEMMA LocksReady ==
  ASSUME Typed, CliqueInv, NEW t \in Threads, LockComm(t)
  PROVE  /\ ready[Clique(t)] /\ status[Clique(t)] = "ok"
         /\ t \in sharers[Clique(t)] /\ t[1] = run_id[Clique(t)]
         /\ pc[t] \notin Locked /\ pc'[t] = "run" /\ pc[t] \in HasClique
         /\ \A u \in Threads : u # t => pc'[u] = pc[u]
         /\ sharers'[Clique(t)] = sharers[Clique(t)] \ {t}
         /\ \A c \in Cliques : c # Clique(t) => sharers'[c] = sharers[c]
         /\ UNCHANGED <<op, run_id, ready, status>>
<1>1. pc[t] \in {"comm", "clique"} /\ pc[t] \in HasClique /\ pc[t] \notin Locked
  BY DEF LockComm, AtComm, HasClique, Locked
<1>2. Clique(t) \in Cliques BY <1>1, ThreadFacts
<1>3. t \in sharers[Clique(t)] /\ t[1] = run_id[Clique(t)]
  BY <1>1, <1>2 DEF CliqueInv, SharersHaveClique, SharersOfRun
<1>4. ready[Clique(t)]
  BY <1>2, <1>3 DEF LockComm, AtComm, CliqueInv, ReadyIsWhole
<1>5. /\ sharers'[Clique(t)] = sharers[Clique(t)] \ {t}
      /\ \A c \in Cliques : c # Clique(t) => sharers'[c] = sharers[c]
  BY <1>2 DEF LockComm, DropClique, Typed, TypeOK
<1>6. pc'[t] = "run" /\ \A u \in Threads : u # t => pc'[u] = pc[u]
  BY DEF LockComm, Goto, Typed, TypeOK
<1>7. status[Clique(t)] = "ok" /\ UNCHANGED <<op, run_id, ready, status>> BY DEF LockComm
<1> QED BY <1>1, <1>3, <1>4, <1>5, <1>6, <1>7

(* The collective that locks is the next one of its run on that rank.       *)
LEMMA HistoryLock ==
  ASSUME Typed, CliqueInv, HistoryInv, NEW t \in Threads, LockComm(t)
  PROVE  HistoryInv'
<1> USE DEF HistoryInv
<1> DEFINE d == Clique(t)
           n == Len(order[<<d, t[2]>>])
<1>0. /\ t[1] \in Runs /\ t[2] \in Ranks /\ t = <<t[1], t[2]>> /\ op[t] \in Nat
      /\ op[t] \in 1 .. Len(Program[t[1]]) /\ t[1] \in Nat
  BY ThreadFacts DEF LockComm, AtComm
<1>1. /\ ready[d] /\ status[d] = "ok" /\ t[1] = run_id[d]
      /\ pc[t] \notin Locked /\ pc'[t] = "run" /\ pc[t] \in HasClique
      /\ \A u \in Threads : u # t => pc'[u] = pc[u]
      /\ UNCHANGED <<op, run_id, ready, status>>
  BY LocksReady
<1>2. /\ d \in Cliques /\ n \in Nat
      /\ Len(order'[<<d, t[2]>>]) = n + 1
      /\ order'[<<d, t[2]>>][n + 1] = <<t[1], op[t]>>
      /\ \A k \in 1 .. n : order'[<<d, t[2]>>][k] = order[<<d, t[2]>>][k]
      /\ \A c \in Cliques, r \in Ranks :
            (c # d \/ r # t[2]) => order'[<<c, r>>] = order[<<c, r>>]
  BY HistoryGrows
<1>3. Program[t[1]][op[t]] = d BY DEF Clique
<1> HIDE DEF d
<1>4. ASSUME NEW c \in Cliques, NEW r \in Ranks, NEW k \in 1 .. Len(order'[<<c, r>>])
      PROVE  \/ k \in 1 .. Len(order[<<c, r>>]) /\ order'[<<c, r>>][k] = order[<<c, r>>][k]
             \/ c = d /\ r = t[2] /\ k = n + 1 /\ order'[<<c, r>>][k] = <<t[1], op[t]>>
  <2>1. CASE c = d /\ r = t[2]
    <3>1. k \in 1 .. n \/ k = n + 1 BY <1>2, <2>1
    <3> QED BY <1>2, <2>1, <3>1
  <2>2. CASE c # d \/ r # t[2] BY <1>2, <2>2
  <2> QED BY <2>1, <2>2
<1>5. ASSUME NEW c \in Cliques, NEW r \in Ranks, NEW k \in 1 .. Len(order[<<c, r>>])
      PROVE  k \in 1 .. Len(order'[<<c, r>>]) /\ order'[<<c, r>>][k] = order[<<c, r>>][k]
  BY <1>2
<1>6. ASSUME NEW u \in Threads, NEW i \in Nat
      PROVE  PastLock(op', pc', u, i) <=> PastLock(op, pc, u, i) \/ (u = t /\ i = op[t])
  BY <1>1 DEF PastLock, Locked
<1>7. ~PastLock(op, pc, t, op[t]) BY <1>0, <1>1 DEF PastLock
<1>8. UnusedUntilReady' BY <1>1, <1>2 DEF UnusedUntilReady
<1>9. FailedTogether'
  <2>1. \A u \in Threads : pc'[u] = "failed" => pc[u] = "failed" BY <1>1
  <2>2. pc[t] # "failed" BY <1>1 DEF HasClique
  <2>3. \A u \in Threads : Clique(u)' = Clique(u) BY <1>1 DEF Clique
  <2>4. \A u \in Threads : Members(u[1]) \subseteq Threads BY ThreadFacts
  <2> QED BY <1>1, <2>1, <2>2, <2>3, <2>4 DEF FailedTogether, Members
<1>10. OnlyLocked'
  <2> SUFFICES ASSUME NEW c \in Cliques, NEW r \in Ranks,
                      NEW k \in 1 .. Len(order'[<<c, r>>])
               PROVE  LET g == order'[<<c, r>>][k] IN
                      Program[g[1]][g[2]] = c /\ PastLock(op', pc', <<g[1], r>>, g[2])
    BY Zenon DEF OnlyLocked, HasLocked
  <2>1. CASE c = d /\ r = t[2] /\ order'[<<c, r>>][k] = <<t[1], op[t]>>
    BY <1>0, <1>3, <1>6, <2>1
  <2>2. CASE k \in 1 .. Len(order[<<c, r>>]) /\ order'[<<c, r>>][k] = order[<<c, r>>][k]
    <3> DEFINE g == order[<<c, r>>][k]
    <3>1. Program[g[1]][g[2]] = c /\ PastLock(op, pc, <<g[1], r>>, g[2])
      BY <2>2 DEF OnlyLocked, HasLocked
    <3>2. <<g[1], r>> \in Threads /\ g[2] \in 1 .. Len(Program[g[1]]) BY <2>2, Entries
    <3>3. g[2] \in Nat BY <3>2
    <3> HIDE DEF g
    <3>4. PastLock(op', pc', <<g[1], r>>, g[2]) BY <1>6, <3>1, <3>2, <3>3
    <3> QED BY <2>2, <3>1, <3>4 DEF g
  <2> QED BY <1>4, <2>1, <2>2
<1>11. AllLocked'
  <2> SUFFICES ASSUME NEW u \in Threads, NEW i \in 1 .. Len(Program[u[1]]),
                      PastLock(op', pc', u, i)
               PROVE  \E k \in 1 .. Len(order'[<<Program[u[1]][i], u[2]>>]) :
                        order'[<<Program[u[1]][i], u[2]>>][k] = <<u[1], i>>
    BY DEF AllLocked, HasLocked
  <2>1. CASE u = t /\ i = op[t]
    <3>1. n + 1 \in 1 .. Len(order'[<<d, t[2]>>]) BY <1>2
    <3> QED BY <1>2, <1>3, <2>1, <3>1
  <2>2. CASE PastLock(op, pc, u, i)
    <3> DEFINE c == Program[u[1]][i]
    <3>1. PICK k \in 1 .. Len(order[<<c, u[2]>>]) : order[<<c, u[2]>>][k] = <<u[1], i>>
      BY <2>2 DEF AllLocked, HasLocked
    <3>2. c \in Cliques /\ u[2] \in Ranks
      <4>1. u[1] \in Runs /\ u[2] \in Ranks BY ThreadFacts
      <4> QED BY <4>1, Collectives
    <3> HIDE DEF c
    <3>3. k \in 1 .. Len(order'[<<c, u[2]>>]) /\ order'[<<c, u[2]>>][k] = <<u[1], i>>
      BY <1>5, <3>1, <3>2
    <3> QED BY <3>3 DEF c
  <2>3. i \in Nat OBVIOUS
  <2> QED BY <1>6, <2>1, <2>2, <2>3
<1>12. ProgramOrder'
  <2> SUFFICES ASSUME NEW c \in Cliques, NEW r \in Ranks,
                      NEW j \in 1 .. Len(order'[<<c, r>>]),
                      NEW k \in 1 .. Len(order'[<<c, r>>]),
                      j < k, order'[<<c, r>>][j][1] = order'[<<c, r>>][k][1]
               PROVE  order'[<<c, r>>][j][2] < order'[<<c, r>>][k][2]
    BY DEF ProgramOrder, Comms
  <2>1. <<c, r>> \in Comms /\ Len(order[<<c, r>>]) \in Nat BY Entries
  <2>2. CASE k \in 1 .. Len(order[<<c, r>>]) /\ order'[<<c, r>>][k] = order[<<c, r>>][k]
    <3>1. j \in 1 .. Len(order[<<c, r>>]) BY <2>1, <2>2
    <3>2. order'[<<c, r>>][j] = order[<<c, r>>][j] BY <1>5, <3>1
    <3> QED BY <2>1, <2>2, <3>1, <3>2 DEF ProgramOrder
  <2>3. CASE c = d /\ r = t[2] /\ k = n + 1 /\ order'[<<c, r>>][k] = <<t[1], op[t]>>
    <3>1. j \in 1 .. n /\ j \in 1 .. Len(order[<<c, r>>]) BY <1>2, <2>3
    <3> DEFINE g == order[<<c, r>>][j]
    <3>2. order'[<<c, r>>][j] = g BY <1>5, <3>1
    <3>3. g[1] = t[1] /\ g[2] \in Nat
      <4>1. g[2] \in 1 .. Len(Program[g[1]]) BY <3>1, Entries
      <4>2. <<t[1], op[t]>>[1] = t[1] OBVIOUS
      <4> QED BY <2>3, <3>2, <4>1, <4>2
    <3>4. PastLock(op, pc, <<g[1], r>>, g[2]) BY <3>1 DEF OnlyLocked, HasLocked
    <3> HIDE DEF g
    <3>5. PastLock(op, pc, t, g[2]) BY <1>0, <2>3, <3>3, <3>4
    <3>6. g[2] < op[t] BY <1>1, <3>5 DEF PastLock
    <3> QED BY <2>3, <3>2, <3>6
  <2> QED BY <1>4, <2>2, <2>3
<1>13. RunsInOrder'
  <2> SUFFICES ASSUME NEW c \in Cliques, c \notin LocalCliques, NEW r \in Ranks,
                      NEW k \in 1 .. Len(order'[<<c, r>>])
               PROVE  order'[<<c, r>>][k][1] <= run_id[c]
    BY Zenon, <1>1 DEF RunsInOrder
  <2>1. CASE k \in 1 .. Len(order[<<c, r>>]) /\ order'[<<c, r>>][k] = order[<<c, r>>][k]
    BY <2>1 DEF RunsInOrder
  <2>2. CASE c = d /\ r = t[2] /\ k = n + 1 /\ order'[<<c, r>>][k] = <<t[1], op[t]>>
    BY <1>0, <1>1, <2>2
  <2> QED BY <1>4, <2>1, <2>2
<1> QED BY <1>8, <1>9, <1>10, <1>11, <1>12, <1>13

(* The histories follow the threads in every step ...                       *)
LEMMA HistoryStep ==
  ASSUME Typed, CliqueInv, HistoryInv, NEW t \in Threads, Step(t)
  PROVE  HistoryInv'
<1>0. op[t] \in Nat BY ThreadFacts
<1>1. ASSUME pc[t] \notin Locked, pc'[t] \notin Locked, op'[t] = op[t]
      PROVE  \A i \in Nat : PastLock(op', pc', t, i) <=> PastLock(op, pc, t, i)
  BY <1>1 DEF PastLock
<1>2. CASE \/ SkipRendezvous(t) \/ EnterRendezvous(t) \/ BeginInit(t)
           \/ Notify(t) \/ Publish(t)
  <2>1. /\ pc[t] \notin Locked \cup {"failed"} /\ pc'[t] \notin Locked \cup {"failed"}
        /\ \A u \in Threads : u # t => pc'[u] = pc[u]
    BY <1>2 DEF SkipRendezvous, EnterRendezvous, BeginInit, Notify, Publish, Goto, Locked,
                Typed, TypeOK
  <2>2. UNCHANGED <<op, status, run_id, order>>
    BY <1>2 DEF SkipRendezvous, EnterRendezvous, BeginInit, Notify, Publish, clique_vars
  <2>3. \A c \in Cliques : ready[c] => ready'[c]
    BY <1>2 DEF SkipRendezvous, EnterRendezvous, BeginInit, Notify, Publish, clique_vars,
                Typed, TypeOK
  <2> QED BY <1>1, <2>1, <2>2, <2>3, HistoryOthers
<1>3. ASSUME NEW result \in {"ok", "error"}, InitRank(t, result) PROVE HistoryInv'
  <2>1. /\ pc[t] = "init" /\ pc'[t] \in {"notify", "wait", "failed"}
        /\ pc'[t] = "failed" => result # "ok"
        /\ \A u \in Threads : u # t => pc'[u] = pc[u]
    BY <1>3 DEF InitRank, Goto, Typed, TypeOK
  <2>2. /\ UNCHANGED <<op, ready, run_id, order>> /\ ~ready[Clique(t)]
        /\ Clique(t)' = Clique(t)
    BY <1>3, InitNotReady DEF InitRank, Clique
  <2>3. Clique(t) \in Cliques BY <2>1, ThreadFacts
  <2>4. /\ status'[Clique(t)] = IF status[Clique(t)] = "ok" THEN result ELSE status[Clique(t)]
        /\ \A c \in Cliques : c # Clique(t) => status'[c] = status[c]
    BY <1>3, <2>3 DEF InitRank, Typed, TypeOK
  <2>5. /\ \A c \in Cliques : ready[c] => ready'[c] /\ status'[c] = status[c]
        /\ \A c \in Cliques : status[c] # "ok" => status'[c] # "ok"
        /\ pc'[t] = "failed" => Clique(t)' \in Cliques /\ status'[Clique(t)'] # "ok"
    BY <2>1, <2>2, <2>3, <2>4
  <2>6. \A i \in Nat : PastLock(op', pc', t, i) <=> PastLock(op, pc, t, i)
    BY <1>1, <2>1, <2>2 DEF Locked
  <2> QED BY <2>1, <2>2, <2>5, <2>6, HistoryOthers
<1>4. CASE ReturnStatus(t)
  <2>1. /\ pc[t] \in {"comm", "clique"} /\ pc'[t] = "failed"
        /\ \A u \in Threads : u # t => pc'[u] = pc[u]
    BY <1>4 DEF ReturnStatus, AtComm, Goto, Typed, TypeOK
  <2>2. /\ UNCHANGED <<op, ready, status, run_id, order>> /\ status[Clique(t)] # "ok"
        /\ Clique(t)' = Clique(t)
    BY <1>4 DEF ReturnStatus, Clique
  <2>3. Clique(t) \in Cliques BY <2>1, ThreadFacts
  <2>4. \A i \in Nat : PastLock(op', pc', t, i) <=> PastLock(op, pc, t, i)
    BY <1>1, <2>1, <2>2 DEF Locked
  <2> QED BY <2>1, <2>2, <2>3, <2>4, HistoryOthers
<1>5. CASE RunNcclCollective(t) \/ BlockHostUntilDone(t)
  <2>1. /\ pc[t] \in Locked /\ pc[t] # "failed"
        /\ \A u \in Threads : u # t => pc'[u] = pc[u]
        /\ \/ pc'[t] \in Locked /\ pc'[t] # "failed" /\ op' = op
           \/ pc'[t] \notin Locked \cup {"failed"} /\ op' = [op EXCEPT ![t] = @ + 1]
    BY <1>5 DEF RunNcclCollective, BlockHostUntilDone, Return, Goto, Locked, Typed, TypeOK
  <2>2. \A u \in Threads : u # t => op'[u] = op[u] BY <2>1 DEF Typed
  <2>3. \/ op'[t] = op[t] /\ pc'[t] \in Locked
        \/ op'[t] = op[t] + 1 /\ pc'[t] \notin Locked
    BY <2>1 DEF Typed
  <2>4. \A i \in Nat : PastLock(op', pc', t, i) <=> PastLock(op, pc, t, i)
    BY <1>0, <2>1, <2>3 DEF PastLock
  <2>5. UNCHANGED <<ready, status, run_id, order>>
    BY <1>5 DEF RunNcclCollective, BlockHostUntilDone, clique_vars
  <2> QED BY <2>1, <2>2, <2>4, <2>5, HistoryOthers
<1> QED BY <1>2, <1>3, <1>4, <1>5, HistoryLock DEF Step

(* ... and a rendezvous adds nothing to them.                               *)
LEMMA HistoryMeet ==
  ASSUME Typed, CliqueInv, HistoryInv, NEW run \in Runs, NEW d \in Cliques,
         GrantClique(run, d) \/ RefuseClique(run, d)
  PROVE  HistoryInv'
<1> USE DEF HistoryInv
<1>0. AllArrived(run, d) /\ UNCHANGED <<op, ready, status, order>>
  BY DEF GrantClique, RefuseClique, clique_vars
<1>1. PICK i \in 1 .. Len(Program[run]) :
        \A t \in Threads : t[1] = run => pc[t] = "rendezvous" /\ op[t] = i
  BY <1>0, ArrivedFacts
<1>2. /\ \A t \in Threads : t[1] # run => pc'[t] = pc[t]
      /\ \A t \in Threads : t[1] = run =>
            pc'[t] = IF GrantClique(run, d) THEN "clique" ELSE "failed"
      /\ GrantClique(run, d) => \A t \in Threads : t[1] = run => pc'[t] = "clique"
  BY DEF GrantClique, RefuseClique
<1>3. \A t \in Threads : \A j \in Nat : PastLock(op', pc', t, j) <=> PastLock(op, pc, t, j)
  <2> SUFFICES ASSUME NEW t \in Threads
               PROVE  op'[t] = op[t] /\ (pc'[t] \in Locked <=> pc[t] \in Locked)
    BY DEF PastLock
  <2> QED BY <1>0, <1>1, <1>2 DEF Locked
<1>4. \A c \in Cliques \ LocalCliques : run_id'[c] \in Int /\ run_id[c] <= run_id'[c]
  <2>1. CASE GrantClique(run, d)
    <3>1. /\ run_id'[d] = run /\ (d \in LocalCliques \/ run >= run_id[d])
          /\ \A c \in Cliques : c # d => run_id'[c] = run_id[c]
      BY <2>1 DEF GrantClique, RunIdInOrder, Typed, TypeOK
    <3>2. run \in Int /\ \A c \in Cliques : run_id[c] \in Int
      BY RunIds, ProgramAssumption
    <3> QED BY <3>1, <3>2
  <2>2. CASE RefuseClique(run, d) BY <2>2, RunIds DEF RefuseClique, clique_vars
  <2> QED BY <2>1, <2>2
<1>5. OnlyLocked' /\ AllLocked' /\ ProgramOrder' /\ RunsInOrder'
  BY <1>0, <1>3, <1>4, HistoryKept
<1>6. UnusedUntilReady' BY <1>0 DEF UnusedUntilReady
<1>7. FailedTogether'
  <2> SUFFICES ASSUME NEW u \in Threads, pc'[u] = "failed"
               PROVE  \/ status[Clique(u)] # "ok"
                      \/ \A v \in Members(u[1]) : pc'[v] = "failed" /\ op[v] = op[u]
    BY <1>0 DEF FailedTogether, Members, Clique
  <2>1. \A v \in Members(u[1]) : v \in Threads /\ v[1] = u[1]
    BY DEF Members, Threads
  <2>2. CASE u[1] = run
    <3>1. ~GrantClique(run, d) BY <1>2, <2>2
    <3> QED BY <1>1, <1>2, <2>1, <2>2, <3>1
  <2>3. CASE u[1] # run BY <1>2, <2>1, <2>3 DEF FailedTogether
  <2> QED BY <2>2, <2>3
<1> QED BY <1>5, <1>6, <1>7
-----------------------------------------------------------------------------
(* Only a thread that locks or returns changes who holds a communicator.    *)
LEMMA HoldersKept ==
  ASSUME Typed, HoldersRun, UNCHANGED holder,
         \A u \in Threads : pc'[u] \in Locked => pc[u] \in Locked /\ op'[u] = op[u]
  PROVE  HoldersRun'
BY DEF HoldersRun, Comm, Clique

(* Whoever launches holds the communicator, whatever step is taken.         *)
LEMMA HoldersStep ==
  ASSUME Typed, HoldersRun, NEW t \in Threads, Step(t)
  PROVE  HoldersRun'
<1> DEFINE m == Comm(t)
<1>1. CASE LockComm(t)
  <2>1. /\ m \in Comms /\ holder[m] = {} /\ UNCHANGED op
    BY <1>1, ThreadFacts DEF LockComm, AtComm
  <2>2. /\ holder'[m] = {t} /\ \A x \in Comms : x # m => holder'[x] = holder[x]
        /\ pc'[t] = "run" /\ \A u \in Threads : u # t => pc'[u] = pc[u]
    BY <1>1, <2>1 DEF LockComm, Goto, Typed, TypeOK
  <2>3. \A u \in Threads : Comm(u)' = Comm(u) BY <2>1 DEF Comm, Clique
  <2> SUFFICES ASSUME NEW u \in Threads, pc'[u] \in Locked PROVE holder'[Comm(u)] = {u}
    BY <2>3 DEF HoldersRun
  <2>4. CASE u = t BY <2>2, <2>4
  <2>5. CASE u # t
    <3>1. pc[u] \in Locked /\ holder[Comm(u)] = {u} BY <2>2, <2>5 DEF HoldersRun
    <3>2. Comm(u) \in Comms BY <3>1, ThreadFacts DEF Locked
    <3>3. Comm(u) # m BY <2>1, <3>1
    <3> QED BY <2>2, <3>1, <3>2, <3>3
  <2> QED BY <2>4, <2>5
<1>2. ASSUME Return(t), pc[t] \in Locked PROVE HoldersRun'
  <2>1. m \in Comms /\ holder[m] = {t} BY <1>2, ThreadFacts DEF HoldersRun, Locked
  <2>2. /\ \A x \in Comms : x # m => holder'[x] = holder[x]
        /\ pc'[t] \notin Locked
        /\ \A u \in Threads : u # t => pc'[u] = pc[u] /\ op'[u] = op[u]
    BY <1>2, <2>1 DEF Return, Goto, Locked, Typed, TypeOK
  <2> SUFFICES ASSUME NEW u \in Threads, pc'[u] \in Locked PROVE holder'[Comm(u)'] = {u}
    BY DEF HoldersRun
  <2>3. u # t /\ pc[u] \in Locked /\ Comm(u)' = Comm(u) BY <2>2 DEF Comm, Clique
  <2>4. holder[Comm(u)] = {u} BY <2>3 DEF HoldersRun
  <2>5. Comm(u) \in Comms BY <2>3, ThreadFacts DEF Locked
  <2>6. Comm(u) # m BY <2>1, <2>3, <2>4
  <2> QED BY <2>2, <2>3, <2>4, <2>5, <2>6
<1>3. CASE RunNcclCollective(t) \/ BlockHostUntilDone(t)
  <2>1. pc[t] \in Locked BY <1>3 DEF RunNcclCollective, BlockHostUntilDone, Locked
  <2>2. CASE Return(t) BY <1>2, <2>1, <2>2
  <2>3. CASE Goto(t, "block") /\ UNCHANGED <<op, holder>>
    BY <2>1, <2>3, HoldersKept DEF Goto, Typed, TypeOK
  <2> QED BY <1>3, <2>2, <2>3 DEF RunNcclCollective, BlockHostUntilDone
<1>4. CASE \/ SkipRendezvous(t) \/ EnterRendezvous(t) \/ BeginInit(t)
           \/ Notify(t) \/ Publish(t) \/ ReturnStatus(t)
  <2>1. \A u \in Threads : pc'[u] \in Locked => pc[u] \in Locked
    BY <1>4 DEF SkipRendezvous, EnterRendezvous, BeginInit, Notify, Publish, ReturnStatus,
                Goto, Locked, Typed, TypeOK
  <2>2. UNCHANGED <<op, holder>>
    BY <1>4 DEF SkipRendezvous, EnterRendezvous, BeginInit, Notify, Publish, ReturnStatus
  <2> QED BY <2>1, <2>2, HoldersKept
<1>5. ASSUME NEW result \in {"ok", "error"}, InitRank(t, result) PROVE HoldersRun'
  <2>1. \A u \in Threads : pc'[u] \in Locked => pc[u] \in Locked
    BY <1>5 DEF InitRank, Goto, Locked, Typed, TypeOK
  <2> QED BY <1>5, <2>1, HoldersKept DEF InitRank
<1> QED BY <1>1, <1>3, <1>4, <1>5 DEF Step
-----------------------------------------------------------------------------
(* As long as nothing is locked the order of the collectives stands.        *)
LEMMA OrderKept ==
  ASSUME UNCHANGED order, SameOrderOneAtATime
  PROVE  SameOrderOneAtATime'
BY DEF SameOrderOneAtATime, SameOrderOn, OneAtATime, Uses

(* What is said of the group of one clique, when nobody leaves it.          *)
LEMMA GroupKept ==
  ASSUME Typed, OneGroup,
         NEW c \in Cliques \ SkipCliques, sharers'[c] = sharers[c],
         \A r \in Ranks : order'[<<c, r>>] = order[<<c, r>>],
         \A u \in sharers[c] : op'[u] = op[u],
         status'[c] = "ok" => status[c] = "ok"
  PROVE  /\ sharers'[c] = {} => \A r, s \in Ranks : SameLength(c, r, s)'
         /\ \A t \in sharers'[c], s \in Ranks :
               IF <<t[1], s>> \in sharers'[c]
               THEN SameLength(c, t[2], s)' /\ op'[<<t[1], s>>] = op'[t]
               ELSE status'[c] = "ok" => Ahead(t, c, s)'
<1>1. \A t \in sharers[c], s \in Ranks :
        IF <<t[1], s>> \in sharers[c]
        THEN SameLength(c, t[2], s) /\ op[<<t[1], s>>] = op[t]
        ELSE status[c] = "ok" => Ahead(t, c, s)
  BY Zenon DEF OneGroup
<1>2. \A r, s \in Ranks : SameLength(c, r, s)' <=> SameLength(c, r, s)
  BY DEF SameLength
<1>3. \A t \in sharers[c] : t \in Threads /\ t[2] \in Ranks
  <2>1. \A t \in sharers[c] : t \in Threads BY DEF Typed, TypeOK
  <2> QED BY <2>1 DEF Threads
<1>4. \A t \in sharers[c], s \in Ranks : Ahead(t, c, s)' <=> Ahead(t, c, s)
  BY <1>3 DEF Ahead, Group
<1> QED BY <1>1, <1>2, <1>3, <1>4 DEF OneGroup

(* Somebody leaves a clique that nobody will use, or none does.             *)
LEMMA GroupsKept ==
  ASSUME Typed, OneGroup, UNCHANGED order,
         \A c \in Cliques : \A u \in sharers[c] : op'[u] = op[u],
         \A c \in Cliques : status'[c] = "ok" => status[c] = "ok",
         \A c \in Cliques \ SkipCliques :
            \/ sharers'[c] = sharers[c]
            \/ /\ sharers'[c] \subseteq sharers[c]
               /\ status'[c] # "ok"
               /\ \A r \in Ranks : order[<<c, r>>] = <<>>
  PROVE  OneGroup'
<1> SUFFICES ASSUME NEW c \in Cliques \ SkipCliques
             PROVE  /\ sharers'[c] = {} => \A r, s \in Ranks : SameLength(c, r, s)'
                    /\ \A t \in sharers'[c], s \in Ranks :
                          IF <<t[1], s>> \in sharers'[c]
                          THEN SameLength(c, t[2], s)' /\ op'[<<t[1], s>>] = op'[t]
                          ELSE status'[c] = "ok" => Ahead(t, c, s)'
  BY DEF OneGroup
<1>1. CASE sharers'[c] = sharers[c]
  <2>1. status'[c] = "ok" => status[c] = "ok" OBVIOUS
  <2>2. \A u \in sharers[c] : op'[u] = op[u] OBVIOUS
  <2> QED BY <1>1, <2>1, <2>2, GroupKept
<1>2. CASE /\ sharers'[c] \subseteq sharers[c] /\ status'[c] # "ok"
           /\ \A r \in Ranks : order[<<c, r>>] = <<>>
  <2>1. \A r, s \in Ranks : SameLength(c, r, s)' BY <1>2 DEF SameLength
  <2>2. \A t \in sharers[c] : t[2] \in Ranks
    <3>1. \A t \in sharers[c] : t \in Threads BY DEF Typed, TypeOK
    <3> QED BY <3>1 DEF Threads
  <2>3. ASSUME NEW t \in sharers'[c], NEW s \in Ranks, <<t[1], s>> \in sharers'[c]
        PROVE  op'[<<t[1], s>>] = op'[t]
    <3>1. t \in sharers[c] /\ <<t[1], s>> \in sharers[c] BY <1>2, <2>3
    <3>2. op[<<t[1], s>>] = op[t] BY <3>1 DEF OneGroup
    <3> QED BY <3>1, <3>2
  <2> QED BY <1>2, <2>1, <2>2, <2>3
<1> QED BY <1>1, <1>2

(* The lock is taken in the order the other ranks have: by the group that   *)
(* shares the clique where nobody skips the rendezvous ...                  *)
LEMMA LockInGroup ==
  ASSUME Typed, CliqueInv, OneGroup, NEW t \in Threads, LockComm(t),
         Clique(t) \notin SkipCliques, NEW s \in Ranks, s # t[2],
         Len(order[<<Clique(t), s>>]) > Len(order[<<Clique(t), t[2]>>])
  PROVE  /\ Len(order[<<Clique(t), s>>]) = Len(order[<<Clique(t), t[2]>>]) + 1
         /\ order[<<Clique(t), s>>][Len(order[<<Clique(t), t[2]>>]) + 1] = <<t[1], op[t]>>
<1> DEFINE d == Clique(t)
<1>1. d \in Cliques /\ t[2] \in Ranks BY HistoryGrows
<1>2. t \in sharers[d] /\ status[d] = "ok" BY LocksReady
<1>3. Len(order[<<d, s>>]) \in Nat /\ Len(order[<<d, t[2]>>]) \in Nat
  BY <1>1, Entries
<1>4. ~SameLength(d, t[2], s) BY <1>3 DEF SameLength
<1>5. Ahead(t, d, s) BY <1>1, <1>2, <1>4 DEF OneGroup
<1> QED BY <1>5 DEF Ahead, Group

(* ... and in the order of the program where only one run uses the clique.  *)
LEMMA LockInProgram ==
  ASSUME Typed, CliqueInv, HistoryInv, NEW t \in Threads, LockComm(t),
         SameOrderOn(Clique(t)),
         \A run, other \in Runs : Uses(run, Clique(t)) /\ Uses(other, Clique(t)) => run = other,
         NEW s \in Ranks, s # t[2],
         Len(order[<<Clique(t), s>>]) > Len(order[<<Clique(t), t[2]>>])
  PROVE  order[<<Clique(t), s>>][Len(order[<<Clique(t), t[2]>>]) + 1] = <<t[1], op[t]>>
<1> DEFINE d == Clique(t)
           r == t[2]
           n == Len(order[<<d, r>>])
           g == order[<<d, s>>][n + 1]
           u == <<t[1], s>>
<1>0. /\ t[1] \in Runs /\ t = <<t[1], t[2]>> /\ op[t] \in Nat
      /\ op[t] \in 1 .. Len(Program[t[1]])
      /\ d \in Cliques /\ r \in Ranks /\ u \in Threads
  BY ThreadFacts DEF LockComm, AtComm, Threads
<1>1. /\ Program[t[1]][op[t]] = d /\ pc[t] \notin Locked
  BY LocksReady DEF Clique
<1>2. n \in Nat /\ Len(order[<<d, s>>]) \in Nat BY <1>0, Entries
<1>3. n + 1 \in 1 .. Len(order[<<d, s>>]) BY <1>2
<1>4. /\ g[1] \in Runs /\ g = <<g[1], g[2]>> /\ g[2] \in 1 .. Len(Program[g[1]])
      /\ Program[g[1]][g[2]] = d /\ PastLock(op, pc, <<g[1], s>>, g[2])
  <2> HIDE DEF d, n
  <2>1. /\ g[1] \in Runs /\ g = <<g[1], g[2]>> /\ g[2] \in 1 .. Len(Program[g[1]])
    BY <1>0, <1>3, Entries, Zenon
  <2>2. Program[g[1]][g[2]] = d /\ PastLock(op, pc, <<g[1], s>>, g[2])
    BY <1>0, <1>3 DEF HistoryInv, OnlyLocked, HasLocked
  <2> QED BY <2>1, <2>2
<1>5. g[1] = t[1] BY <1>0, <1>1, <1>4 DEF Uses
<1>6. <<d, s>> \in Comms BY <1>0 DEF Comms
<1>7. \A k \in 1 .. n : k \in 1 .. Len(order[<<d, s>>])
                          /\ order[<<d, r>>][k] = order[<<d, s>>][k]
  <2>1. \A k \in 1 .. n : k \in 1 .. Len(order[<<d, s>>]) /\ k <= Len(order[<<d, s>>])
    BY <1>2
  <2> QED BY <1>0, <2>1 DEF SameOrderOn
<1> HIDE DEF d, g, n
<1>8. ~(g[2] < op[t])
  <2> SUFFICES ASSUME g[2] < op[t] PROVE FALSE OBVIOUS
  <2>1. PastLock(op, pc, t, g[2]) BY DEF PastLock
  <2>2. PICK k \in 1 .. n : order[<<d, r>>][k] = <<t[1], g[2]>>
    <3>1. AllLocked /\ HasLocked(t, g[2]) BY <2>1 DEF HistoryInv, HasLocked
    <3>2. g[2] \in 1 .. Len(Program[t[1]]) /\ Program[t[1]][g[2]] = d BY <1>4, <1>5
    <3> QED BY <3>1, <3>2 DEF AllLocked, n
  <2>3. k \in 1 .. Len(order[<<d, s>>]) /\ k < n + 1 BY <1>2, <1>7, <2>2
  <2>4. order[<<d, s>>][k] = <<t[1], g[2]>> BY <1>7, <2>2
  <2>5. order[<<d, s>>][k][1] = g[1] /\ order[<<d, s>>][k][2] = g[2] BY <1>5, <2>4
  <2>6. g[2] < g[2] BY <1>3, <1>6, <2>3, <2>5 DEF HistoryInv, ProgramOrder, g
  <2> QED BY <1>4, <2>6
<1>9. ~(op[t] < g[2])
  <2> SUFFICES ASSUME op[t] < g[2] PROVE FALSE OBVIOUS
  <2>0. op[u] \in Nat /\ g[2] \in Nat /\ u[1] = t[1] /\ u[2] = s
    BY <1>0, <1>4 DEF Typed
  <2>1. PastLock(op, pc, u, g[2]) BY <1>4, <1>5
  <2>2. PastLock(op, pc, u, op[t]) BY <1>0, <2>0, <2>1 DEF PastLock
  <2>3. PICK k \in 1 .. Len(order[<<d, s>>]) : order[<<d, s>>][k] = <<t[1], op[t]>>
    BY <1>0, <1>1, <2>0, <2>2 DEF HistoryInv, AllLocked, HasLocked
  <2>4. order[<<d, s>>][k][1] = t[1] /\ order[<<d, s>>][k][2] = op[t] BY <2>3
  <2>5. k # n + 1
    <3> SUFFICES ASSUME k = n + 1 PROVE FALSE OBVIOUS
    <3>1. g[2] = op[t] BY <2>4 DEF g
    <3> QED BY <1>0, <3>1
  <2>6. ~(n + 1 < k)
    <3> SUFFICES ASSUME n + 1 < k PROVE FALSE OBVIOUS
    <3>1. g[2] < op[t]
      BY <1>3, <1>5, <1>6, <2>3, <2>4 DEF HistoryInv, ProgramOrder, g
    <3> QED BY <1>0, <2>0, <3>1
  <2>7. k \in 1 .. n BY <1>2, <2>3, <2>5, <2>6
  <2>8. order[<<d, r>>][k] = <<t[1], op[t]>> BY <1>7, <2>3, <2>7
  <2>9. PastLock(op, pc, <<t[1], r>>, op[t])
    <3>1. OnlyLocked /\ k \in 1 .. Len(order[<<d, r>>]) BY <2>7 DEF HistoryInv, n
    <3>2. <<t[1], op[t]>>[1] = t[1] /\ <<t[1], op[t]>>[2] = op[t] OBVIOUS
    <3> QED BY <1>0, <2>8, <3>1, <3>2 DEF OnlyLocked, HasLocked
  <2> QED BY <1>0, <1>1, <2>9 DEF PastLock
<1>10. g[2] = op[t] BY <1>0, <1>4, <1>8, <1>9
<1> QED BY <1>4, <1>5, <1>10 DEF g, d, n

(* What a lock means for the group that shares the clique.                  *)
LEMMA GroupLock ==
  ASSUME Typed, CliqueInv, OneGroup, NEW t \in Threads, LockComm(t),
         NEW d \in Cliques \ SkipCliques, d = Clique(t)
  PROVE  /\ sharers'[d] = {} => \A r, s \in Ranks : SameLength(d, r, s)'
         /\ \A v \in sharers'[d], s \in Ranks :
               IF <<v[1], s>> \in sharers'[d]
               THEN SameLength(d, v[2], s)' /\ op'[<<v[1], s>>] = op'[v]
               ELSE status'[d] = "ok" => Ahead(v, d, s)'
<1> DEFINE n == Len(order[<<d, t[2]>>])
<1>0. /\ t[1] \in Runs /\ t = <<t[1], t[2]>> /\ t[1] \in Nat /\ op[t] \in Nat
  BY ThreadFacts
<1>1. /\ d \in Cliques /\ t[2] \in Ranks /\ n \in Nat
      /\ Len(order'[<<d, t[2]>>]) = n + 1
      /\ order'[<<d, t[2]>>][n + 1] = <<t[1], op[t]>>
      /\ \A c \in Cliques, r \in Ranks :
            (c # d \/ r # t[2]) => order'[<<c, r>>] = order[<<c, r>>]
  BY HistoryGrows
<1>2. /\ status[d] = "ok" /\ t \in sharers[d] /\ t[1] = run_id[d]
      /\ sharers'[d] = sharers[d] \ {t}
      /\ UNCHANGED op
  BY LocksReady
<1>3. \A s \in Ranks : IF <<t[1], s>> \in sharers[d]
                      THEN Len(order[<<d, s>>]) = n /\ op[<<t[1], s>>] = op[t]
                      ELSE /\ Len(order[<<d, s>>]) = n + 1
                           /\ order[<<d, s>>][n + 1] = <<t[1], op[t]>>
  BY <1>1, <1>2 DEF OneGroup, SameLength, Ahead, Group
<1>4. \A s \in Ranks : s # t[2] => order'[<<d, s>>] = order[<<d, s>>] BY <1>1
<1>5. \A s \in Ranks : s # t[2] =>
        (<<t[1], s>> \in sharers'[d] <=> <<t[1], s>> \in sharers[d])
  BY <1>0, <1>2
<1>6. \A s \in Ranks : IF <<t[1], s>> \in sharers'[d]
                      THEN Len(order'[<<d, s>>]) = n /\ op[<<t[1], s>>] = op[t]
                      ELSE /\ Len(order'[<<d, s>>]) = n + 1
                           /\ order'[<<d, s>>][n + 1] = <<t[1], op[t]>>
  BY <1>0, <1>1, <1>2, <1>3, <1>4, <1>5
<1>7. sharers'[d] = {} => \A r, s \in Ranks : SameLength(d, r, s)'
  BY <1>6 DEF SameLength
<1>8. ASSUME NEW v \in sharers'[d], NEW s \in Ranks
      PROVE  IF <<v[1], s>> \in sharers'[d]
             THEN SameLength(d, v[2], s)' /\ op'[<<v[1], s>>] = op'[v]
             ELSE Ahead(v, d, s)'
  <2>1. v \in sharers[d] BY <1>2
  <2>2. v[1] = t[1] BY <1>1, <1>2, <2>1 DEF CliqueInv, SharersOfRun
  <2>3. v \in Threads BY <1>1, <2>1 DEF Typed, TypeOK
  <2>4. v[2] \in Ranks /\ v = <<t[1], v[2]>> BY <2>2, <2>3 DEF Threads
  <2>5. Len(order'[<<d, v[2]>>]) = n /\ op[v] = op[t] BY <1>6, <2>4
  <2>6. CASE <<t[1], s>> \in sharers'[d] BY <1>2, <1>6, <2>2, <2>5, <2>6 DEF SameLength
  <2>7. CASE <<t[1], s>> \notin sharers'[d]
    <3>1. Len(order'[<<d, s>>]) = n + 1 /\ order'[<<d, s>>][n + 1] = <<t[1], op[t]>>
      BY <1>6, <2>7
    <3>2. Group(v)' = <<t[1], op[t]>> BY <1>2, <2>2, <2>5 DEF Group
    <3>3. Ahead(v, d, s)' <=> /\ Len(order'[<<d, s>>]) = Len(order'[<<d, v[2]>>]) + 1
                             /\ order'[<<d, s>>][Len(order'[<<d, v[2]>>]) + 1] = Group(v)'
      BY DEF Ahead
    <3> QED BY <2>2, <2>5, <2>7, <3>1, <3>2, <3>3
  <2> QED BY <2>2, <2>6, <2>7
<1> QED BY <1>7, <1>8

(* A lock keeps the order of the collectives the same on all ranks.         *)
LEMMA OrderLock ==
  ASSUME Typed, CliqueInv, HistoryInv, OrderInv, NEW t \in Threads, LockComm(t)
  PROVE  OrderInv'
<1> USE DEF OrderInv
<1> DEFINE d == Clique(t)
           n == Len(order[<<d, t[2]>>])
<1>0. /\ t[1] \in Runs /\ t = <<t[1], t[2]>> /\ t[1] \in Nat /\ op[t] \in Nat
  BY ThreadFacts
<1>1. /\ d \in Cliques /\ t[2] \in Ranks /\ n \in Nat
      /\ Len(order'[<<d, t[2]>>]) = n + 1
      /\ order'[<<d, t[2]>>][n + 1] = <<t[1], op[t]>>
      /\ \A k \in 1 .. n : order'[<<d, t[2]>>][k] = order[<<d, t[2]>>][k]
      /\ \A c \in Cliques, r \in Ranks :
            (c # d \/ r # t[2]) => order'[<<c, r>>] = order[<<c, r>>]
  BY HistoryGrows
<1>2. /\ status[d] = "ok" /\ t \in sharers[d] /\ t[1] = run_id[d]
      /\ sharers'[d] = sharers[d] \ {t}
      /\ \A c \in Cliques : c # d => sharers'[c] = sharers[c]
      /\ UNCHANGED <<op, run_id, status>>
  BY LocksReady
<1>3. ASSUME OneAtATime(d), NEW s \in Ranks, s # t[2],
             NEW i \in 1 .. n + 1, i <= Len(order[<<d, s>>])
      PROVE  order'[<<d, t[2]>>][i] = order[<<d, s>>][i]
  <2>1. SameOrderOn(d) BY <1>1, <1>3 DEF SameOrderOneAtATime
  <2>2. CASE i \in 1 .. n
    <3>1. order[<<d, t[2]>>][i] = order[<<d, s>>][i] BY <1>1, <1>3, <2>1, <2>2 DEF SameOrderOn
    <3> QED BY <1>1, <2>2, <3>1
  <2>3. CASE i = n + 1
    <3>1. Len(order[<<d, s>>]) \in Nat BY <1>1, Entries
    <3>2. Len(order[<<d, s>>]) > n BY <1>1, <1>3, <2>3, <3>1
    <3>3. CASE d \notin SkipCliques BY <1>1, <1>3, <2>3, <3>2, <3>3, LockInGroup
    <3>4. CASE d \in SkipCliques
      <4>1. \A run, other \in Runs : Uses(run, d) /\ Uses(other, d) => run = other
        BY <1>3, <3>4 DEF OneAtATime
      <4>2. order[<<d, s>>][n + 1] = <<t[1], op[t]>>
        BY <1>3, <2>1, <3>2, <4>1, LockInProgram
      <4> QED BY <1>1, <2>3, <4>2
    <3> QED BY <3>3, <3>4
  <2> QED BY <1>1, <2>2, <2>3
<1> HIDE DEF d
<1>4. ASSUME NEW c \in Cliques, OneAtATime(c)
      PROVE  SameOrderOn(c)'
  <2> SUFFICES ASSUME NEW r \in Ranks, NEW s \in Ranks,
                      NEW i \in 1 .. Len(order'[<<c, r>>]), i <= Len(order'[<<c, s>>])
               PROVE  order'[<<c, r>>][i] = order'[<<c, s>>][i]
    BY DEF SameOrderOn
  <2>1. CASE c # d \/ (r # t[2] /\ s # t[2])
    <3>1. order'[<<c, r>>] = order[<<c, r>>] /\ order'[<<c, s>>] = order[<<c, s>>]
      BY <1>1, <2>1
    <3> QED BY <1>4, <3>1 DEF SameOrderOneAtATime, SameOrderOn
  <2>2. CASE c = d /\ r = t[2] /\ s # t[2]
    <3>1. order'[<<c, s>>] = order[<<c, s>>] BY <1>1, <2>2
    <3>2. i \in 1 .. n + 1 BY <1>1, <2>2
    <3> QED BY <1>3, <1>4, <2>2, <3>1, <3>2
  <2>3. CASE c = d /\ r # t[2] /\ s = t[2]
    <3>1. order'[<<c, r>>] = order[<<c, r>>] BY <1>1, <2>3
    <3>2. Len(order[<<c, r>>]) \in Nat BY Entries
    <3>3. i \in 1 .. n + 1 /\ i <= Len(order[<<c, r>>]) BY <1>1, <2>3, <3>1, <3>2
    <3> QED BY <1>3, <1>4, <2>3, <3>1, <3>3
  <2> QED BY <2>1, <2>2, <2>3
<1>5. ASSUME NEW c \in Cliques, NEW r \in Ranks, c \notin LocalCliques,
             NEW i \in 1 .. Len(order'[<<c, r>>]), NEW j \in 1 .. Len(order'[<<c, r>>]), i < j
      PROVE  order'[<<c, r>>][i][1] <= order'[<<c, r>>][j][1]
  <2>0. <<c, r>> \in Comms /\ <<c, r>>[1] = c BY DEF Comms
  <2>1. CASE c # d \/ r # t[2]
    <3>1. order'[<<c, r>>] = order[<<c, r>>] BY <1>1, <2>1
    <3> QED BY <1>5, <2>0, <3>1 DEF SameOrderOneAtATime
  <2>2. CASE c = d /\ r = t[2] /\ j # n + 1
    <3>1. i \in 1 .. n /\ j \in 1 .. n BY <1>1, <1>5, <2>2
    <3>2. order'[<<c, r>>][i] = order[<<c, r>>][i] /\ order'[<<c, r>>][j] = order[<<c, r>>][j]
      BY <1>1, <2>2, <3>1
    <3> QED BY <1>5, <2>0, <2>2, <3>1, <3>2 DEF SameOrderOneAtATime
  <2>3. CASE c = d /\ r = t[2] /\ j = n + 1
    <3>1. i \in 1 .. n BY <1>1, <1>5, <2>3
    <3>2. order'[<<c, r>>][i] = order[<<c, r>>][i] BY <1>1, <2>3, <3>1
    <3>3. order[<<c, r>>][i][1] <= run_id[c]
      BY <1>5, <2>3, <3>1 DEF HistoryInv, RunsInOrder
    <3>4. order'[<<c, r>>][j][1] = run_id[c] BY <1>1, <1>2, <2>3
    <3> QED BY <3>2, <3>3, <3>4
  <2> QED BY <2>1, <2>2, <2>3
<1>6. SameOrderOneAtATime'
  <2>1. \A c \in Cliques : OneAtATime(c)' => OneAtATime(c) BY DEF OneAtATime, Uses
  <2>2. \A c \in Cliques : OneAtATime(c)' => SameOrderOn(c)' BY <1>4, <2>1
  <2>3. \A m \in Comms : m[1] \notin LocalCliques =>
          \A i, j \in 1 .. Len(order'[m]) : i < j => order'[m][i][1] <= order'[m][j][1]
    <3> SUFFICES ASSUME NEW m \in Comms, m[1] \notin LocalCliques,
                        NEW i \in 1 .. Len(order'[m]), NEW j \in 1 .. Len(order'[m]), i < j
                 PROVE  order'[m][i][1] <= order'[m][j][1]
      OBVIOUS
    <3>1. m[1] \in Cliques /\ m[2] \in Ranks /\ m = <<m[1], m[2]>> BY DEF Comms
    <3> QED BY <1>5, <3>1
  <2> QED BY <2>2, <2>3 DEF SameOrderOneAtATime
<1>7. OneGroup'
  <2> SUFFICES ASSUME NEW c \in Cliques \ SkipCliques
               PROVE  /\ sharers'[c] = {} => \A r, s \in Ranks : SameLength(c, r, s)'
                      /\ \A v \in sharers'[c], s \in Ranks :
                            IF <<v[1], s>> \in sharers'[c]
                            THEN SameLength(c, v[2], s)' /\ op'[<<v[1], s>>] = op'[v]
                            ELSE status'[c] = "ok" => Ahead(v, c, s)'
    BY DEF OneGroup
  <2>1. CASE c = d BY <2>1, GroupLock DEF d
  <2>2. CASE c # d
    <3>1. \A r \in Ranks : order'[<<c, r>>] = order[<<c, r>>] BY <1>1, <2>2
    <3>2. sharers'[c] = sharers[c] BY <1>2, <2>2
    <3> QED BY <1>2, <3>1, <3>2, GroupKept
  <2> QED BY <2>1, <2>2
<1> QED BY <1>6, <1>7

(* So does every step of a thread ...                                       *)
LEMMA OrderStep ==
  ASSUME Typed, CliqueInv, HistoryInv, OrderInv, NEW t \in Threads, Step(t)
  PROVE  OrderInv'
<1> USE DEF OrderInv
<1>0. /\ \A c \in Cliques : \A u \in sharers[c] : u \in Threads /\ pc[u] \in HasClique
      /\ \A c \in Cliques \ SkipCliques : c \in Cliques /\ c \notin SkipCliques
  BY DEF CliqueInv, SharersHaveClique, Typed, TypeOK
<1>1. CASE EnterRendezvous(t) \/ BeginInit(t) \/ Notify(t) \/ Publish(t)
  <2>1. UNCHANGED <<op, sharers, status, order>>
    BY <1>1 DEF EnterRendezvous, BeginInit, Notify, Publish, clique_vars
  <2> QED BY <2>1, OrderKept, GroupsKept
<1>2. CASE SkipRendezvous(t)
  <2>1. UNCHANGED <<op, status, order>> BY <1>2 DEF SkipRendezvous
  <2>2. \A c \in Cliques \ SkipCliques : sharers'[c] = sharers[c]
    BY <1>0, <1>2 DEF SkipRendezvous, MaySkip, Typed, TypeOK
  <2> QED BY <2>1, <2>2, OrderKept, GroupsKept
<1>3. CASE RunNcclCollective(t) \/ BlockHostUntilDone(t)
  <2>1. UNCHANGED <<sharers, status, order>> /\ pc[t] \notin HasClique
    BY <1>3 DEF RunNcclCollective, BlockHostUntilDone, clique_vars, HasClique
  <2>2. \A u \in Threads : u # t => op'[u] = op[u]
    BY <1>3 DEF RunNcclCollective, BlockHostUntilDone, Return, Typed
  <2>3. \A c \in Cliques : \A u \in sharers[c] : op'[u] = op[u] BY <1>0, <2>1, <2>2
  <2> QED BY <2>1, <2>3, OrderKept, GroupsKept
<1>4. ASSUME NEW result \in {"ok", "error"}, InitRank(t, result) PROVE OrderInv'
  <2> DEFINE d == Clique(t)
  <2>1. UNCHANGED <<op, order>> /\ ~ready[d] /\ pc[t] = "init"
    BY <1>4, InitNotReady DEF InitRank
  <2>2. d \in Cliques BY <2>1, ThreadFacts
  <2>3. /\ \A c \in Cliques : c # d => status'[c] = status[c]
        /\ status'[d] = IF status[d] = "ok" THEN result ELSE status[d]
    BY <1>4, <2>2 DEF InitRank, Typed, TypeOK
  <2>4. sharers' = sharers \/ (result # "ok" /\ DropClique(t)) BY <1>4 DEF InitRank
  <2>5. \A r \in Ranks : order[<<d, r>>] = <<>>
    BY <2>1, <2>2 DEF HistoryInv, UnusedUntilReady
  <2> HIDE DEF d
  <2>6. \A c \in Cliques : status'[c] = "ok" => status[c] = "ok"
    BY <2>3
  <2>7. ASSUME NEW c \in Cliques \ SkipCliques
        PROVE  \/ sharers'[c] = sharers[c]
               \/ /\ sharers'[c] \subseteq sharers[c] /\ status'[c] # "ok"
                  /\ \A r \in Ranks : order[<<c, r>>] = <<>>
    <3>1. CASE sharers' = sharers BY <3>1
    <3>2. CASE result # "ok" /\ DropClique(t)
      <4>1. /\ sharers'[d] \subseteq sharers[d]
            /\ c # d => sharers'[c] = sharers[c]
        BY <2>2, <3>2 DEF DropClique, Typed, TypeOK, d
      <4> QED BY <2>3, <2>5, <3>2, <4>1
    <3> QED BY <2>4, <3>1, <3>2
  <2> QED BY <2>1, <2>6, <2>7, OrderKept, GroupsKept
<1>5. CASE ReturnStatus(t)
  <2> DEFINE d == Clique(t)
  <2>1. UNCHANGED <<op, status, order>> /\ status[d] # "ok" /\ pc[t] \in {"comm", "clique"}
    BY <1>5 DEF ReturnStatus, AtComm
  <2>2. d \in Cliques BY <2>1, ThreadFacts
  <2>3. \A r \in Ranks : order[<<d, r>>] = <<>>
    BY <2>1, <2>2 DEF HistoryInv, UnusedUntilReady
  <2>4. /\ sharers'[d] \subseteq sharers[d]
        /\ \A c \in Cliques : c # d => sharers'[c] = sharers[c]
    BY <1>5, <2>2 DEF ReturnStatus, DropClique, Typed, TypeOK
  <2> HIDE DEF d
  <2>5. ASSUME NEW c \in Cliques \ SkipCliques
        PROVE  \/ sharers'[c] = sharers[c]
               \/ /\ sharers'[c] \subseteq sharers[c] /\ status'[c] # "ok"
                  /\ \A r \in Ranks : order[<<c, r>>] = <<>>
    BY <2>1, <2>3, <2>4
  <2> QED BY <2>1, <2>5, OrderKept, GroupsKept
<1> QED BY <1>1, <1>2, <1>3, <1>4, <1>5, OrderLock DEF Step

(* ... and every rendezvous.                                                *)
LEMMA OrderMeet ==
  ASSUME Typed, CliqueInv, OrderInv, NEW run \in Runs, NEW d \in Cliques,
         GrantClique(run, d) \/ RefuseClique(run, d)
  PROVE  OrderInv'
<1> USE DEF OrderInv
<1>0. AllArrived(run, d) /\ UNCHANGED <<op, status, order>>
  BY DEF GrantClique, RefuseClique, clique_vars
<1>1. CASE RefuseClique(run, d)
  <2>1. UNCHANGED sharers BY <1>1 DEF RefuseClique, clique_vars
  <2> QED BY <1>0, <2>1, OrderKept, GroupsKept
<1>2. CASE GrantClique(run, d)
  <2>1. /\ sharers[d] = {} /\ sharers'[d] = Members(run)
        /\ \A c \in Cliques : c # d => sharers'[c] = sharers[c]
    BY <1>2 DEF GrantClique, Typed, TypeOK
  <2>2. PICK i \in 1 .. Len(Program[run]) :
          \A t \in Threads : t[1] = run => op[t] = i
    BY <1>0, ArrivedFacts
  <2>3. \A t \in Members(run) : t \in Threads /\ t[1] = run /\ t[2] \in Ranks /\ op[t] = i
    BY <2>2 DEF Members, Threads
  <2>4. \A s \in Ranks : <<run, s>> \in Members(run) BY DEF Members
  <2>5. OneGroup'
    <3> SUFFICES ASSUME NEW c \in Cliques \ SkipCliques
                 PROVE  /\ sharers'[c] = {} => \A r, s \in Ranks : SameLength(c, r, s)'
                        /\ \A v \in sharers'[c], s \in Ranks :
                              IF <<v[1], s>> \in sharers'[c]
                              THEN SameLength(c, v[2], s)' /\ op'[<<v[1], s>>] = op'[v]
                              ELSE status'[c] = "ok" => Ahead(v, c, s)'
      BY DEF OneGroup
    <3>1. CASE c = d
      <4>1. \A r, s \in Ranks : SameLength(d, r, s) BY <2>1, <3>1 DEF OneGroup
      <4>2. \A r, s \in Ranks : SameLength(d, r, s)' BY <1>0, <4>1 DEF SameLength
      <4> QED BY <1>0, <2>1, <2>3, <2>4, <3>1, <4>2
    <3>2. CASE c # d
      <4>1. sharers'[c] = sharers[c] BY <2>1, <3>2
      <4> QED BY <1>0, <4>1, GroupKept
    <3> QED BY <3>1, <3>2
  <2> QED BY <1>0, <2>5, OrderKept
<1> QED BY <1>1, <1>2
-----------------------------------------------------------------------------
(* The async error thread and stuttering leave all of it alone.             *)
LEMMA NothingMoves ==
  ASSUME Typed, HoldersRun, CliqueInv, HistoryInv, OrderInv,
         UNCHANGED <<pc, op, clique_vars, holder, launched, first_call, order>>
  PROVE  HoldersRun' /\ CliqueInv' /\ HistoryInv' /\ OrderInv'
<1>0. UNCHANGED <<sharers, run_id, ready, status, communicators>> BY DEF clique_vars
<1>1. HoldersRun' BY HoldersKept
<1>2. CliqueInv'
  BY <1>0 DEF CliqueInv, SharersHaveClique, SharersOfRun, OnTheWay, NotTwice, ReadyIsWhole,
              Clique
<1>3. HistoryInv'
  <2>1. \A c \in Cliques \ LocalCliques : run_id'[c] \in Int /\ run_id[c] <= run_id'[c]
    BY <1>0, RunIds
  <2>2. OnlyLocked' /\ AllLocked' /\ ProgramOrder' /\ RunsInOrder'
    BY <2>1, HistoryKept DEF HistoryInv
  <2>3. UnusedUntilReady' BY <1>0 DEF HistoryInv, UnusedUntilReady
  <2>4. FailedTogether' BY <1>0 DEF HistoryInv, FailedTogether, Clique, Members
  <2> QED BY <2>2, <2>3, <2>4 DEF HistoryInv
<1>4. OrderInv' BY <1>0, OrderKept, GroupsKept DEF OrderInv
<1> QED BY <1>1, <1>2, <1>3, <1>4

(* In the beginning nobody shares or has locked anything.                   *)
LEMMA InitNccl == Init => NcclInv
<1> SUFFICES ASSUME Init PROVE NcclInv OBVIOUS
<1>1. Typed
  <2>1. /\ pc \in [Threads -> PC] /\ op \in [Threads -> Nat]
        /\ \A t \in Threads : pc[t] = "call" /\ op[t] = 1
    BY DEF Init, PC
  <2>2. \A t \in Threads : Len(Program[t[1]]) \in Nat
    BY ProgramAssumption DEF Threads
  <2>3. \A t \in Threads : op[t] \in 1 .. Len(Program[t[1]]) + 1 BY <2>1, <2>2
  <2>4. /\ sharers \in [Cliques -> SUBSET Threads]
        /\ run_id \in [Cliques -> Runs \cup {-1}]
        /\ ready \in [Cliques -> BOOLEAN]
        /\ status \in [Cliques -> {"ok", "error"}]
        /\ communicators \in [Cliques -> SUBSET Ranks]
        /\ holder \in [Comms -> {{}} \cup {{t} : t \in Threads}]
    BY DEF Init
  <2>5. published = <<>> /\ unchecked = <<>> /\ checking = FALSE BY DEF Init
  <2>6. <<>> \in Seq(Comms) /\ <<>> \in Seq(Groups) OBVIOUS
  <2>7. /\ launched \in [Groups -> SUBSET Ranks]
        /\ order \in [Comms -> Seq(Groups)]
    BY <2>6 DEF Init
  <2>8. first_call \in [Groups -> BOOLEAN]
    <3>1. PICK fresh \in BOOLEAN : first_call = [g \in Groups |-> fresh] BY DEF Init
    <3> QED BY <3>1
  <2>9. \A t \in Threads : pc[t] \notin {"call", "done"} => op[t] <= Len(Program[t[1]])
    BY <2>1
  <2> QED BY <2>1, <2>3, <2>4, <2>5, <2>6, <2>7, <2>8, <2>9 DEF Typed, TypeOK
<1>2. /\ \A t \in Threads : pc[t] = "call" /\ op[t] = 1
      /\ \A c \in Cliques : sharers[c] = {} /\ ~ready[c] /\ communicators[c] = {}
  BY DEF Init
<1>3. \A c \in Cliques, r \in Ranks : order[<<c, r>>] = <<>> /\ Len(order[<<c, r>>]) = 0
  BY DEF Init, Comms
<1>4. HoldersRun BY <1>2 DEF HoldersRun, Locked
<1>5. CliqueInv
  BY <1>2 DEF CliqueInv, SharersHaveClique, SharersOfRun, OnTheWay, NotTwice, ReadyIsWhole,
              HasClique
<1>6. \A m \in Comms : order[m] = <<>> /\ Len(order[m]) = 0 BY DEF Init
<1>7. HistoryInv
  <2>1. UnusedUntilReady /\ FailedTogether
    BY <1>2, <1>3 DEF UnusedUntilReady, FailedTogether
  <2>2. OnlyLocked /\ ProgramOrder /\ RunsInOrder
    BY <1>3, <1>6 DEF OnlyLocked, ProgramOrder, RunsInOrder
  <2>3. AllLocked BY <1>2 DEF AllLocked, HasLocked, PastLock, Locked
  <2> QED BY <2>1, <2>2, <2>3 DEF HistoryInv
<1>8. OrderInv
  BY <1>2, <1>3, <1>6 DEF OrderInv, OneGroup, SameLength, SameOrderOneAtATime, SameOrderOn
<1> QED BY <1>1, <1>4, <1>5, <1>7, <1>8 DEF NcclInv

(* The invariant is inductive.                                              *)
LEMMA NextNccl == NcclInv /\ [Next]_vars => NcclInv'
<1> SUFFICES ASSUME NcclInv, [Next]_vars PROVE NcclInv' OBVIOUS
<1> USE DEF NcclInv
<1>1. ASSUME NEW t \in Threads, Step(t) PROVE NcclInv'
  BY <1>1, TypedStep, HoldersStep, CliqueStep, HistoryStep, OrderStep
<1>2. ASSUME NEW run \in Runs, NEW c \in Cliques,
             GrantClique(run, c) \/ RefuseClique(run, c)
      PROVE  NcclInv'
  <2>1. HoldersRun'
    <3>1. \A u \in Threads : pc'[u] \in Locked => pc[u] \in Locked
      BY <1>2 DEF GrantClique, RefuseClique, Locked
    <3>2. UNCHANGED <<op, holder>> BY <1>2 DEF GrantClique, RefuseClique
    <3> QED BY <3>1, <3>2, HoldersKept
  <2> QED BY <1>2, <2>1, TypedMeet, CliqueMeet, HistoryMeet, OrderMeet
<1>3. CASE Check
  <2>1. UNCHANGED <<pc, op, clique_vars, holder, launched, first_call, order>>
    BY <1>3 DEF Check, BeginCheck, CheckNcclAsyncError, EndCheck
  <2> QED BY <1>3, <2>1, TypedCheck, NothingMoves
<1>4. CASE UNCHANGED vars
  <2>1. UNCHANGED <<pc, op, clique_vars, holder, launched, first_call, order>>
    BY <1>4 DEF vars
  <2>2. Typed' BY <1>4 DEF vars, clique_vars, check_vars, Typed, TypeOK
  <2> QED BY <2>1, <2>2, NothingMoves
<1> QED BY <1>1, <1>2, <1>3, <1>4 DEF Next, Work, Meet

(* It holds in every state of every behaviour.                              *)
LEMMA NcclInvariant == Spec => []NcclInv
<1> QED BY InitNccl, NextNccl, PTL DEF Spec

(* All variables keep their kinds; no thread runs past its program.         *)
THEOREM TypeOKTheorem == Spec => []TypeOK
<1>1. NcclInv => TypeOK BY DEF NcclInv, Typed
<1> QED BY <1>1, NcclInvariant, PTL

(* A clique that nobody shares is either untouched or ready: no group finds *)
(* one that another has initialized in part, whatever failed there.         *)
THEOREM CliqueWholeTheorem == Spec => []CliqueWholeWhenFree
<1>1. NcclInv => CliqueWholeWhenFree
  <2> SUFFICES ASSUME NcclInv, NEW c \in Cliques, sharers[c] = {}, communicators[c] # {},
                      ~ready[c]
               PROVE  FALSE
    BY DEF CliqueWholeWhenFree
  <2>1. \A r \in Ranks : r \in communicators[c] BY DEF NcclInv, CliqueInv, OnTheWay
  <2>2. communicators[c] = Ranks BY <2>1 DEF NcclInv, Typed, TypeOK
  <2> QED BY <2>2 DEF NcclInv, CliqueInv, OnTheWay
<1> QED BY <1>1, NcclInvariant, PTL

(* When one thread of a collective has failed, no other has locked or will  *)
(* lock its communicator for it: nobody launches without its peers.         *)
THEOREM AllOrNobodyTheorem == Spec => []AllOrNobody
<1>1. NcclInv => AllOrNobody
  <2> USE DEF NcclInv, HistoryInv
  <2> SUFFICES ASSUME NcclInv, NEW t \in Threads, NEW u \in Threads,
                      pc[t] = "failed", t[1] = u[1],
                      NEW i \in 1 .. Len(order[<<Clique(t), u[2]>>]),
                      order[<<Clique(t), u[2]>>][i] = Group(t)
               PROVE  FALSE
    BY DEF AllOrNobody
  <2>1. Clique(t) \in Cliques /\ op[t] \in Nat BY ThreadFacts
  <2>2. u[2] \in Ranks /\ u = <<t[1], u[2]>> /\ u \in Members(t[1])
    BY DEF Threads, Members
  <2>3. status[Clique(t)] = "ok"
    <3> SUFFICES ASSUME status[Clique(t)] # "ok" PROVE FALSE OBVIOUS
    <3>1. order[<<Clique(t), u[2]>>] = <<>> BY <2>1, <2>2 DEF UnusedUntilReady
    <3> QED BY <3>1
  <2>4. pc[u] = "failed" /\ op[u] = op[t] BY <2>2, <2>3 DEF FailedTogether
  <2>5. PastLock(op, pc, <<Group(t)[1], u[2]>>, Group(t)[2])
    BY <2>1, <2>2 DEF OnlyLocked, HasLocked
  <2>6. Group(t)[1] = t[1] /\ Group(t)[2] = op[t] BY DEF Group
  <2>7. PastLock(op, pc, u, op[t]) BY <2>2, <2>5, <2>6
  <2> QED BY <2>1, <2>4, <2>7 DEF PastLock, Locked
<1> QED BY <1>1, NcclInvariant, PTL

(* The communicators of a clique are locked in one order on all ranks, and  *)
(* in the order of the run ids if other hosts take part.  This is shown for *)
(* every clique whose rendezvous nobody may skip, and for those of the P2P  *)
(* stream that a single run uses: when two runs share one, a thread of the  *)
(* first may skip while the second is granted the clique.                   *)
THEOREM SameOrderOneAtATimeTheorem == Spec => []SameOrderOneAtATime
<1>1. NcclInv => SameOrderOneAtATime BY DEF NcclInv, OrderInv
<1> QED BY <1>1, NcclInvariant, PTL

(* So it holds of all cliques when no two runs share one of the P2P stream. *)
THEOREM SameOrderTheorem ==
  ASSUME \A c \in Cliques : OneAtATime(c)
  PROVE  Spec => []SameOrder
<1>1. SameOrderOneAtATime => SameOrder
  BY DEF SameOrderOneAtATime, SameOrder, SameOrderOn
<1> QED BY <1>1, SameOrderOneAtATimeTheorem, PTL

(* What `ready` publishes is final: the status and the registered ranks of  *)
(* a clique do not change once it is notified, although a thread registers  *)
(* its rank long after it has looked at `ready`.                            *)
THEOREM ReadyIsFinalTheorem == Spec => ReadyIsFinal
<1>1. NcclInv /\ [Next]_vars =>
        [\A c \in Cliques : ready[c] =>
            communicators'[c] = communicators[c] /\ status'[c] = status[c]]_vars
  <2> SUFFICES ASSUME NcclInv, [Next]_vars, NEW c \in Cliques, ready[c]
               PROVE  communicators'[c] = communicators[c] /\ status'[c] = status[c]
    OBVIOUS
  <2>1. ASSUME NEW t \in Threads, NEW result \in {"ok", "error"}, InitRank(t, result)
        PROVE  communicators'[c] = communicators[c] /\ status'[c] = status[c]
    <3>1. c # Clique(t) BY <2>1, InitNotReady DEF NcclInv
    <3> QED BY <2>1, <3>1 DEF InitRank, NcclInv, Typed, TypeOK
  <2>2. ASSUME NEW t \in Threads, Step(t)
        PROVE  communicators'[c] = communicators[c] /\ status'[c] = status[c]
    BY <2>1, <2>2 DEF Step, SkipRendezvous, EnterRendezvous, BeginInit, Notify, Publish, ReturnStatus,
              LockComm, RunNcclCollective, BlockHostUntilDone, clique_vars
  <2>3. CASE Check
    BY <2>3 DEF Check, BeginCheck, CheckNcclAsyncError, EndCheck, clique_vars
  <2>4. ASSUME NEW run \in Runs, Meet(run)
        PROVE  communicators'[c] = communicators[c] /\ status'[c] = status[c]
    BY <2>4 DEF Meet, GrantClique, RefuseClique, clique_vars
  <2>5. CASE UNCHANGED vars BY <2>5 DEF vars, clique_vars
  <2> QED BY <2>2, <2>3, <2>4, <2>5 DEF Next, Work
<1> QED BY <1>1, NcclInvariant, PTL DEF Spec, ReadyIsFinal

(* No two threads launch on a communicator, or wait for it, at once.        *)
THEOREM OneHolderTheorem ==
  Spec => [](\A t, u \in Threads :
      (pc[t] \in Locked /\ pc[u] \in Locked /\ Comm(t) = Comm(u)) => t = u)
<1>1. NcclInv => \A t, u \in Threads :
        (pc[t] \in Locked /\ pc[u] \in Locked /\ Comm(t) = Comm(u)) => t = u
  <2> SUFFICES ASSUME HoldersRun, NEW t \in Threads, NEW u \in Threads,
                      pc[t] \in Locked, pc[u] \in Locked, Comm(t) = Comm(u)
               PROVE  t = u
    BY DEF NcclInv
  <2>1. holder[Comm(t)] = {t} /\ holder[Comm(u)] = {u} BY DEF HoldersRun
  <2> QED BY <2>1
<1> QED BY <1>1, NcclInvariant, PTL
=============================================================================
