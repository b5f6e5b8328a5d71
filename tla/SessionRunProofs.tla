-------------------------- MODULE SessionRunProofs --------------------------
(***************************************************************************)
(* Proofs about SessionRun: types, and, when the lock calls of two          *)
(* processes do not overlap, that a session has one process, that its file  *)
(* is always fit for a resume, that phases stay completed and that posts    *)
(* are accounted for.                                                       *)
(***************************************************************************)
EXTENDS SessionRun, TLAPS

\* Who has the lock of a session, at each point of acquireLock and after it.
OneAcquiring ==
    \A p, q \in Procs : pc[p] \in Acquiring /\ pc[q] \in Acquiring => p = q
OwnsLock(p) ==
    /\ pc[p] \in Holding \cup {"release"} => lock[num[p]] = "pid" /\ owner[num[p]] = p
    /\ pc[p] = "write" => lock[num[p]] = "empty" /\ owner[num[p]] = p
    /\ pc[p] = "steal" => lock[num[p]] # "pid" \/ owner[num[p]] = NoProc
    /\ pc[p] = "recreate" => lock[num[p]] = "free"
LockInv == OneAcquiring /\ \A p \in Procs : OwnsLock(p)

\* What is known of a state, wherever it is: phases are completed in their
\* order, and the posts of a confirmed session were checked.
Sound(state, posts) ==
    /\ "act" \in state.done => "sense" \in state.done
    /\ "confirm" \in state.done => "act" \in state.done /\ state.posts \subseteq posts
StateAt(p) ==
    /\ Sound(mem[p], checked) /\ mem[p].is = "state"
    /\ pc[p] \in Phases => NextPhase(mem[p]) = {pc[p]}
    /\ pc[p] = "posted" => NextPhase(mem[p]) = {"act"}
    /\ flight[p] # 0 => pc[p] = "posted"
    /\ pc[p] \in {"clear", "drop"} => NextPhase(file[num[p]]) = {}
StateInv ==
    /\ \A n \in Sessions : Sound(file[n], checked)
    /\ \A p \in Procs : StateAt(p)

RunInv == TypeOK /\ LockInv /\ StateInv /\ CrashSafe /\ PostsAccounted

----------------------------------------------------------------------------
LEMMA StateTypes ==
    /\ FreshState \in SessionState /\ FreshState.is = "state"
    /\ FreshState.done = {} /\ FreshState.posts = {}
    /\ NoFile \in SessionState /\ NoFile.is = "none" /\ NoFile.done = {} /\ NoFile.posts = {}
    /\ TornFile \in SessionState /\ TornFile.is = "torn"
    /\ TornFile.done = {} /\ TornFile.posts = {}
BY DEF FreshState, NoFile, TornFile, SessionState

LEMMA NextPhaseTypes == ASSUME NEW s \in SessionState PROVE NextPhase(s) \subseteq Phases
BY DEF NextPhase, Phases, SessionState

\* The part of the types that the end of a process touches.
LEMMA EndedTypes ==
    ASSUME TypeOK, NEW p \in Procs, Ended(p)
    PROVE  /\ pc' \in [Procs -> PCs]
           /\ mode' \in [Procs -> {"new", "resume"}]
           /\ num' \in [Procs -> Sessions]
           /\ mem' \in [Procs -> SessionState]
           /\ published' \in [Procs -> Nat]
           /\ flight' \in [Procs -> 0..MaxPosts]
BY SessionRunAssumption, StateTypes DEF TypeOK, Ended, Goto, PCs, Sessions

LEMMA ExitTypes ==
    ASSUME TypeOK, NEW p \in Procs
    PROVE  Orphaned(p) \in [Sessions -> Procs \cup {NoProc}]
BY DEF TypeOK, Orphaned

LEMMA StartTypes ==
    ASSUME TypeOK, NEW p \in Procs, StartNew(p) \/ StartResume(p)
    PROVE  TypeOK'
<1>1. CASE StartNew(p)
  BY <1>1, SessionRunAssumption, StateTypes
  DEF StartNew, TypeOK, Goto, PCs, Acquiring, Sessions, files, history
<1>2. CASE StartResume(p)
  BY <1>2, SessionRunAssumption DEF StartResume, TypeOK, Goto, PCs, Acquiring, files, history
<1> QED BY <1>1, <1>2

LEMMA AcquireTypes ==
    ASSUME TypeOK, NEW p \in Procs, Acquire(p)
    PROVE  TypeOK'
<1> USE DEF TypeOK, Goto, PCs, Acquiring, Holding, LockSame, SetLock, process, history
<1>1. CASE Create(p) BY <1>1 DEF Create
<1>2. CASE WriteLock(p) BY <1>2 DEF WriteLock
<1>3. CASE Inspect(p) BY <1>3, EndedTypes, ExitTypes DEF Inspect, Exit
<1>4. CASE Steal(p) BY <1>4, EndedTypes, ExitTypes DEF Steal, Exit
<1>5. CASE Recreate(p)
  <2>1. CASE lock[num[p]] = "free" BY <1>5, <2>1 DEF Recreate
  <2>2. CASE lock[num[p]] # "free" BY <1>5, <2>2, EndedTypes, ExitTypes DEF Recreate, Exit
  <2> QED BY <2>1, <2>2
<1>6. CASE Save(p)
  <2>1. mem[p] \in SessionState /\ file[num[p]].posts \subseteq Posts
    BY DEF SessionState
  <2> QED BY <1>6, <2>1 DEF Save, Saved, Written, Running
<1> QED BY <1>1, <1>2, <1>3, <1>4, <1>5, <1>6 DEF Acquire

LEMMA InFlightTypes ==
    ASSUME TypeOK, NEW p \in Procs PROVE InFlight(p) \subseteq Posts
BY SessionRunAssumption DEF TypeOK, InFlight, Posts

LEMMA WithPostTypes ==
    ASSUME TypeOK, NEW p \in Procs
    PROVE  /\ WithPost(p) \in SessionState
           /\ WithPost(p).is = mem[p].is /\ WithPost(p).done = mem[p].done
           /\ WithPost(p).posts = mem[p].posts \cup InFlight(p)
BY InFlightTypes DEF TypeOK, WithPost, SessionState

LEMMA WorkTypes ==
    ASSUME TypeOK, NEW p \in Procs, Work(p)
    PROVE  TypeOK'
<1> USE DEF TypeOK, Goto, PCs, Holding, Running, Phases, Saved, Written
<1>0. mem[p] \in SessionState OBVIOUS
<1>1. CASE Begin(p)
  <2>1. PICK ph \in NextPhase(mem[p]) : Goto(p, ph) BY <1>1 DEF Begin
  <2>2. ph \in PCs BY <1>0, <2>1, NextPhaseTypes
  <2> QED BY <1>0, <1>1, <2>1, <2>2 DEF Begin, history
<1>2. CASE Publish(p)
  BY <1>2, SessionRunAssumption DEF Publish, files, history
<1>3. CASE Record(p)
  BY <1>3, WithPostTypes, SessionRunAssumption DEF Record, Returned
<1>4. CASE Complete(p)
  <2>1. [mem[p] EXCEPT !.done = @ \cup {pc[p]}] \in SessionState
    BY <1>0, <1>4 DEF Complete, SessionState
  <2>2. mem[p].posts \subseteq Posts BY <1>0 DEF SessionState
  <2> QED BY <1>4, <2>1, <2>2 DEF Complete
<1> QED BY <1>1, <1>2, <1>3, <1>4 DEF Work

LEMMA EndTypes ==
    ASSUME TypeOK, NEW p \in Procs, End(p)
    PROVE  TypeOK'
<1> USE DEF TypeOK, Goto, PCs, Holding, process, history, Released
<1>1. CASE Increment(p) BY <1>1, SessionRunAssumption DEF Increment
<1>2. CASE Clear(p) BY <1>2, StateTypes DEF Clear
<1>3. CASE Release(p) BY <1>3 DEF Release
<1>4. CASE ReleaseLast(p) BY <1>4, EndedTypes DEF ReleaseLast
<1> QED BY <1>1, <1>2, <1>3, <1>4 DEF End

LEMMA FaultTypes ==
    ASSUME TypeOK, NEW p \in Procs, Fault(p)
    PROVE  TypeOK'
<1>0. \A kind : Trouble(kind) => troubles' \in 0..MaxTroubles
  BY SessionRunAssumption DEF Trouble, TypeOK
<1>1. mem[p] \in SessionState /\ mem[p].posts \subseteq Posts /\ file[num[p]].posts \subseteq Posts
  BY DEF TypeOK, SessionState
<1>2. InFlight(p) \subseteq Posts BY InFlightTypes
<1>3. CASE RecordUnlogged(p)
  BY <1>0, <1>2, <1>3, WithPostTypes, SessionRunAssumption
  DEF RecordUnlogged, Returned, TypeOK, Goto, PCs, Holding, Running
<1>4. CASE PublishLate(p)
  BY <1>0, <1>2, <1>4, SessionRunAssumption
  DEF PublishLate, Returned, TypeOK, Goto, PCs, Holding, Running
<1>5. CASE Fail(p)
  BY <1>0, <1>1, <1>5, EndedTypes, ExitTypes DEF Fail, Exit, Written, TypeOK, history
<1>6. CASE Crash(p)
  BY <1>0, <1>1, <1>2, <1>6, EndedTypes, ExitTypes DEF Crash, Exit, Unsaved, TypeOK
<1>7. CASE TearState(p)
  BY <1>0, <1>1, <1>2, <1>7, EndedTypes, ExitTypes, StateTypes DEF TearState, Exit, TypeOK
<1>8. CASE TearNumber(p)
  BY <1>0, <1>8, EndedTypes, ExitTypes, SessionRunAssumption DEF TearNumber, Exit, TypeOK, history
<1>9. CASE Timeout(p)
  BY <1>0, <1>1, <1>2, <1>9, EndedTypes, ExitTypes DEF Timeout, Written, TypeOK
<1>10. CASE Interrupt(p)
  BY <1>0, <1>1, <1>2, <1>10, EndedTypes, ExitTypes DEF Interrupt, Exit, Written, TypeOK
<1> QED BY <1>3, <1>4, <1>5, <1>6, <1>7, <1>8, <1>9, <1>10 DEF Fault

\* Types hold in every reachable state.
THEOREM SessionTypeOK == Spec => []TypeOK
<1>1. Init => TypeOK
  BY SessionRunAssumption, StateTypes DEF Init, TypeOK, PCs, Sessions
<1>2. TypeOK /\ [Next]_vars => TypeOK'
  <2> SUFFICES ASSUME TypeOK, [Next]_vars PROVE TypeOK' OBVIOUS
  <2>1. CASE UNCHANGED vars
    BY <2>1 DEF TypeOK, vars, files, process, history
  <2>2. ASSUME NEW p \in Procs, StartNew(p) \/ StartResume(p) \/ Step(p) \/ Fault(p)
        PROVE  TypeOK'
    BY <2>2, StartTypes, AcquireTypes, WorkTypes, EndTypes, FaultTypes DEF Step
  <2> QED BY <2>1, <2>2 DEF Next
<1> QED BY <1>1, <1>2, PTL DEF Spec

----------------------------------------------------------------------------
\* The lock.  A step of p that leaves the locks of the others alone.

OthersKeep(p) ==
    \A q \in Procs \ {p} : pc'[q] = pc[q] /\ num'[q] = num[q]

LEMMA LockByParts ==
    ASSUME TypeOK, LockInv, NEW p \in Procs, OthersKeep(p),
           pc'[p] \in Acquiring =>
               pc[p] \in Acquiring \/ \A q \in Procs \ {p} : pc[q] \notin Acquiring,
           OwnsLock(p)',
           \A q \in Procs \ {p} : OwnsLock(q)'
    PROVE  LockInv'
BY DEF LockInv, OneAcquiring, OthersKeep

\* Steps within a session touch no lock.
LEMMA LockUntouched ==
    ASSUME TypeOK, LockInv, NEW p \in Procs, OthersKeep(p), num'[p] = num[p],
           UNCHANGED <<lock, owner>>,
           pc[p] \in Holding, pc'[p] \in Holding \cup {"release"}
    PROVE  LockInv'
<1>1. OwnsLock(p)' BY DEF LockInv, OwnsLock, Holding, Running
<1>2. \A q \in Procs \ {p} : OwnsLock(q)' BY DEF LockInv, OwnsLock, OthersKeep
<1>3. pc'[p] \notin Acquiring BY DEF Acquiring, Holding, Running
<1> QED BY <1>1, <1>2, <1>3, LockByParts

\* A process ends: its own lock, if it is still there, becomes stale or is removed.
LEMMA LockEnded ==
    ASSUME TypeOK, LockInv, NEW p \in Procs, Ended(p),
           \A n \in Sessions : owner[n] # p =>
               /\ owner'[n] = owner[n] /\ lock'[n] = lock[n],
           \A n \in Sessions : owner[n] = p =>
               /\ owner'[n] = NoProc /\ lock'[n] \in {lock[n], "free"}
    PROVE  LockInv'
<1>1. OthersKeep(p) BY DEF Ended, OthersKeep, Goto, TypeOK
<1>2. pc'[p] = "off" BY DEF Ended, Goto, TypeOK
<1>3. OwnsLock(p)' BY <1>2 DEF OwnsLock, Holding, Running
<1>4. ASSUME NEW q \in Procs \ {p} PROVE OwnsLock(q)'
  <2>1. OwnsLock(q) /\ num[q] \in Sessions BY DEF LockInv, TypeOK
  <2>2. pc'[q] = pc[q] /\ num'[q] = num[q] BY <1>1 DEF OthersKeep
  <2> QED BY <2>1, <2>2 DEF OwnsLock
<1>5. pc'[p] \notin Acquiring BY <1>2 DEF Acquiring
<1> QED BY <1>1, <1>3, <1>4, <1>5, LockByParts

LEMMA LockExit ==
    ASSUME TypeOK, LockInv, NEW p \in Procs, Exit(p) PROVE LockInv'
BY LockEnded DEF Exit, Orphaned, TypeOK

LEMMA LockStart ==
    ASSUME TypeOK, LockInv, ~Overlap, NEW p \in Procs, StartNew(p) \/ StartResume(p)
    PROVE  LockInv'
<1>1. OthersKeep(p) BY DEF StartNew, StartResume, OthersKeep, Goto, TypeOK
<1>2. pc'[p] = "create" BY DEF StartNew, StartResume, Goto, TypeOK
<1>3. UNCHANGED <<lock, owner>> BY DEF StartNew, StartResume, files
<1>4. \A q \in Procs \ {p} : pc[q] \notin Acquiring BY DEF StartNew, StartResume, Alone
<1>5. OwnsLock(p)' BY <1>2 DEF OwnsLock, Holding, Running
<1>6. \A q \in Procs \ {p} : OwnsLock(q)' BY <1>1, <1>3 DEF LockInv, OwnsLock, OthersKeep
<1> QED BY <1>1, <1>4, <1>5, <1>6, LockByParts

LEMMA LockAcquire ==
    ASSUME TypeOK, LockInv, NEW p \in Procs, Acquire(p)
    PROVE  LockInv'
<1>0. num[p] \in Sessions /\ p # NoProc /\ OwnsLock(p)
  BY SessionRunAssumption DEF TypeOK, LockInv
<1> USE DEF TypeOK, Goto, LockSame, SetLock, process
<1>1. CASE Create(p)
  <2>1. OthersKeep(p) BY <1>1 DEF Create, OthersKeep
  <2>2. OwnsLock(p)' BY <1>0, <1>1 DEF Create, OwnsLock, Holding, Running
  <2>3. ASSUME NEW q \in Procs \ {p} PROVE OwnsLock(q)'
    <3>1. pc[q] \notin Acquiring BY <1>1 DEF LockInv, OneAcquiring, Create, Acquiring
    <3> QED BY <1>0, <1>1, <2>1, <3>1 DEF Create, LockInv, OwnsLock, OthersKeep, Acquiring
  <2> QED BY <1>1, <2>1, <2>2, <2>3, LockByParts DEF Create, Acquiring
<1>2. CASE WriteLock(p)
  <2>1. OthersKeep(p) BY <1>2 DEF WriteLock, OthersKeep
  <2>2. OwnsLock(p)' BY <1>0, <1>2 DEF WriteLock, OwnsLock
  <2>3. ASSUME NEW q \in Procs \ {p} PROVE OwnsLock(q)'
    <3>1. pc[q] \notin Acquiring BY <1>2 DEF LockInv, OneAcquiring, WriteLock, Acquiring
    <3> QED BY <1>0, <1>2, <2>1, <3>1 DEF WriteLock, LockInv, OwnsLock, OthersKeep, Acquiring
  <2> QED BY <1>2, <2>1, <2>2, <2>3, LockByParts DEF WriteLock, Acquiring
<1>3. CASE Inspect(p)
  <2>1. CASE Exit(p) BY <2>1, LockExit
  <2>2. CASE ~Exit(p)
    <3>1. OthersKeep(p) BY <1>3, <2>2 DEF Inspect, OthersKeep
    <3>2. OwnsLock(p)' BY <1>0, <1>3, <2>2 DEF Inspect, OwnsLock, Holding, Running
    <3>3. \A q \in Procs \ {p} : OwnsLock(q)'
      BY <1>3, <2>2, <3>1 DEF Inspect, LockInv, OwnsLock, OthersKeep
    <3> QED BY <1>3, <2>2, <3>1, <3>2, <3>3, LockByParts DEF Inspect, Acquiring
  <2> QED BY <2>1, <2>2
<1>4. CASE Steal(p)
  <2>1. CASE Exit(p) BY <2>1, LockExit
  <2>2. CASE ~Exit(p)
    <3>1. OthersKeep(p) BY <1>4, <2>2 DEF Steal, OthersKeep
    <3>2. OwnsLock(p)' BY <1>0, <1>4, <2>2 DEF Steal, OwnsLock, Holding, Running
    <3>3. ASSUME NEW q \in Procs \ {p} PROVE OwnsLock(q)'
      <4>1. pc[q] \notin Acquiring BY <1>4 DEF LockInv, OneAcquiring, Steal, Acquiring
      <4>2. lock[num[p]] # "pid" \/ owner[num[p]] = NoProc BY <1>0, <1>4 DEF Steal, OwnsLock
      <4>3. OwnsLock(q) /\ q # NoProc BY SessionRunAssumption DEF LockInv
      <4> QED BY <1>0, <1>4, <2>2, <3>1, <4>1, <4>2, <4>3 DEF Steal, OwnsLock, OthersKeep, Acquiring
    <3> QED BY <1>4, <2>2, <3>1, <3>2, <3>3, LockByParts DEF Steal, Acquiring
  <2> QED BY <2>1, <2>2
<1>5. CASE Recreate(p)
  <2>1. CASE Exit(p) BY <2>1, LockExit
  <2>2. CASE ~Exit(p)
    <3>1. OthersKeep(p) BY <1>5, <2>2 DEF Recreate, OthersKeep
    <3>2. OwnsLock(p)' BY <1>0, <1>5, <2>2 DEF Recreate, OwnsLock, Holding, Running
    <3>3. ASSUME NEW q \in Procs \ {p} PROVE OwnsLock(q)'
      <4>1. pc[q] \notin Acquiring BY <1>5 DEF LockInv, OneAcquiring, Recreate, Acquiring
      <4> QED BY <1>0, <1>5, <2>2, <3>1, <4>1 DEF Recreate, LockInv, OwnsLock, OthersKeep, Acquiring
    <3> QED BY <1>5, <2>2, <3>1, <3>2, <3>3, LockByParts DEF Recreate, Acquiring
  <2> QED BY <2>1, <2>2
<1>6. CASE Save(p)
  BY <1>6, LockUntouched DEF Save, OthersKeep, Holding, Running
<1> QED BY <1>1, <1>2, <1>3, <1>4, <1>5, <1>6 DEF Acquire

LEMMA LockWork ==
    ASSUME TypeOK, LockInv, NEW p \in Procs, Work(p)
    PROVE  LockInv'
<1> USE DEF TypeOK, Goto, OthersKeep, Holding, Running, Phases
<1>1. CASE Begin(p)
  <2>1. PICK ph \in NextPhase(mem[p]) : Goto(p, ph) BY <1>1 DEF Begin
  <2>2. ph \in Phases BY <2>1, NextPhaseTypes
  <2> QED BY <1>1, <2>1, <2>2, LockUntouched DEF Begin
<1>2. CASE Publish(p) BY <1>2, LockUntouched DEF Publish, files
<1>3. CASE Record(p) BY <1>3, LockUntouched DEF Record, Returned
<1>4. CASE Complete(p) BY <1>4, LockUntouched DEF Complete
<1> QED BY <1>1, <1>2, <1>3, <1>4 DEF Work

LEMMA LockEnd ==
    ASSUME TypeOK, LockInv, ~Overlap, NEW p \in Procs, End(p)
    PROVE  LockInv'
<1>0. num[p] \in Sessions /\ p # NoProc /\ OwnsLock(p)
  BY SessionRunAssumption DEF TypeOK, LockInv
<1> USE DEF TypeOK, Goto, process
<1>1. CASE Increment(p)
  BY <1>1, LockUntouched DEF Increment, Finished, OthersKeep, Holding, Running
<1>2. CASE Clear(p)
  <2>1. OthersKeep(p) /\ num'[p] = num[p] /\ UNCHANGED <<lock, owner>>
    BY <1>2 DEF Clear, OthersKeep
  <2>2. OwnsLock(p)' BY <1>0, <1>2, <2>1 DEF Clear, OwnsLock, Holding, Running
  <2>3. \A q \in Procs \ {p} : OwnsLock(q)' BY <2>1 DEF LockInv, OwnsLock, OthersKeep
  <2> QED BY <1>2, <2>1, <2>2, <2>3, LockByParts DEF Clear, Acquiring
<1>3. CASE Release(p)
  <2>1. OthersKeep(p) BY <1>3 DEF Release, OthersKeep
  <2>2. OwnsLock(p)' BY <1>0, <1>3 DEF Release, OwnsLock, Holding, Running
  <2>3. lock[num[p]] = "pid" /\ owner[num[p]] = p BY <1>0, <1>3 DEF Release, OwnsLock
  <2>4. ASSUME NEW q \in Procs \ {p} PROVE OwnsLock(q)'
    <3>1. OwnsLock(q) BY DEF LockInv
    <3> QED BY <1>0, <1>3, <2>1, <2>3, <3>1
        DEF Release, Released, Releasable, OwnsLock, OthersKeep
  <2> QED BY <1>3, <2>1, <2>2, <2>4, LockByParts DEF Release, Acquiring
<1>4. CASE ReleaseLast(p)
  <2>1. OthersKeep(p) BY <1>4 DEF ReleaseLast, Ended, OthersKeep
  <2>2. pc'[p] = "off" BY <1>4 DEF ReleaseLast, Ended
  <2>3. OwnsLock(p)' BY <2>2 DEF OwnsLock, Holding, Running
  <2>4. ASSUME NEW q \in Procs \ {p} PROVE OwnsLock(q)'
    <3>1. OwnsLock(q) BY DEF LockInv
    <3>2. pc[q] # "write" BY <1>4 DEF ReleaseLast, Alone
    <3> QED BY <1>0, <1>4, <2>1, <3>1, <3>2
        DEF ReleaseLast, Released, Releasable, OwnsLock, OthersKeep
  <2> QED BY <2>1, <2>2, <2>3, <2>4, LockByParts DEF Acquiring
<1> QED BY <1>1, <1>2, <1>3, <1>4 DEF End

LEMMA LockFault ==
    ASSUME TypeOK, LockInv, NEW p \in Procs, Fault(p)
    PROVE  LockInv'
<1>1. CASE RecordUnlogged(p) \/ PublishLate(p)
  BY <1>1, LockUntouched
  DEF RecordUnlogged, PublishLate, Returned, TypeOK, Goto, OthersKeep, Holding, Running
<1>2. CASE Fail(p) \/ Crash(p) \/ TearState(p) \/ TearNumber(p) \/ Interrupt(p)
  BY <1>2, LockExit DEF Fail, Crash, TearState, TearNumber, Interrupt
<1>3. CASE Timeout(p)
  <2>1. num[p] \in Sessions /\ OwnsLock(p) BY DEF TypeOK, LockInv
  <2>2. owner[num[p]] = p BY <1>3, <2>1 DEF Timeout, OwnsLock, Holding
  <2>3. ASSUME NEW n \in Sessions
        PROVE  /\ owner[n] # p => owner'[n] = owner[n] /\ lock'[n] = lock[n]
               /\ owner[n] = p => owner'[n] = NoProc /\ lock'[n] \in {lock[n], "free"}
    BY <1>3, <2>1, <2>2 DEF Timeout, Orphaned, TypeOK
  <2> QED BY <1>3, <2>3, LockEnded DEF Timeout
<1> QED BY <1>1, <1>2, <1>3 DEF Fault

----------------------------------------------------------------------------
\* The states.  A step of p changes the memory of p and the file of its session.

OthersSame(p) ==
    /\ \A q \in Procs \ {p} : /\ pc'[q] = pc[q] /\ num'[q] = num[q]
                               /\ mem'[q] = mem[q] /\ flight'[q] = flight[q]
    /\ \A n \in Sessions \ {num[p]} : file'[n] = file[n]
    /\ checked \subseteq checked' /\ unlogged \subseteq unlogged' /\ forgotten \subseteq forgotten'
    /\ file'[num[p]] = file[num[p]] \/ pc[p] \in Holding

\* What p and its file held is still accounted for.
Kept(p) ==
    \A i \in file[num[p]].posts \cup Held(p) :
        i \in checked' \cup forgotten' \cup file'[num[p]].posts \cup Held(p)'

LEMMA Exclusive == ASSUME TypeOK, LockInv PROVE SessionExclusive
BY DEF LockInv, OwnsLock, SessionExclusive

LEMMA RunByParts ==
    ASSUME RunInv, NEW p \in Procs, OthersSame(p),
           Sound(file'[num[p]], checked'), StateAt(p)',
           pc'[p] \in Running => Resumable(file[num[p]], mem[p])',
           Kept(p), \A i \in 1..chain' : i \in 1..chain \/ i \in Held(p)'
    PROVE  StateInv' /\ CrashSafe' /\ PostsAccounted'
<1> USE DEF RunInv
<1>0. num[p] \in Sessions BY DEF TypeOK
<1>1. ASSUME NEW q \in Procs \ {p}, pc[q] \in Holding PROVE file'[num[q]] = file[num[q]]
  BY <1>1, Exclusive DEF SessionExclusive, OthersSame, TypeOK
<1>3. ASSUME NEW n \in Sessions PROVE Sound(file[n], checked)'
  <2>1. CASE n = num[p] BY <2>1
  <2>2. CASE n # num[p] BY <2>2 DEF Sound, OthersSame, StateInv
  <2> QED BY <2>1, <2>2
<1>4. ASSUME NEW q \in Procs \ {p} PROVE StateAt(q)'
  BY <1>1 DEF StateAt, StateInv, OthersSame, Holding, Sound, NextPhase
<1>5. ASSUME NEW q \in Procs \ {p}, pc'[q] \in Running PROVE Resumable(file[num[q]], mem[q])'
  BY <1>1, <1>5 DEF CrashSafe, Resumable, OthersSame, Holding
<1>6. ASSUME NEW i \in 1..chain'
      PROVE  \/ i \in checked' \cup forgotten'
             \/ \E n \in Sessions : i \in file'[n].posts
             \/ \E q \in Procs : i \in Held(q)'
  <2>1. CASE i \in Held(p)' BY <2>1
  <2>2. CASE i \in 1..chain
    <3>1. CASE i \in checked \cup forgotten BY <3>1 DEF OthersSame
    <3>2. CASE i \in file[num[p]].posts \cup Held(p) BY <1>0, <3>2 DEF Kept
    <3>3. ASSUME NEW n \in Sessions \ {num[p]}, i \in file[n].posts PROVE i \in file'[n].posts
      BY <3>3 DEF OthersSame
    <3>4. ASSUME NEW q \in Procs \ {p}, i \in Held(q) PROVE i \in Held(q)'
      BY <3>4 DEF OthersSame, Held, InFlight
    <3> QED BY <2>2, <3>1, <3>2, <3>3, <3>4 DEF PostsAccounted
  <2> QED BY <2>1, <2>2
<1> QED BY <1>3, <1>4, <1>5, <1>6 DEF StateInv, CrashSafe, PostsAccounted

\* The conclusion of RunByParts, proved for each kind of step.
StatesKept == StateInv' /\ CrashSafe' /\ PostsAccounted'

LEMMA LocalFacts ==
    ASSUME RunInv, NEW p \in Procs
    PROVE  /\ num[p] \in Sessions /\ mem[p] \in SessionState /\ file[num[p]] \in SessionState
           /\ StateAt(p) /\ Sound(file[num[p]], checked)
           /\ pc[p] \in Running => Resumable(file[num[p]], mem[p])
BY DEF RunInv, TypeOK, StateInv, CrashSafe

\* A complete session's posts were checked; a phase under way is the next one.
LEMMA CompletePosts ==
    ASSUME NEW s \in SessionState, NextPhase(s) = {}, Sound(s, checked)
    PROVE  s.posts \subseteq checked
BY DEF NextPhase, Sound, SessionState, Phases

LEMMA EndedState ==
    ASSUME RunInv, NEW p \in Procs, Ended(p)
    PROVE  /\ StateAt(p)' /\ pc'[p] \notin Running /\ Held(p)' = {}
           /\ \A q \in Procs \ {p} : /\ pc'[q] = pc[q] /\ num'[q] = num[q]
                                    /\ mem'[q] = mem[q] /\ flight'[q] = flight[q]
<1>1. /\ pc'[p] = "off" /\ mem'[p] = FreshState /\ flight'[p] = 0
      /\ \A q \in Procs \ {p} : /\ pc'[q] = pc[q] /\ num'[q] = num[q]
                               /\ mem'[q] = mem[q] /\ flight'[q] = flight[q]
  BY DEF RunInv, TypeOK, Ended, Goto
<1>2. StateAt(p)' BY <1>1, StateTypes DEF StateAt, Sound, Phases
<1>3. pc'[p] \notin Running BY <1>1 DEF Running
<1> QED BY <1>1, <1>2, <1>3 DEF Held

\* A process that ends without touching a state file, and held nothing.
LEMMA QuietEnd ==
    ASSUME RunInv, NEW p \in Procs, Ended(p), pc[p] \notin Running,
           UNCHANGED <<file, chain, checked, unlogged, forgotten>>
    PROVE  StatesKept
<1>1. OthersSame(p) BY EndedState DEF OthersSame
<1>2. Kept(p) BY EndedState DEF Kept, Held
<1>3. Sound(file'[num[p]], checked') BY LocalFacts
<1> QED BY <1>1, <1>2, <1>3, EndedState, RunByParts DEF StatesKept

LEMMA StatesStart ==
    ASSUME RunInv, NEW p \in Procs, StartNew(p) \/ StartResume(p)
    PROVE  StatesKept
<1>0. RunInv /\ TypeOK BY DEF RunInv
<1>1. pc[p] = "off" /\ pc'[p] = "create" /\ UNCHANGED <<files, flight, chain, history>>
  BY <1>0 DEF StartNew, StartResume, TypeOK, Goto
<1>2. /\ OthersSame(p)
  BY <1>0, <1>1 DEF StartNew, StartResume, TypeOK, Goto, OthersSame, files, history
<1>3. mem'[p].is = "state" /\ Sound(mem'[p], checked)
  <2>1. CASE StartNew(p) BY <1>0, <2>1, StateTypes DEF StartNew, TypeOK, Sound
  <2>2. CASE StartResume(p)
    <3>1. PICK n \in Sessions : Active(n) /\ mem' = [mem EXCEPT ![p] = file[n]]
      BY <2>2 DEF StartResume
    <3> QED BY <1>0, <3>1 DEF TypeOK, Active, RunInv, StateInv
  <2> QED BY <2>1, <2>2
<1>4. StateAt(p)' BY <1>1, <1>3, LocalFacts DEF StateAt, Phases, history, Sound
<1>5. Kept(p) BY <1>1 DEF Kept, Held, files, Running
<1>6. Sound(file'[num[p]], checked') BY <1>1, LocalFacts DEF files, history
<1> QED BY <1>1, <1>2, <1>4, <1>5, <1>6, RunByParts DEF StatesKept, Running

LEMMA StatesAcquire ==
    ASSUME RunInv, NEW p \in Procs, Acquire(p)
    PROVE  StatesKept
<1>0. RunInv /\ TypeOK BY DEF RunInv
<1>1. ASSUME pc[p] \in Acquiring, pc'[p] \in Acquiring \cup {"save"},
             \A q \in Procs \ {p} : pc'[q] = pc[q],
             UNCHANGED <<file, process, chain, history>>
      PROVE  StatesKept
  <2>1. OthersSame(p) BY <1>1 DEF OthersSame, process, history
  <2>2. StateAt(p)' BY <1>1, LocalFacts DEF StateAt, Sound, Phases, Acquiring, process, history
  <2>3. Kept(p) BY <1>1 DEF Kept, Held, Acquiring, Running
  <2>4. Sound(file'[num[p]], checked') BY <1>1, LocalFacts DEF history
  <2> QED BY <1>1, <2>1, <2>2, <2>3, <2>4, RunByParts DEF StatesKept, Acquiring, Running
<1>2. ASSUME Exit(p), pc[p] \in Acquiring, UNCHANGED <<file, chain, history>>
      PROVE  StatesKept
  BY <1>2, QuietEnd DEF Exit, history, Acquiring, Running
<1> USE DEF Acquiring
<1>3. CASE Create(p) BY <1>0, <1>1, <1>3 DEF Create, LockSame, Goto, TypeOK
<1>4. CASE WriteLock(p) BY <1>0, <1>1, <1>4 DEF WriteLock, LockSame, Goto, TypeOK
<1>5. CASE Inspect(p) BY <1>0, <1>1, <1>2, <1>5 DEF Inspect, LockSame, Goto, TypeOK
<1>6. CASE Steal(p) BY <1>0, <1>1, <1>2, <1>6 DEF Steal, LockSame, Goto, TypeOK
<1>7. CASE Recreate(p) BY <1>0, <1>1, <1>2, <1>7 DEF Recreate, LockSame, Goto, TypeOK
<1>8. CASE Save(p)
  <2>1. /\ pc[p] = "save" /\ num' = num /\ mem'[p] = mem[p] /\ file'[num[p]] = mem[p]
        /\ flight' = flight /\ chain' = chain /\ checked' = checked /\ unlogged' = unlogged
        /\ pc'[p] = IF NextPhase(mem[p]) = {} THEN "drop" ELSE "loop"
    BY <1>0, <1>8, LocalFacts DEF Save, Saved, Written, Goto, TypeOK
  <2>2. OthersSame(p)
    BY <1>0, <1>8 DEF Save, Saved, Written, Goto, TypeOK, OthersSame, Holding
  <2>3. StateAt(p)' BY <2>1, LocalFacts DEF StateAt, Sound, Phases, NextPhase
  <2>4. Resumable(file[num[p]], mem[p])' BY <2>1, LocalFacts DEF Resumable, StateAt
  <2>5. Kept(p)
    <3>1. CASE mode[p] = "new" \/ Stale(p)
      BY <1>8, <2>1, <3>1 DEF Save, Kept, Held, Running
    <3>2. CASE ~(mode[p] = "new" \/ Stale(p))
      <4>1. mem[p] = file[num[p]] BY <1>0, <3>2 DEF Stale, TypeOK
      <4> QED BY <2>1, <4>1 DEF Kept, Held, Running
    <3> QED BY <3>1, <3>2
  <2>6. Sound(file'[num[p]], checked') BY <2>1, LocalFacts DEF StateAt
  <2> QED BY <2>1, <2>2, <2>3, <2>4, <2>5, <2>6, RunByParts DEF StatesKept
<1> QED BY <1>3, <1>4, <1>5, <1>6, <1>7, <1>8 DEF Acquire

LEMMA StatesWork ==
    ASSUME RunInv, NEW p \in Procs, Work(p)
    PROVE  StatesKept
<1>0. RunInv /\ TypeOK BY DEF RunInv
<1>1. CASE Begin(p)
  <2>1. PICK ph \in NextPhase(mem[p]) : Goto(p, ph) BY <1>1 DEF Begin
  <2>2. ph \in Phases /\ NextPhase(mem[p]) = {ph} BY <2>1, LocalFacts DEF NextPhase, Phases, SessionState
  <2>3. /\ pc[p] = "loop" /\ pc'[p] = ph /\ num' = num /\ mem'[p] = mem[p]
        /\ file'[num[p]] = mem[p] /\ flight' = flight /\ chain' = chain
        /\ checked' = checked /\ unlogged' = unlogged /\ forgotten' = forgotten
    BY <1>0, <1>1, <2>1, LocalFacts DEF Begin, Saved, Written, Goto, TypeOK, history
  <2>4. OthersSame(p)
    BY <1>0, <1>1, <2>1 DEF Begin, Saved, Written, Goto, TypeOK, OthersSame, Holding, Running, history
  <2>5. StateAt(p)' BY <2>2, <2>3, LocalFacts DEF StateAt, Sound, Phases, NextPhase
  <2>6. Resumable(file[num[p]], mem[p])' BY <2>3, LocalFacts DEF Resumable, StateAt
  <2>7. Kept(p)
    BY <2>2, <2>3, LocalFacts DEF Kept, Held, InFlight, Running, Phases, Resumable
  <2>8. Sound(file'[num[p]], checked') BY <2>3, LocalFacts DEF StateAt
  <2> QED BY <2>3, <2>4, <2>5, <2>6, <2>7, <2>8, RunByParts DEF StatesKept
<1>2. CASE Publish(p)
  <2>1. /\ pc[p] = "act" /\ pc'[p] = "posted" /\ num' = num /\ mem' = mem /\ file' = file
        /\ flight'[p] = chain + 1 /\ chain' = chain + 1 /\ flight[p] = 0
        /\ checked' = checked /\ unlogged' = unlogged /\ forgotten' = forgotten
    BY <1>0, <1>2, LocalFacts DEF Publish, Goto, TypeOK, files, history, StateAt
  <2>2. chain \in Nat BY <1>0, SessionRunAssumption DEF TypeOK
  <2>3. OthersSame(p) BY <1>0, <1>2 DEF Publish, Goto, TypeOK, OthersSame, files, history
  <2>4. StateAt(p)' BY <2>1, LocalFacts DEF StateAt, Sound, Phases, NextPhase
  <2>5. Resumable(file[num[p]], mem[p])' BY <2>1, LocalFacts DEF Resumable, Running
  <2>6. Kept(p) BY <2>1 DEF Kept, Held, InFlight, Running
  <2>7. chain + 1 \in Held(p)' BY <2>1, <2>2 DEF Held, InFlight, Running
  <2>8. \A i \in 1..chain' : i \in 1..chain \/ i \in Held(p)' BY <2>1, <2>2, <2>7
  <2>9. Sound(file'[num[p]], checked') BY <2>1, LocalFacts
  <2> QED BY <2>3, <2>4, <2>5, <2>6, <2>8, <2>9, RunByParts DEF StatesKept
<1>3. CASE Record(p)
  <2>1. /\ pc[p] = "posted" /\ pc'[p] = "act" /\ num' = num /\ mem'[p] = WithPost(p)
        /\ file'[num[p]] = WithPost(p) /\ flight'[p] = 0 /\ chain' = chain
        /\ checked' = checked /\ unlogged' = unlogged /\ forgotten' = forgotten
    BY <1>0, <1>3, LocalFacts DEF Record, Returned, Saved, Written, Goto, TypeOK
  <2>2. OthersSame(p)
    BY <1>0, <1>3 DEF Record, Returned, Saved, Written, Goto, TypeOK, OthersSame, Holding, Running
  <2>3. Sound(WithPost(p), checked)
    BY <1>0, <2>1, WithPostTypes, LocalFacts DEF StateAt, Sound, NextPhase, Phases
  <2>4. StateAt(p)'
    BY <1>0, <2>1, <2>3, WithPostTypes, LocalFacts DEF StateAt, Phases, NextPhase, Sound
  <2>5. Resumable(file[num[p]], mem[p])'
    BY <1>0, <2>1, WithPostTypes, LocalFacts DEF Resumable, StateAt
  <2>6. Kept(p)
    BY <1>0, <2>1, WithPostTypes, LocalFacts DEF Kept, Held, Running, Resumable
  <2>7. Sound(file'[num[p]], checked') BY <2>1, <2>3
  <2> QED BY <2>1, <2>2, <2>4, <2>5, <2>6, <2>7, RunByParts DEF StatesKept
<1>4. CASE Complete(p)
  <2> DEFINE state == [mem[p] EXCEPT !.done = @ \cup {pc[p]}]
  <2>1. /\ pc[p] \in Phases /\ pc'[p] = "loop" /\ num' = num /\ mem'[p] = state
        /\ file'[num[p]] = state /\ flight' = flight /\ flight[p] = 0 /\ chain' = chain
        /\ checked' = (IF pc[p] = "confirm" THEN checked \cup mem[p].posts ELSE checked)
        /\ unlogged' = unlogged /\ forgotten' = forgotten
    BY <1>0, <1>4, LocalFacts DEF Complete, Saved, Written, Goto, TypeOK, StateAt, Phases
  <2>2. /\ state.is = "state" /\ state.posts = mem[p].posts
        /\ state.done = mem[p].done \cup {pc[p]}
    BY LocalFacts DEF SessionState, StateAt
  <2> HIDE DEF state
  <2>3. OthersSame(p)
    BY <1>0, <1>4, <2>1 DEF Complete, Saved, Written, Goto, TypeOK, OthersSame, Holding, Running, Phases
  <2>4. Sound(state, checked')
    <3>1. NextPhase(mem[p]) = {pc[p]} /\ Sound(mem[p], checked) BY <2>1, LocalFacts DEF StateAt
    <3>2. pc[p] = "act" => "sense" \in mem[p].done BY <3>1 DEF NextPhase, Phases
    <3>3. pc[p] = "confirm" => "act" \in mem[p].done BY <3>1 DEF NextPhase, Phases
    <3> QED BY <2>1, <2>2, <3>1, <3>2, <3>3 DEF Sound
  <2>5. StateAt(p)' BY <2>1, <2>2, <2>4, LocalFacts DEF StateAt, Phases, NextPhase, Sound
  <2>6. Resumable(file[num[p]], mem[p])' BY <2>1, <2>2 DEF Resumable
  <2>7. Kept(p) BY <2>1, <2>2, LocalFacts DEF Kept, Held, InFlight, Running, Phases, Resumable
  <2> QED BY <2>1, <2>3, <2>4, <2>5, <2>6, <2>7, RunByParts DEF StatesKept
<1> QED BY <1>1, <1>2, <1>3, <1>4 DEF Work

LEMMA StatesEnd ==
    ASSUME RunInv, NEW p \in Procs, End(p)
    PROVE  StatesKept
<1>0. RunInv /\ TypeOK BY DEF RunInv
<1>1. CASE Increment(p)
  <2>1. /\ pc[p] = "loop" /\ pc'[p] = "clear" /\ NextPhase(mem[p]) = {}
        /\ UNCHANGED <<num, mem, file, flight, chain, checked, unlogged, forgotten>>
    BY <1>0, <1>1 DEF Increment, Finished, Goto, TypeOK, process, history
  <2>2. OthersSame(p) BY <1>0, <1>1, <2>1 DEF Increment, Goto, TypeOK, OthersSame
  <2>3. file[num[p]].done = mem[p].done BY <2>1, LocalFacts DEF Running, Resumable
  <2>4. StateAt(p)' BY <2>1, <2>3, LocalFacts DEF StateAt, Phases, NextPhase, Sound
  <2>5. mem[p].posts \subseteq checked BY <2>1, CompletePosts, LocalFacts DEF StateAt
  <2>6. Kept(p) BY <2>1, <2>5, LocalFacts DEF Kept, Held, InFlight, Running, StateAt
  <2>7. Sound(file'[num[p]], checked') BY <2>1, LocalFacts
  <2> QED BY <2>1, <2>2, <2>4, <2>6, <2>7, RunByParts DEF StatesKept, Running
<1>2. CASE Clear(p)
  <2>1. /\ pc[p] \in {"clear", "drop"} /\ pc'[p] \in {"release", "last"}
        /\ file'[num[p]] = NoFile
        /\ UNCHANGED <<num, mem, flight, chain, checked, unlogged, forgotten>>
    BY <1>0, <1>2, LocalFacts DEF Clear, Goto, TypeOK, process, history
  <2>2. OthersSame(p) BY <1>0, <1>2, <2>1 DEF Clear, Goto, TypeOK, OthersSame, Holding
  <2>3. StateAt(p)' BY <2>1, LocalFacts DEF StateAt, Phases, Sound
  <2>4. file[num[p]].posts \subseteq checked BY <2>1, CompletePosts, LocalFacts DEF StateAt
  <2>5. Kept(p) BY <2>1, <2>4 DEF Kept, Held, Running
  <2>6. Sound(file'[num[p]], checked') BY <2>1, StateTypes DEF Sound
  <2> QED BY <2>1, <2>2, <2>3, <2>5, <2>6, RunByParts DEF StatesKept, Running
<1>3. CASE Release(p)
  <2>1. /\ pc[p] = "release" /\ pc'[p] = "last"
        /\ UNCHANGED <<num, mem, file, flight, chain, checked, unlogged, forgotten>>
    BY <1>0, <1>3 DEF Release, Goto, TypeOK, process, history
  <2>2. OthersSame(p) BY <1>0, <1>3, <2>1 DEF Release, Goto, TypeOK, OthersSame
  <2>3. StateAt(p)' BY <2>1, LocalFacts DEF StateAt, Phases, Sound
  <2>4. Kept(p) BY <2>1 DEF Kept, Held, Running
  <2>5. Sound(file'[num[p]], checked') BY <2>1, LocalFacts
  <2> QED BY <2>1, <2>2, <2>3, <2>4, <2>5, RunByParts DEF StatesKept, Running
<1>4. CASE ReleaseLast(p)
  BY <1>4, QuietEnd DEF ReleaseLast, Running, history
<1> QED BY <1>1, <1>2, <1>3, <1>4 DEF End

LEMMA StatesFault ==
    ASSUME RunInv, NEW p \in Procs, Fault(p)
    PROVE  StatesKept
<1>0. RunInv /\ TypeOK BY DEF RunInv
<1>1. CASE RecordUnlogged(p)
  <2>1. /\ pc[p] = "posted" /\ pc'[p] = "act" /\ num' = num /\ mem'[p] = WithPost(p)
        /\ file' = file /\ flight'[p] = 0 /\ chain' = chain
        /\ checked' = checked /\ unlogged' = unlogged \cup InFlight(p) /\ forgotten' = forgotten
    BY <1>0, <1>1, LocalFacts DEF RecordUnlogged, Returned, Goto, TypeOK
  <2>2. OthersSame(p)
    BY <1>0, <1>1, <2>1 DEF RecordUnlogged, Returned, Goto, TypeOK, OthersSame
  <2>3. StateAt(p)'
    BY <1>0, <2>1, WithPostTypes, LocalFacts DEF StateAt, Phases, NextPhase, Sound
  <2>4. Resumable(file[num[p]], mem[p])'
    BY <1>0, <2>1, WithPostTypes, LocalFacts DEF Resumable, Running
  <2>5. Kept(p) BY <1>0, <2>1, WithPostTypes DEF Kept, Held, Running
  <2>6. Sound(file'[num[p]], checked') BY <2>1, LocalFacts
  <2> QED BY <2>1, <2>2, <2>3, <2>4, <2>5, <2>6, RunByParts DEF StatesKept
<1>2. CASE PublishLate(p)
  <2>1. /\ pc[p] = "posted" /\ pc'[p] = "act"
        /\ UNCHANGED <<num, mem, file, chain, checked, unlogged>>
        /\ flight'[p] = 0 /\ forgotten' = forgotten \cup InFlight(p)
    BY <1>0, <1>2 DEF PublishLate, Returned, Goto, TypeOK
  <2>2. OthersSame(p)
    BY <1>0, <1>2, <2>1 DEF PublishLate, Returned, Goto, TypeOK, OthersSame
  <2>3. StateAt(p)' BY <2>1, LocalFacts DEF StateAt, Phases, NextPhase, Sound
  <2>4. Resumable(file[num[p]], mem[p])' BY <2>1, LocalFacts DEF Resumable, Running
  <2>5. Kept(p) BY <2>1 DEF Kept, Held, Running
  <2>6. Sound(file'[num[p]], checked') BY <2>1, LocalFacts
  <2> QED BY <2>1, <2>2, <2>3, <2>4, <2>5, <2>6, RunByParts DEF StatesKept
<1>3. ASSUME Ended(p), pc[p] \in Running, file' = [file EXCEPT ![num[p]] = mem[p]],
             forgotten' = forgotten \cup InFlight(p), UNCHANGED <<chain, checked, unlogged>>
      PROVE  StatesKept
  <2>1. file'[num[p]] = mem[p] BY <1>0, <1>3 DEF TypeOK
  <2>2. OthersSame(p) BY <1>0, <1>3, EndedState DEF OthersSame, Holding, TypeOK
  <2>3. Kept(p) BY <1>3, <2>1, LocalFacts DEF Kept, Held, Resumable
  <2>4. Sound(file'[num[p]], checked') BY <1>3, <2>1, LocalFacts DEF StateAt
  <2> QED BY <1>3, <2>2, <2>3, <2>4, EndedState, RunByParts DEF StatesKept
<1>4. CASE Fail(p)
  <2>1. pc[p] \in Running /\ InFlight(p) = {}
    BY <1>4, LocalFacts DEF Fail, Pending, Running, Phases, InFlight, StateAt
  <2> QED BY <1>3, <1>4, <2>1 DEF Fail, Exit, Written, history
<1>5. CASE Timeout(p) \/ Interrupt(p)
  BY <1>3, <1>5 DEF Timeout, Interrupt, Exit, Written
<1>6. CASE Crash(p)
  <2>1. CASE pc[p] \notin Running BY <1>6, <2>1, QuietEnd DEF Crash, Exit
  <2>2. CASE pc[p] \in Running
    <3>1. /\ Ended(p) /\ UNCHANGED <<file, chain, checked, unlogged>>
          /\ forgotten' = forgotten \cup Unsaved(p)
      BY <1>6, <2>2 DEF Crash, Exit
    <3>2. OthersSame(p) BY <3>1, EndedState DEF OthersSame
    <3>3. Kept(p) BY <2>2, <3>1, LocalFacts DEF Kept, Held, Resumable, Unsaved
    <3>4. Sound(file'[num[p]], checked') BY <3>1, LocalFacts
    <3> QED BY <3>1, <3>2, <3>3, <3>4, EndedState, RunByParts DEF StatesKept
  <2> QED BY <2>1, <2>2
<1>7. CASE TearState(p)
  <2>1. /\ Ended(p) /\ file'[num[p]] = TornFile /\ UNCHANGED <<chain, checked, unlogged>>
        /\ forgotten' = forgotten \cup file[num[p]].posts \cup mem[p].posts \cup InFlight(p)
    BY <1>0, <1>7, LocalFacts DEF TearState, Exit, TypeOK
  <2>2. OthersSame(p)
    BY <1>0, <1>7, <2>1, EndedState DEF TearState, OthersSame, Holding, TypeOK
  <2>3. Kept(p) BY <2>1 DEF Kept, Held
  <2>4. Sound(file'[num[p]], checked') BY <2>1, StateTypes DEF Sound
  <2> QED BY <2>1, <2>2, <2>3, <2>4, EndedState, RunByParts DEF StatesKept
<1>8. CASE TearNumber(p)
  <2>1. /\ Ended(p) /\ UNCHANGED <<file, chain, checked, unlogged, forgotten>>
        /\ pc[p] = "loop" /\ NextPhase(mem[p]) = {}
    BY <1>8 DEF TearNumber, Exit, Finished, history
  <2>2. OthersSame(p) BY <2>1, EndedState DEF OthersSame
  <2>3. mem[p].posts \subseteq checked BY <2>1, CompletePosts, LocalFacts DEF StateAt
  <2>4. Kept(p) BY <2>1, <2>3, LocalFacts DEF Kept, Held, InFlight, StateAt
  <2>5. Sound(file'[num[p]], checked') BY <2>1, LocalFacts
  <2> QED BY <2>1, <2>2, <2>4, <2>5, EndedState, RunByParts DEF StatesKept
<1> QED BY <1>1, <1>2, <1>4, <1>5, <1>6, <1>7, <1>8 DEF Fault

----------------------------------------------------------------------------
\* As long as the lock calls of two processes do not overlap, everything above
\* holds in every reachable state, for any number of processes, sessions, posts
\* and faults.
THEOREM SessionInvariant == ASSUME ~Overlap PROVE Spec => []RunInv
<1>1. Init => RunInv
  <2> SUFFICES ASSUME Init PROVE RunInv OBVIOUS
  <2>1. TypeOK BY SessionRunAssumption, StateTypes DEF Init, TypeOK, PCs, Sessions
  <2>2. LockInv
    BY DEF Init, LockInv, OneAcquiring, OwnsLock, Acquiring, Holding, Running
  <2>3. StateInv
    BY StateTypes DEF Init, StateInv, StateAt, Sound, Phases
  <2>4. CrashSafe BY DEF Init, CrashSafe, Running
  <2>5. PostsAccounted BY DEF Init, PostsAccounted
  <2> QED BY <2>1, <2>2, <2>3, <2>4, <2>5 DEF RunInv
<1>2. RunInv /\ [Next]_vars => RunInv'
  <2> SUFFICES ASSUME RunInv, [Next]_vars PROVE RunInv' OBVIOUS
  <2>0. TypeOK /\ LockInv BY DEF RunInv
  <2>1. CASE UNCHANGED vars
    <3> USE <2>1 DEF vars, files, process, history
    <3>1. TypeOK' BY <2>0 DEF TypeOK
    <3>2. LockInv' BY <2>0 DEF LockInv, OneAcquiring, OwnsLock
    <3>3. StateInv' BY DEF RunInv, StateInv, StateAt, Sound, NextPhase
    <3>4. CrashSafe' BY DEF RunInv, CrashSafe, Resumable
    <3>5. PostsAccounted' BY DEF RunInv, PostsAccounted, Held, InFlight
    <3> QED BY <3>1, <3>2, <3>3, <3>4, <3>5 DEF RunInv
  <2>2. ASSUME NEW p \in Procs, StartNew(p) \/ StartResume(p) PROVE RunInv'
    BY <2>0, <2>2, StartTypes, LockStart, StatesStart DEF RunInv, StatesKept
  <2>3. ASSUME NEW p \in Procs, Acquire(p) PROVE RunInv'
    BY <2>0, <2>3, AcquireTypes, LockAcquire, StatesAcquire DEF RunInv, StatesKept
  <2>4. ASSUME NEW p \in Procs, Work(p) PROVE RunInv'
    BY <2>0, <2>4, WorkTypes, LockWork, StatesWork DEF RunInv, StatesKept
  <2>5. ASSUME NEW p \in Procs, End(p) PROVE RunInv'
    BY <2>0, <2>5, EndTypes, LockEnd, StatesEnd DEF RunInv, StatesKept
  <2>6. ASSUME NEW p \in Procs, Fault(p) PROVE RunInv'
    BY <2>0, <2>6, FaultTypes, LockFault, StatesFault DEF RunInv, StatesKept
  <2> QED BY <2>1, <2>2, <2>3, <2>4, <2>5, <2>6 DEF Next, Step
<1> QED BY <1>1, <1>2, PTL DEF Spec

\* One process per session: whatever lock files dead processes left, and
\* whichever numbers are used again.
THEOREM SessionOwned == ASSUME ~Overlap PROVE Spec => []SessionExclusive
<1>1. RunInv => SessionExclusive BY Exclusive DEF RunInv
<1> QED BY <1>1, SessionInvariant, PTL

\* A running session can be resumed from its file, up to posts not logged.
THEOREM SessionCrashSafe == ASSUME ~Overlap PROVE Spec => []CrashSafe
<1>1. RunInv => CrashSafe BY DEF RunInv
<1> QED BY <1>1, SessionInvariant, PTL

\* No post on the chain is lost but for the reasons counted in forgotten.
THEOREM SessionPostsAccounted == ASSUME ~Overlap PROVE Spec => []PostsAccounted
<1>1. RunInv => PostsAccounted BY DEF RunInv
<1> QED BY <1>1, SessionInvariant, PTL

----------------------------------------------------------------------------
\* Phases and files, one file at a time.
LEMMA FileKept ==
    ASSUME NEW n \in Sessions, file'[n] = file[n] PROVE KeptIn(n)
BY DEF KeptIn

\* Most steps write the state in memory, or more, over that in the file.
LEMMA FileWritten ==
    ASSUME RunInv, NEW p \in Procs, pc[p] \in Running, NEW state,
           state.is = "state", mem[p].done \subseteq state.done,
           file' = [file EXCEPT ![num[p]] = state],
           NEW n \in Sessions
    PROVE  KeptIn(n)
<1>1. CASE n = num[p]
  <2>1. file'[n] = state BY <1>1 DEF RunInv, TypeOK
  <2> QED BY <1>1, <2>1, LocalFacts DEF KeptIn, Resumable
<1>2. CASE n # num[p]
  BY <1>2, FileKept DEF RunInv, TypeOK
<1> QED BY <1>1, <1>2

LEMMA StepKeepsPhases ==
    ASSUME RunInv, NEW p \in Procs, StartNew(p) \/ StartResume(p) \/ Step(p) \/ Fault(p),
           NEW n \in Sessions
    PROVE  KeptIn(n)
<1>0. TypeOK /\ num[p] \in Sessions /\ mem[p] \in SessionState /\ mem[p].is = "state"
  BY LocalFacts DEF RunInv, StateAt
<1>1. CASE UNCHANGED file BY <1>1, FileKept
<1>2. CASE Save(p)
  <2>1. file' = [file EXCEPT ![num[p]] = mem[p]] /\ pc[p] = "save"
    BY <1>2 DEF Save, Saved, Written
  <2>2. CASE n = num[p]
    <3>1. file'[n] = mem[p] BY <1>0, <2>1, <2>2 DEF TypeOK
    <3>2. mode[p] = "new" \/ Stale(p) \/ mem[p] = file[n] BY <1>0, <2>2 DEF Stale, TypeOK
    <3> QED BY <1>0, <2>1, <2>2, <3>1, <3>2 DEF KeptIn
  <2>3. CASE n # num[p] BY <1>0, <2>1, <2>3, FileKept DEF TypeOK
  <2> QED BY <2>2, <2>3
<1>3. CASE Begin(p)
  BY <1>0, <1>3, FileWritten DEF Begin, Saved, Written, Running
<1>4. CASE Record(p)
  BY <1>0, <1>4, FileWritten, WithPostTypes DEF Record, Returned, Saved, Written, Running
<1>5. CASE Complete(p)
  <2> DEFINE state == [mem[p] EXCEPT !.done = @ \cup {pc[p]}]
  <2>1. state.is = "state" /\ mem[p].done \subseteq state.done BY <1>0 DEF SessionState
  <2>2. file' = [file EXCEPT ![num[p]] = state] /\ pc[p] \in Running
    BY <1>5 DEF Complete, Saved, Written, Running, Phases
  <2> HIDE DEF state
  <2> QED BY <2>1, <2>2, FileWritten
<1>6. CASE Fail(p) \/ Timeout(p) \/ Interrupt(p)
  BY <1>0, <1>6, FileWritten
  DEF Fail, Timeout, Interrupt, Written, Running, Phases, Pending
<1>7. CASE Clear(p)
  <2>1. CASE n = num[p]
    <3>1. file'[n].is = "none" BY <1>0, <1>7, <2>1, StateTypes DEF Clear, TypeOK
    <3>2. NextPhase(file[n]) = {} BY <1>7, <2>1, LocalFacts DEF Clear, StateAt
    <3>3. file[n].posts \subseteq checked BY <2>1, <3>2, LocalFacts, CompletePosts
    <3> QED BY <3>1, <3>2, <3>3 DEF KeptIn
  <2>2. CASE n # num[p] BY <1>0, <1>7, <2>2, FileKept DEF Clear, TypeOK
  <2> QED BY <2>1, <2>2
<1>8. CASE TearState(p)
  <2>1. CASE n = num[p]
    BY <1>0, <1>8, <2>1, StateTypes DEF TearState, TypeOK, KeptIn
  <2>2. CASE n # num[p] BY <1>0, <1>8, <2>2, FileKept DEF TearState, TypeOK
  <2> QED BY <2>1, <2>2
<1>9. CASE ~UNCHANGED file
  BY <1>2, <1>3, <1>4, <1>5, <1>6, <1>7, <1>8, <1>9
  DEF StartNew, StartResume, Step, Acquire, Work, End, Fault, files, process, history, LockSame,
      Create, WriteLock, Inspect, Steal, Recreate, Publish, Increment, Release, ReleaseLast,
      RecordUnlogged, PublishLate, Crash, TearNumber
<1> QED BY <1>1, <1>9

\* Completed phases stay completed; a file goes only with its session complete.
THEOREM SessionPhasesKept == ASSUME ~Overlap PROVE Spec => PhasesKept
<1>1. RunInv /\ [Next]_vars => [\A n \in Sessions : KeptIn(n)]_vars
  <2> SUFFICES ASSUME RunInv, Next, NEW n \in Sessions PROVE KeptIn(n) OBVIOUS
  <2> QED BY StepKeepsPhases DEF Next
<1> QED BY <1>1, SessionInvariant, PTL DEF Spec, PhasesKept
=============================================================================
