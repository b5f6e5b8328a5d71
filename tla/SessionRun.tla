----------------------------- MODULE SessionRun -----------------------------
(***************************************************************************)
(* The session runner (cli/session-runner.ts) with its session files        *)
(* (src/lib/state.ts) and the three phases of cli/v3-loop.ts: processes     *)
(* that start a session of the loop version 3 or resume one, the lock file  *)
(* of a session, the state file that lets a later process resume it, and    *)
(* the session number kept in improvements.json.                            *)
(*                                                                         *)
(* The lock is taken with system calls, one step each, since two processes  *)
(* may be in acquireLock at once.  Elsewhere a step reaches from one await  *)
(* to the next; a process may die at any of them and, as writeFileSync      *)
(* truncates first, in the middle of a write.                               *)
(***************************************************************************)
EXTENDS Integers, FiniteSets

CONSTANTS
    Procs,      \* processes that run the session runner for one agent
    NoProc,     \* a process id that no process has
    MaxPublish, \* maxPublishPerSession
    Overlap,    \* may the lock calls of two processes overlap?
    Faults,     \* which of the faults below may happen
    MaxSession, \* bound: session numbers
    MaxPosts,   \* bound: posts published
    MaxTroubles \* bound: faults in a behaviour

FaultKinds == {
    "crash",     \* the process dies
    "torn",      \* it dies in the middle of a write
    "fail",      \* a phase, or what comes before it, throws
    "late",      \* a post is on the chain and publishPost throws
    "log",       \* a post is recorded and the session log throws
    "timeout",   \* the session timer
    "interrupt"} \* SIGINT

Sessions == 1..MaxSession
Posts == 1..MaxPosts
Phases == {"sense", "act", "confirm"}

ASSUME SessionRunAssumption ==
    /\ IsFiniteSet(Procs) /\ NoProc \notin Procs
    /\ MaxPublish \in Nat \ {0}
    /\ Overlap \in BOOLEAN
    /\ Faults \subseteq FaultKinds
    /\ MaxSession \in Nat \ {0} /\ MaxPosts \in Nat /\ MaxTroubles \in Nat

VARIABLES
    next,      \* nextSession of improvements.json, 0: not readable
    file,      \* the state file of each session
    lock,      \* its lock file: "free" (none), "empty" (created) or "pid" (written)
    owner,     \* who created the lock file; NoProc when that process is dead
    pc,        \* where each process is
    mode,      \* "new" or "resume": flags.resume
    num,       \* sessionNumber
    mem,       \* state: the session's state in memory
    published, \* successfulPublishes of executePublishActions
    chain,     \* the chain: posts published so far, numbered
    flight,    \* the post publishPost has sent and not returned, 0 for none
    troubles,  \* bound: faults so far
    checked,   \* history: posts that a completed CONFIRM handed to verify.ts
    unlogged,  \* history: posts whose logging threw before saveState
    forgotten  \* history: posts no state knows of, for one of the reasons below

files == <<next, file, lock, owner>>
process == <<mode, num, mem, published, flight>>
history == <<checked, unlogged, forgotten>>
vars == <<files, pc, process, chain, troubles, history>>

Acquiring == {"create", "write", "inspect", "steal", "recreate"}
Running == {"loop", "sense", "act", "posted", "confirm"}
Holding == Running \cup {"save", "clear", "drop"}
PCs == {"off", "release", "last"} \cup Acquiring \cup Holding

\* done: the completed phases.  The code tells "pending", "in_progress" and
\* "failed" apart in reports only.
SessionState == [is : {"none", "torn", "state"}, done : SUBSET Phases, posts : SUBSET Posts]
NoFile == [is |-> "none", done |-> {}, posts |-> {}]
TornFile == [NoFile EXCEPT !.is = "torn"]
FreshState == [NoFile EXCEPT !.is = "state"]

\* getNextPhase: the first phase not completed, as a set; {} when there is none.
NextPhase(state) ==
    LET todo == Phases \ state.done IN
    IF "sense" \in todo THEN {"sense"} ELSE IF "act" \in todo THEN {"act"} ELSE todo

InFlight(p) == {flight[p]} \ {0}

\* Between two phases, and after the last one (the hooks afterConfirm).
Pending(p) == pc[p] = "loop" /\ NextPhase(mem[p]) # {}
Finished(p) == pc[p] = "loop" /\ NextPhase(mem[p]) = {}

Trouble(kind) ==
    /\ kind \in Faults /\ troubles < MaxTroubles
    /\ troubles' = troubles + 1

Init ==
    /\ next = 1
    /\ file = [n \in Sessions |-> NoFile]
    /\ lock = [n \in Sessions |-> "free"]
    /\ owner = [n \in Sessions |-> NoProc]
    /\ pc = [p \in Procs |-> "off"]
    /\ mode = [p \in Procs |-> "new"]
    /\ num = [p \in Procs |-> 1]
    /\ mem = [p \in Procs |-> FreshState]
    /\ published = [p \in Procs |-> 0]
    /\ chain = 0
    /\ flight = [p \in Procs |-> 0]
    /\ troubles = 0
    /\ checked = {} /\ unlogged = {} /\ forgotten = {}

Goto(p, l) == pc' = [pc EXCEPT ![p] = l]

\* The lock files created by a process that ends.
Orphaned(p) == [n \in Sessions |-> IF owner[n] = p THEN NoProc ELSE owner[n]]

\* The process ends, and its memory with it; Exit leaves the lock files as they are.
Ended(p) ==
    /\ Goto(p, "off")
    /\ mode' = [mode EXCEPT ![p] = "new"]
    /\ num' = [num EXCEPT ![p] = 1]
    /\ mem' = [mem EXCEPT ![p] = FreshState]
    /\ published' = [published EXCEPT ![p] = 0]
    /\ flight' = [flight EXCEPT ![p] = 0]
Exit(p) ==
    /\ Ended(p)
    /\ owner' = Orphaned(p)
    /\ UNCHANGED lock

----------------------------------------------------------------------------
\* main: a new session, or the latest one whose state file can be read.

\* Without Overlap one process at a time is in acquireLock, and the last
\* releaseLock of another does not fall between its create and its write.
Alone(p, calls) == Overlap \/ \A q \in Procs \ {p} : pc[q] \notin calls

StartNew(p) ==
    /\ pc[p] = "off" /\ Alone(p, Acquiring)
    /\ Goto(p, "create")
    /\ mode' = [mode EXCEPT ![p] = "new"]
    /\ num' = [num EXCEPT ![p] = IF next = 0 THEN 1 ELSE next]
    /\ mem' = [mem EXCEPT ![p] = FreshState]
    /\ published' = [published EXCEPT ![p] = 0]
    /\ UNCHANGED <<files, flight, chain, troubles, history>>

\* findActiveSession: highest number first, files that do not parse skipped.
Active(n) ==
    /\ file[n].is = "state"
    /\ \A m \in Sessions : m > n => file[m].is # "state"

StartResume(p) ==
    /\ pc[p] = "off" /\ Alone(p, Acquiring)
    /\ \E n \in Sessions :
        /\ Active(n)
        /\ num' = [num EXCEPT ![p] = n]
        /\ mem' = [mem EXCEPT ![p] = file[n]]
    /\ Goto(p, "create")
    /\ mode' = [mode EXCEPT ![p] = "resume"]
    /\ published' = [published EXCEPT ![p] = 0]
    /\ UNCHANGED <<files, flight, chain, troubles, history>>

----------------------------------------------------------------------------
\* acquireLock and releaseLock.

SetLock(p, text, by) ==
    /\ lock' = [lock EXCEPT ![num[p]] = text]
    /\ owner' = [owner EXCEPT ![num[p]] = by]
LockSame == UNCHANGED <<next, file, process, chain, troubles, history>>

\* openSync with O_CREAT | O_EXCL.
Create(p) ==
    /\ pc[p] = "create"
    /\ IF lock[num[p]] = "free"
       THEN SetLock(p, "empty", p) /\ Goto(p, "write")
       ELSE Goto(p, "inspect") /\ UNCHANGED <<lock, owner>>
    /\ LockSame

\* writeFileSync(fd): nothing to be seen if the file was unlinked meanwhile.
WriteLock(p) ==
    /\ pc[p] = "write"
    /\ IF lock[num[p]] = "empty" /\ owner[num[p]] = p
       THEN SetLock(p, "pid", p)
       ELSE UNCHANGED <<lock, owner>>
    /\ Goto(p, "save")
    /\ LockSame

\* The lock of a living process ends this one; an unreadable one, or that of a
\* dead process, is stale.
InspectDenying(p) ==
    /\ pc[p] = "inspect"
    /\ Exit(p)
    /\ UNCHANGED <<next, file, chain, troubles, history>>
InspectTrusting(p) ==
    /\ pc[p] = "inspect"
    /\ Goto(p, "steal")
    /\ UNCHANGED <<lock, owner>> /\ LockSame
Inspect(p) ==
    /\ pc[p] = "inspect"
    /\ IF lock[num[p]] = "pid" /\ owner[num[p]] # NoProc
       THEN Exit(p) /\ UNCHANGED <<next, file, chain, troubles, history>>
       ELSE Goto(p, "steal") /\ UNCHANGED <<lock, owner>> /\ LockSame

\* unlinkSync, which throws when there is nothing to unlink.
Steal(p) ==
    /\ pc[p] = "steal"
    /\ IF lock[num[p]] = "free"
       THEN Exit(p) /\ UNCHANGED <<next, file, chain, troubles, history>>
       ELSE SetLock(p, "free", NoProc) /\ Goto(p, "recreate") /\ LockSame

\* The second openSync, whose EEXIST is not handled.
Recreate(p) ==
    /\ pc[p] = "recreate"
    /\ IF lock[num[p]] = "free"
       THEN SetLock(p, "empty", p) /\ Goto(p, "write") /\ LockSame
       ELSE Exit(p) /\ UNCHANGED <<next, file, chain, troubles, history>>

\* releaseLock removes the process's own lock and one that does not parse.
Releasable(p) ==
    \/ lock[num[p]] = "empty"
    \/ lock[num[p]] = "pid" /\ owner[num[p]] = p
Released(p) ==
    IF Releasable(p)
    THEN /\ lock' = [lock EXCEPT ![num[p]] = "free"]
         /\ owner' = [owner EXCEPT ![num[p]] = NoProc]
    ELSE UNCHANGED <<lock, owner>>

----------------------------------------------------------------------------
\* saveState: alone, and after a change of the state in memory.

Written(p, state) == file' = [file EXCEPT ![num[p]] = state]
Saved(p, state) == mem' = [mem EXCEPT ![p] = state] /\ Written(p, state)

\* A resumed state that was read before the lock was had and is out of date.
Stale(p) == mode[p] = "resume" /\ mem[p] # file[num[p]]

\* The end of startSession, or of the resume path: a fresh state, or the one
\* found, is written over what is there; nothing to resume is cleared.
Save(p) ==
    /\ pc[p] = "save"
    /\ Saved(p, mem[p])
    /\ Goto(p, IF NextPhase(mem[p]) = {} THEN "drop" ELSE "loop")
    /\ forgotten' = IF mode[p] = "new" \/ Stale(p)
                    THEN forgotten \cup (file[num[p]].posts \ mem[p].posts)
                    ELSE forgotten
    /\ UNCHANGED <<next, lock, owner, mode, num, published, flight, chain, troubles, checked, unlogged>>

----------------------------------------------------------------------------
\* runV3Loop: each phase begins, works and ends with a saveState; phases
\* completed before are passed over.

BeginAnew(p) ==
    /\ pc[p] = "loop"
    /\ Saved(p, [mem[p] EXCEPT !.done = {}])
    /\ Goto(p, "sense")
    /\ UNCHANGED <<next, lock, owner, mode, num, published, flight, chain, troubles, history>>
Begin(p) ==
    /\ pc[p] = "loop"
    /\ \E ph \in NextPhase(mem[p]) : Goto(p, ph)
    /\ Saved(p, mem[p])
    /\ UNCHANGED <<next, lock, owner, mode, num, published, flight, chain, troubles, history>>

CompleteByOldName(p) ==
    /\ pc[p] \in Phases
    /\ Saved(p, [mem[p] EXCEPT !.done = @ \cup {IF pc[p] = "confirm" THEN "verify" ELSE pc[p]}])
    /\ Goto(p, "loop")
    /\ UNCHANGED <<next, lock, owner, mode, num, published, flight, chain, troubles, history>>
Complete(p) ==
    /\ pc[p] \in Phases
    /\ Saved(p, [mem[p] EXCEPT !.done = @ \cup {pc[p]}])
    /\ Goto(p, "loop")
    /\ checked' = IF pc[p] = "confirm" THEN checked \cup mem[p].posts ELSE checked
    /\ UNCHANGED <<next, lock, owner, mode, num, published, flight, chain, troubles, unlogged, forgotten>>

\* executePublishActions: publishPost sends a post ...
Publish(p) ==
    /\ pc[p] = "act" /\ published[p] < MaxPublish
    /\ chain < MaxPosts
    /\ chain' = chain + 1
    /\ flight' = [flight EXCEPT ![p] = chain + 1]
    /\ Goto(p, "posted")
    /\ UNCHANGED <<files, mode, num, mem, published, troubles, history>>

WithPost(p) == [mem[p] EXCEPT !.posts = @ \cup InFlight(p)]
Returned(p) ==
    /\ pc[p] = "posted"
    /\ Goto(p, "act")
    /\ flight' = [flight EXCEPT ![p] = 0]
    /\ UNCHANGED <<next, lock, owner, mode, num, chain, checked>>

\* ... and returns: appendState, logs, counter, saveState.
RecordUnsaved(p) ==
    /\ Returned(p)
    /\ mem' = [mem EXCEPT ![p] = WithPost(p)]
    /\ published' = [published EXCEPT ![p] = @ + 1]
    /\ UNCHANGED <<file, troubles, unlogged, forgotten>>
Record(p) ==
    /\ Returned(p)
    /\ Saved(p, WithPost(p))
    /\ published' = [published EXCEPT ![p] = @ + 1]
    /\ UNCHANGED <<troubles, unlogged, forgotten>>

\* The log throws after appendState: neither counted nor saved for now.
RecordUnlogged(p) ==
    /\ Trouble("log")
    /\ Returned(p)
    /\ mem' = [mem EXCEPT ![p] = WithPost(p)]
    /\ unlogged' = unlogged \cup InFlight(p)
    /\ UNCHANGED <<file, published, forgotten>>

\* publishPost throws although the post has landed.
PublishLate(p) ==
    /\ Trouble("late")
    /\ Returned(p)
    /\ forgotten' = forgotten \cup InFlight(p)
    /\ UNCHANGED <<mem, file, published, unlogged>>

\* A phase throws (failPhase), or what comes before it does (the wallet, a hook,
\* beginPhase); the handler in main saves and exits: the finally block with its
\* releaseLock is not reached.
Fail(p) ==
    /\ pc[p] \in Phases \/ Pending(p)
    /\ Trouble("fail")
    /\ Written(p, mem[p])
    /\ Exit(p)
    /\ UNCHANGED <<next, chain, history>>

----------------------------------------------------------------------------
\* The end of a session: clearTimeout, incrementSessionNumber (an unreadable
\* file is only warned about), clearState, and releaseLock once more.

Increment(p) ==
    /\ Finished(p)
    /\ next' = IF next \in 1..(MaxSession - 1) THEN next + 1 ELSE next
    /\ Goto(p, "clear")
    /\ UNCHANGED <<file, lock, owner, process, chain, troubles, history>>

Clear(p) ==
    /\ pc[p] \in {"clear", "drop"}
    /\ file' = [file EXCEPT ![num[p]] = NoFile]
    /\ Goto(p, IF pc[p] = "clear" THEN "release" ELSE "last")
    /\ UNCHANGED <<next, lock, owner, process, chain, troubles, history>>

Release(p) ==
    /\ pc[p] = "release"
    /\ Released(p)
    /\ Goto(p, "last")
    /\ UNCHANGED <<next, file, process, chain, troubles, history>>

\* The last one: the process ends with it.
ReleaseLast(p) ==
    /\ pc[p] = "last" /\ Alone(p, {"write"})
    /\ Released(p)
    /\ Ended(p)
    /\ UNCHANGED <<next, file, chain, troubles, history>>

----------------------------------------------------------------------------
\* Sudden ends.

\* What a process that does not save takes with it.
Unsaved(p) == InFlight(p) \cup (mem[p].posts \cap unlogged)

Crash(p) ==
    /\ pc[p] # "off"
    /\ Trouble("crash")
    /\ Exit(p)
    /\ forgotten' = IF pc[p] \in Running THEN forgotten \cup Unsaved(p) ELSE forgotten
    /\ UNCHANGED <<next, file, chain, checked, unlogged>>

\* It dies within saveState, or within the write of incrementSessionNumber.
TearState(p) ==
    /\ pc[p] \in Running \cup {"save"}
    /\ Trouble("torn")
    /\ Exit(p)
    /\ file' = [file EXCEPT ![num[p]] = TornFile]
    /\ forgotten' = forgotten \cup file[num[p]].posts \cup mem[p].posts \cup InFlight(p)
    /\ UNCHANGED <<next, chain, checked, unlogged>>

TearNumber(p) ==
    /\ Finished(p)
    /\ Trouble("torn")
    /\ Exit(p)
    /\ next' = 0
    /\ UNCHANGED <<file, chain, history>>

\* The session timer saves, releases the lock and exits; SIGINT saves and exits.
Timeout(p) ==
    /\ pc[p] \in Running
    /\ Trouble("timeout")
    /\ Written(p, mem[p])
    /\ Ended(p)
    /\ IF Releasable(p)
       THEN /\ lock' = [lock EXCEPT ![num[p]] = "free"]
            /\ owner' = [Orphaned(p) EXCEPT ![num[p]] = NoProc]
       ELSE owner' = Orphaned(p) /\ UNCHANGED lock
    /\ forgotten' = forgotten \cup InFlight(p)
    /\ UNCHANGED <<next, chain, checked, unlogged>>

InterruptUnsaved(p) ==
    /\ pc[p] \in Running
    /\ Trouble("interrupt")
    /\ Exit(p)
    /\ forgotten' = forgotten \cup InFlight(p)
    /\ UNCHANGED <<next, file, chain, checked, unlogged>>
Interrupt(p) ==
    /\ pc[p] \in Running
    /\ Trouble("interrupt")
    /\ Written(p, mem[p])
    /\ Exit(p)
    /\ forgotten' = forgotten \cup InFlight(p)
    /\ UNCHANGED <<next, chain, checked, unlogged>>

----------------------------------------------------------------------------
Acquire(p) == Create(p) \/ WriteLock(p) \/ Inspect(p) \/ Steal(p) \/ Recreate(p) \/ Save(p)
Work(p) == Begin(p) \/ Publish(p) \/ Record(p) \/ Complete(p)
End(p) == Increment(p) \/ Clear(p) \/ Release(p) \/ ReleaseLast(p)
Fault(p) ==
    \/ RecordUnlogged(p) \/ PublishLate(p) \/ Fail(p) \/ Crash(p)
    \/ TearState(p) \/ TearNumber(p) \/ Timeout(p) \/ Interrupt(p)

Step(p) == Acquire(p) \/ Work(p) \/ End(p)
Next == \E p \in Procs : StartNew(p) \/ StartResume(p) \/ Step(p) \/ Fault(p)
Spec == Init /\ [][Next]_vars

\* A process that runs goes on.  Nobody has to start or resume a session, and
\* faults are not forced.
FairSpec == Spec /\ \A p \in Procs : WF_vars(Step(p))

----------------------------------------------------------------------------
\* Types of all the state.
TypeOK ==
    /\ next \in 0..MaxSession
    /\ file \in [Sessions -> SessionState]
    /\ lock \in [Sessions -> {"free", "empty", "pid"}]
    /\ owner \in [Sessions -> Procs \cup {NoProc}]
    /\ pc \in [Procs -> PCs]
    /\ mode \in [Procs -> {"new", "resume"}]
    /\ num \in [Procs -> Sessions]
    /\ mem \in [Procs -> SessionState]
    /\ published \in [Procs -> Nat]
    /\ chain \in 0..MaxPosts
    /\ flight \in [Procs -> 0..MaxPosts]
    /\ troubles \in 0..MaxTroubles
    /\ checked \subseteq Posts /\ unlogged \subseteq Posts /\ forgotten \subseteq Posts

\* Two processes never work on the same session (acquireLock: "Fails if another
\* process holds it"): not while they acquire it from a dead one, resume it or
\* start anew after a lost increment, whatever lock files earlier ones left.
SessionExclusive ==
    \A p, q \in Procs : p # q /\ pc[p] \in Holding /\ pc[q] \in Holding => num[p] # num[q]

\* At every await of a running session its state file holds what the process
\* knows, but for posts whose logging threw: whatever kills the process now,
\* --resume goes on from here.
Resumable(saved, state) ==
    /\ saved.is = "state" /\ saved.done = state.done
    /\ saved.posts \subseteq state.posts
    /\ state.posts \ saved.posts \subseteq unlogged
CrashSafe ==
    \A p \in Procs : pc[p] \in Running => Resumable(file[num[p]], mem[p])

\* A post on the chain was handed to verification, or is known to a state file
\* or to a running session that will hand it over, or was lost for one of the
\* reasons the code leaves: a process that ended between the post and its
\* record, a torn file, a fresh session over an interrupted one, a resume from
\* a state read before the lock.
Held(p) == IF pc[p] \in Running THEN mem[p].posts \cup InFlight(p) ELSE {}
PostsAccounted ==
    \A i \in 1..chain :
        \/ i \in checked \cup forgotten
        \/ \E n \in Sessions : i \in file[n].posts
        \/ \E p \in Procs : i \in Held(p)

\* A phase that a state file shows as completed is not undone, but by a fresh
\* session or a resume from a state that is out of date; and a state file
\* disappears only when its session is complete and its posts were verified.
KeptIn(n) ==
    /\ file[n].is = "state" /\ file'[n].is = "state" =>
        \/ file[n].done \subseteq file'[n].done
        \/ \E p \in Procs : pc[p] = "save" /\ num[p] = n /\ (mode[p] = "new" \/ Stale(p))
    /\ file[n].is = "state" /\ file'[n].is = "none" =>
        NextPhase(file[n]) = {} /\ file[n].posts \subseteq checked
PhasesKept == [][\A n \in Sessions : KeptIn(n)]_vars

\* Whatever dead processes leave behind (locks, half-written locks, states and
\* numbers): if somebody starts new sessions again and again, and nobody resumes
\* any more, sessions keep coming to their end.
KeepStarting == []<>(\E p \in Procs : pc[p] = "create")
NoMoreResumes == <>[](\A p \in Procs : mode[p] = "new")
SessionsGoOn == KeepStarting /\ NoMoreResumes => []<>(\E p \in Procs : pc[p] = "clear")
=============================================================================
