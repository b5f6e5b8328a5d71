------------------------------ MODULE ToolCalls ------------------------------
(***************************************************************************)
(* The toolkit's calls that post and tip (tools/publish.ts, tools/tip.ts):   *)
(* each checks a log of the last 24 hours in the state store, sends its       *)
(* transaction, and then records it - if the log still allows it              *)
(* (guards/dedup-guard.ts, guards/tip-spend-cap.ts).                          *)
(*                                                                         *)
(* Sessions of one wallet share the store; a session's own calls come one     *)
(* after the other (session.ts: "NOT concurrency-safe").  A step reaches       *)
(* from one await to the next.  The store's lock makes a check or a record    *)
(* one step (Pay shows how); a wait for it, five seconds at most, is no time  *)
(* for the clock here, whose ticks are of the order of the cool-down.         *)
(***************************************************************************)
EXTENDS Integers, FiniteSets

CONSTANTS
    Sessions,
    Posts,      \* posts to tip
    Texts,      \* texts to post
    MaxPerPost, \* tipPolicy.maxPerPost
    Cooldown,   \* tipPolicy.cooldownMs
    Day,        \* DAY_MS, how long the logs look back
    Inactivity, \* INACTIVITY_TIMEOUT_MS
    Faults,     \* which of the faults below may happen
    MaxTime,    \* bound: the clock
    MaxTxs,     \* bound: transactions
    MaxTroubles \* bound: faults in a behaviour

FaultKinds == {
    "refused", \* no author, a blocked URL, no attestation, a simulation or transaction that fails
    "unheard", \* broadcast reports an error for a transaction that landed
    "store",   \* the log cannot be locked, read or written
    "crash",
    "disconnect"}

Things == Posts \cup Texts

ASSUME ToolAssumption ==
    /\ Posts \cap Texts = {}
    /\ {MaxPerPost, Cooldown, Day, Inactivity} \subseteq Nat \ {0}
    /\ Faults \subseteq FaultKinds
    /\ {MaxTime, MaxTxs, MaxTroubles} \subseteq Nat

VARIABLES
    clock,
    session, \* of each session: its last activity, and whether it has expired
    call,    \* its call: see Idle
    log,     \* both logs: which transaction, what it was about, when it was sent
    landed,  \* history: the transactions, in the form of the log
    refused, \* history: those that the guard then kept out of the log
    troubles \* bound: faults so far

vars == <<clock, session, call, log, landed, refused, troubles>>

\* pc: "check", "send" or "record" - what the call comes to next.
\* seen is history: the log it has checked.
Idle == [pc |-> "idle"]
Connected == [last |-> clock, expired |-> FALSE]

Trouble(kind) ==
    /\ kind \in Faults /\ troubles < MaxTroubles
    /\ troubles' = troubles + 1

Init ==
    /\ clock = 0
    /\ session = [s \in Sessions |-> Connected]
    /\ call = [s \in Sessions |-> Idle]
    /\ log = {} /\ landed = {} /\ refused = {}
    /\ troubles = 0

----------------------------------------------------------------------------
(* The guards *)

\* What the pruned log holds: the entries of the last day.
Recent(entries) == {e \in entries : clock - e.at < Day}
About(entries, w) == {e \in entries : e.what = w}

\* Each text once; a post up to maxPerPost times, and no tip soon after another.
Duplicate(w, entries) == About(Recent(entries), w) # {}
MayTip(p, entries) ==
    /\ Cardinality(About(Recent(entries), p)) < MaxPerPost
    /\ \A e \in Recent(entries) : e.what \in Posts => clock - e.at >= Cooldown
Allowed(w, entries) == IF w \in Posts THEN MayTip(w, entries) ELSE ~Duplicate(w, entries)

----------------------------------------------------------------------------
(* session.ts *)

\* The expired getter: asked, a session that was idle for too long is marked.
Expired(s) == session[s].expired \/ clock - session[s].last > Inactivity
Asked(s) == [session EXCEPT ![s].expired = Expired(s)]

\* getReactionCounts asks for the bridge without a touch.
Look(s) ==
    /\ call[s] = Idle
    /\ session' = Asked(s)
    /\ UNCHANGED <<clock, call, log, landed, refused, troubles>>

\* connect(): a new session.
Connect(s) ==
    /\ call[s] = Idle /\ session[s].expired
    /\ session' = [session EXCEPT ![s] = Connected]
    /\ UNCHANGED <<clock, call, log, landed, refused, troubles>>

\* disconnect() expires the session; a call that has its bridge goes on.
Disconnect(s) ==
    /\ ~session[s].expired /\ Trouble("disconnect")
    /\ session' = [session EXCEPT ![s].expired = TRUE]
    /\ UNCHANGED <<clock, call, log, landed, refused>>

----------------------------------------------------------------------------
(* The tools *)

\* withToolWrapper touches the session, whatever its state.
Begin(s, w) ==
    /\ call[s] = Idle
    /\ call' = [call EXCEPT ![s] = [pc |-> "check", what |-> w]]
    /\ session' = [session EXCEPT ![s].last = clock]
    /\ UNCHANGED <<clock, log, landed, refused, troubles>>

CheckTipsOnly(s) ==
    /\ call[s].pc = "check"
    /\ IF (call[s].what \in Posts => Allowed(call[s].what, log)) /\ ~Expired(s)
       THEN call' = [call EXCEPT ![s] = [pc |-> "send", what |-> call[s].what, seen |-> log]]
       ELSE call' = [call EXCEPT ![s] = Idle]
    /\ session' = Asked(s)
    /\ UNCHANGED <<clock, log, landed, refused, troubles>>
\* The guard without a record, and then the bridge: none if the session has expired.
Check(s) ==
    /\ call[s].pc = "check"
    /\ IF Allowed(call[s].what, log) /\ ~Expired(s)
       THEN call' = [call EXCEPT ![s] = [pc |-> "send", what |-> call[s].what, seen |-> log]]
       ELSE call' = [call EXCEPT ![s] = Idle]
    /\ session' = IF Allowed(call[s].what, log) THEN Asked(s) ELSE session
    /\ UNCHANGED <<clock, log, landed, refused, troubles>>

Tx(w) == [id |-> Cardinality(landed) + 1, what |-> w, at |-> clock]

LandRecording(s) ==
    /\ call[s].pc = "send" /\ Cardinality(landed) < MaxTxs
    /\ landed' = landed \cup {Tx(call[s].what)} /\ log' = log \cup {Tx(call[s].what)}
    /\ call' = [call EXCEPT ![s] = [pc |-> "record", what |-> call[s].what, seen |-> call[s].seen,
                                    entry |-> Tx(call[s].what)]]
    /\ UNCHANGED <<clock, session, refused, troubles>>
\* The transaction is answered; its entry bears the time of the answer.
Land(s) ==
    /\ call[s].pc = "send" /\ Cardinality(landed) < MaxTxs
    /\ landed' = landed \cup {Tx(call[s].what)}
    /\ call' = [call EXCEPT ![s] = [pc |-> "record", what |-> call[s].what, seen |-> call[s].seen,
                                    entry |-> Tx(call[s].what)]]
    /\ UNCHANGED <<clock, session, log, refused, troubles>>

\* The guard again, now with the entry: a log that has come to refuse it stays as
\* it is, and the tool does not look at the guard's answer.
RecordUnchecked(s) ==
    /\ call[s].pc = "record"
    /\ log' = log \cup {call[s].entry}
    /\ call' = [call EXCEPT ![s] = Idle]
    /\ UNCHANGED <<clock, session, landed, refused, troubles>>
Record(s) ==
    /\ call[s].pc = "record"
    /\ IF Allowed(call[s].what, log)
       THEN log' = log \cup {call[s].entry} /\ UNCHANGED refused
       ELSE /\ refused' = refused \cup {[tx |-> call[s].entry, by |-> s, over |-> log \ call[s].seen]}
            /\ UNCHANGED log
    /\ call' = [call EXCEPT ![s] = Idle]
    /\ UNCHANGED <<clock, session, landed, troubles>>

----------------------------------------------------------------------------
(* What may go wrong *)

\* "unheard": the transaction lands and the call does not know of it.
SendFails(s) ==
    /\ call[s].pc = "send"
    /\ \/ Trouble("refused") /\ UNCHANGED landed
       \/ /\ Trouble("unheard") /\ Cardinality(landed) < MaxTxs
          /\ landed' = landed \cup {Tx(call[s].what)}
    /\ call' = [call EXCEPT ![s] = Idle]
    /\ UNCHANGED <<clock, session, log, refused>>

StoreFails(s) ==
    /\ call[s].pc \in {"check", "record"} /\ Trouble("store")
    /\ call' = [call EXCEPT ![s] = Idle]
    /\ UNCHANGED <<clock, session, log, landed, refused>>

\* The process starts again with a new session.
Crash(s) ==
    /\ call[s] # Idle /\ Trouble("crash")
    /\ \/ UNCHANGED landed
       \/ /\ call[s].pc = "send" /\ Cardinality(landed) < MaxTxs
          /\ landed' = landed \cup {Tx(call[s].what)}
    /\ call' = [call EXCEPT ![s] = Idle]
    /\ session' = [session EXCEPT ![s] = Connected]
    /\ UNCHANGED <<clock, log, refused>>

Tick ==
    /\ clock < MaxTime
    /\ \A s \in Sessions : call[s].pc # "record"
    /\ clock' = clock + 1
    /\ UNCHANGED <<session, call, log, landed, refused, troubles>>

Step(s) ==
    \/ Look(s) \/ Connect(s) \/ Disconnect(s)
    \/ \E w \in Things : Begin(s, w)
    \/ Check(s) \/ Land(s) \/ Record(s)
    \/ SendFails(s) \/ StoreFails(s) \/ Crash(s)
Next == Tick \/ \E s \in Sessions : Step(s)

Spec == Init /\ [][Next]_vars

----------------------------------------------------------------------------
(* Properties *)

Limit(w) == IF w \in Posts THEN MaxPerPost ELSE 1

Txs == [id : 1..MaxTxs, what : Things, at : 0..MaxTime]

Calls ==
    {Idle} \cup [pc : {"check"}, what : Things]
           \cup [pc : {"send"}, what : Things, seen : SUBSET log]
           \cup [pc : {"record"}, what : Things, seen : SUBSET log, entry : landed \ log]

\* Types: the sessions' calls, and the logs as a part of what has landed.
TypeOK ==
    /\ clock \in 0..MaxTime
    /\ session \in [Sessions -> [last : 0..MaxTime, expired : BOOLEAN]]
    /\ call \in [Sessions -> Calls]
    /\ \A s \in Sessions : call[s].pc = "record" => call[s].entry.what = call[s].what
    /\ landed \subseteq Txs /\ log \subseteq landed
    /\ refused \subseteq [tx : landed \ log, by : Sessions, over : SUBSET log]
    /\ troubles \in 0..MaxTroubles

\* The log never holds more of a text or of a post's tips within a day than its
\* limit, however many calls have passed their check at the same time.
RecordedWithinLimit ==
    \A w \in Things : Cardinality(About(Recent(log), w)) <= Limit(w)

\* A transaction that its call could record is kept out of the log only because
\* of another session's, recorded while it was under way, and no entry keeps out
\* two transactions of one session: calls one after the other are all counted,
\* and of calls side by side each entry hides at most one per other session.
RefusedForOthers ==
    \A r \in refused :
        /\ r.over # {}
        /\ \A q \in refused : q # r /\ q.by = r.by => q.over \cap r.over = {}
=============================================================================
