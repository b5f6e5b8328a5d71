----------------------------- MODULE WriteRate -----------------------------
(***************************************************************************)
(* The write-rate ledger of a wallet (guards/write-rate-limit.ts over       *)
(* checkAndAppend of guards/state-helpers.ts) and the writers that share it:*)
(*  - sessions: executePublishActions (cli/publish-executor.ts) reserves a  *)
(*    slot, drafts and publishes, and rolls the slot back on failure; a     *)
(*    VOTE/BET only checks;                                                 *)
(*  - tools: publish() and reply() (tools/publish.ts) check, publish, record;*)
(*  - reactors: one action of the event loop (actions/action-executor.ts    *)
(*    with the limits of cli/event-runner.ts) checks its own ledger and the *)
(*    shared one, publishes, records in both.                               *)
(* An access to a ledger is one step: it runs under the file's lock, which  *)
(* Pay.tla models.  What a writer read before an await is used after it.    *)
(***************************************************************************)
EXTENDS Integers, FiniteSets

CONSTANTS
    Sessions, Tools, Reactors, \* the writers of one wallet
    DailyLimit, HourlyLimit,   \* DAILY_LIMIT, HOURLY_LIMIT
    Day, Hour,                 \* DAY_MS, HOUR_MS in model time units
    PublishCap,                \* maxPublishPerSession
    DailyReactive,             \* events.budget.dailyReactive
    ReactiveBase,              \* the 4 that reactive usage is counted down from
    ReactiveHourly,            \* the reactive limit per hour
    Faults,                    \* which of the faults below may happen
    MaxTime,                   \* bound: the clock stops here
    MaxPosts                   \* bound: posts that reach the chain

FaultKinds == {
    "abort",  \* a process dies, or a guard file access throws (lock, I/O)
    "fail",   \* a publication fails before it reaches the chain
    "late"}   \* it throws after it reached the chain

Writers == Sessions \cup Tools \cup Reactors

ASSUME WriteRateAssumption ==
    /\ Sessions \cap Tools = {} /\ Sessions \cap Reactors = {}
    /\ Tools \cap Reactors = {}
    /\ IsFiniteSet(Writers)
    /\ DailyLimit \in Nat /\ HourlyLimit \in Nat
    /\ Hour \in Nat \ {0} /\ Day \in Nat /\ Hour <= Day
    /\ PublishCap \in Nat
    /\ DailyReactive \in Nat /\ ReactiveBase \in Nat /\ ReactiveHourly \in Nat
    /\ MaxTime \in Nat /\ MaxPosts \in Nat
    /\ Faults \subseteq FaultKinds

VARIABLES
    now,       \* Date.now(), monotone
    ledger,    \* write-rate file of the wallet: entries per timestamp
    rledger,   \* write-rate file of reactive-<wallet>: entries per timestamp
    pc,        \* the await each writer is at
    stamp,     \* the timestamp a writer took for its entry
    made,      \* successfulPublishes of each session
    kept,      \* history: posts whose entry the ledger owes, per timestamp
    leaked,    \* history: reservations nobody will roll back, per timestamp
    landed,    \* the chain: PUBLISH/REPLY posts, by slot time or landing time
    rlanded,   \* the chain: those made by reactors, by landing time
    bets,      \* the chain: VOTE/BET posts, by landing time
    disturbed  \* history: writers overlapped, or a post went unrecorded

ledgers == <<ledger, rledger>>
locals == <<pc, stamp, made>>
chain == <<landed, rlanded, bets>>
history == <<kept, leaked, disturbed>>
vars == <<now, ledgers, locals, chain, history>>

Times == 0..MaxTime
Bags == [Times -> Nat]
SessionPCs == {"idle", "reserve", "draft", "rollback", "bet"}
OtherPCs == {"idle", "checkShared", "post", "stampEntry", "recordReactive", "record"}

\* The entries of a ledger with a timestamp above from, and their number.
Slots(f, from) == UNION {{t} \X (1..f[t]) : t \in {x \in Times : x > from}}
Count(f, from) == Cardinality(Slots(f, from))
PerDay(f) == Count(f, now - Day)
PerHour(f) == Count(f, now - Hour)

Add(f, t) == [f EXCEPT ![t] = @ + 1]

Init ==
    /\ now = 0
    /\ ledger = [t \in Times |-> 0] /\ rledger = [t \in Times |-> 0]
    /\ pc = [w \in Writers |-> "idle"]
    /\ stamp = [w \in Writers |-> 0]
    /\ made = [s \in Sessions |-> 0]
    /\ kept = [t \in Times |-> 0] /\ leaked = [t \in Times |-> 0]
    /\ landed = [t \in Times |-> 0] /\ rlanded = [t \in Times |-> 0]
    /\ bets = [t \in Times |-> 0]
    /\ disturbed = FALSE

----------------------------------------------------------------------------
\* checkAndAppend with the limits of checkAndRecordWrite.

Pruned(f) == [t \in Times |-> IF t > now - Day THEN f[t] ELSE 0]
AllowedOneMore(f) == PerDay(f) < DailyLimit /\ PerHour(f) <= HourlyLimit
Allowed(f) == PerDay(f) < DailyLimit /\ PerHour(f) < HourlyLimit

\* record = false: the pruned state is saved only when the check passes.
Checked(f) == IF Allowed(f) THEN Pruned(f) ELSE f
\* record = true: the entry carries the time taken before the lock.
Appended(f, t) == IF Allowed(f) THEN Add(Pruned(f), t) ELSE f

Goto(w, l) == pc' = [pc EXCEPT ![w] = l]
Done(w) == Goto(w, "idle") /\ stamp' = [stamp EXCEPT ![w] = 0]

\* A writer leaves "idle": if another one is at work, their steps interleave.
Begin(w, l) ==
    /\ pc[w] = "idle"
    /\ Goto(w, l)
    /\ disturbed' = (disturbed \/ \E v \in Writers : pc[v] # "idle")

\* Bound: the chain takes MaxPosts posts.
Room == Count(landed, -1) + Count(bets, -1) < MaxPosts

----------------------------------------------------------------------------
\* Sessions: executePublishActions.

\* The next PUBLISH or REPLY of the list: Date.now(), then the lock.
BeginReserve(s) ==
    /\ made[s] < PublishCap
    /\ Begin(s, "reserve")
    /\ stamp' = [stamp EXCEPT ![s] = now]
    /\ UNCHANGED <<now, ledgers, made, chain, kept, leaked>>

\* The slot is reserved, or the action is skipped.
Reserve(s) ==
    /\ pc[s] = "reserve"
    /\ ledger' = Appended(ledger, stamp[s])
    /\ IF Allowed(ledger)
       THEN Goto(s, "draft") /\ UNCHANGED stamp
       ELSE Done(s)
    /\ UNCHANGED <<now, rledger, made, chain, history>>

SkipKeepingSlot(s) ==
    /\ pc[s] = "draft"
    /\ Done(s)
    /\ UNCHANGED <<now, ledgers, made, chain, history>>

\* No provider, no source, duplicate, low quality, no attestation, dry run, or
\* publishPost throws before the broadcast: each way out of the try block
\* passes through its finally.
Skip(s) ==
    /\ pc[s] = "draft"
    /\ Goto(s, "rollback")
    /\ UNCHANGED <<now, ledgers, stamp, made, chain, history>>

\* publishPost succeeds and its bookkeeping too: the slot is used.
Publish(s) ==
    /\ pc[s] = "draft" /\ Room
    /\ landed' = Add(landed, stamp[s])
    /\ kept' = Add(kept, stamp[s])
    /\ made' = [made EXCEPT ![s] = @ + 1]
    /\ Done(s)
    /\ UNCHANGED <<now, ledgers, rlanded, bets, leaked, disturbed>>

\* publishPost throws after the broadcast, or appendState, logSession or
\* logQuality throws after it returned: the slot of a post on chain is undone.
PublishLate(s) ==
    /\ "late" \in Faults
    /\ pc[s] = "draft" /\ Room
    /\ landed' = Add(landed, stamp[s])
    /\ disturbed' = TRUE
    /\ Goto(s, "rollback")
    /\ UNCHANGED <<now, ledgers, stamp, made, rlanded, bets, kept, leaked>>

Last(f) == {t \in Times : f[t] > 0 /\ \A u \in Times : f[u] > 0 => u <= t}
MinusAlways(f, t) == [f EXCEPT ![t] = @ - 1]
MinusOrLast(f, t) ==
    [u \in Times |-> IF (u = t /\ f[t] > 0) \/ (f[t] = 0 /\ u \in Last(f)) THEN f[u] - 1 ELSE f[u]]
\* rollbackWriteRecord: drop one entry with the reservation's timestamp, if any.
Minus(f, t) == IF f[t] > 0 THEN [f EXCEPT ![t] = @ - 1] ELSE f

Rollback(s) ==
    /\ pc[s] = "rollback"
    /\ ledger' = Minus(ledger, stamp[s])
    /\ Done(s)
    /\ UNCHANGED <<now, rledger, made, chain, history>>

\* VOTE or BET: the rate is checked, nothing is recorded, the cap not counted.
BeginBet(s) ==
    /\ made[s] < PublishCap
    /\ Begin(s, IF Allowed(ledger) THEN "bet" ELSE "idle")
    /\ ledger' = Checked(ledger)
    /\ UNCHANGED <<now, rledger, stamp, made, chain, kept, leaked>>

\* publishHivePost, unless the amount, the budget or the payload is refused.
Bet(s, lands) ==
    /\ pc[s] = "bet"
    /\ lands => Room
    /\ bets' = IF lands THEN Add(bets, now) ELSE bets
    /\ Done(s)
    /\ UNCHANGED <<now, ledgers, made, landed, rlanded, history>>

\* The list ends, the cap or ACT_PHASE_TIMEOUT_MS is reached; the next session
\* of the agent starts counting anew.
EndSession(s) ==
    /\ pc[s] = "idle" /\ made[s] > 0
    /\ made' = [made EXCEPT ![s] = 0]
    /\ UNCHANGED <<now, ledgers, pc, stamp, chain, history>>

----------------------------------------------------------------------------
\* Tools: guardAndPublish (the dedup check beside the rate check only ends
\* calls, it is a failed publication here).

CheckTool(w) ==
    /\ Begin(w, IF Allowed(ledger) THEN "post" ELSE "idle")
    /\ ledger' = Checked(ledger)
    /\ UNCHANGED <<now, rledger, stamp, made, chain, kept, leaked>>

----------------------------------------------------------------------------
\* Reactors: checkWriteRate, attestAndPublish, recordWrite.

Remaining(limit, used) == IF used < limit THEN limit - used ELSE 0
ReactiveUsedToday == DailyLimit - Remaining(DailyLimit, PerDay(rledger))
ReactiveUsedThisHour == ReactiveBase - Remaining(HourlyLimit, PerHour(rledger))

CheckReactiveOffByOne(w) ==
    /\ Begin(w, IF /\ ReactiveUsedToday <= DailyReactive
                   /\ ReactiveUsedThisHour < ReactiveHourly
                THEN "checkShared" ELSE "idle")
    /\ UNCHANGED <<now, ledgers, stamp, made, chain, kept, leaked>>

\* getWriteRateRemaining on the reactive ledger.
CheckReactive(w) ==
    /\ Begin(w, IF /\ ReactiveUsedToday < DailyReactive
                   /\ ReactiveUsedThisHour < ReactiveHourly
                THEN "checkShared" ELSE "idle")
    /\ UNCHANGED <<now, ledgers, stamp, made, chain, kept, leaked>>

CheckShared(w) ==
    /\ pc[w] = "checkShared"
    /\ ledger' = Checked(ledger)
    /\ Goto(w, IF Allowed(ledger) THEN "post" ELSE "idle")
    /\ UNCHANGED <<now, rledger, stamp, made, chain, history>>

----------------------------------------------------------------------------
\* Tools and reactors publish, then record.

Post(w) ==
    /\ pc[w] = "post" /\ Room
    /\ landed' = Add(landed, now)
    /\ rlanded' = IF w \in Reactors THEN Add(rlanded, now) ELSE rlanded
    /\ Goto(w, "stampEntry")
    /\ UNCHANGED <<now, ledgers, stamp, made, bets, history>>

\* The publication throws: nothing is recorded, whether it landed or not.
PostFails(w) ==
    /\ pc[w] = "post" /\ "fail" \in Faults
    /\ Done(w)
    /\ UNCHANGED <<now, ledgers, made, chain, history>>

PostLate(w) ==
    /\ pc[w] = "post" /\ "late" \in Faults /\ Room
    /\ landed' = Add(landed, now)
    /\ rlanded' = IF w \in Reactors THEN Add(rlanded, now) ELSE rlanded
    /\ disturbed' = TRUE
    /\ Done(w)
    /\ UNCHANGED <<now, ledgers, made, bets, kept, leaked>>

\* checkAndRecordWrite(..., true): Date.now(), then the lock.
StampEntry(w) ==
    /\ pc[w] = "stampEntry"
    /\ stamp' = [stamp EXCEPT ![w] = now]
    /\ Goto(w, IF w \in Reactors THEN "recordReactive" ELSE "record")
    /\ UNCHANGED <<now, ledgers, made, chain, history>>

\* The reactive ledger first; the shared one gets a timestamp of its own.
RecordReactive(w) ==
    /\ pc[w] = "recordReactive"
    /\ rledger' = Appended(rledger, stamp[w])
    /\ stamp' = [stamp EXCEPT ![w] = now]
    /\ Goto(w, "record")
    /\ UNCHANGED <<now, ledger, made, chain, history>>

\* A refusal is ignored: the post is on chain and stays without an entry.
Record(w) ==
    /\ pc[w] = "record"
    /\ ledger' = Appended(ledger, stamp[w])
    /\ kept' = IF Allowed(ledger) THEN Add(kept, stamp[w]) ELSE kept
    /\ Done(w)
    /\ UNCHANGED <<now, rledger, made, chain, leaked, disturbed>>

----------------------------------------------------------------------------
\* The process dies, or an access to a guard file throws out of the call.
Abort(w) ==
    /\ "abort" \in Faults
    /\ pc[w] # "idle"
    /\ leaked' = IF pc[w] \in {"draft", "rollback"} THEN Add(leaked, stamp[w]) ELSE leaked
    /\ disturbed' = (disturbed \/ pc[w] \in {"stampEntry", "recordReactive", "record"})
    /\ made' = [s \in Sessions |-> IF s = w THEN 0 ELSE made[s]]
    /\ Done(w)
    /\ UNCHANGED <<now, ledgers, chain, kept>>

Tick ==
    /\ now < MaxTime
    /\ now' = now + 1
    /\ UNCHANGED <<ledgers, locals, chain, history>>

SessionStep(s) ==
    \/ BeginReserve(s) \/ Reserve(s) \/ Skip(s) \/ Publish(s) \/ PublishLate(s)
    \/ Rollback(s) \/ BeginBet(s) \/ (\E lands \in BOOLEAN : Bet(s, lands))
    \/ EndSession(s)

RecorderStep(w) ==
    \/ Post(w) \/ PostFails(w) \/ PostLate(w) \/ StampEntry(w)
    \/ RecordReactive(w) \/ Record(w)

Next ==
    \/ \E s \in Sessions : SessionStep(s)
    \/ \E w \in Tools : CheckTool(w)
    \/ \E w \in Reactors : CheckReactive(w) \/ CheckShared(w)
    \/ \E w \in Tools \cup Reactors : RecorderStep(w)
    \/ \E w \in Writers : Abort(w)
    \/ Tick

Spec == Init /\ [][Next]_vars
----------------------------------------------------------------------------
\* Properties.

\* The state is well typed; a writer is only at awaits of its own kind, and a
\* timestamp is never in the future.
TypeOK ==
    /\ now \in Times
    /\ ledger \in Bags /\ rledger \in Bags
    /\ pc \in [Writers -> SessionPCs \cup OtherPCs]
    /\ \A w \in Writers : pc[w] \in IF w \in Sessions THEN SessionPCs ELSE OtherPCs
    /\ stamp \in [Writers -> Times]
    /\ made \in [Sessions -> 0..PublishCap]
    /\ kept \in Bags /\ leaked \in Bags
    /\ landed \in Bags /\ rlanded \in Bags /\ bets \in Bags
    /\ disturbed \in BOOLEAN
    /\ \A w \in Writers : stamp[w] <= now

\* The reservations with timestamp t whose session is still at work.
OpenAt(t) == {s \in Sessions : pc[s] \in {"draft", "rollback"} /\ stamp[s] = t}
Open(t) == Cardinality(OpenAt(t))

\* No post loses its slot: however sessions, tools and reactors interleave, a
\* roll back, which finds its entry by timestamp only (write-rate-limit.ts:82),
\* leaves an entry for every recorded post and open reservation of the day.
SlotsCovered ==
    \A t \in Times : t > now - Day => kept[t] + Open(t) <= ledger[t]

\* No slot is lost: an entry of the day stands for a post, an open reservation,
\* or a reservation whose process died; every other way out of the try block
\* gave its slot back (publish-executor.ts:546).
SlotsAccounted ==
    \A t \in Times : t > now - Day => ledger[t] <= kept[t] + Open(t) + leaked[t]

\* The recorded posts of the last hour and day, by timestamp, never exceed the
\* limits of write-rate-limit.ts:4, however many writers there are.
RecordedWithinLimits == PerHour(kept) <= HourlyLimit /\ PerDay(kept) <= DailyLimit

\* Tools and reactors check, publish and only then record, so they can overshoot
\* together; as long as no two writers overlap and every post is recorded, the
\* posts on chain stay within the limits, the reactive ones within their own.
SequentialWithinLimits ==
    ~disturbed => /\ PerHour(landed) <= HourlyLimit
                  /\ PerDay(landed) <= DailyLimit
                  /\ PerDay(rlanded) <= DailyReactive

\* docs/decisions/0012 and the message of event-runner.ts:395 give reactive
\* posts 2 per hour.
ReactiveHourlyWithinLimit == PerHour(rlanded) <= ReactiveHourly
============================================================================
