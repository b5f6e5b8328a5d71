------------------------------ MODULE Spending ------------------------------
(***************************************************************************)
(* What the sessions of an agent spend: the bets of the ACT phase           *)
(* (cli/publish-executor.ts) and the tips of the hook after it              *)
(* (plugins/tips-plugin.ts, lib/tips.ts), both under the policy of          *)
(* lib/spending-policy.ts, whose ledger is a file like the tips' own state. *)
(*                                                                         *)
(* One session runs at a time (SessionRun says when that holds).  A step    *)
(* reaches from one await to the next: between the check of a spend and its *)
(* record lies the transaction, and midnight or a crash may come first.     *)
(***************************************************************************)
EXTENDS Integers, FiniteSets

CONSTANTS
    Posts,        \* posts of the feed that score high enough for a tip
    Recipients,
    NoPost,       \* none of them
    Author,       \* the author of each post
    TipAmount,    \* what a tip for it comes to
    BetAmounts,   \* amounts of planned bets
    DailyCap,     \* dailyCapDem
    SessionCap,   \* sessionCapDem
    MaxTips,      \* maxTipsPerSession
    MaxPerRecipient, \* maxPerRecipientPerDay
    MinSessions,  \* minSessionsBeforeLive
    MaxDays,      \* bound: days
    MaxSessions,  \* bound: session numbers
    Faults,       \* which of the faults below may happen
    MaxTroubles   \* bound: faults in a behaviour

FaultKinds == {
    "api",     \* no token, no feed, a refused tip
    "unsent",  \* store, confirm or broadcast fails, and nothing lands
    "unheard", \* broadcast reports an error for a transaction that landed
    "crash"}   \* the process ends: killed, SIGINT, timer, a failed ACT phase

ASSUME SpendingAssumption ==
    /\ Author \in [Posts -> Recipients] /\ NoPost \notin Posts
    /\ TipAmount \in [Posts -> Nat \ {0}]
    /\ BetAmounts \subseteq Nat \ {0}
    /\ IsFiniteSet(Posts)
    /\ {DailyCap, SessionCap, MaxPerRecipient, MinSessions} \subseteq Nat
    /\ MaxTips \in Nat \ {0} \* agent-config.ts:317
    /\ {MaxDays, MaxSessions} \subseteq Nat \ {0} /\ MaxTroubles \in Nat
    /\ Faults \subseteq FaultKinds

VARIABLES
    day,
    number,   \* of the next session, or of the one that runs
    ledger,   \* spending-ledger.json: day and dailySpent
    tipFile,  \* tips-state.json
    pc,       \* where the session is
    memory,   \* the ledger it has loaded
    tipState, \* the tip state it has loaded
    planned,  \* the bet it places, 0 for none
    queue,    \* the candidates it has not come to
    post,     \* the one it tips
    live,     \* spendingConfig.dryRun is off: the warm-up is over
    history,  \* what has landed, and what of it no file knows: see Nothing
    troubles  \* bound: faults so far

files == <<ledger, tipFile>>
betting == <<memory, planned>>
tipping == <<tipState, queue, post, live>>
vars == <<day, number, files, pc, betting, tipping, history, troubles>>

\* landed, due, lost: today's transactions, those of them that only the memory
\* of the running hook has recorded, and those that no ledger will have.
\* tipsTo: today's tips.  tips: all tips of a post.  pending: posts tipped by the
\* running hook.  forgotten: posts whose tip no tip state will have.
\* warmed: the sessions whose hook has saved its state.
Nothing == [landed |-> 0, due |-> 0, lost |-> 0, tipsTo |-> [r \in Recipients |-> 0],
            tips |-> [p \in Posts |-> 0], pending |-> {}, forgotten |-> {}, warmed |-> {}]

FreshTips == [tipped |-> {}, on |-> [r \in Recipients |-> 0], count |-> [r \in Recipients |-> 0],
              warm |-> 0, last |-> 0]

Trouble(kind) ==
    /\ kind \in Faults /\ troubles < MaxTroubles
    /\ troubles' = troubles + 1

Init ==
    /\ day = 1 /\ number = 1
    /\ ledger = [day |-> 1, spent |-> 0] /\ tipFile = FreshTips
    /\ pc = "idle"
    /\ memory = [day |-> 1, spent |-> 0, session |-> 0] /\ planned = 0
    /\ tipState = FreshTips /\ queue = {} /\ post = NoPost /\ live = FALSE
    /\ history = Nothing
    /\ troubles = 0

----------------------------------------------------------------------------
(* spending-policy.ts *)

\* A ledger of another day starts over.
SpentToday(l) == IF l.day = day THEN l.spent ELSE 0

\* sessionSpent is not read from the file.
Loaded == [day |-> day, spent |-> SpentToday(ledger), session |-> 0]

\* The caps of canSpend and checkSessionBudget.
Within(amount) ==
    /\ SpentToday(memory) + amount <= DailyCap
    /\ memory.session + amount <= SessionCap

RecordedReversed(amount) ==
    [day |-> day, spent |-> SpentToday(memory) - amount, session |-> memory.session + amount]
Recorded(amount) ==
    [day |-> day, spent |-> SpentToday(memory) + amount, session |-> memory.session + amount]

SaveLedger(l) == ledger' = [day |-> l.day, spent |-> l.spent]

----------------------------------------------------------------------------
(* publish-executor.ts: the bets *)

\* The ledger is loaded for each run of executePublishActions.
StartSession ==
    /\ pc = "idle"
    /\ pc' = "act"
    /\ memory' = Loaded
    /\ UNCHANGED <<day, number, files, planned, tipping, history, troubles>>

\* The policy is never in its dry run here: runV3Loop accepts autonomous sessions only.
PlaceBet ==
    /\ pc = "act"
    /\ \E amount \in BetAmounts :
          /\ Within(amount)
          /\ planned' = amount
    /\ pc' = "bet"
    /\ UNCHANGED <<day, number, files, memory, tipping, history, troubles>>

BetReturns ==
    /\ pc = "bet"
    /\ memory' = Recorded(planned)
    /\ SaveLedger(memory')
    /\ history' = [history EXCEPT !.landed = @ + planned]
    /\ pc' = "act" /\ planned' = 0
    /\ UNCHANGED <<day, number, tipFile, tipping, troubles>>

\* The error is caught and the next action taken.
BetFails ==
    /\ pc = "bet"
    /\ \/ Trouble("unsent") /\ UNCHANGED history
       \/ /\ Trouble("unheard")
          /\ history' = [history EXCEPT !.landed = @ + planned, !.lost = @ + planned]
    /\ pc' = "act" /\ planned' = 0
    /\ UNCHANGED <<day, number, files, memory, tipping>>

----------------------------------------------------------------------------
(* tips-plugin.ts and tips.ts: the hook after the ACT phase *)

\* incrementWarmupCounter
WarmedAlways(t) == [t EXCEPT !.warm = @ + 1, !.last = number]
Warmed(t) == IF t.last = number THEN t ELSE [t EXCEPT !.warm = @ + 1, !.last = number]

\* currentRecipientCount
Count(t, r) == IF t.on[r] = day THEN t.count[r] ELSE 0

\* The filters of selectTipCandidates; the scores and the cooldown choose among the rest.
Untipped(t) == {p \in Posts : p \notin t.tipped /\ Count(t, Author[p]) <= MaxPerRecipient}
UnderLimit(t) == {p \in Posts : Count(t, Author[p]) < MaxPerRecipient}
Eligible(t) == {p \in Posts : p \notin t.tipped /\ Count(t, Author[p]) < MaxPerRecipient}

OpenHook ==
    /\ pc = "act"
    /\ tipState' = Warmed(tipFile)
    /\ \E Q \in SUBSET Eligible(tipFile) : Cardinality(Q) <= MaxTips /\ queue' = Q
    /\ memory' = Loaded
    /\ live' = (tipFile.warm >= MinSessions)
    /\ pc' = "hook"
    /\ UNCHANGED <<day, number, files, planned, post, history, troubles>>

\* No token, or no feed: the hook ends before it has changed anything.
SkipHook ==
    /\ pc = "act" /\ Trouble("api")
    /\ pc' = "done"
    /\ UNCHANGED <<day, number, files, betting, tipping, history>>

\* executeTip up to its first await.
Tip(p) ==
    /\ pc = "hook" /\ p \in queue
    /\ queue' = queue \ {p}
    /\ IF live /\ Within(TipAmount[p])
       THEN pc' = "tip" /\ post' = p
       ELSE UNCHANGED <<pc, post>>
    /\ UNCHANGED <<day, number, files, betting, tipState, live, history, troubles>>

WithTip(t, p) ==
    LET r == Author[p] IN
    [t EXCEPT !.tipped = @ \cup {p}, !.on[r] = day, !.count[r] = Count(t, r) + 1]

\* A tip for the post has landed.
Landed ==
    [history EXCEPT !.landed = @ + TipAmount[post], !.due = @ + TipAmount[post],
                    !.tips[post] = @ + 1, !.tipsTo[Author[post]] = @ + 1,
                    !.pending = @ \cup {post}]

TipReturns ==
    /\ pc = "tip"
    /\ memory' = Recorded(TipAmount[post])
    /\ tipState' = WithTip(tipState, post)
    /\ history' = Landed
    /\ pc' = "hook" /\ post' = NoPost
    /\ UNCHANGED <<day, number, files, planned, queue, live, troubles>>

\* What is lost with the memory of a hook.
Forgetting(h) ==
    [h EXCEPT !.lost = @ + h.due, !.due = 0,
              !.forgotten = @ \cup h.pending, !.pending = {}]

\* The tip is refused or its transaction throws: so does the hook, with all it has recorded.
TipFails ==
    /\ pc = "tip"
    /\ \/ (Trouble("api") \/ Trouble("unsent")) /\ history' = Forgetting(history)
       \/ Trouble("unheard") /\ history' = Forgetting(Landed)
    /\ pc' = "done" /\ post' = NoPost /\ queue' = {}
    /\ UNCHANGED <<day, number, files, betting, tipState, live>>

SaveNoSpends ==
    /\ pc = "hook" /\ queue = {}
    /\ history' = [history EXCEPT !.due = 0]
    /\ pc' = "save"
    /\ UNCHANGED <<day, number, files, betting, tipping, troubles>>
SaveSpends ==
    /\ pc = "hook" /\ queue = {}
    /\ SaveLedger(memory)
    /\ history' = [history EXCEPT !.due = 0]
    /\ pc' = "save"
    /\ UNCHANGED <<day, number, tipFile, betting, tipping, troubles>>

SaveTips ==
    /\ pc = "save"
    /\ tipFile' = tipState
    /\ history' = [history EXCEPT !.pending = {}, !.warmed = @ \cup {number}]
    /\ pc' = "done"
    /\ UNCHANGED <<day, number, ledger, betting, tipping, troubles>>

----------------------------------------------------------------------------
\* A session that ends as it should passes its number on.
EndSession ==
    /\ pc = "done" /\ number < MaxSessions
    /\ number' = number + 1
    /\ pc' = "idle"
    /\ UNCHANGED <<day, files, betting, tipping, history, troubles>>

\* The next session takes the same number, or resumes after the ACT phase if it
\* was through.  A transaction under way may land.
Crash ==
    /\ pc # "idle" /\ Trouble("crash")
    /\ \/ history' = Forgetting(history)
       \/ pc = "tip" /\ history' = Forgetting(Landed)
       \/ /\ pc = "bet"
          /\ history' = [history EXCEPT !.landed = @ + planned, !.lost = @ + planned]
    /\ pc' \in IF pc \in {"act", "bet"} THEN {"idle"} ELSE {"idle", "done"}
    /\ planned' = 0 /\ queue' = {} /\ post' = NoPost
    /\ UNCHANGED <<day, number, files, memory, tipState, live>>

Midnight ==
    /\ day < MaxDays
    /\ day' = day + 1
    /\ history' = [history EXCEPT !.landed = 0, !.due = 0, !.lost = 0,
                                  !.tipsTo = [r \in Recipients |-> 0]]
    /\ UNCHANGED <<number, files, pc, betting, tipping, troubles>>

Bet == PlaceBet \/ BetReturns \/ BetFails
Hook == OpenHook \/ SkipHook \/ (\E p \in Posts : Tip(p)) \/ TipReturns \/ TipFails
            \/ SaveSpends \/ SaveTips
Next == StartSession \/ Bet \/ Hook \/ EndSession \/ Crash \/ Midnight

Spec == Init /\ [][Next]_vars

----------------------------------------------------------------------------
(* Properties *)

PCs == {"idle", "act", "bet", "hook", "tip", "save", "done"}
Tips == [tipped : SUBSET Posts, on : [Recipients -> 0..MaxDays], count : [Recipients -> Nat],
         warm : Nat, last : Nat]

\* Types: what the files, the session's memory and the history can hold.
TypeOK ==
    /\ day \in 1..MaxDays /\ number \in 1..MaxSessions
    /\ ledger \in [day : 1..MaxDays, spent : Nat]
    /\ tipFile \in Tips /\ tipState \in Tips
    /\ pc \in PCs
    /\ memory \in [day : 1..MaxDays, spent : Nat, session : Nat]
    /\ planned \in Nat /\ (pc = "bet" <=> planned # 0)
    /\ queue \subseteq Posts /\ (queue # {} => pc \in {"hook", "tip"})
    /\ post \in Posts \cup {NoPost} /\ (pc = "tip" <=> post # NoPost)
    /\ live \in BOOLEAN
    /\ history \in [landed : Nat, due : Nat, lost : Nat, tipsTo : [Recipients -> Nat],
                    tips : [Posts -> Nat], pending : SUBSET Posts, forgotten : SUBSET Posts,
                    warmed : SUBSET (1..MaxSessions)]
    /\ troubles \in 0..MaxTroubles

\* A day's transactions stay within the cap, but for those that were lost: whose
\* answer was an error, or which a failed or interrupted hook had not saved.
\* Neither a change of the day nor the two loads of a session let more through.
DayWithinCap == history.landed <= DailyCap + history.lost

\* No post is tipped twice unless its first tip was forgotten.
TippedOnce == \A p \in Posts : history.tips[p] > 1 => p \in history.forgotten

\* A recipient gets at most one tip a day more than the limit (two candidates of
\* one author pass the filter together), unless a tip to them was forgotten.
RecipientBounded ==
    \A r \in Recipients :
        \/ history.tipsTo[r] <= MaxPerRecipient + MaxTips - 1
        \/ \E p \in history.forgotten : Author[p] = r

\* No tip before the hooks of enough different sessions have run to their end,
\* however often a session is started again.
WarmUpFirst == \A p \in Posts : history.tips[p] > 0 => Cardinality(history.warmed) >= MinSessions
=============================================================================
