-------------------------- MODULE WriteRateProofs --------------------------
(***************************************************************************)
(* Theorems about WriteRate for every number of sessions, tools and         *)
(* reactors, every limit and every length of the hour and the day: type     *)
(* correctness, the exact accounting of slots, the limits on what is        *)
(* recorded, and those on what is posted when writers do not overlap.       *)
(***************************************************************************)
EXTENDS WriteRate, FiniteSetTheorems, TLAPS

\* Every entry of the day is accounted for, exactly.
Accounted ==
    \A t \in Times : t > now - Day => ledger[t] = kept[t] + Open(t) + leaked[t]

\* What the ledger itself remembers is within the limits.
LedgerWithinLimits == PerHour(ledger) <= HourlyLimit /\ PerDay(ledger) <= DailyLimit

\* A session that works on an action has not reached its cap.
BusyBelowCap == \A s \in Sessions : pc[s] # "idle" => made[s] < PublishCap

\* The inductive invariant: TInv is inductive alone, the others relative to it.
TInv == TypeOK /\ BusyBelowCap
IInv == TInv /\ Accounted /\ LedgerWithinLimits

----------------------------------------------------------------------------
\* Counting the entries of a ledger.

\* A ledger has finitely many entries, so their number is a number.
LEMMA CountType ==
    ASSUME NEW f \in Bags, NEW from \in Int
    PROVE  IsFiniteSet(Slots(f, from)) /\ Count(f, from) \in Nat
<1> DEFINE seen == {x \in Times : x > from}
           row(t) == {t} \X (1..f[t])
<1>1. IsFiniteSet(seen)
  <2>1. IsFiniteSet(Times)
    BY FS_Interval, WriteRateAssumption DEF Times
  <2> QED
    BY <2>1, FS_Subset
<1>2. \A t \in seen : IsFiniteSet(row(t))
  <2>1. TAKE t \in seen
  <2>2. IsFiniteSet({t})
    BY FS_Singleton
  <2>3. IsFiniteSet(1..f[t])
    BY FS_Interval, f[t] \in Nat DEF Bags
  <2> QED
    BY <2>2, <2>3, FS_Product
<1>3. IsFiniteSet({row(t) : t \in seen})
  <2>1. [t \in seen |-> row(t)] \in Surjection(seen, {row(t) : t \in seen})
    BY DEF Surjection
  <2> QED
    BY <1>1, <2>1, FS_Surjection
<1>4. \A R \in {row(t) : t \in seen} : IsFiniteSet(R)
  BY <1>2
<1>5. IsFiniteSet(UNION {row(t) : t \in seen})
  BY <1>3, <1>4, FS_UNION
<1> QED
  BY <1>5, FS_CardinalityType DEF Slots, Count

\* A ledger with no more entries at any timestamp that counts, seen from no
\* earlier, counts no more (pruning, rolling back, the clock ticking).
LEMMA CountMonotone ==
    ASSUME NEW f \in Bags, NEW g \in Bags, NEW from \in Int, NEW later \in Int,
           from <= later, \A t \in Times : t > later => f[t] <= g[t]
    PROVE  Count(f, later) <= Count(g, from)
<1>1. \A t \in Times : t > later => t > from /\ 1..f[t] \subseteq 1..g[t]
  <2>1. \A t \in Times : t \in Int /\ f[t] \in Nat /\ g[t] \in Nat
    BY DEF Times, Bags
  <2> QED
    BY <2>1
<1>2. Slots(f, later) \subseteq Slots(g, from)
  BY <1>1 DEF Slots
<1> QED
  BY <1>2, CountType, FS_Subset DEF Count

\* One more entry counts at most one more.
LEMMA CountAdd ==
    ASSUME NEW f \in Bags, NEW from \in Int, NEW t \in Times
    PROVE  Add(f, t) \in Bags /\ Count(Add(f, t), from) <= Count(f, from) + 1
<1> DEFINE g == Add(f, t)
           new == <<t, f[t] + 1>>
<1>1. g \in Bags
  BY DEF Add, Bags
<1>2. \A x \in Times : 1..g[x] \subseteq 1..f[x] \cup (IF x = t THEN {f[t] + 1} ELSE {})
  BY DEF Add, Bags
<1>3. Slots(g, from) \subseteq Slots(f, from) \cup {new}
  <2>1. ASSUME NEW x \in Times, x > from, NEW u \in {x} \X (1..g[x])
        PROVE  u \in Slots(f, from) \cup {new}
    <3>1. CASE u[2] \in 1..f[x]
      BY <2>1, <3>1 DEF Slots
    <3>2. CASE x = t /\ u[2] = f[t] + 1
      BY <2>1, <3>2
    <3> QED
      BY <1>2, <2>1, <3>1, <3>2
  <2> QED
    BY <2>1 DEF Slots
<1>4. IsFiniteSet(Slots(f, from)) /\ Count(f, from) \in Nat
  BY CountType
<1>5. /\ IsFiniteSet(Slots(f, from) \cup {new})
      /\ Cardinality(Slots(f, from) \cup {new}) \in {Count(f, from), Count(f, from) + 1}
  BY <1>4, FS_AddElement DEF Count
<1>6. Count(g, from) \in Nat
  BY <1>1, CountType
<1>7. Count(g, from) <= Cardinality(Slots(f, from) \cup {new})
  BY <1>3, <1>5, FS_Subset DEF Count
<1> QED
  BY <1>1, <1>4, <1>5, <1>6, <1>7

----------------------------------------------------------------------------
\* What checkAndAppend and rollbackWriteRecord make of a ledger.

\* The clock and the windows are integers.
LEMMA Windows ==
    ASSUME now \in Times
    PROVE  now \in Nat /\ now - Day \in Int /\ now - Hour \in Int /\ now - Day <= now - Hour
BY WriteRateAssumption DEF Times

LEMMA PrunedLedger ==
    ASSUME now \in Times, NEW f \in Bags
    PROVE  /\ Pruned(f) \in Bags
           /\ \A t \in Times : t > now - Day => Pruned(f)[t] = f[t]
           /\ \A t \in Times : Pruned(f)[t] <= f[t]
BY Windows DEF Pruned, Bags

LEMMA CheckedLedger ==
    ASSUME now \in Times, NEW f \in Bags
    PROVE  /\ Checked(f) \in Bags
           /\ \A t \in Times : t > now - Day => Checked(f)[t] = f[t]
           /\ \A t \in Times : Checked(f)[t] <= f[t]
BY PrunedLedger DEF Checked, Bags

\* An appended entry is the only change the day sees.
LEMMA AppendedLedger ==
    ASSUME now \in Times, NEW f \in Bags, NEW s \in Times
    PROVE  /\ Appended(f, s) \in Bags
           /\ ~Allowed(f) => Appended(f, s) = f
           /\ Allowed(f) => \A t \in Times : t > now - Day =>
                Appended(f, s)[t] = f[t] + (IF t = s THEN 1 ELSE 0)
<1>1. Pruned(f) \in Bags /\ \A t \in Times : t > now - Day => Pruned(f)[t] = f[t]
  BY PrunedLedger
<1> QED
  BY <1>1 DEF Appended, Add, Bags

\* The limits hold after an append, whatever they allowed before.
LEMMA AppendedWithin ==
    ASSUME now \in Times, NEW f \in Bags, NEW s \in Times,
           PerHour(f) <= HourlyLimit, PerDay(f) <= DailyLimit
    PROVE  /\ Count(Appended(f, s), now - Hour) <= HourlyLimit
           /\ Count(Appended(f, s), now - Day) <= DailyLimit
<1>1. CASE ~Allowed(f)
  BY <1>1, AppendedLedger DEF PerHour, PerDay
<1>2. CASE Allowed(f)
  <2>1. Pruned(f) \in Bags /\ \A t \in Times : Pruned(f)[t] <= f[t]
    BY PrunedLedger
  <2>2. /\ Count(Pruned(f), now - Hour) <= PerHour(f)
        /\ Count(Pruned(f), now - Day) <= PerDay(f)
    BY <2>1, Windows, CountMonotone DEF PerHour, PerDay
  <2>3. /\ Count(Add(Pruned(f), s), now - Hour) <= Count(Pruned(f), now - Hour) + 1
        /\ Count(Add(Pruned(f), s), now - Day) <= Count(Pruned(f), now - Day) + 1
        /\ Add(Pruned(f), s) \in Bags
    BY <2>1, Windows, CountAdd
  <2>4. /\ Count(Add(Pruned(f), s), now - Hour) \in Nat
        /\ Count(Add(Pruned(f), s), now - Day) \in Nat
        /\ Count(Pruned(f), now - Hour) \in Nat /\ Count(Pruned(f), now - Day) \in Nat
        /\ PerHour(f) \in Nat /\ PerDay(f) \in Nat
    BY <2>1, <2>3, Windows, CountType DEF PerHour, PerDay
  <2>5. PerHour(f) < HourlyLimit /\ PerDay(f) < DailyLimit
    BY <1>2 DEF Allowed
  <2>6. Appended(f, s) = Add(Pruned(f), s)
    BY <1>2 DEF Appended
  <2> QED
    BY <2>2, <2>3, <2>4, <2>5, <2>6, WriteRateAssumption
<1> QED
  BY <1>1, <1>2

----------------------------------------------------------------------------
\* Type correctness.

LEMMA TInvInit ==
    ASSUME Init
    PROVE  TInv
<1>1. now \in Times /\ 0 \in Times /\ 0 \in 0..PublishCap /\ now <= 0 /\ 0 <= now
  BY WriteRateAssumption DEF Init, Times
<1>2. TypeOK
  BY <1>1 DEF Init, TypeOK, Bags, Writers, SessionPCs, OtherPCs
<1>3. BusyBelowCap
  BY DEF Init, BusyBelowCap, Writers
<1> QED
  BY <1>2, <1>3 DEF TInv

\* What the steps put into the ledgers are ledgers.
LEMMA NewLedgers ==
    ASSUME now \in Times, NEW f \in Bags, NEW t \in Times
    PROVE  Add(f, t) \in Bags /\ Minus(f, t) \in Bags /\ Appended(f, t) \in Bags /\ Checked(f) \in Bags
<1>1. Add(f, t) \in Bags /\ Minus(f, t) \in Bags
  BY DEF Add, Minus, Bags
<1> QED
  BY <1>1, AppendedLedger, CheckedLedger

\* A session's step keeps the types and its cap.
LEMMA SessionKeepsTypes ==
    ASSUME TInv, NEW s \in Sessions, SessionStep(s)
    PROVE  TInv'
<1> USE DEF TInv, TypeOK, BusyBelowCap, SessionPCs, OtherPCs, Writers, ledgers, locals,
            chain, history
<1>0. now \in Times /\ 0 \in Times /\ now \in Nat /\ stamp[s] \in Times
  BY WriteRateAssumption DEF Times
<1>1. CASE BeginReserve(s)
  BY <1>1, <1>0 DEF BeginReserve, Begin, Goto
<1>2. CASE Reserve(s)
  <2>1. Appended(ledger, stamp[s]) \in Bags
    BY <1>0, NewLedgers
  <2>2. CASE Allowed(ledger)
    BY <1>2, <2>1, <2>2 DEF Reserve, Goto
  <2>3. CASE ~Allowed(ledger)
    BY <1>0, <1>2, <2>1, <2>3 DEF Reserve, Done, Goto
  <2> QED
    BY <2>2, <2>3
<1>3. CASE Skip(s)
  BY <1>3 DEF Skip, Goto
<1>4. CASE Publish(s)
  <2>1. Add(landed, stamp[s]) \in Bags /\ Add(kept, stamp[s]) \in Bags
    BY <1>0, NewLedgers
  <2>2. /\ landed' \in Bags /\ kept' \in Bags
        /\ pc' = [pc EXCEPT ![s] = "idle"] /\ stamp' = [stamp EXCEPT ![s] = 0]
        /\ made' = [made EXCEPT ![s] = @ + 1] /\ made[s] \in 0..PublishCap
        /\ made[s] < PublishCap
        /\ UNCHANGED <<now, ledger, rledger, rlanded, bets, leaked, disturbed>>
    BY <1>4, <2>1 DEF Publish, Done, Goto
  <2>3. made' \in [Sessions -> 0..PublishCap]
    BY <2>2, WriteRateAssumption
  <2>4. \A v \in Sessions : pc'[v] # "idle" => made'[v] < PublishCap
    BY <2>2
  <2> QED
    BY <1>0, <2>2, <2>3, <2>4
<1>5. CASE PublishLate(s)
  <2>1. Add(landed, stamp[s]) \in Bags
    BY <1>0, NewLedgers
  <2> QED
    BY <1>5, <2>1 DEF PublishLate, Goto
<1>6. CASE Rollback(s)
  <2>1. Minus(ledger, stamp[s]) \in Bags
    BY <1>0, NewLedgers
  <2> QED
    BY <1>0, <1>6, <2>1 DEF Rollback, Done, Goto
<1>7. CASE BeginBet(s)
  <2>1. Checked(ledger) \in Bags
    BY <1>0, NewLedgers
  <2> QED
    BY <1>7, <2>1 DEF BeginBet, Begin, Goto
<1>8. ASSUME NEW lands \in BOOLEAN, Bet(s, lands)
      PROVE  TInv'
  <2>1. bets' \in Bags
    BY <1>0, <1>8, NewLedgers DEF Bet
  <2> QED
    BY <1>0, <1>8, <2>1 DEF Bet, Done, Goto
<1>9. CASE EndSession(s)
  <2>1. made' \in [Sessions -> 0..PublishCap]
    BY <1>9, WriteRateAssumption DEF EndSession
  <2> QED
    BY <1>9, <2>1 DEF EndSession
<1> QED
  BY <1>1, <1>2, <1>3, <1>4, <1>5, <1>6, <1>7, <1>8, <1>9 DEF SessionStep

\* So does a step of a tool or of a reactor.
LEMMA RecorderKeepsTypes ==
    ASSUME TInv, NEW w \in Tools \cup Reactors,
           CheckTool(w) \/ CheckReactive(w) \/ CheckShared(w) \/ RecorderStep(w)
    PROVE  TInv'
<1> USE DEF TInv, TypeOK, BusyBelowCap, SessionPCs, OtherPCs, Writers, ledgers, locals,
            chain, history
<1>0. /\ now \in Times /\ 0 \in Times /\ now \in Nat /\ stamp[w] \in Times
      /\ w \notin Sessions
  BY WriteRateAssumption DEF Times
<1>1. CASE CheckTool(w)
  <2>1. Checked(ledger) \in Bags
    BY <1>0, NewLedgers
  <2> QED
    BY <1>0, <1>1, <2>1 DEF CheckTool, Begin, Goto
<1>2. CASE CheckReactive(w)
  BY <1>0, <1>2 DEF CheckReactive, Begin, Goto
<1>3. CASE CheckShared(w)
  <2>1. Checked(ledger) \in Bags
    BY <1>0, NewLedgers
  <2> QED
    BY <1>0, <1>3, <2>1 DEF CheckShared, Goto
<1>4. CASE Post(w)
  <2>1. landed' \in Bags /\ rlanded' \in Bags
    BY <1>0, <1>4, NewLedgers DEF Post
  <2> QED
    BY <1>0, <1>4, <2>1 DEF Post, Goto
<1>5. CASE PostFails(w)
  BY <1>0, <1>5 DEF PostFails, Done, Goto
<1>6. CASE PostLate(w)
  <2>1. landed' \in Bags /\ rlanded' \in Bags
    BY <1>0, <1>6, NewLedgers DEF PostLate
  <2> QED
    BY <1>0, <1>6, <2>1 DEF PostLate, Done, Goto
<1>7. CASE StampEntry(w)
  BY <1>0, <1>7 DEF StampEntry, Goto
<1>8. CASE RecordReactive(w)
  <2>1. Appended(rledger, stamp[w]) \in Bags
    BY <1>0, NewLedgers
  <2> QED
    BY <1>0, <1>8, <2>1 DEF RecordReactive, Goto
<1>9. CASE Record(w)
  <2>1. ledger' \in Bags /\ kept' \in Bags
    BY <1>0, <1>9, NewLedgers DEF Record
  <2> QED
    BY <1>0, <1>9, <2>1 DEF Record, Done, Goto
<1> QED
  BY <1>1, <1>2, <1>3, <1>4, <1>5, <1>6, <1>7, <1>8, <1>9 DEF RecorderStep

LEMMA TInvStep ==
    ASSUME TInv, [Next]_vars
    PROVE  TInv'
<1>1. CASE \E s \in Sessions : SessionStep(s)
  BY <1>1, SessionKeepsTypes
<1>2. CASE \E w \in Tools \cup Reactors :
             CheckTool(w) \/ CheckReactive(w) \/ CheckShared(w) \/ RecorderStep(w)
  BY <1>2, RecorderKeepsTypes
<1>3. ASSUME NEW w \in Writers, Abort(w)
      PROVE  TInv'
  <2>1. now \in Times /\ 0 \in Times /\ now \in Nat /\ stamp[w] \in Times
    BY WriteRateAssumption DEF TInv, TypeOK, Times
  <2>2. leaked' \in Bags
    BY <1>3, <2>1, NewLedgers DEF Abort, TInv, TypeOK
  <2>3. made' \in [Sessions -> 0..PublishCap] /\ \A s \in Sessions : made'[s] <= made[s]
    BY <1>3, WriteRateAssumption DEF Abort, TInv, TypeOK
  <2>4. /\ pc' = [pc EXCEPT ![w] = "idle"] /\ stamp' = [stamp EXCEPT ![w] = 0]
        /\ disturbed' \in BOOLEAN
        /\ UNCHANGED <<now, ledger, rledger, landed, rlanded, bets, kept>>
    BY <1>3 DEF Abort, Done, Goto, ledgers, chain, TInv, TypeOK
  <2>5. TypeOK'
    BY <2>1, <2>2, <2>3, <2>4 DEF TInv, TypeOK, SessionPCs, OtherPCs
  <2>6. BusyBelowCap'
    BY <2>3, <2>4, WriteRateAssumption DEF TInv, TypeOK, BusyBelowCap, Writers
  <2> QED
    BY <2>5, <2>6 DEF TInv
<1>4. CASE Tick
  <2>1. now \in Times /\ now' \in Times /\ now <= now' /\ now \in Int /\ now' \in Int
    BY <1>4, WriteRateAssumption DEF Tick, TInv, TypeOK, Times
  <2>2. \A w \in Writers : stamp[w] \in Int /\ stamp[w] <= now
    BY DEF TInv, TypeOK, Times
  <2>3. UNCHANGED <<ledger, rledger, pc, stamp, made, kept, leaked, landed, rlanded, bets, disturbed>>
    BY <1>4 DEF Tick, ledgers, locals, chain, history
  <2> QED
    BY <2>1, <2>2, <2>3 DEF TInv, TypeOK, BusyBelowCap
<1>5. CASE UNCHANGED vars
  BY <1>5 DEF vars, TInv, TypeOK, BusyBelowCap, ledgers, locals, chain, history
<1> QED
  BY <1>1, <1>2, <1>3, <1>4, <1>5 DEF Next

\* The state is well typed in every reachable state.
THEOREM WriteRateTypeOK == Spec => []TypeOK
<1>1. Init => TInv
  BY TInvInit
<1>2. TInv /\ [Next]_vars => TInv'
  BY TInvStep
<1>3. TInv => TypeOK
  BY DEF TInv
<1> QED
  BY <1>1, <1>2, <1>3, PTL DEF Spec

----------------------------------------------------------------------------
\* The ledger stays within the limits.

\* A window moves with the clock.
LEMMA WindowMoves ==
    ASSUME NEW a \in Int, NEW b \in Int, NEW length \in Int, a <= b
    PROVE  /\ a - length \in Int /\ b - length \in Int /\ a - length <= b - length
           /\ \A t \in Int : t > b - length => t > a - length
OBVIOUS

\* It does when no timestamp gains entries, and as time passes.
LEMMA ShrinkKeepsLimits ==
    ASSUME TypeOK, TypeOK', LedgerWithinLimits, now <= now',
           \A t \in Times : ledger'[t] <= ledger[t]
    PROVE  LedgerWithinLimits'
<1>a. now \in Times /\ now' \in Times /\ ledger \in Bags /\ ledger' \in Bags
  BY DEF TypeOK
<1>b. now \in Int /\ now' \in Int
  BY <1>a DEF Times
<1>1. /\ now - Hour \in Int /\ now' - Hour \in Int /\ now - Hour <= now' - Hour
      /\ now - Day \in Int /\ now' - Day \in Int /\ now - Day <= now' - Day
      /\ ledger \in Bags /\ ledger' \in Bags
  <2>1. Hour \in Int /\ Day \in Int
    BY WriteRateAssumption
  <2> QED
    BY <1>a, <1>b, <2>1, WindowMoves
<1>2. /\ Count(ledger', now' - Hour) <= Count(ledger, now - Hour)
      /\ Count(ledger', now' - Day) <= Count(ledger, now - Day)
  BY <1>1, CountMonotone
<1>3. /\ Count(ledger', now' - Hour) \in Nat /\ Count(ledger, now - Hour) \in Nat
      /\ Count(ledger', now' - Day) \in Nat /\ Count(ledger, now - Day) \in Nat
  BY <1>1, CountType
<1> QED
  BY <1>2, <1>3, WriteRateAssumption DEF LedgerWithinLimits, PerHour, PerDay

\* It does when an entry is appended by checkAndAppend.
LEMMA AppendKeepsLimits ==
    ASSUME TypeOK, LedgerWithinLimits, NEW s \in Times,
           ledger' = Appended(ledger, s), now' = now
    PROVE  LedgerWithinLimits'
BY AppendedWithin DEF LedgerWithinLimits, PerHour, PerDay, TypeOK

LEMMA StepKeepsLimits ==
    ASSUME TypeOK, TypeOK', LedgerWithinLimits, [Next]_vars
    PROVE  LedgerWithinLimits'
<1>a. now \in Times /\ now \in Nat /\ ledger \in Bags
  BY DEF TypeOK, Times
<1>b. \A w \in Writers : stamp[w] \in Times
  BY DEF TypeOK
<1>c. \A t \in Times : ledger[t] \in Nat
  BY <1>a DEF Bags
<1>0. /\ now \in Times /\ now \in Nat /\ ledger \in Bags
      /\ \A w \in Writers : stamp[w] \in Times
      /\ \A t \in Times : ledger[t] \in Nat
  BY <1>a, <1>b, <1>c
<1>1. CASE now <= now' /\ ledger' = ledger
  BY <1>0, <1>1, ShrinkKeepsLimits
<1>2. CASE now' = now /\ ledger' = Checked(ledger)
  BY <1>0, <1>2, CheckedLedger, ShrinkKeepsLimits
<1>3. CASE now' = now /\ \E t \in Times : ledger' = Minus(ledger, t)
  <2>1. \A t, u \in Times : Minus(ledger, t)[u] <= ledger[u]
    BY <1>0 DEF Minus, Bags
  <2> QED
    BY <1>0, <1>3, <2>1, ShrinkKeepsLimits
<1>4. CASE now' = now /\ \E t \in Times : ledger' = Appended(ledger, t)
  BY <1>4, AppendKeepsLimits
<1>5. ASSUME NEW s \in Sessions, SessionStep(s)
      PROVE  LedgerWithinLimits'
  <2>1. stamp[s] \in Times
    BY <1>0 DEF Writers
  <2>2. CASE Reserve(s)
    BY <2>1, <2>2, <1>4 DEF Reserve
  <2>3. CASE Rollback(s)
    BY <2>1, <2>3, <1>3 DEF Rollback
  <2>4. CASE BeginBet(s)
    BY <2>4, <1>2 DEF BeginBet
  <2>5. CASE \/ BeginReserve(s) \/ Skip(s) \/ Publish(s) \/ PublishLate(s)
             \/ (\E lands \in BOOLEAN : Bet(s, lands)) \/ EndSession(s)
    <3>1. now' = now /\ ledger' = ledger
      BY <2>5 DEF BeginReserve, Skip, Publish, PublishLate, Bet, EndSession, ledgers
    <3> QED
      BY <3>1, <1>0, <1>1
  <2> QED
    BY <1>5, <2>2, <2>3, <2>4, <2>5 DEF SessionStep
<1>6. ASSUME NEW w \in Tools \cup Reactors,
             CheckTool(w) \/ CheckReactive(w) \/ CheckShared(w) \/ RecorderStep(w)
      PROVE  LedgerWithinLimits'
  <2>1. stamp[w] \in Times
    BY <1>0 DEF Writers
  <2>2. CASE CheckTool(w) \/ CheckShared(w)
    BY <2>2, <1>2 DEF CheckTool, CheckShared
  <2>3. CASE Record(w)
    BY <2>1, <2>3, <1>4 DEF Record
  <2>4. CASE \/ CheckReactive(w) \/ Post(w) \/ PostFails(w) \/ PostLate(w)
             \/ StampEntry(w) \/ RecordReactive(w)
    <3>1. now' = now /\ ledger' = ledger
      BY <2>4 DEF CheckReactive, Post, PostFails, PostLate, StampEntry, RecordReactive, ledgers
    <3> QED
      BY <3>1, <1>0, <1>1
  <2> QED
    BY <1>6, <2>2, <2>3, <2>4 DEF RecorderStep
<1>7. CASE (\E w \in Writers : Abort(w)) \/ Tick \/ UNCHANGED vars
  <2>1. now <= now' /\ ledger' = ledger
    BY <1>0, <1>7 DEF Abort, Tick, vars, ledgers
  <2> QED
    BY <2>1, <1>1
<1> QED
  BY <1>5, <1>6, <1>7 DEF Next

----------------------------------------------------------------------------
\* Every entry of the day is accounted for.

\* The open reservations at a timestamp are finitely many.
LEMMA OpenType ==
    ASSUME NEW t
    PROVE  IsFiniteSet(OpenAt(t)) /\ Open(t) \in Nat
<1>1. OpenAt(t) \in SUBSET Writers
  BY DEF OpenAt, Writers
<1> QED
  BY <1>1, WriteRateAssumption, FS_Subset, FS_CardinalityType DEF Open

\* A session that holds a reservation.
Holds(s) == s \in Sessions /\ pc[s] \in {"draft", "rollback"}

\* No reservation opens or closes.
LEMMA OpenSame ==
    ASSUME \A s \in Sessions : Holds(s)' <=> Holds(s),
           \A s \in Sessions : Holds(s) => stamp'[s] = stamp[s]
    PROVE  \A t : Open(t)' = Open(t)
<1>1. \A t : OpenAt(t)' = OpenAt(t)
  BY DEF OpenAt, Holds
<1> QED
  BY <1>1 DEF Open

\* The reservation of one session opens.
LEMMA OpenGain ==
    ASSUME NEW s \in Sessions, ~Holds(s), Holds(s)',
           \A v \in Sessions \ {s} : Holds(v)' <=> Holds(v),
           \A v \in Sessions : stamp'[v] = stamp[v]
    PROVE  \A t : Open(t)' = Open(t) + (IF t = stamp[s] THEN 1 ELSE 0)
<1>1. TAKE t
<1>2. IsFiniteSet(OpenAt(t)) /\ Open(t) \in Nat /\ s \notin OpenAt(t)
  BY OpenType DEF OpenAt, Holds
<1>3. CASE t = stamp[s]
  <2>1. OpenAt(t)' = OpenAt(t) \cup {s}
    BY <1>3 DEF OpenAt, Holds
  <2> QED
    BY <1>2, <1>3, <2>1, FS_AddElement DEF Open
<1>4. CASE t # stamp[s]
  <2>1. OpenAt(t)' = OpenAt(t)
    BY <1>4 DEF OpenAt, Holds
  <2> QED
    BY <1>2, <1>4, <2>1 DEF Open
<1> QED
  BY <1>3, <1>4

\* The reservation of one session closes.
LEMMA OpenLose ==
    ASSUME NEW s \in Sessions, Holds(s), ~Holds(s)',
           \A v \in Sessions \ {s} : (Holds(v)' <=> Holds(v)) /\ stamp'[v] = stamp[v]
    PROVE  \A t : Open(t)' = Open(t) - (IF t = stamp[s] THEN 1 ELSE 0)
<1>1. TAKE t
<1>2. IsFiniteSet(OpenAt(t)) /\ Open(t) \in Nat
  BY OpenType
<1>3. CASE t = stamp[s]
  <2>1. OpenAt(t)' = OpenAt(t) \ {s} /\ s \in OpenAt(t)
    BY <1>3 DEF OpenAt, Holds
  <2> QED
    BY <1>2, <1>3, <2>1, FS_RemoveElement DEF Open
<1>4. CASE t # stamp[s]
  <2>1. OpenAt(t)' = OpenAt(t)
    BY <1>4 DEF OpenAt, Holds
  <2> QED
    BY <1>2, <1>4, <2>1 DEF Open
<1> QED
  BY <1>3, <1>4

\* Nothing the day sees changes: ledgers, history and reservations stay.
LEMMA QuietKeepsAccounts ==
    ASSUME TypeOK, Accounted, now \in Int, now' \in Int, now <= now',
           \A t \in Times : t > now - Day => ledger'[t] = ledger[t],
           kept' = kept, leaked' = leaked, \A t : Open(t)' = Open(t)
    PROVE  Accounted'
<1>1. SUFFICES ASSUME NEW t \in Times, t > now' - Day
               PROVE  ledger'[t] = kept'[t] + Open(t)' + leaked'[t]
  BY DEF Accounted
<1>2. t > now - Day
  <2>1. Day \in Int /\ t \in Int
    BY <1>1, WriteRateAssumption DEF Times
  <2> QED
    BY <1>1, <2>1, WindowMoves
<1> QED
  BY <1>2 DEF Accounted

\* A session's step.
LEMMA SessionKeepsAccounts ==
    ASSUME TypeOK, Accounted, NEW s \in Sessions, SessionStep(s)
    PROVE  Accounted'
<1>a. now \in Times /\ ledger \in Bags /\ kept \in Bags /\ leaked \in Bags
  BY DEF TypeOK
<1>b. now \in Int /\ stamp[s] \in Times
  BY <1>a DEF TypeOK, Times, Writers
<1>c. pc \in [Writers -> SessionPCs \cup OtherPCs] /\ stamp \in [Writers -> Times] /\ s \in Writers
      /\ Sessions \subseteq Writers
  BY DEF TypeOK, Writers
<1>d. \A t \in Times : ledger[t] \in Nat /\ kept[t] \in Nat /\ leaked[t] \in Nat /\ Open(t) \in Nat
  BY <1>a, OpenType DEF Bags
<1>1. CASE BeginReserve(s)
  <2>1. \A t : Open(t)' = Open(t)
    BY <1>1, <1>c, OpenSame DEF BeginReserve, Begin, Goto, Holds
  <2> QED
    BY <1>1, <1>b, <2>1, QuietKeepsAccounts DEF BeginReserve, ledgers
<1>2. CASE Reserve(s)
  <2>1. CASE Allowed(ledger)
    <3>1. /\ pc[s] = "reserve" /\ pc' = [pc EXCEPT ![s] = "draft"]
          /\ ledger' = Appended(ledger, stamp[s])
          /\ UNCHANGED <<now, stamp, kept, leaked>>
      BY <1>2, <2>1 DEF Reserve, Goto, history
    <3>2. \A t : Open(t)' = Open(t) + (IF t = stamp[s] THEN 1 ELSE 0)
      BY <3>1, <1>c, OpenGain DEF Holds
    <3>3. \A t \in Times : t > now - Day =>
            ledger'[t] = ledger[t] + (IF t = stamp[s] THEN 1 ELSE 0)
      BY <3>1, <2>1, <1>a, <1>b, AppendedLedger
    <3> QED
      BY <3>1, <3>2, <3>3, <1>d DEF Accounted
  <2>2. CASE ~Allowed(ledger)
    <3>1. /\ pc[s] = "reserve" /\ pc' = [pc EXCEPT ![s] = "idle"]
          /\ stamp' = [stamp EXCEPT ![s] = 0]
          /\ ledger' = Appended(ledger, stamp[s])
          /\ UNCHANGED <<now, kept, leaked>>
      BY <1>2, <2>2 DEF Reserve, Done, Goto, history
    <3>2. ledger' = ledger
      BY <3>1, <2>2, <1>a, <1>b, AppendedLedger
    <3>3. \A t : Open(t)' = Open(t)
      BY <3>1, <1>c, OpenSame DEF Holds
    <3> QED
      BY <3>1, <3>2, <3>3, <1>b, QuietKeepsAccounts
  <2> QED
    BY <2>1, <2>2
<1>3. CASE Skip(s)
  <2>1. \A t : Open(t)' = Open(t)
    BY <1>3, <1>c, OpenSame DEF Skip, Goto, Holds
  <2> QED
    BY <1>3, <1>b, <2>1, QuietKeepsAccounts DEF Skip, ledgers, history
<1>4. CASE Publish(s)
  <2>1. /\ pc[s] = "draft" /\ pc' = [pc EXCEPT ![s] = "idle"]
        /\ stamp' = [stamp EXCEPT ![s] = 0] /\ kept' = Add(kept, stamp[s])
        /\ UNCHANGED <<now, ledger, leaked>>
    BY <1>4 DEF Publish, Done, Goto, ledgers
  <2>2. \A t : Open(t)' = Open(t) - (IF t = stamp[s] THEN 1 ELSE 0)
    BY <2>1, <1>c, OpenLose DEF Holds
  <2>3. \A t \in Times : kept'[t] = kept[t] + (IF t = stamp[s] THEN 1 ELSE 0)
    BY <2>1, <1>a DEF Add, Bags
  <2> QED
    BY <2>1, <2>2, <2>3, <1>d DEF Accounted
<1>5. CASE PublishLate(s)
  <2>1. \A t : Open(t)' = Open(t)
    BY <1>5, <1>c, OpenSame DEF PublishLate, Goto, Holds
  <2> QED
    BY <1>5, <1>b, <2>1, QuietKeepsAccounts DEF PublishLate, ledgers
<1>6. CASE Rollback(s)
  <2>1. /\ pc[s] = "rollback" /\ pc' = [pc EXCEPT ![s] = "idle"]
        /\ stamp' = [stamp EXCEPT ![s] = 0] /\ ledger' = Minus(ledger, stamp[s])
        /\ UNCHANGED <<now, kept, leaked>>
    BY <1>6 DEF Rollback, Done, Goto, history
  <2>2. \A t : Open(t)' = Open(t) - (IF t = stamp[s] THEN 1 ELSE 0)
    BY <2>1, <1>c, OpenLose DEF Holds
  <2>3. Open(stamp[s]) \in Nat /\ Open(stamp[s]) > 0
    <3>1. s \in OpenAt(stamp[s])
      BY <2>1 DEF OpenAt
    <3>2. IsFiniteSet(OpenAt(stamp[s])) /\ Open(stamp[s]) \in Nat /\ Open(stamp[s]) # 0
      BY <3>1, OpenType, FS_EmptySet DEF Open
    <3> QED
      BY <3>2
  <2>4. \A t \in Times : t > now - Day =>
          ledger'[t] = ledger[t] - (IF t = stamp[s] THEN 1 ELSE 0)
    BY <2>1, <2>3, <1>a, <1>b, <1>d DEF Accounted, Minus, Bags
  <2> QED
    BY <2>1, <2>2, <2>4, <1>d DEF Accounted
<1>7. CASE BeginBet(s)
  <2>1. \A t : Open(t)' = Open(t)
    BY <1>7, <1>c, OpenSame DEF BeginBet, Begin, Goto, Holds
  <2>2. \A t \in Times : t > now - Day => ledger'[t] = ledger[t]
    BY <1>7, <1>a, CheckedLedger DEF BeginBet
  <2> QED
    BY <1>7, <1>b, <2>1, <2>2, QuietKeepsAccounts DEF BeginBet
<1>8. ASSUME NEW lands \in BOOLEAN, Bet(s, lands)
      PROVE  Accounted'
  <2>1. \A t : Open(t)' = Open(t)
    BY <1>8, <1>c, OpenSame DEF Bet, Done, Goto, Holds
  <2> QED
    BY <1>8, <1>b, <2>1, QuietKeepsAccounts DEF Bet, ledgers, history
<1>9. CASE EndSession(s)
  <2>1. \A t : Open(t)' = Open(t)
    BY <1>9, OpenSame DEF EndSession, Holds
  <2> QED
    BY <1>9, <1>b, <2>1, QuietKeepsAccounts DEF EndSession, ledgers, history
<1> QED
  BY <1>1, <1>2, <1>3, <1>4, <1>5, <1>6, <1>7, <1>8, <1>9 DEF SessionStep

\* A step of a tool or of a reactor.
LEMMA RecorderKeepsAccounts ==
    ASSUME TypeOK, Accounted, NEW w \in Tools \cup Reactors,
           CheckTool(w) \/ CheckReactive(w) \/ CheckShared(w) \/ RecorderStep(w)
    PROVE  Accounted'
<1>a. now \in Times /\ ledger \in Bags /\ kept \in Bags /\ leaked \in Bags
  BY DEF TypeOK
<1>b. now \in Int /\ stamp[w] \in Times
  BY <1>a DEF TypeOK, Times, Writers
<1>c. /\ pc \in [Writers -> SessionPCs \cup OtherPCs] /\ stamp \in [Writers -> Times]
      /\ w \in Writers /\ Sessions \subseteq Writers /\ w \notin Sessions
  BY WriteRateAssumption DEF TypeOK, Writers
<1>d. \A t \in Times : ledger[t] \in Nat /\ kept[t] \in Nat /\ leaked[t] \in Nat /\ Open(t) \in Nat
  BY <1>a, OpenType DEF Bags
<1>1. now' = now /\ leaked' = leaked
  BY DEF CheckTool, CheckReactive, CheckShared, RecorderStep, Post, PostFails, PostLate,
         StampEntry, RecordReactive, Record, history
<1>2. \A s \in Sessions : pc'[s] = pc[s] /\ stamp'[s] = stamp[s]
  BY <1>c DEF CheckTool, CheckReactive, CheckShared, RecorderStep, Post, PostFails, PostLate,
              StampEntry, RecordReactive, Record, Begin, Goto, Done
<1>3. \A t : Open(t)' = Open(t)
  BY <1>2, OpenSame DEF Holds
<1>4. CASE CheckTool(w) \/ CheckShared(w)
  <2>1. ledger' = Checked(ledger) /\ kept' = kept
    BY <1>4 DEF CheckTool, CheckShared, history
  <2>2. \A t \in Times : t > now - Day => ledger'[t] = ledger[t]
    BY <2>1, <1>a, CheckedLedger
  <2> QED
    BY <1>1, <1>3, <1>b, <2>1, <2>2, QuietKeepsAccounts
<1>5. CASE Record(w)
  <2>1. CASE Allowed(ledger)
    <3>1. ledger' = Appended(ledger, stamp[w]) /\ kept' = Add(kept, stamp[w])
      BY <1>5, <2>1 DEF Record
    <3>2. \A t \in Times : t > now - Day =>
            ledger'[t] = ledger[t] + (IF t = stamp[w] THEN 1 ELSE 0)
      BY <3>1, <2>1, <1>a, <1>b, AppendedLedger
    <3>3. \A t \in Times : kept'[t] = kept[t] + (IF t = stamp[w] THEN 1 ELSE 0)
      BY <3>1, <1>a DEF Add, Bags
    <3> QED
      BY <3>2, <3>3, <1>1, <1>3, <1>d DEF Accounted
  <2>2. CASE ~Allowed(ledger)
    <3>1. ledger' = Appended(ledger, stamp[w]) /\ kept' = kept
      BY <1>5, <2>2 DEF Record
    <3>2. ledger' = ledger
      BY <3>1, <2>2, <1>a, <1>b, AppendedLedger
    <3> QED
      BY <3>1, <3>2, <1>1, <1>3, <1>b, QuietKeepsAccounts
  <2> QED
    BY <2>1, <2>2
<1>6. CASE \/ CheckReactive(w) \/ Post(w) \/ PostFails(w) \/ PostLate(w)
           \/ StampEntry(w) \/ RecordReactive(w)
  <2>1. ledger' = ledger /\ kept' = kept
    BY <1>6 DEF CheckReactive, Post, PostFails, PostLate, StampEntry, RecordReactive,
                ledgers, history
  <2> QED
    BY <2>1, <1>1, <1>3, <1>b, QuietKeepsAccounts
<1> QED
  BY <1>4, <1>5, <1>6 DEF RecorderStep

LEMMA StepKeepsAccounts ==
    ASSUME TypeOK, Accounted, [Next]_vars
    PROVE  Accounted'
<1>a. now \in Times /\ ledger \in Bags /\ kept \in Bags /\ leaked \in Bags
  BY DEF TypeOK
<1>b. now \in Int
  BY <1>a DEF Times
<1>1. CASE \E s \in Sessions : SessionStep(s)
  BY <1>1, SessionKeepsAccounts
<1>2. CASE \E w \in Tools \cup Reactors :
             CheckTool(w) \/ CheckReactive(w) \/ CheckShared(w) \/ RecorderStep(w)
  BY <1>2, RecorderKeepsAccounts
<1>3. ASSUME NEW w \in Writers, Abort(w)
      PROVE  Accounted'
  <2>1. /\ pc' = [pc EXCEPT ![w] = "idle"] /\ stamp' = [stamp EXCEPT ![w] = 0]
        /\ UNCHANGED <<now, ledger, kept>>
        /\ leaked' = IF pc[w] \in {"draft", "rollback"} THEN Add(leaked, stamp[w]) ELSE leaked
    BY <1>3 DEF Abort, Done, Goto, ledgers
  <2>2. pc \in [Writers -> SessionPCs \cup OtherPCs] /\ stamp \in [Writers -> Times]
        /\ Sessions \subseteq Writers
    BY DEF TypeOK, Writers
  <2>3. CASE pc[w] \in {"draft", "rollback"}
    <3>1. w \in Sessions
      BY <2>3 DEF TypeOK, OtherPCs
    <3>2. \A t : Open(t)' = Open(t) - (IF t = stamp[w] THEN 1 ELSE 0)
      BY <2>1, <2>2, <2>3, <3>1, OpenLose DEF Holds
    <3>3. \A t \in Times : leaked'[t] = leaked[t] + (IF t = stamp[w] THEN 1 ELSE 0)
      BY <2>1, <2>3, <1>a DEF Add, Bags
    <3>4. \A t \in Times : ledger[t] \in Nat /\ kept[t] \in Nat /\ leaked[t] \in Nat /\ Open(t) \in Nat
      BY <1>a, OpenType DEF Bags
    <3> QED
      BY <2>1, <3>2, <3>3, <3>4 DEF Accounted
  <2>4. CASE pc[w] \notin {"draft", "rollback"}
    <3>1. \A t : Open(t)' = Open(t)
      BY <2>1, <2>2, <2>4, OpenSame DEF Holds
    <3> QED
      BY <2>1, <2>4, <3>1, <1>b, QuietKeepsAccounts
  <2> QED
    BY <2>3, <2>4
<1>4. CASE Tick \/ UNCHANGED vars
  <2>1. /\ now' \in Int /\ now <= now'
        /\ UNCHANGED <<ledger, kept, leaked, pc, stamp>>
    BY <1>b, <1>4 DEF Tick, vars, ledgers, locals, history
  <2>2. \A t : Open(t)' = Open(t)
    BY <2>1, OpenSame DEF Holds
  <2> QED
    BY <1>b, <2>1, <2>2, QuietKeepsAccounts
<1> QED
  BY <1>1, <1>2, <1>3, <1>4 DEF Next

----------------------------------------------------------------------------
\* The theorems.

LEMMA IInvInit ==
    ASSUME Init
    PROVE  IInv
<1>1. TInv
  BY TInvInit
<1>2. \A t : OpenAt(t) = {}
  BY DEF Init, OpenAt, Writers
<1>3. Accounted
  BY <1>2, FS_EmptySet DEF Init, Accounted, Open
<1>4. LedgerWithinLimits
  <2>1. now = 0 /\ ledger = [t \in Times |-> 0] /\ \A t \in Times : 1..ledger[t] = {}
    BY DEF Init
  <2>2. \A from : Slots(ledger, from) = {}
    BY <2>1 DEF Slots
  <2> QED
    BY <2>2, FS_EmptySet, WriteRateAssumption DEF LedgerWithinLimits, PerHour, PerDay, Count
<1> QED
  BY <1>1, <1>3, <1>4 DEF IInv

\* The inductive invariant holds in every reachable state.
THEOREM WriteRateInvariant == Spec => []IInv
<1>1. Init => IInv
  BY IInvInit
<1>2. IInv /\ [Next]_vars => IInv'
  BY TInvStep, StepKeepsAccounts, StepKeepsLimits DEF IInv, TInv
<1> QED
  BY <1>1, <1>2, PTL DEF Spec

\* Recorded posts and open reservations of the day have their entries, whatever
\* the number of writers and their interleaving.
THEOREM WriteRateSlotsCovered == Spec => []SlotsCovered
<1>1. IInv => SlotsCovered
  <2>1. SUFFICES ASSUME IInv, NEW t \in Times, t > now - Day
                 PROVE  kept[t] + Open(t) <= ledger[t]
    BY DEF SlotsCovered
  <2>2. kept[t] \in Nat /\ leaked[t] \in Nat /\ Open(t) \in Nat
    BY <2>1, OpenType DEF IInv, TInv, TypeOK, Bags
  <2>3. ledger[t] = kept[t] + Open(t) + leaked[t]
    BY <2>1 DEF IInv, Accounted
  <2> QED
    BY <2>2, <2>3
<1> QED
  BY <1>1, WriteRateInvariant, PTL

\* No entry of the day is without an owner: failed posts return their slots.
THEOREM WriteRateSlotsAccounted == Spec => []SlotsAccounted
<1>1. IInv => SlotsAccounted
  <2>1. SUFFICES ASSUME IInv, NEW t \in Times, t > now - Day
                 PROVE  ledger[t] <= kept[t] + Open(t) + leaked[t]
    BY DEF SlotsAccounted
  <2>2. kept[t] \in Nat /\ leaked[t] \in Nat /\ Open(t) \in Nat
    BY <2>1, OpenType DEF IInv, TInv, TypeOK, Bags
  <2>3. ledger[t] = kept[t] + Open(t) + leaked[t]
    BY <2>1 DEF IInv, Accounted
  <2> QED
    BY <2>2, <2>3
<1> QED
  BY <1>1, WriteRateInvariant, PTL

\* The recorded posts of an hour and of a day never exceed the limits.
THEOREM WriteRateWithinLimits == Spec => []RecordedWithinLimits
<1>1. IInv => RecordedWithinLimits
  <2>1. SUFFICES ASSUME IInv
                 PROVE  RecordedWithinLimits
    OBVIOUS
  <2>2. now \in Times /\ kept \in Bags /\ ledger \in Bags
    BY <2>1 DEF IInv, TInv, TypeOK
  <2>3. now - Day \in Int /\ now - Hour \in Int /\ now - Day <= now - Hour
    BY <2>2, Windows
  <2>4. \A t \in Times : t > now - Day => kept[t] <= ledger[t]
    <3>1. TAKE t \in Times
    <3>2. kept[t] \in Nat /\ leaked[t] \in Nat /\ Open(t) \in Nat
      BY <2>1, OpenType DEF IInv, TInv, TypeOK, Bags
    <3> QED
      BY <2>1, <3>2 DEF IInv, Accounted
  <2>5. \A t \in Times : t > now - Hour => t > now - Day
    BY <2>3 DEF Times
  <2>6. Count(kept, now - Hour) <= Count(ledger, now - Hour)
    BY <2>2, <2>3, <2>4, <2>5, CountMonotone
  <2>7. Count(kept, now - Day) <= Count(ledger, now - Day)
    BY <2>2, <2>3, <2>4, CountMonotone
  <2>8. /\ Count(kept, now - Hour) \in Nat /\ Count(ledger, now - Hour) \in Nat
        /\ Count(kept, now - Day) \in Nat /\ Count(ledger, now - Day) \in Nat
    BY <2>2, <2>3, CountType
  <2>9. Count(ledger, now - Hour) <= HourlyLimit /\ Count(ledger, now - Day) <= DailyLimit
    BY <2>1 DEF IInv, LedgerWithinLimits, PerHour, PerDay
  <2> QED
    BY <2>6, <2>7, <2>8, <2>9, WriteRateAssumption DEF RecordedWithinLimits, PerHour, PerDay
<1> QED
  BY <1>1, WriteRateInvariant, PTL

----------------------------------------------------------------------------
\* Writers that do not overlap: what each count becomes, exactly.

Unit(P) == IF P THEN 1 ELSE 0

\* An entry counts once, in the windows that reach back to it.
LEMMA CountOneMore ==
    ASSUME NEW f \in Bags, NEW from \in Int, NEW t \in Times
    PROVE  Count(Add(f, t), from) = Count(f, from) + Unit(t > from)
<1> DEFINE g == Add(f, t)
           new == <<t, f[t] + 1>>
<1>1. g \in Bags /\ Count(f, from) \in Nat /\ IsFiniteSet(Slots(f, from)) /\ f[t] \in Nat
  BY CountType DEF Add, Bags
<1>2. \A x \in Times : 1..g[x] = 1..f[x] \cup (IF x = t THEN {f[t] + 1} ELSE {})
  BY DEF Add, Bags
<1>3. CASE t > from
  <2>1. Slots(g, from) = Slots(f, from) \cup {new}
    <3>1. ASSUME NEW x \in Times, x > from, NEW u \in {x} \X (1..g[x])
          PROVE  u \in Slots(f, from) \cup {new}
      <4>1. CASE u[2] \in 1..f[x]
        BY <3>1, <4>1 DEF Slots
      <4>2. CASE x = t /\ u[2] = f[t] + 1
        BY <3>1, <4>2
      <4> QED
        BY <1>2, <3>1, <4>1, <4>2
    <3>2. ASSUME NEW x \in Times, x > from, NEW u \in {x} \X (1..f[x])
          PROVE  u \in Slots(g, from)
      BY <1>2, <3>2 DEF Slots
    <3>3. new \in Slots(g, from)
      <4>1. f[t] + 1 \in 1..g[t]
        BY <1>1, <1>2
      <4> QED
        BY <1>3, <4>1 DEF Slots
    <3> QED
      BY <3>1, <3>2, <3>3 DEF Slots
  <2>2. new \notin Slots(f, from)
    <3>1. f[t] + 1 \notin 1..f[t]
      BY <1>1
    <3> QED
      BY <3>1 DEF Slots
  <2> QED
    BY <1>1, <1>3, <2>1, <2>2, FS_AddElement DEF Count, Unit
<1>4. CASE ~(t > from)
  <2>1. \A x \in Times : x > from => g[x] = f[x]
    BY <1>4 DEF Add, Bags
  <2>2. Slots(g, from) = Slots(f, from)
    BY <2>1 DEF Slots
  <2> QED
    BY <1>1, <1>4, <2>2 DEF Count, Unit
<1> QED
  BY <1>3, <1>4

\* Ledgers that agree on what a window sees count the same there.
LEMMA CountAgrees ==
    ASSUME NEW f \in Bags, NEW g \in Bags, NEW later \in Int, NEW from \in Int, from >= later,
           \A t \in Times : t > later => f[t] = g[t]
    PROVE  Count(f, from) = Count(g, from)
<1>1. \A t \in Times : t > from => f[t] = g[t]
  BY DEF Times
<1>2. Slots(f, from) = Slots(g, from)
  BY <1>1 DEF Slots
<1> QED
  BY <1>2 DEF Count

\* The accesses of checkAndAppend and rollbackWriteRecord, in a window no longer
\* than the day.
LEMMA LedgerCounts ==
    ASSUME now \in Times, NEW f \in Bags, NEW s \in Times, NEW from \in Int, from >= now - Day
    PROVE  /\ Count(Checked(f), from) = Count(f, from)
           /\ Allowed(f) => Count(Appended(f, s), from) = Count(f, from) + Unit(s > from)
           /\ Count(f, from) <= Count(Minus(f, s), from) + Unit(s > from)
<1>1. now - Day \in Int
  BY Windows
<1>2. Count(Checked(f), from) = Count(f, from)
  BY <1>1, CheckedLedger, CountAgrees
<1>3. Allowed(f) => Count(Appended(f, s), from) = Count(f, from) + Unit(s > from)
  <2>1. /\ Pruned(f) \in Bags
        /\ \A t \in Times : t > now - Day => Pruned(f)[t] = f[t]
    BY PrunedLedger
  <2>2. Count(Pruned(f), from) = Count(f, from)
    BY <1>1, <2>1, CountAgrees
  <2> QED
    BY <2>1, <2>2, CountOneMore DEF Appended
<1>4. Count(f, from) <= Count(Minus(f, s), from) + Unit(s > from)
  <2>1. Count(f, from) \in Nat /\ Unit(s > from) \in Nat /\ Minus(f, s) \in Bags
    BY CountType, NewLedgers DEF Unit
  <2>2. CASE f[s] > 0
    <3>1. Add(Minus(f, s), s) = f
      BY <2>2 DEF Add, Minus, Bags
    <3> QED
      BY <2>1, <3>1, CountOneMore
  <2>3. CASE ~(f[s] > 0)
    BY <2>1, <2>3 DEF Minus
  <2> QED
    BY <2>2, <2>3
<1> QED
  BY <1>2, <1>3, <1>4

Recorders == Tools \cup Reactors

\* A recorder whose post is on chain and, seen from the window, not in a ledger.
Owing(w, from) ==
    \/ pc[w] = "stampEntry" /\ now > from
    \/ pc[w] \in {"recordReactive", "record"} /\ stamp[w] > from

\* The posts, the reactive ledger and the shared ledger bound each other, up to
\* what the one writer at work has still to do.
CoveredBy(w, from) ==
    /\ Count(landed, from) + Unit(Holds(w) /\ stamp[w] > from)
         <= Count(ledger, from) + Unit(w \in Recorders /\ Owing(w, from))
    /\ Count(rledger, from) + Unit(Holds(w) /\ stamp[w] > from)
         <= Count(ledger, from) + Unit(w \in Reactors /\ pc[w] = "record" /\ Owing(w, from))
    /\ Count(rlanded, from)
         <= Count(rledger, from) + Unit(w \in Reactors /\ pc[w] # "record" /\ Owing(w, from))

\* What the writer at work found when it checked is still so.
RoomFor(w) ==
    /\ pc[w] \in {"post", "stampEntry", "recordReactive", "record"} => Allowed(ledger)
    /\ w \in Reactors /\ pc[w] \in {"checkShared", "post", "stampEntry", "recordReactive"}
         => (PerDay(rledger) < DailyLimit => PerDay(rledger) < DailyReactive)
    /\ pc[w] = "recordReactive" => w \in Reactors

OthersIdle(w) == \A v \in Writers \ {w} : pc[v] = "idle"

AtWork(w) ==
    /\ OthersIdle(w)
    /\ RoomFor(w)
    /\ \A from \in Int : from >= now - Day => CoveredBy(w, from)

AllIdle == \A w \in Writers : pc[w] = "idle"

AtRest ==
    \A from \in Int : from >= now - Day =>
        /\ Count(landed, from) <= Count(ledger, from)
        /\ Count(rledger, from) <= Count(ledger, from)
        /\ Count(rlanded, from) <= Count(rledger, from)

\* The inductive invariant, relative to the types: while the history is clean, a
\* writer that is not idle is the only one, and the counts bound each other.
SeqInv ==
    ~disturbed => /\ PerDay(rledger) <= DailyReactive
                  /\ AllIdle => AtRest
                  /\ \A w \in Writers : pc[w] # "idle" => AtWork(w)

----------------------------------------------------------------------------
\* A step of one writer: how the invariant is used, and how it is restored.

\* Whoever moves alone has the invariant to itself.
LEMMA SeqStarts ==
    ASSUME TypeOK, SeqInv, ~disturbed, NEW w \in Writers, OthersIdle(w)
    PROVE  AtWork(w) /\ PerDay(rledger) <= DailyReactive
<1>1. CASE pc[w] # "idle"
  BY <1>1 DEF SeqInv
<1>2. CASE pc[w] = "idle"
  <2>1. AllIdle /\ AtRest
    BY <1>2 DEF OthersIdle, AllIdle, SeqInv
  <2>2. RoomFor(w)
    BY <1>2 DEF RoomFor
  <2>3. ASSUME NEW from \in Int, from >= now - Day
        PROVE  CoveredBy(w, from)
    <3>1. /\ Count(landed, from) \in Nat /\ Count(ledger, from) \in Nat
          /\ Count(rledger, from) \in Nat /\ Count(rlanded, from) \in Nat
      BY CountType DEF TypeOK
    <3>2. ~Holds(w) /\ ~Owing(w, from)
      BY <1>2 DEF Holds, Owing
    <3> QED
      BY <2>1, <2>3, <3>1, <3>2 DEF AtRest, CoveredBy, Unit
  <2> QED
    BY <2>2, <2>3 DEF AtWork, SeqInv
<1> QED
  BY <1>1, <1>2

\* And whoever moves alone leaves it to whoever comes next.
LEMMA SeqConcludes ==
    ASSUME TypeOK', NEW w \in Writers, AtWork(w)', PerDay(rledger)' <= DailyReactive
    PROVE  SeqInv'
<1>1. \A v \in Writers : pc'[v] # "idle" => v = w
  BY DEF AtWork, OthersIdle
<1>2. ASSUME AllIdle', NEW from \in Int, from >= now' - Day
      PROVE  /\ Count(landed', from) <= Count(ledger', from)
             /\ Count(rledger', from) <= Count(ledger', from)
             /\ Count(rlanded', from) <= Count(rledger', from)
  <2>1. /\ Count(landed', from) \in Nat /\ Count(ledger', from) \in Nat
        /\ Count(rledger', from) \in Nat /\ Count(rlanded', from) \in Nat
    BY CountType DEF TypeOK
  <2>2. pc'[w] = "idle" /\ CoveredBy(w, from)'
    BY <1>2 DEF AllIdle, AtWork
  <2>3. ~Holds(w)' /\ ~Owing(w, from)'
    BY <2>2 DEF Holds, Owing
  <2> QED
    BY <2>1, <2>2, <2>3 DEF CoveredBy, Unit
<1>3. AllIdle' => AtRest'
  BY <1>2 DEF AtRest
<1> QED
  BY <1>1, <1>3 DEF SeqInv

\* The invariant bounds the posts on chain.
LEMMA SeqInvBounds ==
    ASSUME TypeOK, LedgerWithinLimits, SeqInv
    PROVE  SequentialWithinLimits
<1> SUFFICES ASSUME ~disturbed
             PROVE  /\ PerHour(landed) <= HourlyLimit
                    /\ PerDay(landed) <= DailyLimit
                    /\ PerDay(rlanded) <= DailyReactive
  BY DEF SequentialWithinLimits
<1>1. now - Day \in Int /\ now - Hour \in Int /\ now - Day <= now - Hour
  BY Windows DEF TypeOK
<1>2. \A from \in Int : /\ Count(landed, from) \in Nat /\ Count(ledger, from) \in Nat
                        /\ Count(rledger, from) \in Nat /\ Count(rlanded, from) \in Nat
  BY CountType DEF TypeOK
<1>3. /\ Count(ledger, now - Hour) <= HourlyLimit /\ Count(ledger, now - Day) <= DailyLimit
      /\ Count(rledger, now - Day) <= DailyReactive
      /\ HourlyLimit \in Nat /\ DailyLimit \in Nat /\ DailyReactive \in Nat
  BY WriteRateAssumption DEF LedgerWithinLimits, SeqInv, PerHour, PerDay
<1>4. CASE AllIdle
  <2>1. /\ Count(landed, now - Hour) <= Count(ledger, now - Hour)
        /\ Count(landed, now - Day) <= Count(ledger, now - Day)
        /\ Count(rlanded, now - Day) <= Count(rledger, now - Day)
    BY <1>1, <1>4 DEF SeqInv, AtRest
  <2> QED
    BY <1>1, <1>2, <1>3, <2>1 DEF PerHour, PerDay
<1>5. ASSUME NEW w \in Writers, pc[w] # "idle"
      PROVE  /\ PerHour(landed) <= HourlyLimit
             /\ PerDay(landed) <= DailyLimit
             /\ PerDay(rlanded) <= DailyReactive
  <2>1. RoomFor(w) /\ CoveredBy(w, now - Hour) /\ CoveredBy(w, now - Day)
    BY <1>1, <1>5 DEF SeqInv, AtWork
  <2>2. CASE pc[w] \in {"stampEntry", "recordReactive", "record"}
    <3>1. Count(ledger, now - Hour) < HourlyLimit /\ Count(ledger, now - Day) < DailyLimit
      BY <2>1, <2>2 DEF RoomFor, Allowed, PerHour, PerDay
    <3>2. ~Holds(w)
      BY <2>2 DEF Holds
    <3>3. /\ Count(landed, now - Hour) <= Count(ledger, now - Hour) + 1
          /\ Count(landed, now - Day) <= Count(ledger, now - Day) + 1
      BY <1>1, <1>2, <2>1, <3>2 DEF CoveredBy, Unit
    <3>4. Count(rlanded, now - Day) <= DailyReactive
      <4>1. CASE w \in Reactors /\ pc[w] # "record"
        <5>1. /\ Count(rledger, now - Day) <= Count(ledger, now - Day)
              /\ Count(rlanded, now - Day) <= Count(rledger, now - Day) + 1
          BY <1>1, <1>2, <2>1, <3>2, <4>1 DEF CoveredBy, Unit
        <5>2. Count(rledger, now - Day) < DailyLimit => Count(rledger, now - Day) < DailyReactive
          BY <2>1, <2>2, <4>1 DEF RoomFor, PerDay
        <5> QED
          BY <1>1, <1>2, <1>3, <3>1, <5>1, <5>2
      <4>2. CASE ~(w \in Reactors /\ pc[w] # "record")
        BY <1>1, <1>2, <1>3, <2>1, <4>2 DEF CoveredBy, Unit
      <4> QED
        BY <4>1, <4>2
    <3> QED
      BY <1>1, <1>2, <1>3, <3>1, <3>3, <3>4 DEF PerHour, PerDay
  <2>3. CASE pc[w] \notin {"stampEntry", "recordReactive", "record"}
    <3>1. ~Owing(w, now - Hour) /\ ~Owing(w, now - Day)
      BY <2>3 DEF Owing
    <3>2. /\ Count(landed, now - Hour) <= Count(ledger, now - Hour)
          /\ Count(landed, now - Day) <= Count(ledger, now - Day)
          /\ Count(rlanded, now - Day) <= Count(rledger, now - Day)
      BY <1>1, <1>2, <2>1, <3>1 DEF CoveredBy, Unit
    <3> QED
      BY <1>1, <1>2, <1>3, <3>2 DEF PerHour, PerDay
  <2> QED
    BY <2>2, <2>3
<1> QED
  BY <1>4, <1>5 DEF AllIdle

\* Time passes, or nothing the invariant mentions changes.
LEMMA SeqQuiet ==
    ASSUME TypeOK, TypeOK', SeqInv, now <= now',
           UNCHANGED <<ledger, rledger, landed, rlanded, pc, stamp, disturbed>>
    PROVE  SeqInv'
<1> SUFFICES ASSUME ~disturbed
             PROVE  /\ PerDay(rledger)' <= DailyReactive
                    /\ AllIdle => AtRest'
                    /\ \A w \in Writers : pc[w] # "idle" => AtWork(w)'
  BY DEF SeqInv, AllIdle
<1>1. /\ now \in Int /\ now' \in Int /\ Day \in Int /\ Hour \in Int
      /\ DailyLimit \in Nat /\ HourlyLimit \in Nat /\ DailyReactive \in Nat
  BY WriteRateAssumption DEF TypeOK, Times
<1>2. /\ now - Day \in Int /\ now' - Day \in Int /\ now - Day <= now' - Day
      /\ now - Hour \in Int /\ now' - Hour \in Int /\ now - Hour <= now' - Hour
      /\ \A from \in Int : from >= now' - Day => from >= now - Day
  <2>1. /\ now - Day \in Int /\ now' - Day \in Int /\ now - Day <= now' - Day
        /\ now - Hour \in Int /\ now' - Hour \in Int /\ now - Hour <= now' - Hour
    BY <1>1, WindowMoves
  <2> DEFINE a == now - Day
             b == now' - Day
  <2>2. a \in Int /\ b \in Int /\ a <= b
    BY <2>1
  <2> HIDE DEF a, b
  <2>3. \A from \in Int : from >= b => from >= a
    BY <2>2
  <2> QED
    BY <2>1, <2>3 DEF a, b
<1>3. /\ ledger \in Bags /\ rledger \in Bags
  BY DEF TypeOK
<1>4. /\ Count(rledger, now' - Day) <= Count(rledger, now - Day)
      /\ Count(ledger, now' - Day) <= Count(ledger, now - Day)
      /\ Count(ledger, now' - Hour) <= Count(ledger, now - Hour)
  <2>1. \A f \in Bags : \A t \in Times : f[t] <= f[t]
    BY DEF Bags
  <2> QED
    BY <1>2, <1>3, <2>1, CountMonotone
<1>5. /\ Count(rledger, now' - Day) \in Nat /\ Count(rledger, now - Day) \in Nat
      /\ Count(ledger, now' - Day) \in Nat /\ Count(ledger, now - Day) \in Nat
      /\ Count(ledger, now' - Hour) \in Nat /\ Count(ledger, now - Hour) \in Nat
  BY <1>2, <1>3, CountType
<1>6. Count(rledger, now - Day) <= DailyReactive
  BY DEF SeqInv, PerDay
<1>7. AllIdle => AtRest'
  BY <1>2 DEF SeqInv, AtRest
<1>8. ASSUME NEW w \in Writers, pc[w] # "idle"
      PROVE  AtWork(w)'
  <2>1. AtWork(w)
    BY <1>8 DEF SeqInv
  <2>2. Allowed(ledger) => Allowed(ledger)'
    BY <1>1, <1>4, <1>5 DEF Allowed, PerDay, PerHour
  <2>3. (Count(rledger, now - Day) < DailyLimit => Count(rledger, now - Day) < DailyReactive)
          => (Count(rledger, now' - Day) < DailyLimit => Count(rledger, now' - Day) < DailyReactive)
    BY <1>1, <1>4, <1>5, <1>6
  <2>4. RoomFor(w)'
    BY <2>1, <2>2, <2>3 DEF AtWork, RoomFor, PerDay
  <2>5. ASSUME NEW from \in Int, from >= now' - Day
        PROVE  CoveredBy(w, from)'
    <3>1. CoveredBy(w, from)
      BY <1>2, <2>1, <2>5 DEF AtWork
    <3>2. /\ Count(landed, from) \in Nat /\ Count(ledger, from) \in Nat
          /\ Count(rledger, from) \in Nat /\ Count(rlanded, from) \in Nat
      BY CountType DEF TypeOK
    <3>3. Owing(w, from) => Owing(w, from)'
      BY <1>1 DEF Owing
    <3>4. Owing(w, from)' /\ pc[w] = "record" => Owing(w, from)
      BY DEF Owing
    <3>5. Holds(w)' = Holds(w)
      BY DEF Holds
    <3> QED
      BY <3>1, <3>2, <3>3, <3>4, <3>5 DEF CoveredBy, Unit
  <2>6. OthersIdle(w)'
    BY <2>1 DEF AtWork, OthersIdle
  <2> QED
    BY <2>4, <2>5, <2>6 DEF AtWork
<1> QED
  BY <1>4, <1>5, <1>6, <1>1, <1>7, <1>8 DEF PerDay

\* A session moves: it takes no more room than it gives up.
LEMMA SessionMoves ==
    ASSUME TypeOK, TypeOK', SeqInv, NEW s \in Sessions, ~disturbed, OthersIdle(s),
           now' = now, rledger' = rledger, rlanded' = rlanded,
           \A v \in Writers \ {s} : pc'[v] = pc[v],
           \A from \in Int : from >= now - Day =>
             /\ Count(landed', from) + Unit(Holds(s)' /\ stamp'[s] > from) + Count(ledger, from)
                  <= Count(landed, from) + Unit(Holds(s) /\ stamp[s] > from) + Count(ledger', from)
             /\ Unit(Holds(s)' /\ stamp'[s] > from) + Count(ledger, from)
                  <= Unit(Holds(s) /\ stamp[s] > from) + Count(ledger', from)
    PROVE  SeqInv'
<1>1. s \in Writers /\ s \notin Recorders /\ s \notin Reactors
  BY WriteRateAssumption DEF Writers, Recorders
<1>2. AtWork(s) /\ PerDay(rledger) <= DailyReactive
  BY <1>1, SeqStarts
<1>3. OthersIdle(s)'
  BY DEF OthersIdle
<1>4. RoomFor(s)'
  BY <1>1 DEF RoomFor, TypeOK, SessionPCs
<1>5. ASSUME NEW from \in Int, from >= now' - Day
      PROVE  CoveredBy(s, from)'
  <2>1. /\ Count(landed, from) \in Nat /\ Count(landed', from) \in Nat
        /\ Count(ledger, from) \in Nat /\ Count(ledger', from) \in Nat
        /\ Count(rledger, from) \in Nat /\ Count(rlanded, from) \in Nat
    BY CountType DEF TypeOK
  <2>2. CoveredBy(s, from) /\ from >= now - Day
    BY <1>2, <1>5 DEF AtWork
  <2> DEFINE a == Unit(Holds(s) /\ stamp[s] > from)
             b == Unit(Holds(s)' /\ stamp'[s] > from)
  <2>3. a \in Nat /\ b \in Nat
    BY DEF Unit
  <2>4. /\ Count(landed, from) + a <= Count(ledger, from)
        /\ Count(rledger, from) + a <= Count(ledger, from)
        /\ Count(rlanded, from) <= Count(rledger, from)
    BY <1>1, <2>1, <2>2 DEF CoveredBy, Unit
  <2>5. /\ Count(landed', from) + b + Count(ledger, from)
             <= Count(landed, from) + a + Count(ledger', from)
        /\ b + Count(ledger, from) <= a + Count(ledger', from)
    BY <2>2
  <2> HIDE DEF a, b
  <2>6. /\ Count(landed', from) + b <= Count(ledger', from)
        /\ Count(rledger', from) + b <= Count(ledger', from)
        /\ Count(rlanded', from) <= Count(rledger', from)
    BY <2>1, <2>3, <2>4, <2>5
  <2> QED
    BY <1>1, <2>1, <2>6 DEF CoveredBy, Unit, b
<1>6. PerDay(rledger)' <= DailyReactive
  BY <1>2 DEF PerDay
<1>7. AtWork(s)'
  BY <1>3, <1>4, <1>5 DEF AtWork
<1> QED
  BY <1>1, <1>6, <1>7, SeqConcludes

\* Every step of a session that keeps the history clean is such a move.
LEMMA SessionSequential ==
    ASSUME TypeOK, TypeOK', SeqInv, NEW s \in Sessions, SessionStep(s) \/ Abort(s)
    PROVE  SeqInv'
<1> SUFFICES ASSUME ~disturbed'
             PROVE  SeqInv'
  BY DEF SeqInv
<1> DEFINE H(from) == Unit(Holds(s) /\ stamp[s] > from)
           Hn(from) == Unit(Holds(s)' /\ stamp'[s] > from)
<1>a. /\ s \in Writers /\ s \notin Recorders /\ Sessions \subseteq Writers
      /\ now \in Times /\ stamp[s] \in Times
      /\ pc \in [Writers -> SessionPCs \cup OtherPCs] /\ stamp \in [Writers -> Times]
      /\ ledger \in Bags /\ landed \in Bags
  BY WriteRateAssumption DEF TypeOK, Writers, Recorders
<1>b. ASSUME NEW from \in Int
      PROVE  /\ Count(landed, from) \in Nat /\ Count(landed', from) \in Nat
             /\ Count(ledger, from) \in Nat /\ Count(ledger', from) \in Nat
             /\ H(from) \in {0, 1} /\ Hn(from) \in {0, 1}
  BY CountType DEF TypeOK, Unit
<1>c. ASSUME pc[s] # "idle", ~disturbed
      PROVE  OthersIdle(s)
  BY <1>a, <1>c DEF SeqInv, AtWork
<1>d. ASSUME NEW l, Begin(s, l)
      PROVE  ~disturbed /\ OthersIdle(s) /\ ~Holds(s)
  BY <1>a, <1>d DEF Begin, OthersIdle, Holds
<1>1. CASE BeginReserve(s)
  <2>1. ~disturbed /\ OthersIdle(s) /\ pc' = [pc EXCEPT ![s] = "reserve"]
        /\ UNCHANGED <<now, ledger, rledger, landed, rlanded>>
    BY <1>1, <1>d DEF BeginReserve, Begin, Goto, ledgers, chain
  <2>2. \A from : Hn(from) = 0
    BY <1>a, <2>1 DEF Holds, Unit
  <2> QED
    BY <1>b, <2>1, <2>2, SessionMoves
<1>2. CASE Reserve(s)
  <2>1. /\ pc[s] = "reserve" /\ ~disturbed
        /\ UNCHANGED <<now, rledger, landed, rlanded>>
        /\ ledger' = Appended(ledger, stamp[s])
    BY <1>2 DEF Reserve, chain, history
  <2>2. OthersIdle(s)
    BY <1>c, <2>1
  <2>3. CASE Allowed(ledger)
    <3>1. pc' = [pc EXCEPT ![s] = "draft"] /\ stamp' = stamp
      BY <1>2, <2>3 DEF Reserve, Goto
    <3>2. \A from \in Int : H(from) = 0 /\ Hn(from) = Unit(stamp[s] > from)
      BY <1>a, <2>1, <3>1 DEF Holds, Unit
    <3>3. \A from \in Int : from >= now - Day =>
            Count(ledger', from) = Count(ledger, from) + Unit(stamp[s] > from)
      BY <1>a, <2>1, <2>3, LedgerCounts
    <3> HIDE DEF H, Hn
    <3>4. \A from \in Int : from >= now - Day =>
             /\ Count(landed', from) + Hn(from) + Count(ledger, from)
                  <= Count(landed, from) + H(from) + Count(ledger', from)
             /\ Hn(from) + Count(ledger, from) <= H(from) + Count(ledger', from)
      BY <1>b, <2>1, <3>2, <3>3
    <3> QED
      BY <2>1, <2>2, <3>1, <3>4, SessionMoves DEF H, Hn
  <2>4. CASE ~Allowed(ledger)
    <3>1. pc' = [pc EXCEPT ![s] = "idle"]
      BY <1>2, <2>4 DEF Reserve, Done, Goto
    <3>2. \A from : Hn(from) = 0
      BY <1>a, <3>1 DEF Holds, Unit
    <3>3. ledger' = ledger
      BY <1>a, <2>1, <2>4, AppendedLedger
    <3> QED
      BY <1>b, <2>1, <2>2, <3>1, <3>2, <3>3, SessionMoves
  <2> QED
    BY <2>3, <2>4
<1>3. CASE Skip(s)
  <2>1. /\ pc[s] = "draft" /\ ~disturbed /\ pc' = [pc EXCEPT ![s] = "rollback"]
        /\ UNCHANGED <<now, stamp, ledger, rledger, landed, rlanded>>
    BY <1>3 DEF Skip, Goto, ledgers, chain, history
  <2>2. OthersIdle(s)
    BY <1>c, <2>1
  <2>3. \A from : Hn(from) = H(from)
    BY <1>a, <2>1 DEF Holds, Unit
  <2> QED
    BY <1>b, <2>1, <2>2, <2>3, SessionMoves
<1>4. CASE Publish(s)
  <2>1. /\ pc[s] = "draft" /\ ~disturbed /\ pc' = [pc EXCEPT ![s] = "idle"]
        /\ UNCHANGED <<now, ledger, rledger, rlanded>>
        /\ landed' = Add(landed, stamp[s])
    BY <1>4 DEF Publish, Done, Goto, ledgers
  <2>2. OthersIdle(s)
    BY <1>c, <2>1
  <2>3. \A from \in Int : Hn(from) = 0 /\ H(from) = Unit(stamp[s] > from)
    BY <1>a, <2>1 DEF Holds, Unit
  <2>4. \A from \in Int : Count(landed', from) = Count(landed, from) + Unit(stamp[s] > from)
    BY <1>a, <2>1, CountOneMore
  <2> HIDE DEF H, Hn
  <2>5. \A from \in Int : from >= now - Day =>
           /\ Count(landed', from) + Hn(from) + Count(ledger, from)
                <= Count(landed, from) + H(from) + Count(ledger', from)
           /\ Hn(from) + Count(ledger, from) <= H(from) + Count(ledger', from)
    BY <1>b, <2>1, <2>3, <2>4
  <2> QED
    BY <2>1, <2>2, <2>5, SessionMoves DEF H, Hn
<1>5. CASE PublishLate(s)
  BY <1>5 DEF PublishLate
<1>6. CASE Rollback(s)
  <2>1. /\ pc[s] = "rollback" /\ ~disturbed /\ pc' = [pc EXCEPT ![s] = "idle"]
        /\ UNCHANGED <<now, rledger, landed, rlanded>>
        /\ ledger' = Minus(ledger, stamp[s])
    BY <1>6 DEF Rollback, Done, Goto, chain, history
  <2>2. OthersIdle(s)
    BY <1>c, <2>1
  <2>3. \A from \in Int : Hn(from) = 0 /\ H(from) = Unit(stamp[s] > from)
    BY <1>a, <2>1 DEF Holds, Unit
  <2>4. \A from \in Int : from >= now - Day =>
          Count(ledger, from) <= Count(ledger', from) + Unit(stamp[s] > from)
    BY <1>a, <2>1, LedgerCounts
  <2> HIDE DEF H, Hn
  <2>5. \A from \in Int : from >= now - Day =>
           /\ Count(landed', from) + Hn(from) + Count(ledger, from)
                <= Count(landed, from) + H(from) + Count(ledger', from)
           /\ Hn(from) + Count(ledger, from) <= H(from) + Count(ledger', from)
    BY <1>b, <2>1, <2>3, <2>4
  <2> QED
    BY <2>1, <2>2, <2>5, SessionMoves DEF H, Hn
<1>7. CASE BeginBet(s)
  <2>1. /\ ~disturbed /\ OthersIdle(s) /\ ledger' = Checked(ledger)
        /\ pc' = [pc EXCEPT ![s] = IF Allowed(ledger) THEN "bet" ELSE "idle"]
        /\ UNCHANGED <<now, rledger, landed, rlanded>>
    BY <1>7, <1>d DEF BeginBet, Begin, Goto, chain
  <2>2. \A from : Hn(from) = 0
    BY <1>a, <2>1 DEF Holds, Unit
  <2>3. \A from \in Int : from >= now - Day => Count(ledger', from) = Count(ledger, from)
    BY <1>a, <2>1, LedgerCounts
  <2> HIDE DEF H, Hn
  <2>4. \A from \in Int : from >= now - Day =>
           /\ Count(landed', from) + Hn(from) + Count(ledger, from)
                <= Count(landed, from) + H(from) + Count(ledger', from)
           /\ Hn(from) + Count(ledger, from) <= H(from) + Count(ledger', from)
    BY <1>b, <2>1, <2>2, <2>3
  <2> QED
    BY <2>1, <2>4, SessionMoves DEF H, Hn
<1>8. CASE (\E lands \in BOOLEAN : Bet(s, lands)) \/ Abort(s)
  <2>1. /\ pc[s] # "idle" /\ ~disturbed /\ pc' = [pc EXCEPT ![s] = "idle"]
        /\ UNCHANGED <<now, ledger, rledger, landed, rlanded>>
    <3>1. CASE \E lands \in BOOLEAN : Bet(s, lands)
      BY <3>1 DEF Bet, Done, Goto, ledgers, history
    <3>2. CASE Abort(s)
      BY <3>2 DEF Abort, Done, Goto, ledgers, chain
    <3> QED
      BY <1>8, <3>1, <3>2
  <2>2. OthersIdle(s)
    BY <1>c, <2>1
  <2>3. \A from : Hn(from) = 0
    BY <1>a, <2>1 DEF Holds, Unit
  <2> QED
    BY <1>b, <2>1, <2>2, <2>3, SessionMoves
<1>9. CASE EndSession(s)
  <2>1. now <= now
    BY <1>a DEF Times
  <2>2. UNCHANGED <<now, ledger, rledger, landed, rlanded, pc, stamp, disturbed>>
    BY <1>9 DEF EndSession, ledgers, chain, history
  <2> QED
    BY <2>1, <2>2, SeqQuiet
<1> QED
  BY <1>1, <1>2, <1>3, <1>4, <1>5, <1>6, <1>7, <1>8, <1>9 DEF SessionStep

\* A tool or a reactor moves: what is asked of the state after its step.
LEMMA RecorderMoves ==
    ASSUME TypeOK', NEW w \in Recorders, OthersIdle(w), now' = now,
           \A v \in Writers \ {w} : pc'[v] = pc[v],
           RoomFor(w)', PerDay(rledger)' <= DailyReactive,
           \A from \in Int : from >= now - Day => CoveredBy(w, from)'
    PROVE  SeqInv'
<1>1. w \in Writers
  BY DEF Writers, Recorders
<1>2. AtWork(w)'
  BY DEF AtWork, OthersIdle
<1> QED
  BY <1>1, <1>2, SeqConcludes

\* Every step of a recorder that keeps the history clean is such a move.
LEMMA RecorderSequential ==
    ASSUME TypeOK, TypeOK', SeqInv, NEW w \in Recorders,
           \/ w \in Tools /\ CheckTool(w)
           \/ w \in Reactors /\ (CheckReactive(w) \/ CheckShared(w))
           \/ RecorderStep(w) \/ Abort(w)
    PROVE  SeqInv'
<1> SUFFICES ASSUME ~disturbed'
             PROVE  SeqInv'
  BY DEF SeqInv
<1>a. /\ w \in Writers /\ w \notin Sessions /\ now \in Times /\ stamp[w] \in Times
      /\ pc \in [Writers -> SessionPCs \cup OtherPCs] /\ stamp \in [Writers -> Times]
      /\ ledger \in Bags /\ rledger \in Bags /\ landed \in Bags /\ rlanded \in Bags
  BY WriteRateAssumption DEF TypeOK, Writers, Recorders
<1>b. /\ now \in Int /\ now - Day \in Int /\ now - Hour \in Int /\ now - Day <= now - Hour
      /\ stamp[w] \in Int /\ stamp[w] <= now /\ now - Day >= now - Day
      /\ DailyLimit \in Nat /\ HourlyLimit \in Nat /\ DailyReactive \in Nat
  BY <1>a, Windows, WriteRateAssumption DEF TypeOK, Times
<1>c. ASSUME NEW from \in Int
      PROVE  /\ Count(landed, from) \in Nat /\ Count(ledger, from) \in Nat
             /\ Count(rledger, from) \in Nat /\ Count(rlanded, from) \in Nat
  BY CountType DEF TypeOK
<1>d. ~Holds(w) /\ ~Holds(w)'
  BY <1>a DEF Holds
<1>e. ASSUME pc[w] # "idle", ~disturbed
      PROVE  OthersIdle(w) /\ AtWork(w) /\ PerDay(rledger) <= DailyReactive
  BY <1>a, <1>e DEF SeqInv, AtWork
<1>f. ASSUME NEW l, Begin(w, l)
      PROVE  /\ ~disturbed /\ OthersIdle(w) /\ AtWork(w) /\ PerDay(rledger) <= DailyReactive
             /\ pc[w] = "idle" /\ pc' = [pc EXCEPT ![w] = l]
  <2>1. ~disturbed /\ OthersIdle(w)
    BY <1>a, <1>f DEF Begin, OthersIdle
  <2>2. AtWork(w) /\ PerDay(rledger) <= DailyReactive
    BY <1>a, <2>1, SeqStarts
  <2> QED
    BY <2>1, <2>2, <1>f DEF Begin, Goto
<1>g. ASSUME ledger' = Checked(ledger), now' = now
      PROVE  /\ \A from \in Int : from >= now - Day => Count(ledger', from) = Count(ledger, from)
             /\ Allowed(ledger)' <=> Allowed(ledger)
  <2>1. \A from \in Int : from >= now - Day => Count(ledger', from) = Count(ledger, from)
    BY <1>a, <1>g, LedgerCounts
  <2>2. PerDay(ledger)' = PerDay(ledger) /\ PerHour(ledger)' = PerHour(ledger)
    BY <1>b, <1>g, <2>1 DEF PerDay, PerHour
  <2> QED
    BY <2>1, <2>2 DEF Allowed
<1>h. ASSUME UNCHANGED <<now, ledger>>
      PROVE  Allowed(ledger)' <=> Allowed(ledger)
  BY <1>h DEF Allowed, PerDay, PerHour
\* A step between two awaits, none of which owes a record.
<1>i. ASSUME OthersIdle(w), AtWork(w), UNCHANGED <<now, rledger, landed, rlanded>>,
             \A from \in Int : from >= now - Day => Count(ledger', from) = Count(ledger, from),
             NEW l, pc' = [pc EXCEPT ![w] = l],
             pc[w] \in {"idle", "checkShared", "post"}, l \in {"idle", "checkShared", "post"},
             RoomFor(w)', PerDay(rledger) <= DailyReactive
      PROVE  SeqInv'
  <2>1. ASSUME NEW from \in Int, from >= now - Day
        PROVE  CoveredBy(w, from)'
    <3>1. ~Owing(w, from) /\ ~Owing(w, from)'
      BY <1>a, <1>i DEF Owing
    <3>2. CoveredBy(w, from) /\ Count(ledger', from) = Count(ledger, from)
      BY <1>i, <2>1 DEF AtWork
    <3> QED
      BY <1>c, <1>d, <1>i, <3>1, <3>2 DEF CoveredBy, Unit
  <2>2. PerDay(rledger)' <= DailyReactive
    BY <1>i DEF PerDay
  <2> QED
    BY <1>a, <1>i, <2>1, <2>2, RecorderMoves
<1>1. CASE w \in Tools /\ CheckTool(w)
  <2> DEFINE l == IF Allowed(ledger) THEN "post" ELSE "idle"
  <2>1. Begin(w, l) /\ ledger' = Checked(ledger) /\ UNCHANGED <<now, rledger, landed, rlanded>>
    BY <1>1 DEF CheckTool, chain
  <2>2. w \notin Reactors
    BY <1>1, WriteRateAssumption
  <2>3. pc' = [pc EXCEPT ![w] = l] /\ (Allowed(ledger)' <=> Allowed(ledger))
    BY <1>f, <1>g, <2>1
  <2>4. RoomFor(w)'
    BY <1>a, <2>2, <2>3 DEF RoomFor
  <2> QED
    BY <1>f, <1>g, <1>i, <2>1, <2>3, <2>4
<1>2. CASE w \in Reactors /\ CheckReactive(w)
  <2> DEFINE ok == ReactiveUsedToday < DailyReactive /\ ReactiveUsedThisHour < ReactiveHourly
             l == IF ok THEN "checkShared" ELSE "idle"
  <2>1. Begin(w, l) /\ UNCHANGED <<now, ledger, rledger, landed, rlanded>>
    BY <1>2 DEF CheckReactive, ledgers, chain
  <2>2. pc' = [pc EXCEPT ![w] = l]
    BY <1>f, <2>1
  <2>3. ok => (PerDay(rledger) < DailyLimit => PerDay(rledger) < DailyReactive)
    <3>1. PerDay(rledger) \in Nat
      BY <1>b, <1>c DEF PerDay
    <3> QED
      BY <1>b, <3>1 DEF ReactiveUsedToday, Remaining
  <2> HIDE DEF ok
  <2>4. RoomFor(w)'
    BY <1>a, <2>1, <2>2, <2>3 DEF RoomFor, PerDay
  <2> QED
    BY <1>f, <1>i, <2>1, <2>2, <2>4
<1>3. CASE w \in Reactors /\ CheckShared(w)
  <2> DEFINE l == IF Allowed(ledger) THEN "post" ELSE "idle"
  <2>1. /\ pc[w] = "checkShared" /\ ~disturbed /\ pc' = [pc EXCEPT ![w] = l]
        /\ ledger' = Checked(ledger) /\ UNCHANGED <<now, rledger, landed, rlanded>>
    BY <1>3 DEF CheckShared, Goto, chain, history
  <2>2. OthersIdle(w) /\ AtWork(w) /\ PerDay(rledger) <= DailyReactive
    BY <1>e, <2>1
  <2>3. RoomFor(w)'
    <3>1. PerDay(rledger) < DailyLimit => PerDay(rledger) < DailyReactive
      BY <1>3, <2>1, <2>2 DEF AtWork, RoomFor
    <3>2. Allowed(ledger)' <=> Allowed(ledger)
      BY <1>g, <2>1
    <3> QED
      BY <1>a, <2>1, <3>1, <3>2 DEF RoomFor, PerDay
  <2> QED
    BY <1>g, <1>i, <2>1, <2>2, <2>3
<1>4. CASE Post(w)
  <2>1. /\ pc[w] = "post" /\ ~disturbed /\ pc' = [pc EXCEPT ![w] = "stampEntry"]
        /\ landed' = Add(landed, now) /\ UNCHANGED <<now, ledger, rledger, stamp>>
        /\ rlanded' = IF w \in Reactors THEN Add(rlanded, now) ELSE rlanded
    BY <1>4 DEF Post, Goto, ledgers, history
  <2>2. OthersIdle(w) /\ AtWork(w) /\ PerDay(rledger) <= DailyReactive
    BY <1>e, <2>1
  <2>3. RoomFor(w)'
    BY <1>a, <1>h, <2>1, <2>2 DEF AtWork, RoomFor, PerDay
  <2>4. ASSUME NEW from \in Int, from >= now - Day
        PROVE  CoveredBy(w, from)'
    <3>1. CoveredBy(w, from) /\ ~Owing(w, from)
      BY <2>1, <2>2, <2>4 DEF AtWork, Owing
    <3>2. Owing(w, from)' <=> now > from
      BY <1>a, <2>1 DEF Owing
    <3>3. /\ Count(landed', from) = Count(landed, from) + Unit(now > from)
          /\ Count(rlanded', from)
               = Count(rlanded, from) + IF w \in Reactors THEN Unit(now > from) ELSE 0
      <4>1. /\ Count(landed', from) = Count(landed, from) + Unit(now > from)
            /\ w \in Reactors => Count(rlanded', from) = Count(rlanded, from) + Unit(now > from)
        BY <1>a, <2>1, CountOneMore
      <4> QED
        BY <1>c, <2>1, <4>1
    <3>4. pc'[w] = "stampEntry"
      BY <1>a, <2>1
    <3> QED
      BY <1>c, <1>d, <2>1, <3>1, <3>2, <3>3, <3>4 DEF CoveredBy, Unit
  <2>5. PerDay(rledger)' <= DailyReactive
    BY <2>1, <2>2 DEF PerDay
  <2> QED
    BY <2>1, <2>2, <2>3, <2>4, <2>5, RecorderMoves
<1>5. CASE PostFails(w) \/ Abort(w)
  <2>1. /\ pc[w] \in {"checkShared", "post"} /\ ~disturbed /\ pc' = [pc EXCEPT ![w] = "idle"]
        /\ UNCHANGED <<now, ledger, rledger, landed, rlanded>>
    <3>1. CASE PostFails(w)
      BY <3>1 DEF PostFails, Done, Goto, ledgers, chain, history
    <3>2. CASE Abort(w)
      <4>1. pc[w] \in OtherPCs
        BY <1>a DEF TypeOK
      <4> QED
        BY <3>2, <4>1 DEF Abort, Done, Goto, ledgers, chain, OtherPCs
    <3> QED
      BY <1>5, <3>1, <3>2
  <2>2. OthersIdle(w) /\ AtWork(w) /\ PerDay(rledger) <= DailyReactive
    BY <1>e, <2>1
  <2>3. RoomFor(w)'
    BY <1>a, <2>1 DEF RoomFor
  <2>4. \A from \in Int : from >= now - Day => Count(ledger', from) = Count(ledger, from)
    BY <2>1
  <2> QED
    BY <1>i, <2>1, <2>2, <2>3, <2>4
<1>6. CASE PostLate(w)
  BY <1>6 DEF PostLate
<1>7. CASE StampEntry(w)
  <2> DEFINE l == IF w \in Reactors THEN "recordReactive" ELSE "record"
  <2>1. /\ pc[w] = "stampEntry" /\ ~disturbed /\ pc' = [pc EXCEPT ![w] = l]
        /\ stamp' = [stamp EXCEPT ![w] = now]
        /\ UNCHANGED <<now, ledger, rledger, landed, rlanded>>
    BY <1>7 DEF StampEntry, Goto, ledgers, chain, history
  <2>2. OthersIdle(w) /\ AtWork(w) /\ PerDay(rledger) <= DailyReactive
    BY <1>e, <2>1
  <2>3. pc'[w] = l /\ stamp'[w] = now
    BY <1>a, <2>1
  <2>4. RoomFor(w)'
    BY <1>h, <2>1, <2>2, <2>3 DEF AtWork, RoomFor, PerDay
  <2>5. ASSUME NEW from \in Int, from >= now - Day
        PROVE  CoveredBy(w, from)'
    <3>1. CoveredBy(w, from)
      BY <2>2, <2>5 DEF AtWork
    <3>2. Owing(w, from)' <=> Owing(w, from)
      BY <2>1, <2>3 DEF Owing
    <3> QED
      BY <1>c, <1>d, <2>1, <2>3, <3>1, <3>2 DEF CoveredBy, Unit
  <2>6. PerDay(rledger)' <= DailyReactive
    BY <2>1, <2>2 DEF PerDay
  <2> QED
    BY <2>1, <2>2, <2>4, <2>5, <2>6, RecorderMoves
<1>8. CASE RecordReactive(w)
  <2>1. /\ pc[w] = "recordReactive" /\ ~disturbed /\ pc' = [pc EXCEPT ![w] = "record"]
        /\ rledger' = Appended(rledger, stamp[w]) /\ stamp' = [stamp EXCEPT ![w] = now]
        /\ UNCHANGED <<now, ledger, landed, rlanded>>
    BY <1>8 DEF RecordReactive, Goto, chain, history
  <2>2. OthersIdle(w) /\ AtWork(w) /\ PerDay(rledger) <= DailyReactive
    BY <1>e, <2>1
  <2>3. pc'[w] = "record" /\ stamp'[w] = now
    BY <1>a, <2>1
  <2>4. /\ w \in Reactors /\ Allowed(ledger)
        /\ PerDay(rledger) < DailyLimit => PerDay(rledger) < DailyReactive
    BY <2>1, <2>2 DEF AtWork, RoomFor
  <2>5. Allowed(rledger)
    <3>1. CoveredBy(w, now - Hour) /\ CoveredBy(w, now - Day)
      BY <1>b, <2>2 DEF AtWork
    <3>2. /\ Count(rledger, now - Hour) <= Count(ledger, now - Hour)
          /\ Count(rledger, now - Day) <= Count(ledger, now - Day)
      BY <1>b, <1>c, <1>d, <2>1, <3>1 DEF CoveredBy, Unit
    <3> QED
      BY <1>b, <1>c, <2>4, <3>2 DEF Allowed, PerDay, PerHour
  <2>6. \A from \in Int : from >= now - Day =>
          Count(rledger', from) = Count(rledger, from) + Unit(stamp[w] > from)
    BY <1>a, <2>1, <2>5, LedgerCounts
  <2>7. RoomFor(w)'
    BY <1>h, <2>1, <2>3, <2>4 DEF RoomFor
  <2>8. ASSUME NEW from \in Int, from >= now - Day
        PROVE  CoveredBy(w, from)'
    <3>1. CoveredBy(w, from)
      BY <2>2, <2>8 DEF AtWork
    <3>2. /\ Owing(w, from) <=> stamp[w] > from
          /\ Owing(w, from)' <=> now > from
          /\ stamp[w] > from => now > from
      BY <1>b, <2>1, <2>3, <2>8 DEF Owing
    <3>3. Count(rledger', from) = Count(rledger, from) + Unit(stamp[w] > from)
      BY <2>6, <2>8
    <3> QED
      BY <1>c, <1>d, <2>1, <2>3, <2>4, <3>1, <3>2, <3>3 DEF CoveredBy, Unit
  <2>9. PerDay(rledger)' <= DailyReactive
    <3>1. /\ Count(rledger', now - Day) <= Count(rledger, now - Day) + 1
          /\ Count(rledger, now - Day) < DailyReactive /\ Count(rledger, now - Day) \in Nat
          /\ Count(rledger', now - Day) \in Nat
      BY <1>b, <1>c, <2>4, <2>5, <2>6 DEF Allowed, PerDay, Unit
    <3> QED
      BY <1>b, <2>1, <3>1 DEF PerDay
  <2> QED
    BY <2>1, <2>2, <2>7, <2>8, <2>9, RecorderMoves
<1>9. CASE Record(w)
  <2>1. /\ pc[w] = "record" /\ ~disturbed /\ pc' = [pc EXCEPT ![w] = "idle"]
        /\ ledger' = Appended(ledger, stamp[w]) /\ UNCHANGED <<now, rledger, landed, rlanded>>
    BY <1>9 DEF Record, Done, Goto, chain
  <2>2. OthersIdle(w) /\ AtWork(w) /\ PerDay(rledger) <= DailyReactive
    BY <1>e, <2>1
  <2>3. pc'[w] = "idle"
    BY <1>a, <2>1
  <2>4. Allowed(ledger)
    BY <2>1, <2>2 DEF AtWork, RoomFor
  <2>5. RoomFor(w)'
    BY <2>3 DEF RoomFor
  <2>6. ASSUME NEW from \in Int, from >= now - Day
        PROVE  CoveredBy(w, from)'
    <3>1. CoveredBy(w, from)
      BY <2>2, <2>6 DEF AtWork
    <3>2. (Owing(w, from) <=> stamp[w] > from) /\ ~Owing(w, from)'
      BY <2>1, <2>3 DEF Owing
    <3>3. Count(ledger', from) = Count(ledger, from) + Unit(stamp[w] > from)
      BY <1>a, <2>1, <2>4, <2>6, LedgerCounts
    <3> QED
      BY <1>c, <1>d, <2>1, <3>1, <3>2, <3>3 DEF CoveredBy, Unit
  <2>7. PerDay(rledger)' <= DailyReactive
    BY <2>1, <2>2 DEF PerDay
  <2> QED
    BY <2>1, <2>2, <2>5, <2>6, <2>7, RecorderMoves
<1> QED
  BY <1>1, <1>2, <1>3, <1>4, <1>5, <1>6, <1>7, <1>8, <1>9 DEF RecorderStep

----------------------------------------------------------------------------
\* The invariant, and the theorem.

LEMMA SeqStep ==
    ASSUME TypeOK, TypeOK', SeqInv, [Next]_vars
    PROVE  SeqInv'
<1>1. CASE \E s \in Sessions : SessionStep(s) \/ Abort(s)
  BY <1>1, SessionSequential
<1>2. CASE \E w \in Recorders :
             \/ w \in Tools /\ CheckTool(w)
             \/ w \in Reactors /\ (CheckReactive(w) \/ CheckShared(w))
             \/ RecorderStep(w) \/ Abort(w)
  BY <1>2, RecorderSequential
<1>3. CASE Tick \/ UNCHANGED vars
  <2>1. now <= now' /\ UNCHANGED <<ledger, rledger, landed, rlanded, pc, stamp, disturbed>>
    <3>1. now \in Int
      BY DEF TypeOK, Times
    <3> QED
      BY <1>3, <3>1 DEF Tick, vars, ledgers, locals, chain, history
  <2> QED
    BY <2>1, SeqQuiet
<1> QED
  BY <1>1, <1>2, <1>3 DEF Next, Writers, Recorders

LEMMA SeqInit ==
    ASSUME Init
    PROVE  SeqInv
<1>1. TypeOK
  BY TInvInit DEF TInv
<1>2. \A f \in {ledger, rledger, landed, rlanded} : \A from \in Int : Count(f, from) = 0
  <2>1. \A f \in {ledger, rledger, landed, rlanded} : \A t \in Times : 1..f[t] = {}
    BY DEF Init
  <2>2. \A f \in {ledger, rledger, landed, rlanded} : \A from \in Int : Slots(f, from) = {}
    BY <2>1 DEF Slots
  <2> QED
    BY <2>2, FS_EmptySet DEF Count
<1>3. now - Day \in Int /\ DailyReactive \in Nat
  BY <1>1, Windows, WriteRateAssumption DEF TypeOK
<1>4. PerDay(rledger) <= DailyReactive
  BY <1>2, <1>3 DEF PerDay
<1>5. AtRest
  BY <1>2 DEF AtRest
<1>6. \A w \in Writers : pc[w] = "idle"
  BY DEF Init
<1> QED
  BY <1>4, <1>5, <1>6 DEF SeqInv

\* As long as no two writers overlap and every post is recorded, check, publish,
\* record keeps the posts on chain within the limits, the reactive ones too.
THEOREM WriteRateSequential == Spec => []SequentialWithinLimits
<1>1. Init => TInv /\ SeqInv
  BY TInvInit, SeqInit
<1>2. TInv /\ SeqInv /\ [Next]_vars => TInv' /\ SeqInv'
  BY TInvStep, SeqStep DEF TInv
<1>3. IInv /\ SeqInv => SequentialWithinLimits
  BY SeqInvBounds DEF IInv, TInv
<1>4. Spec => [](TInv /\ SeqInv)
  BY <1>1, <1>2, PTL DEF Spec
<1> QED
  BY <1>3, <1>4, WriteRateInvariant, PTL
============================================================================
