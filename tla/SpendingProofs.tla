--------------------------- MODULE SpendingProofs ---------------------------
(***************************************************************************)
(* Theorems about Spending for every set of posts, every amount, cap and    *)
(* limit, with all its faults: types, the cap of a day, that a post is      *)
(* tipped twice only if its first tip was forgotten, how many tips of a day *)
(* one recipient gets, and the warm-up.                                     *)
(***************************************************************************)
EXTENDS Spending, FiniteSetTheorems, TLAPS

HookOpen == pc \in {"hook", "tip"}

\* Every transaction of the day is in the ledger, due to be, or lost.
Money ==
    /\ ledger.day <= day /\ memory.day <= day
    /\ history.landed = SpentToday(ledger) + history.due + history.lost
    /\ pc \in {"act", "bet", "hook", "tip"} => SpentToday(memory) = SpentToday(ledger) + history.due
    /\ ~HookOpen => history.due = 0

\* What is booked is within the cap, with what the step under way will add.
Capped ==
    /\ SpentToday(ledger) + history.due <= DailyCap
    /\ pc = "bet" => planned <= DailyCap /\ SpentToday(memory) + planned <= DailyCap
    /\ pc = "tip" => TipAmount[post] <= DailyCap /\ SpentToday(memory) + TipAmount[post] <= DailyCap

\* Who knows of a post's tip: the file, the running hook, or no one any more.
Known ==
    /\ \A p \in Posts : history.tips[p] > 0 => p \in tipFile.tipped \cup history.pending \cup history.forgotten
    /\ TippedOnce
    /\ HookOpen \/ pc = "save" => tipState.tipped = tipFile.tipped \cup history.pending
    /\ HookOpen => queue \cap (tipFile.tipped \cup history.pending) = {}
    /\ pc = "tip" => post \notin tipFile.tipped \cup history.pending \cup queue
    /\ ~(HookOpen \/ pc = "save") => history.pending = {}

\* The warm-up counter counts sessions whose hook has saved its state.
Warm ==
    /\ tipFile.warm <= Cardinality(history.warmed)
    /\ \A n \in history.warmed : n <= tipFile.last
    /\ tipFile.last <= number
    /\ HookOpen \/ pc = "save" =>
          /\ tipState.last = number
          /\ tipState.warm <= Cardinality(history.warmed \cup {number})
    /\ HookOpen /\ live => Cardinality(history.warmed) >= MinSessions
    /\ pc = "tip" => live
    /\ WarmUpFirst

Histories ==
    [landed : Nat, due : Nat, lost : Nat, tipsTo : [Recipients -> Nat],
     tips : [Posts -> Nat], pending : SUBSET Posts, forgotten : SUBSET Posts,
     warmed : SUBSET (1..MaxSessions)]
Ledgers == [day : 1..MaxDays, spent : Nat]
Memories == [day : 1..MaxDays, spent : Nat, session : Nat]

----------------------------------------------------------------------------
LEMMA SpentTypes ==
    ASSUME TypeOK
    PROVE  /\ SpentToday(ledger) \in Nat /\ SpentToday(memory) \in Nat
           /\ Loaded \in Memories /\ SpentToday(Loaded) = SpentToday(ledger)
           /\ \A a \in Nat : Recorded(a) \in Memories
           /\ \A a \in Nat : SpentToday(Recorded(a)) = SpentToday(memory) + a
BY SpendingAssumption DEF TypeOK, SpentToday, Loaded, Recorded, Memories

LEMMA HistoryTypes ==
    ASSUME NEW h \in Histories
    PROVE  /\ Forgetting(h) \in Histories
           /\ Forgetting(h).landed = h.landed /\ Forgetting(h).due = 0
           /\ Forgetting(h).lost = h.lost + h.due
           /\ Forgetting(h).tips = h.tips /\ Forgetting(h).warmed = h.warmed
           /\ Forgetting(h).tipsTo = h.tipsTo
           /\ Forgetting(h).pending = {} /\ Forgetting(h).forgotten = h.forgotten \cup h.pending
<1> DEFINE l == h.lost + h.due
           P == h.forgotten \cup h.pending
<1>1. l \in Nat /\ P \in SUBSET Posts BY DEF Histories
<1>2. Forgetting(h) = [h EXCEPT !.lost = l, !.due = 0, !.forgotten = P, !.pending = {}]
  BY DEF Forgetting
<1> HIDE DEF l, P
<1>3. [h EXCEPT !.lost = l, !.due = 0, !.forgotten = P, !.pending = {}] \in Histories
  BY <1>1 DEF Histories
<1>4. Forgetting(h) \in Histories BY <1>2, <1>3
<1> QED BY <1>2, <1>4 DEF Histories, l, P

LEMMA LandedTypes ==
    ASSUME TypeOK, pc = "tip"
    PROVE  /\ Landed \in Histories
           /\ Landed.landed = history.landed + TipAmount[post]
           /\ Landed.due = history.due + TipAmount[post]
           /\ Landed.lost = history.lost
           /\ Landed.tips = [history.tips EXCEPT ![post] = @ + 1]
           /\ Landed.tipsTo = [history.tipsTo EXCEPT ![Author[post]] = @ + 1]
           /\ Landed.pending = history.pending \cup {post}
           /\ Landed.forgotten = history.forgotten /\ Landed.warmed = history.warmed
<1> DEFINE a == history.landed + TipAmount[post]
           d == history.due + TipAmount[post]
           all == [history.tips EXCEPT ![post] = @ + 1]
           to == [history.tipsTo EXCEPT ![Author[post]] = @ + 1]
           P == history.pending \cup {post}
<1>1. post \in Posts /\ history \in Histories BY DEF TypeOK, Histories
<1>2. Author[post] \in Recipients /\ TipAmount[post] \in Nat BY <1>1, SpendingAssumption
<1>3. a \in Nat /\ d \in Nat /\ all \in [Posts -> Nat] /\ to \in [Recipients -> Nat] /\ P \in SUBSET Posts
      /\ history.warmed \in SUBSET (1..MaxSessions)
  BY <1>1, <1>2 DEF Histories
<1>4. Landed = [history EXCEPT !.landed = a, !.due = d, !.tips = all, !.tipsTo = to, !.pending = P]
  BY DEF Landed
<1> HIDE DEF a, d, all, to, P
<1>5. Landed \in Histories
  <2>1. [history EXCEPT !.landed = a, !.due = d, !.tips = all, !.tipsTo = to, !.pending = P] \in Histories
    BY <1>1, <1>3 DEF Histories
  <2> QED BY <1>4, <2>1
<1>6. /\ Landed.landed = a /\ Landed.due = d /\ Landed.lost = history.lost /\ Landed.tips = all
      /\ Landed.tipsTo = to
      /\ Landed.pending = P /\ Landed.forgotten = history.forgotten /\ Landed.warmed = history.warmed
  BY <1>1, <1>4 DEF Histories
<1> QED BY <1>5, <1>6 DEF a, d, all, to, P

LEMMA WithTipTypes ==
    ASSUME TypeOK, NEW p \in Posts
    PROVE  /\ WithTip(tipState, p) \in Tips
           /\ WithTip(tipState, p).tipped = tipState.tipped \cup {p}
           /\ WithTip(tipState, p).warm = tipState.warm /\ WithTip(tipState, p).last = tipState.last
<1> DEFINE r == Author[p]
           S == tipState.tipped \cup {p}
           o == [tipState.on EXCEPT ![r] = day]
           n == Count(tipState, r) + 1
           c == [tipState.count EXCEPT ![r] = n]
<1>1. tipState \in Tips /\ day \in 0..MaxDays BY SpendingAssumption DEF TypeOK
<1>2. r \in Recipients BY SpendingAssumption
<1>3. n \in Nat BY <1>1, <1>2 DEF Count, Tips
<1>4. WithTip(tipState, p) = [tipState EXCEPT !.tipped = S, !.on = o, !.count = c] BY DEF WithTip
<1> HIDE DEF n, r
<1>5. S \in SUBSET Posts /\ o \in [Recipients -> 0..MaxDays] /\ c \in [Recipients -> Nat]
  <2>1. S \in SUBSET Posts BY <1>1 DEF Tips
  <2>2. tipState.on \in [Recipients -> 0..MaxDays] /\ tipState.count \in [Recipients -> Nat]
    BY <1>1 DEF Tips
  <2>3. o \in [Recipients -> 0..MaxDays] /\ c \in [Recipients -> Nat] BY <1>1, <1>2, <1>3, <2>2
  <2> QED BY <2>1, <2>3
<1> HIDE DEF S, o, c
<1>6. WithTip(tipState, p) \in Tips
  <2>1. [tipState EXCEPT !.tipped = S, !.on = o, !.count = c] \in Tips BY <1>1, <1>5 DEF Tips
  <2> QED BY <1>4, <2>1
<1> QED BY <1>1, <1>4, <1>6 DEF Tips, S

LEMMA WarmedTypes ==
    ASSUME TypeOK
    PROVE  /\ Warmed(tipFile) \in Tips
           /\ Warmed(tipFile).tipped = tipFile.tipped /\ Warmed(tipFile).last = number
           /\ Warmed(tipFile).warm = IF tipFile.last = number THEN tipFile.warm ELSE tipFile.warm + 1
<1>1. tipFile \in Tips /\ number \in Nat BY SpendingAssumption DEF TypeOK
<1>2. CASE tipFile.last = number BY <1>1, <1>2 DEF Warmed
<1>3. CASE tipFile.last # number
  <2> DEFINE w == tipFile.warm + 1
  <2>1. w \in Nat BY <1>1 DEF Tips
  <2>2. Warmed(tipFile) = [tipFile EXCEPT !.warm = w, !.last = number] BY <1>3 DEF Warmed
  <2> HIDE DEF w
  <2>3. [tipFile EXCEPT !.warm = w, !.last = number] \in Tips BY <1>1, <2>1 DEF Tips
  <2>4. Warmed(tipFile) \in Tips BY <2>2, <2>3
  <2> QED BY <1>1, <1>3, <2>2, <2>4 DEF Tips, w
<1> QED BY <1>2, <1>3

LEMMA TroubleTypes ==
    ASSUME TypeOK, NEW kind, Trouble(kind) PROVE troubles' \in 0..MaxTroubles
BY SpendingAssumption DEF TypeOK, Trouble

IInv == TypeOK /\ Money /\ Capped /\ Known /\ Warm

\* The types, by the names used below.
LEMMA Typed ==
    ASSUME TypeOK
    PROVE  /\ history \in Histories /\ ledger \in Ledgers /\ memory \in Memories
           /\ tipFile \in Tips /\ tipState \in Tips
           /\ day \in 1..MaxDays /\ number \in 1..MaxSessions /\ planned \in Nat
           /\ history.landed \in Nat /\ history.due \in Nat /\ history.lost \in Nat
           /\ history.tips \in [Posts -> Nat] /\ history.warmed \in SUBSET (1..MaxSessions)
BY DEF TypeOK, Histories, Ledgers, Memories

LEMMA WarmedCount ==
    ASSUME TypeOK, NEW W \in SUBSET (1..MaxSessions), NEW n
    PROVE  /\ Cardinality(W) \in Nat
           /\ Cardinality(W \cup {n}) = IF n \in W THEN Cardinality(W) ELSE Cardinality(W) + 1
<1>0. IsFiniteSet(1..MaxSessions) BY SpendingAssumption, FS_Interval
<1>1. IsFiniteSet(W) BY <1>0, FS_Subset
<1> QED BY <1>1, FS_CardinalityType, FS_AddElement

\* What follows when the session moves and neither history nor files change.
LEMMA QuietKeeps ==
    ASSUME IInv, UNCHANGED <<day, files, history>>
    PROVE  /\ ledger'.day <= day'
           /\ history'.landed = SpentToday(ledger)' + history'.due + history'.lost
           /\ SpentToday(ledger)' = SpentToday(ledger)
           /\ TippedOnce'
           /\ \A q \in Posts : history'.tips[q] > 0 =>
                 q \in tipFile'.tipped \cup history'.pending \cup history'.forgotten
           /\ tipFile'.warm <= Cardinality(history'.warmed)
           /\ \A n \in history'.warmed : n <= tipFile'.last
           /\ WarmUpFirst'
BY DEF IInv, Money, Known, Warm, files, SpentToday, TippedOnce, WarmUpFirst

LEMMA StartKeeps == ASSUME IInv, StartSession PROVE IInv'
<1> USE DEF IInv
<1>0. /\ pc = "idle" /\ pc' = "act" /\ memory' = Loaded
      /\ UNCHANGED <<day, number, files, planned, tipping, history, troubles>>
  BY DEF StartSession
<1>1. Loaded \in Memories /\ SpentToday(Loaded) = SpentToday(ledger) /\ Loaded.day = day
  BY SpentTypes DEF Loaded
<1>2. TypeOK' BY <1>0, <1>1 DEF TypeOK, PCs, Memories, files, tipping
<1>3. SpentToday(memory)' = SpentToday(ledger) BY <1>0, <1>1 DEF SpentToday
<1>4. history.due = 0 BY <1>0 DEF Money, HookOpen
<1>5. Money' BY <1>0, <1>1, <1>3, <1>4, Typed, SpentTypes, QuietKeeps DEF Money, HookOpen
<1>6. Capped' BY <1>0, QuietKeeps DEF Capped
<1>7. Known' BY <1>0, QuietKeeps DEF Known, HookOpen, tipping
<1>8. Warm' BY <1>0, QuietKeeps DEF Warm, HookOpen, files, tipping
<1> QED BY <1>2, <1>5, <1>6, <1>7, <1>8

LEMMA PlaceKeeps == ASSUME IInv, PlaceBet PROVE IInv'
<1> USE DEF IInv
<1>0. PICK amount \in BetAmounts : Within(amount) /\ planned' = amount
  BY DEF PlaceBet
<1>1. /\ pc = "act" /\ pc' = "bet" /\ amount \in Nat \ {0}
      /\ UNCHANGED <<day, number, files, memory, tipping, history, troubles>>
  BY SpendingAssumption DEF PlaceBet
<1>2. TypeOK' BY <1>0, <1>1 DEF TypeOK, PCs, files, tipping
<1>3. SpentToday(memory)' = SpentToday(memory) BY <1>1 DEF SpentToday
<1>4. Money' BY <1>1, <1>3, QuietKeeps DEF Money, HookOpen
<1>5. Capped'
  <2>1. SpentToday(memory) + amount <= DailyCap BY <1>0 DEF Within
  <2> QED BY <1>0, <1>1, <1>3, <2>1, SpentTypes, SpendingAssumption, QuietKeeps DEF Capped
<1>6. Known' BY <1>1, QuietKeeps DEF Known, HookOpen, tipping
<1>7. Warm' BY <1>1, QuietKeeps DEF Warm, HookOpen, tipping, files
<1> QED BY <1>2, <1>4, <1>5, <1>6, <1>7

LEMMA BetReturnKeeps == ASSUME IInv, BetReturns PROVE IInv'
<1> USE DEF IInv
<1> DEFINE m == history.landed + planned
<1>0. /\ pc = "bet" /\ pc' = "act" /\ planned' = 0
      /\ memory' = Recorded(planned) /\ ledger' = [day |-> memory'.day, spent |-> memory'.spent]
      /\ history' = [history EXCEPT !.landed = m]
      /\ UNCHANGED <<day, number, tipFile, tipping, troubles>>
  BY DEF BetReturns, SaveLedger
<1>1. m \in Nat BY Typed
<1> HIDE DEF m
<1>2. history' \in Histories BY <1>0, <1>1, Typed DEF Histories
<1>3. /\ history'.landed = m /\ history'.due = history.due /\ history'.lost = history.lost
      /\ history'.tips = history.tips /\ history'.pending = history.pending
      /\ history'.forgotten = history.forgotten /\ history'.warmed = history.warmed
  BY <1>0, <1>1, Typed DEF Histories
<1>4. memory' \in Memories /\ memory'.day = day /\ SpentToday(memory)' = SpentToday(memory) + planned
  BY <1>0, Typed, SpentTypes DEF Recorded, SpentToday
<1>5. ledger' \in Ledgers /\ ledger'.day = day /\ SpentToday(ledger)' = SpentToday(memory) + planned
  BY <1>0, <1>4 DEF SpentToday, Memories, Ledgers
<1>6. TypeOK' BY <1>0, <1>2, <1>4, <1>5 DEF TypeOK, PCs, Histories, Ledgers, Memories, tipping
<1>7. Money' BY <1>0, <1>3, <1>4, <1>5, Typed, SpentTypes DEF Money, HookOpen, m
<1>8. Capped'
  <2>1. history.due = 0 BY <1>0 DEF Money, HookOpen
  <2> QED BY <1>0, <1>3, <1>5, <2>1, Typed, SpentTypes DEF Capped
<1>9. Known' BY <1>0, <1>3 DEF Known, HookOpen, TippedOnce, tipping
<1>10. Warm' BY <1>0, <1>3 DEF Warm, HookOpen, WarmUpFirst, tipping
<1> QED BY <1>6, <1>7, <1>8, <1>9, <1>10

LEMMA BetFailKeeps == ASSUME IInv, BetFails PROVE IInv'
<1> USE DEF IInv
<1> DEFINE m == history.landed + planned
           l == history.lost + planned
<1>0. /\ pc = "bet" /\ pc' = "act" /\ planned' = 0 /\ troubles' \in 0..MaxTroubles
      /\ UNCHANGED <<day, number, files, memory, tipping>>
      /\ UNCHANGED history \/ history' = [history EXCEPT !.landed = m, !.lost = l]
  BY TroubleTypes DEF BetFails
<1>1. m \in Nat /\ l \in Nat BY Typed
<1> HIDE DEF m, l
<1>2. history' \in Histories BY <1>0, <1>1, Typed DEF Histories
<1>3. /\ \/ history'.landed = history.landed /\ history'.lost = history.lost
         \/ history'.landed = m /\ history'.lost = l
      /\ history'.due = history.due
      /\ history'.tips = history.tips /\ history'.pending = history.pending
      /\ history'.forgotten = history.forgotten /\ history'.warmed = history.warmed
  BY <1>0, <1>1, Typed DEF Histories
<1>4. SpentToday(memory)' = SpentToday(memory) /\ SpentToday(ledger)' = SpentToday(ledger)
  BY <1>0 DEF SpentToday, files
<1>5. TypeOK' BY <1>0, <1>2 DEF TypeOK, PCs, Histories, files, tipping
<1>6. Money' BY <1>0, <1>3, <1>4, Typed, SpentTypes DEF Money, HookOpen, files, m, l
<1>7. Capped' BY <1>0, <1>3, <1>4 DEF Capped
<1>8. Known' BY <1>0, <1>3 DEF Known, HookOpen, TippedOnce, tipping, files
<1>9. Warm' BY <1>0, <1>3 DEF Warm, HookOpen, WarmUpFirst, tipping, files
<1> QED BY <1>5, <1>6, <1>7, <1>8, <1>9

LEMMA OpenKeeps == ASSUME IInv, OpenHook PROVE IInv'
<1> USE DEF IInv
<1>0. PICK Q \in SUBSET Eligible(tipFile) : queue' = Q BY DEF OpenHook
<1>1. /\ pc = "act" /\ pc' = "hook" /\ tipState' = Warmed(tipFile) /\ memory' = Loaded
      /\ live' = (tipFile.warm >= MinSessions)
      /\ UNCHANGED <<day, number, files, planned, post, history, troubles>>
  BY DEF OpenHook
<1>2. Q \subseteq Posts /\ Q \cap tipFile.tipped = {} BY DEF Eligible
<1>3. Loaded \in Memories /\ SpentToday(Loaded) = SpentToday(ledger) /\ Loaded.day = day
  BY SpentTypes DEF Loaded
<1>4. TypeOK' BY <1>0, <1>1, <1>2, <1>3, WarmedTypes DEF TypeOK, PCs, Memories, files
<1>5. SpentToday(memory)' = SpentToday(ledger) BY <1>1, <1>3 DEF SpentToday
<1>6. history.due = 0 /\ history.pending = {} BY <1>1 DEF Money, Known, HookOpen
<1>7. Money' BY <1>1, <1>3, <1>5, <1>6, Typed, SpentTypes, QuietKeeps DEF Money, HookOpen
<1>8. Capped' BY <1>1, QuietKeeps DEF Capped
<1>9. Known' BY <1>0, <1>1, <1>2, <1>6, WarmedTypes, QuietKeeps DEF Known, HookOpen, files
<1>10. Warm'
  <2> DEFINE W == history.warmed
  <2>1. /\ Cardinality(W) \in Nat
        /\ Cardinality(W \cup {number}) = IF number \in W THEN Cardinality(W) ELSE Cardinality(W) + 1
    BY Typed, WarmedCount
  <2>2. tipFile.warm \in Nat /\ tipFile.last \in Nat /\ number \in Nat BY Typed, SpendingAssumption DEF Tips
  <2>3. tipFile.last # number => number \notin W BY <2>2 DEF Warm
  <2>4. tipState'.last = number /\ tipState'.warm <= Cardinality(W \cup {number})
    BY <1>1, <2>1, <2>2, <2>3, WarmedTypes DEF Warm
  <2>5. ASSUME live' PROVE Cardinality(W) >= MinSessions
    <3>1. tipFile.warm >= MinSessions BY <1>1, <2>5
    <3>2. MinSessions \in Nat BY SpendingAssumption
    <3> QED BY <2>1, <2>2, <3>1, <3>2 DEF Warm
  <2> QED BY <1>1, <2>4, <2>5, QuietKeeps DEF Warm, HookOpen, files
<1> QED BY <1>4, <1>7, <1>8, <1>9, <1>10

LEMMA TipKeeps == ASSUME IInv, NEW p \in Posts, Tip(p) PROVE IInv'
<1> USE DEF IInv
<1>0. /\ pc = "hook" /\ p \in queue /\ queue' = queue \ {p}
      /\ UNCHANGED <<day, number, files, betting, tipState, live, history, troubles>>
      /\ \/ live /\ Within(TipAmount[p]) /\ pc' = "tip" /\ post' = p
         \/ UNCHANGED <<pc, post>>
  BY DEF Tip
<1>1. TypeOK' BY <1>0, SpendingAssumption DEF TypeOK, PCs, files, betting
<1>2. UNCHANGED <<memory, planned>> /\ SpentToday(memory)' = SpentToday(memory) BY <1>0 DEF SpentToday, betting
<1>3. Money' BY <1>0, <1>2, QuietKeeps DEF Money, HookOpen
<1>4. Capped'
  <2>1. TipAmount[p] \in Nat BY SpendingAssumption
  <2>2. Within(TipAmount[p]) => SpentToday(memory) + TipAmount[p] <= DailyCap BY DEF Within
  <2> QED BY <1>0, <1>2, <2>1, <2>2, SpentTypes, SpendingAssumption, QuietKeeps DEF Capped
<1>5. Known' BY <1>0, QuietKeeps DEF Known, HookOpen, files
<1>6. Warm' BY <1>0, QuietKeeps DEF Warm, HookOpen, files
<1> QED BY <1>1, <1>3, <1>4, <1>5, <1>6

LEMMA TipReturnKeeps == ASSUME IInv, TipReturns PROVE IInv'
<1> USE DEF IInv
<1> DEFINE a == TipAmount[post]
<1>0. /\ pc = "tip" /\ pc' = "hook" /\ post' = NoPost
      /\ memory' = Recorded(a) /\ tipState' = WithTip(tipState, post) /\ history' = Landed
      /\ UNCHANGED <<day, number, files, planned, queue, live, troubles>>
  BY DEF TipReturns
<1>1. post \in Posts /\ a \in Nat BY <1>0, SpendingAssumption DEF TypeOK
<1>2. memory' \in Memories /\ memory'.day = day /\ SpentToday(memory)' = SpentToday(memory) + a
  BY <1>0, <1>1, SpentTypes DEF Recorded, SpentToday
<1>3. SpentToday(ledger)' = SpentToday(ledger) BY <1>0 DEF SpentToday, files
<1>4. /\ history' \in Histories /\ history'.landed = history.landed + a
      /\ history'.due = history.due + a /\ history'.lost = history.lost
      /\ history'.tips = [history.tips EXCEPT ![post] = @ + 1]
      /\ history'.pending = history.pending \cup {post}
      /\ history'.forgotten = history.forgotten /\ history'.warmed = history.warmed
  BY <1>0, LandedTypes
<1> HIDE DEF a
<1>5. TypeOK' BY <1>0, <1>1, <1>2, <1>4, WithTipTypes, SpendingAssumption
  DEF TypeOK, PCs, Histories, Memories, files
<1>6. Money' BY <1>0, <1>1, <1>2, <1>3, <1>4, Typed, SpentTypes DEF Money, HookOpen, files
<1>7. Capped'
  <2>1. SpentToday(memory) = SpentToday(ledger) + history.due BY <1>0 DEF Money
  <2>2. SpentToday(memory) + a <= DailyCap BY <1>0 DEF Capped, a
  <2> QED BY <1>0, <1>1, <1>3, <1>4, <2>1, <2>2, Typed, SpentTypes, SpendingAssumption DEF Capped
<1>8. Known'
  <2>1. \A q \in Posts : history'.tips[q] = IF q = post THEN history.tips[q] + 1 ELSE history.tips[q]
    BY <1>1, <1>4, Typed
  <2>2. \A q \in Posts : history'.tips[q] > 0 =>
           q \in tipFile'.tipped \cup history'.pending \cup history'.forgotten
    BY <1>0, <1>4, <2>1 DEF Known, files
  <2>3. TippedOnce'
    <3>1. post \notin tipFile.tipped \cup history.pending BY <1>0 DEF Known
    <3>2. history.tips[post] > 0 => post \in history.forgotten BY <1>1, <3>1 DEF Known
    <3>3. history.tips[post] \in Nat BY <1>1, Typed
    <3> QED BY <1>4, <2>1, <3>2, <3>3 DEF Known, TippedOnce
  <2>4. tipState'.tipped = tipFile'.tipped \cup history'.pending
    BY <1>0, <1>1, <1>4, WithTipTypes DEF Known, HookOpen, files
  <2>5. queue' \cap (tipFile'.tipped \cup history'.pending) = {}
    BY <1>0, <1>4 DEF Known, HookOpen, files
  <2> QED BY <1>0, <2>2, <2>3, <2>4, <2>5 DEF Known, HookOpen
<1>9. Warm'
  <2>1. tipState'.last = number /\ tipState'.warm = tipState.warm
    BY <1>0, <1>1, WithTipTypes DEF Warm, HookOpen
  <2>2. Cardinality(history.warmed) >= MinSessions BY <1>0 DEF Warm, HookOpen
  <2> QED BY <1>0, <1>4, <2>1, <2>2 DEF Warm, HookOpen, WarmUpFirst, files
<1> QED BY <1>5, <1>6, <1>7, <1>8, <1>9

\* A hook that ends before it has saved forgets, whether or not a last tip lands.
LEMMA ForgettingKeeps ==
    ASSUME IInv, UNCHANGED <<day, number, files, memory, tipState, live>>,
           troubles' \in 0..MaxTroubles,
           \/ history' = Forgetting(history)
           \/ pc = "tip" /\ history' = Forgetting(Landed)
           \/ /\ pc = "bet"
              /\ history' = [history EXCEPT !.landed = @ + planned, !.lost = @ + planned],
           pc' \in {"idle", "done"}, planned' = 0, queue' = {}, post' = NoPost
    PROVE  IInv'
<1> USE DEF IInv
<1>0. SpentToday(ledger)' = SpentToday(ledger) /\ SpentToday(memory)' = SpentToday(memory)
  BY DEF SpentToday, files
<1>1. /\ history' \in Histories
      /\ history'.landed = SpentToday(ledger) + history'.lost /\ history'.due = 0
      /\ history'.pending = {} /\ history'.warmed = history.warmed
      /\ \A q \in Posts : history'.tips[q] > 0 => q \in tipFile.tipped \cup history'.forgotten
      /\ \A q \in Posts : history'.tips[q] > 1 => q \in history'.forgotten
      /\ \/ \A q \in Posts : history'.tips[q] = history.tips[q]
         \/ Cardinality(history.warmed) >= MinSessions
  <2>1. CASE history' = Forgetting(history)
    BY <2>1, HistoryTypes, Typed, SpentTypes DEF Money, Known, TippedOnce
  <2>2. CASE pc = "tip" /\ history' = Forgetting(Landed)
    <3>1. post \in Posts /\ TipAmount[post] \in Nat BY <2>2, SpendingAssumption DEF TypeOK
    <3>2. /\ history'.landed = history.landed + TipAmount[post] /\ history'.due = 0
          /\ history'.lost = history.lost + (history.due + TipAmount[post])
          /\ history'.tips = [history.tips EXCEPT ![post] = @ + 1] /\ history'.warmed = history.warmed
          /\ history'.pending = {} /\ history' \in Histories
          /\ history'.forgotten = history.forgotten \cup (history.pending \cup {post})
      BY <2>2, LandedTypes, HistoryTypes
    <3>3. history'.landed = SpentToday(ledger) + history'.lost
      BY <3>1, <3>2, Typed, SpentTypes DEF Money
    <3>4. \A q \in Posts : history'.tips[q] = IF q = post THEN history.tips[q] + 1 ELSE history.tips[q]
      BY <3>1, <3>2, Typed
    <3>5. /\ \A q \in Posts : history'.tips[q] > 0 => q \in tipFile.tipped \cup history'.forgotten
          /\ \A q \in Posts : history'.tips[q] > 1 => q \in history'.forgotten
      BY <3>2, <3>4 DEF Known, TippedOnce
    <3>6. Cardinality(history.warmed) >= MinSessions BY <2>2 DEF Warm, HookOpen
    <3> QED BY <3>2, <3>3, <3>5, <3>6
  <2>3. CASE pc = "bet" /\ history' = [history EXCEPT !.landed = @ + planned, !.lost = @ + planned]
    <3> DEFINE m == history.landed + planned
               l == history.lost + planned
    <3>1. m \in Nat /\ l \in Nat BY Typed
    <3>2. history' = [history EXCEPT !.landed = m, !.lost = l] BY <2>3
    <3> HIDE DEF m, l
    <3>3. history' \in Histories BY <3>1, <3>2, Typed DEF Histories
    <3>4. /\ history'.landed = m /\ history'.lost = l /\ history'.due = history.due
          /\ history'.tips = history.tips /\ history'.pending = history.pending
          /\ history'.forgotten = history.forgotten /\ history'.warmed = history.warmed
      BY <3>1, <3>2, Typed DEF Histories
    <3>5. history.due = 0 /\ history.pending = {} BY <2>3 DEF Money, Known, HookOpen
    <3>6. history'.landed = SpentToday(ledger) + history'.lost
      BY <3>4, <3>5, Typed, SpentTypes DEF Money, m, l
    <3> QED BY <3>3, <3>4, <3>5, <3>6 DEF Known, TippedOnce
  <2> QED BY <2>1, <2>2, <2>3
<1>2. TypeOK' BY <1>1, SpendingAssumption DEF TypeOK, PCs, Histories, files
<1>3. Money' BY <1>0, <1>1, Typed, SpentTypes DEF Money, HookOpen, files
<1>4. Capped' BY <1>0, <1>1, Typed, SpentTypes, SpendingAssumption DEF Capped
<1>5. Known' BY <1>1 DEF Known, HookOpen, TippedOnce, files
<1>6. Warm' BY <1>1 DEF Warm, HookOpen, WarmUpFirst, files
<1> QED BY <1>2, <1>3, <1>4, <1>5, <1>6

LEMMA SaveSpendsKeeps == ASSUME IInv, SaveSpends PROVE IInv'
<1> USE DEF IInv
<1>0. /\ pc = "hook" /\ pc' = "save" /\ queue = {}
      /\ ledger' = [day |-> memory.day, spent |-> memory.spent]
      /\ history' = [history EXCEPT !.due = 0]
      /\ UNCHANGED <<day, number, tipFile, betting, tipping, troubles>>
  BY DEF SaveSpends, SaveLedger
<1>1. history' \in Histories BY <1>0, Typed DEF Histories
<1>2. /\ history'.landed = history.landed /\ history'.due = 0 /\ history'.lost = history.lost
      /\ history'.tips = history.tips /\ history'.pending = history.pending
      /\ history'.forgotten = history.forgotten /\ history'.warmed = history.warmed
  BY <1>0, Typed DEF Histories
<1>3. ledger' \in Ledgers /\ ledger'.day = memory.day /\ SpentToday(ledger)' = SpentToday(memory)
  BY <1>0, Typed DEF SpentToday, Memories, Ledgers
<1>4. SpentToday(memory) = SpentToday(ledger) + history.due BY <1>0 DEF Money
<1>5. TypeOK' BY <1>0, <1>1, <1>3 DEF TypeOK, PCs, Histories, Ledgers, betting, tipping
<1>6. Money' BY <1>0, <1>2, <1>3, <1>4, Typed, SpentTypes DEF Money, HookOpen, betting
<1>7. Capped' BY <1>0, <1>2, <1>3, <1>4, Typed, SpentTypes DEF Capped
<1>8. Known' BY <1>0, <1>2 DEF Known, HookOpen, TippedOnce, tipping
<1>9. Warm' BY <1>0, <1>2 DEF Warm, HookOpen, WarmUpFirst, tipping
<1> QED BY <1>5, <1>6, <1>7, <1>8, <1>9

LEMMA SaveTipsKeeps == ASSUME IInv, SaveTips PROVE IInv'
<1> USE DEF IInv
<1> DEFINE W == history.warmed \cup {number}
<1>0. /\ pc = "save" /\ pc' = "done" /\ tipFile' = tipState
      /\ history' = [history EXCEPT !.pending = {}, !.warmed = W]
      /\ UNCHANGED <<day, number, ledger, betting, tipping, troubles>>
  BY DEF SaveTips
<1>1. W \in SUBSET (1..MaxSessions) BY Typed
<1>2. Cardinality(history.warmed) \in Nat /\ Cardinality(W) \in Nat
      /\ Cardinality(W) >= Cardinality(history.warmed)
  <2>1. TypeOK /\ history.warmed \in SUBSET (1..MaxSessions) BY Typed
  <2>2. /\ Cardinality(history.warmed) \in Nat
        /\ Cardinality(W) = IF number \in history.warmed THEN Cardinality(history.warmed)
                             ELSE Cardinality(history.warmed) + 1
    BY <2>1, WarmedCount
  <2> HIDE DEF W
  <2> QED BY <2>2
<1>3. \A n \in W : n <= number
  <2>1. number \in Nat /\ tipFile.last \in Nat /\ tipFile.last <= number
    BY Typed, SpendingAssumption DEF Warm, Tips
  <2>2. \A n \in history.warmed : n \in Nat /\ n <= tipFile.last BY Typed DEF Warm
  <2> QED BY <2>1, <2>2
<1>4. tipState.last = number /\ tipState.warm <= Cardinality(W) BY <1>0 DEF Warm
<1> HIDE DEF W
<1>5. history' \in Histories BY <1>0, <1>1, Typed DEF Histories
<1>6. /\ history'.landed = history.landed /\ history'.due = history.due /\ history'.lost = history.lost
      /\ history'.tips = history.tips /\ history'.pending = {}
      /\ history'.forgotten = history.forgotten /\ history'.warmed = W
  BY <1>0, <1>1, Typed DEF Histories
<1>7. TypeOK' BY <1>0, <1>5 DEF TypeOK, PCs, Histories, betting, tipping
<1>8. SpentToday(ledger)' = SpentToday(ledger) BY <1>0 DEF SpentToday
<1>9. Money' BY <1>0, <1>6, <1>8 DEF Money, HookOpen, betting
<1>10. Capped' BY <1>0, <1>6, <1>8 DEF Capped
<1>11. Known' BY <1>0, <1>6 DEF Known, HookOpen, TippedOnce, tipping
<1>12. Warm'
  <2>1. \A q \in Posts : history.tips[q] > 0 => Cardinality(W) >= MinSessions
    BY <1>2, SpendingAssumption DEF Warm, WarmUpFirst
  <2>2. number <= number BY Typed, SpendingAssumption
  <2> QED BY <1>0, <1>3, <1>4, <1>6, <2>1, <2>2 DEF Warm, HookOpen, WarmUpFirst
<1> QED BY <1>7, <1>9, <1>10, <1>11, <1>12

LEMMA RestKeeps == ASSUME IInv, SkipHook \/ EndSession \/ UNCHANGED vars PROVE IInv'
<1> USE DEF IInv
<1>0. /\ UNCHANGED <<day, files, betting, tipping, history>>
      /\ troubles' \in 0..MaxTroubles
      /\ \/ pc \in {"act", "done"} /\ pc' \in {"done", "idle"} /\ number' \in {number, number + 1}
            /\ number' \in 1..MaxSessions
         \/ UNCHANGED <<pc, number>>
  <2>1. CASE SkipHook BY <2>1, TroubleTypes, Typed DEF SkipHook
  <2>2. CASE EndSession BY <2>2, Typed, SpendingAssumption DEF EndSession, TypeOK
  <2>3. CASE UNCHANGED vars BY <2>3 DEF vars, TypeOK
  <2> QED BY <2>1, <2>2, <2>3
<1>1. TypeOK' BY <1>0 DEF TypeOK, PCs, files, betting, tipping
<1>2. SpentToday(memory)' = SpentToday(memory) BY <1>0 DEF SpentToday, betting
<1>3. Money' BY <1>0, <1>2, QuietKeeps DEF Money, HookOpen, betting
<1>4. Capped' BY <1>0, <1>2, QuietKeeps DEF Capped, betting, tipping
<1>5. Known' BY <1>0, QuietKeeps DEF Known, HookOpen, tipping, files
<1>6. Warm'
  <2>1. tipFile.last \in Nat /\ number \in Nat BY Typed, SpendingAssumption DEF Tips
  <2>2. tipFile'.last <= number' BY <1>0, <2>1 DEF Warm, files
  <2> QED BY <1>0, <2>2, QuietKeeps DEF Warm, HookOpen, tipping, files
<1> QED BY <1>1, <1>3, <1>4, <1>5, <1>6

LEMMA MidnightKeeps == ASSUME IInv, Midnight PROVE IInv'
<1> USE DEF IInv
<1> DEFINE to == [r \in Recipients |-> 0]
<1>0. /\ day < MaxDays /\ day' = day + 1
      /\ history' = [history EXCEPT !.landed = 0, !.due = 0, !.lost = 0, !.tipsTo = to]
      /\ UNCHANGED <<number, files, pc, betting, tipping, troubles>>
  BY DEF Midnight
<1>1. to \in [Recipients -> Nat] OBVIOUS
<1> HIDE DEF to
<1>2. history' \in Histories BY <1>0, <1>1, Typed DEF Histories
<1>3. /\ history'.landed = 0 /\ history'.due = 0 /\ history'.lost = 0
      /\ history'.tips = history.tips /\ history'.pending = history.pending
      /\ history'.forgotten = history.forgotten /\ history'.warmed = history.warmed
  BY <1>0, <1>1, Typed DEF Histories
<1>4. day \in Nat /\ ledger.day \in Nat /\ memory.day \in Nat
  BY Typed, SpendingAssumption DEF Ledgers, Memories
<1>5. SpentToday(ledger)' = 0 /\ SpentToday(memory)' = 0
  BY <1>0, <1>4 DEF SpentToday, Money, files, betting
<1>6. TypeOK' BY <1>0, <1>2, SpendingAssumption DEF TypeOK, Histories, files, betting, tipping
<1>7. Money' BY <1>0, <1>3, <1>4, <1>5 DEF Money, HookOpen, files, betting
<1>8. Capped'
  <2>1. planned \in Nat /\ (pc = "tip" => TipAmount[post] \in Nat) /\ DailyCap \in Nat
    BY SpendingAssumption DEF TypeOK
  <2> QED BY <1>0, <1>3, <1>5, <2>1 DEF Capped, betting, tipping
<1>9. Known' BY <1>0, <1>3 DEF Known, HookOpen, TippedOnce, files, tipping
<1>10. Warm' BY <1>0, <1>3 DEF Warm, HookOpen, WarmUpFirst, files, tipping
<1> QED BY <1>6, <1>7, <1>8, <1>9, <1>10

----------------------------------------------------------------------------
LEMMA InitHolds == Init => IInv
<1> SUFFICES ASSUME Init PROVE IInv OBVIOUS
<1> USE DEF Init, Nothing, FreshTips
<1>1. TypeOK
  <2>1. 1 \in 1..MaxDays /\ 1 \in 1..MaxSessions /\ 0 \in 0..MaxDays /\ 0 \in 0..MaxTroubles
    BY SpendingAssumption
  <2>2. FreshTips \in Tips BY <2>1 DEF Tips
  <2>3. /\ ledger \in [day : 1..MaxDays, spent : Nat]
        /\ memory \in [day : 1..MaxDays, spent : Nat, session : Nat]
    BY <2>1
  <2>4. history \in [landed : Nat, due : Nat, lost : Nat, tipsTo : [Recipients -> Nat],
                     tips : [Posts -> Nat], pending : SUBSET Posts, forgotten : SUBSET Posts,
                     warmed : SUBSET (1..MaxSessions)]
    OBVIOUS
  <2>5. pc \in PCs /\ pc # "bet" /\ pc # "tip" BY DEF PCs
  <2> HIDE DEF FreshTips, Nothing
  <2> QED BY <2>1, <2>2, <2>3, <2>4, <2>5 DEF TypeOK
<1>2. Money BY SpendingAssumption DEF Money, SpentToday, HookOpen
<1>3. Capped BY SpendingAssumption DEF Capped, SpentToday
<1>4. Known BY DEF Known, HookOpen, TippedOnce
<1>5. Warm BY FS_EmptySet DEF Warm, HookOpen, WarmUpFirst
<1> QED BY <1>1, <1>2, <1>3, <1>4, <1>5 DEF IInv

LEMMA StepKeeps == IInv /\ [Next]_vars => IInv'
<1> SUFFICES ASSUME IInv, [Next]_vars PROVE IInv' OBVIOUS
<1>0. TypeOK BY DEF IInv
<1>1. CASE StartSession BY <1>1, StartKeeps
<1>2. CASE Bet BY <1>2, PlaceKeeps, BetReturnKeeps, BetFailKeeps DEF Bet
<1>3. CASE Hook
  <2>1. CASE TipFails
    <3>1. troubles' \in 0..MaxTroubles BY <1>0, <2>1, TroubleTypes DEF TipFails
    <3>2. planned' = 0 BY <2>1 DEF IInv, TypeOK, TipFails, betting
    <3> QED BY <2>1, <3>1, <3>2, ForgettingKeeps DEF TipFails, betting
  <2> QED BY <1>3, <2>1, OpenKeeps, TipKeeps, TipReturnKeeps, SaveSpendsKeeps, SaveTipsKeeps, RestKeeps
      DEF Hook
<1>4. CASE Crash
  <2>1. troubles' \in 0..MaxTroubles BY <1>0, <1>4, TroubleTypes DEF Crash
  <2> QED BY <1>4, <2>1, ForgettingKeeps DEF Crash
<1>5. CASE EndSession \/ UNCHANGED vars BY <1>5, RestKeeps
<1>6. CASE Midnight BY <1>6, MidnightKeeps
<1> QED BY <1>1, <1>2, <1>3, <1>4, <1>5, <1>6 DEF Next

----------------------------------------------------------------------------
\* Tips per recipient and day.

\* The candidates by author r the hook has yet to decide, the one it tips included.
Coming(r) == {p \in queue \cup {post} : p # NoPost /\ Author[p] = r}
Forgot(r) == \E p \in history.forgotten : Author[p] = r
Unsaved(r) == \E p \in history.pending : Author[p] = r
InHook == HookOpen \/ pc = "save"

\* The file counts the tips of the day unless some are unsaved or forgotten, the
\* running hook those that are not forgotten; and what it may still add to them
\* stays below the bound: its candidates passed the filter when it was opened.
BoundedFor(r) ==
    /\ Forgot(r) \/ Unsaved(r) \/ history.tipsTo[r] <= Count(tipFile, r)
    /\ InHook => Forgot(r) \/ history.tipsTo[r] <= Count(tipState, r)
    /\ Coming(r) # {} => Cardinality(Coming(r)) <= MaxTips /\ 0 < MaxPerRecipient
    /\ Coming(r) # {} =>
          Forgot(r) \/ history.tipsTo[r] + Cardinality(Coming(r)) < MaxPerRecipient + MaxTips
    /\ Forgot(r) \/ history.tipsTo[r] <= MaxPerRecipient + MaxTips - 1

TipsBounded == \A r \in Recipients : BoundedFor(r)

LEMMA ComingTypes ==
    ASSUME TypeOK, NEW r \in Recipients
    PROVE  /\ Coming(r) \in SUBSET Posts /\ IsFiniteSet(Coming(r)) /\ Cardinality(Coming(r)) \in Nat
           /\ Coming(r) # {} => Cardinality(Coming(r)) > 0
           /\ history.tipsTo[r] \in Nat /\ Count(tipFile, r) \in Nat /\ Count(tipState, r) \in Nat
           /\ MaxTips \in Nat \ {0} /\ MaxPerRecipient \in Nat
<1>1. Coming(r) \in SUBSET Posts BY DEF Coming, TypeOK
<1>2. IsFiniteSet(Coming(r)) BY <1>1, FS_Subset, SpendingAssumption
<1>3. Cardinality(Coming(r)) \in Nat /\ (Coming(r) # {} => Cardinality(Coming(r)) # 0)
  BY <1>2, FS_CardinalityType, FS_EmptySet
<1>4. history.tipsTo[r] \in Nat BY Typed DEF Histories
<1>5. Count(tipFile, r) \in Nat /\ Count(tipState, r) \in Nat BY Typed DEF Count, Tips
<1> QED BY <1>1, <1>2, <1>3, <1>4, <1>5, SpendingAssumption

LEMMA FewerComing ==
    ASSUME TypeOK, NEW r \in Recipients, NEW S \in SUBSET Coming(r)
    PROVE  Cardinality(S) \in Nat /\ Cardinality(S) <= Cardinality(Coming(r))
BY ComingTypes, FS_Subset, FS_CardinalityType

\* Steps that tip nobody and open no hook.
LEMMA QuietBounded ==
    ASSUME TypeOK, TipsBounded, UNCHANGED <<day, tipFile>>,
           history'.tipsTo = history.tipsTo, history'.pending = history.pending,
           history'.forgotten = history.forgotten,
           InHook' => InHook /\ tipState' = tipState,
           \A p \in queue' \cup {post'} : p \in queue \cup {post, NoPost}
    PROVE  TipsBounded'
<1> SUFFICES ASSUME NEW r \in Recipients PROVE BoundedFor(r)' BY DEF TipsBounded
<1>1. BoundedFor(r) BY DEF TipsBounded
<1>2. Forgot(r)' = Forgot(r) /\ Unsaved(r)' = Unsaved(r) BY DEF Forgot, Unsaved
<1>3. Count(tipFile, r)' = Count(tipFile, r) BY DEF Count
<1>4. InHook' => Count(tipState, r)' = Count(tipState, r) BY DEF Count
<1>5. Coming(r)' \in SUBSET Coming(r) BY DEF Coming
<1>6. Cardinality(Coming(r)') \in Nat /\ Cardinality(Coming(r)') <= Cardinality(Coming(r))
  BY <1>5, FewerComing
<1> QED BY <1>1, <1>2, <1>3, <1>4, <1>5, <1>6, ComingTypes DEF BoundedFor

LEMMA OpenBounded == ASSUME IInv, TipsBounded, OpenHook PROVE TipsBounded'
<1> SUFFICES ASSUME NEW r \in Recipients PROVE BoundedFor(r)' BY DEF TipsBounded
<1>0. TypeOK BY DEF IInv
<1>1. PICK Q \in SUBSET Eligible(tipFile) : Cardinality(Q) <= MaxTips /\ queue' = Q BY DEF OpenHook
<1>2. /\ pc = "act" /\ pc' = "hook" /\ tipState' = Warmed(tipFile)
      /\ UNCHANGED <<day, tipFile, post, history>>
  BY DEF OpenHook, files
<1>3. BoundedFor(r) /\ ~Unsaved(r) /\ post = NoPost
  BY <1>0, <1>2 DEF TipsBounded, Unsaved, IInv, Known, HookOpen, TypeOK
<1>4. Forgot(r)' = Forgot(r) /\ Unsaved(r)' = Unsaved(r) BY <1>2 DEF Forgot, Unsaved
<1>5. Count(tipFile, r)' = Count(tipFile, r) /\ Count(tipState, r)' = Count(tipFile, r)
  <2>1. tipFile \in Tips BY <1>0, Typed
  <2>2. Warmed(tipFile).on = tipFile.on /\ Warmed(tipFile).count = tipFile.count
    BY <2>1 DEF Warmed, Tips
  <2> QED BY <1>2, <2>2 DEF Count
<1>6. Coming(r)' \in SUBSET Q BY <1>1, <1>2, <1>3 DEF Coming
<1>7. Cardinality(Coming(r)') \in Nat /\ Cardinality(Coming(r)') <= MaxTips
  <2>1. IsFiniteSet(Q) BY <1>1, FS_Subset, SpendingAssumption DEF Eligible
  <2>2. IsFiniteSet(Coming(r)') /\ Cardinality(Coming(r)') <= Cardinality(Q) BY <1>6, <2>1, FS_Subset
  <2>3. Cardinality(Q) \in Nat /\ Cardinality(Coming(r)') \in Nat BY <2>1, <2>2, FS_CardinalityType
  <2> QED BY <1>0, <1>1, <2>2, <2>3, ComingTypes
<1>8. Coming(r)' # {} => Count(tipFile, r) < MaxPerRecipient
  BY <1>1, <1>2, <1>3, <1>6 DEF Coming, Eligible
<1> QED BY <1>0, <1>2, <1>3, <1>4, <1>5, <1>7, <1>8, ComingTypes DEF BoundedFor

LEMMA WithTipCount ==
    ASSUME TypeOK, NEW p \in Posts, NEW r \in Recipients
    PROVE  Count(WithTip(tipState, p), r) = Count(tipState, r) + (IF r = Author[p] THEN 1 ELSE 0)
<1> DEFINE a == Author[p]
           n == Count(tipState, a) + 1
<1>1. tipState \in Tips /\ a \in Recipients /\ day \in Nat BY Typed, SpendingAssumption
<1>2. Count(tipState, a) \in Nat /\ Count(tipState, r) \in Nat BY <1>1 DEF Count, Tips
<1>3. /\ WithTip(tipState, p).on = [tipState.on EXCEPT ![a] = day]
      /\ WithTip(tipState, p).count = [tipState.count EXCEPT ![a] = n]
  BY <1>1 DEF WithTip, Tips
<1> HIDE DEF a, n
<1>4. CASE r = a
  <2>1. WithTip(tipState, p).on[r] = day /\ WithTip(tipState, p).count[r] = n
    BY <1>1, <1>3, <1>4 DEF Tips
  <2> QED BY <1>2, <1>4, <2>1 DEF Count, a, n
<1>5. CASE r # a
  <2>1. WithTip(tipState, p).on[r] = tipState.on[r] /\ WithTip(tipState, p).count[r] = tipState.count[r]
    BY <1>1, <1>3, <1>5 DEF Tips
  <2> QED BY <1>2, <1>5, <2>1 DEF Count, a
<1> QED BY <1>4, <1>5

\* A tip that lands: one candidate less, one tip more.
LEMMA TipReturnBounded == ASSUME IInv, TipsBounded, TipReturns PROVE TipsBounded'
<1> SUFFICES ASSUME NEW r \in Recipients PROVE BoundedFor(r)' BY DEF TipsBounded
<1>0. TypeOK BY DEF IInv
<1>1. /\ pc = "tip" /\ pc' = "hook" /\ tipState' = WithTip(tipState, post)
      /\ history' = Landed /\ post' = NoPost /\ UNCHANGED <<day, tipFile, queue>>
  BY DEF TipReturns, files
<1>2. post \in Posts /\ post # NoPost /\ post \notin queue BY <1>0, <1>1 DEF IInv, Known, TypeOK
<1>3. /\ history'.tipsTo = [history.tipsTo EXCEPT ![Author[post]] = @ + 1]
      /\ history'.pending = history.pending \cup {post} /\ history'.forgotten = history.forgotten
  BY <1>0, <1>1, LandedTypes
<1>4. BoundedFor(r) BY DEF TipsBounded
<1>5. Forgot(r)' = Forgot(r) /\ (Unsaved(r) \/ r = Author[post] <=> Unsaved(r)')
  BY <1>3 DEF Forgot, Unsaved
<1>6. /\ Count(tipFile, r)' = Count(tipFile, r)
      /\ Count(tipState, r)' = Count(tipState, r) + (IF r = Author[post] THEN 1 ELSE 0)
  <2>1. Count(tipState, r)' = Count(WithTip(tipState, post), r) BY <1>1 DEF Count
  <2> QED BY <1>0, <1>1, <1>2, <2>1, WithTipCount DEF Count
<1>7. history'.tipsTo[r] = history.tipsTo[r] + (IF r = Author[post] THEN 1 ELSE 0)
  BY <1>0, <1>3, Typed, ComingTypes DEF Histories
<1>8. CASE r = Author[post]
  <2>1. Coming(r)' = Coming(r) \ {post} /\ post \in Coming(r) BY <1>1, <1>2, <1>8 DEF Coming
  <2>2. Cardinality(Coming(r)') = Cardinality(Coming(r)) - 1 BY <1>0, <2>1, ComingTypes, FS_RemoveElement
  <2> QED BY <1>0, <1>1, <1>4, <1>5, <1>6, <1>7, <1>8, <2>1, <2>2, ComingTypes DEF BoundedFor, InHook, HookOpen
<1>9. CASE r # Author[post]
  <2>1. Coming(r)' = Coming(r) BY <1>1, <1>2, <1>9 DEF Coming
  <2> QED BY <1>0, <1>1, <1>4, <1>5, <1>6, <1>7, <1>9, <2>1, ComingTypes DEF BoundedFor, InHook, HookOpen
<1> QED BY <1>8, <1>9

\* A hook that ends before it has saved.
LEMMA ForgettingBounded ==
    ASSUME IInv, TipsBounded, UNCHANGED <<day, tipFile>>,
           \/ history' = Forgetting(history)
           \/ pc = "tip" /\ history' = Forgetting(Landed),
           pc' \in {"idle", "done"}, queue' = {}, post' = NoPost
    PROVE  TipsBounded'
<1> SUFFICES ASSUME NEW r \in Recipients PROVE BoundedFor(r)' BY DEF TipsBounded
<1>0. TypeOK BY DEF IInv
<1>1. BoundedFor(r) /\ ~InHook' /\ Coming(r)' = {} /\ Count(tipFile, r)' = Count(tipFile, r)
  BY DEF TipsBounded, InHook, HookOpen, Coming, Count
<1>2. /\ Forgot(r) \/ Unsaved(r) => Forgot(r)'
      /\ Forgot(r)' \/ history'.tipsTo[r] = history.tipsTo[r]
  <2>1. CASE history' = Forgetting(history)
    <3>1. /\ history'.forgotten = history.forgotten \cup history.pending
          /\ history'.tipsTo = history.tipsTo
      BY <1>0, <2>1, Typed, HistoryTypes
    <3> QED BY <3>1 DEF Forgot, Unsaved
  <2>2. CASE pc = "tip" /\ history' = Forgetting(Landed)
    <3>1. /\ history'.forgotten = history.forgotten \cup (history.pending \cup {post})
          /\ history'.tipsTo = [history.tipsTo EXCEPT ![Author[post]] = @ + 1]
      BY <1>0, <2>2, LandedTypes, HistoryTypes
    <3>2. history.tipsTo \in [Recipients -> Nat] BY <1>0, Typed DEF Histories
    <3> QED BY <3>1, <3>2 DEF Forgot, Unsaved
  <2> QED BY <2>1, <2>2
<1> QED BY <1>1, <1>2 DEF BoundedFor

LEMMA SaveTipsBounded == ASSUME IInv, TipsBounded, SaveTips PROVE TipsBounded'
<1> SUFFICES ASSUME NEW r \in Recipients PROVE BoundedFor(r)' BY DEF TipsBounded
<1>0. TypeOK BY DEF IInv
<1>1. /\ pc = "save" /\ pc' = "done" /\ tipFile' = tipState /\ UNCHANGED <<day, queue, post>>
      /\ history'.tipsTo = history.tipsTo /\ history'.forgotten = history.forgotten
  BY <1>0, Typed DEF SaveTips, tipping, Histories
<1>2. BoundedFor(r) /\ InHook BY <1>1 DEF TipsBounded, InHook
<1>3. Forgot(r)' = Forgot(r) /\ ~InHook' BY <1>1 DEF Forgot, InHook, HookOpen
<1>4. Coming(r)' = Coming(r) /\ Count(tipFile, r)' = Count(tipState, r) BY <1>1 DEF Coming, Count
<1> QED BY <1>1, <1>2, <1>3, <1>4 DEF BoundedFor

LEMMA MidnightBounded == ASSUME IInv, TipsBounded, Midnight PROVE TipsBounded'
<1> SUFFICES ASSUME NEW r \in Recipients PROVE BoundedFor(r)' BY DEF TipsBounded
<1>0. TypeOK BY DEF IInv
<1>1. /\ UNCHANGED <<files, tipping>> /\ history'.tipsTo = [q \in Recipients |-> 0]
  BY <1>0, Typed DEF Midnight, Histories
<1>2. BoundedFor(r) /\ history'.tipsTo[r] = 0 /\ Coming(r)' = Coming(r)
  BY <1>1 DEF TipsBounded, Coming, tipping
<1>3. Count(tipFile, r)' \in Nat /\ Count(tipState, r)' \in Nat
  BY <1>0, <1>1, Typed DEF Count, Tips, files, tipping
<1> QED BY <1>0, <1>2, <1>3, ComingTypes DEF BoundedFor

LEMMA BoundedStep == ASSUME IInv, TipsBounded, [Next]_vars PROVE TipsBounded'
<1>0. TypeOK BY DEF IInv
<1> USE DEF InHook, HookOpen, files, betting, tipping
<1>1. CASE StartSession BY <1>0, <1>1, QuietBounded DEF StartSession
<1>2. CASE PlaceBet BY <1>0, <1>2, QuietBounded DEF PlaceBet
<1>3. CASE BetReturns
  <2>1. /\ history'.tipsTo = history.tipsTo /\ history'.pending = history.pending
        /\ history'.forgotten = history.forgotten
    BY <1>0, <1>3, Typed DEF BetReturns, Histories
  <2> QED BY <1>0, <1>3, <2>1, QuietBounded DEF BetReturns
<1>4. CASE BetFails
  <2>1. /\ history'.tipsTo = history.tipsTo /\ history'.pending = history.pending
        /\ history'.forgotten = history.forgotten
    BY <1>0, <1>4, Typed DEF BetFails, Histories
  <2> QED BY <1>0, <1>4, <2>1, QuietBounded DEF BetFails
<1>5. CASE OpenHook BY <1>5, OpenBounded
<1>6. CASE SkipHook \/ EndSession \/ UNCHANGED vars
  BY <1>0, <1>6, QuietBounded DEF SkipHook, EndSession, vars
<1>7. ASSUME NEW p \in Posts, Tip(p) PROVE TipsBounded'
  BY <1>0, <1>7, QuietBounded DEF Tip
<1>8. CASE TipReturns BY <1>8, TipReturnBounded
<1>9. CASE TipFails BY <1>9, ForgettingBounded DEF TipFails
<1>10. CASE SaveSpends
  <2>1. /\ history'.tipsTo = history.tipsTo /\ history'.pending = history.pending
        /\ history'.forgotten = history.forgotten
    BY <1>0, <1>10, Typed DEF SaveSpends, Histories
  <2> QED BY <1>0, <1>10, <2>1, QuietBounded DEF SaveSpends
<1>11. CASE SaveTips BY <1>11, SaveTipsBounded
<1>12. CASE Crash
  <2>1. CASE history' = Forgetting(history) \/ (pc = "tip" /\ history' = Forgetting(Landed))
    BY <1>12, <2>1, ForgettingBounded DEF Crash
  <2>2. CASE /\ pc = "bet"
             /\ history' = [history EXCEPT !.landed = @ + planned, !.lost = @ + planned]
    <3>1. /\ history'.tipsTo = history.tipsTo /\ history'.pending = history.pending
          /\ history'.forgotten = history.forgotten
      BY <1>0, <2>2, Typed DEF Histories
    <3> QED BY <1>0, <1>12, <3>1, QuietBounded DEF Crash
  <2> QED BY <1>12, <2>1, <2>2 DEF Crash
<1>13. CASE Midnight BY <1>13, MidnightBounded
<1> QED BY <1>1, <1>2, <1>3, <1>4, <1>5, <1>6, <1>7, <1>8, <1>9, <1>10, <1>11, <1>12, <1>13
    DEF Next, Bet, Hook

----------------------------------------------------------------------------
\* The strengthening that the theorems below rest on.
THEOREM Invariance == Spec => []IInv
BY InitHolds, StepKeeps, PTL DEF Spec

\* Types: what the files, the session's memory and the history can hold.
THEOREM TypesAreCorrect == Spec => []TypeOK
<1>1. IInv => TypeOK BY DEF IInv
<1> QED BY <1>1, Invariance, PTL

\* The daily cap of spending-policy.ts: what the transactions of a day come to
\* exceeds it by the lost ones only.
THEOREM DailyCapHolds == Spec => []DayWithinCap
<1>1. IInv => DayWithinCap
  <2> SUFFICES ASSUME IInv PROVE DayWithinCap OBVIOUS
  <2>1. history.landed = SpentToday(ledger) + history.due + history.lost
        /\ SpentToday(ledger) + history.due <= DailyCap
    BY DEF IInv, Money, Capped
  <2> QED BY <2>1, Typed, SpentTypes, SpendingAssumption DEF IInv, DayWithinCap
<1> QED BY <1>1, Invariance, PTL

\* tips.ts: no post is tipped twice unless its first tip was forgotten.
THEOREM NoDoubleTip == Spec => []TippedOnce
<1>1. IInv => TippedOnce BY DEF IInv, Known
<1> QED BY <1>1, Invariance, PTL

\* tips-plugin.ts: tips are live only after the hooks of enough sessions.
THEOREM WarmUpHolds == Spec => []WarmUpFirst
<1>1. IInv => WarmUpFirst BY DEF IInv, Warm
<1> QED BY <1>1, Invariance, PTL

\* tips.ts: a recipient's tips of a day exceed the limit by what one hook can add
\* to a count just below it, unless a tip to them was forgotten.
THEOREM RecipientBound == Spec => []RecipientBounded
<1>1. Init => IInv /\ TipsBounded
  <2> SUFFICES ASSUME Init PROVE TipsBounded BY InitHolds
  <2>1. ASSUME NEW r \in Recipients PROVE BoundedFor(r)
    <3>1. history.tipsTo[r] = 0 /\ Count(tipFile, r) = 0 /\ Coming(r) = {} /\ ~InHook
      BY DEF Init, Nothing, FreshTips, Count, Coming, InHook, HookOpen
    <3> QED BY <3>1, SpendingAssumption DEF BoundedFor
  <2> QED BY <2>1 DEF TipsBounded
<1>2. IInv /\ TipsBounded /\ [Next]_vars => IInv' /\ TipsBounded' BY StepKeeps, BoundedStep
<1>3. TipsBounded => RecipientBounded BY DEF TipsBounded, BoundedFor, Forgot, RecipientBounded
<1> QED BY <1>1, <1>2, <1>3, PTL DEF Spec
=============================================================================
