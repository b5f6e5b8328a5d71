-------------------------- MODULE ColonySyncProofs --------------------------
(***************************************************************************)
(* Theorems about ColonySync for every chain, every page and window size    *)
(* and every set of faults.                                                 *)
(***************************************************************************)
EXTENDS ColonySync, FiniteSetTheorems, WellFoundedInduction, TLAPS

\* What the back-fill of the moment has passed, which is more than its offset
\* says when it starts over.
FillKept == \A t \in Txs : t < fill.start /\ Hive(t) => Kept(t) \/ t \in cut

\* Where the walk stands: it has a top as soon as it has left the start.
WalkStands ==
    /\ session.top <= head
    /\ session.top = 0 => session.walk = MaxTx + 1

\* A run that has inserted no reaction leaves the cache as current as it was.
CacheKept == ~fill.reacted => reacted \ counted \subseteq abandoned

\* A row that is about to be inserted is still absent, unless it was overtaken.
RowFree == session.pc = "insert" => overtaken \/ Stored(Row) = {}

SessionRecord == [pc : SessionPCs, walk : 1..(MaxTx + 1), top : 0..MaxTx, left : SUBSET Txs]

IInv ==
    /\ TypeOK
    /\ FillKept /\ PassedIsKept
    /\ WalkStands /\ WalkLeavesNoGap
    /\ CacheKept /\ CacheCurrent
    /\ RowFree

----------------------------------------------------------------------------
\* A set of naturals that is not empty has a least element: Min is one of it.
LEMMA MinIsLeast ==
    ASSUME NEW S \in SUBSET Nat, S # {}
    PROVE  Min(S) \in S /\ \A t \in S : Min(S) <= t
<1> DEFINE R == OpToRel(<, Nat)
<1>1. IsWellFoundedOn(R, Nat) BY NatLessThanWellFounded
<1> HIDE DEF R
<1>2. PICK x \in S : \A y \in S : ~ (<<y, x>> \in R) BY <1>1, WFMin
<1>3. \A y \in S : ~ (y < x) BY <1>2 DEF OpToRel, R
<1>4. \A y \in S : x <= y BY <1>3
<1>5. \E m \in S : \A y \in S : m =< y BY <1>4
<1> QED BY <1>5, Zenon DEF Min

LEMMA TxsFinite ==
    ASSUME NEW S \in SUBSET Txs PROVE IsFiniteSet(S) /\ Cardinality(S) \in Nat
<1>1. IsFiniteSet(Txs) BY ColonySyncAssumption, FS_Interval DEF Txs
<1> QED BY <1>1, FS_Subset, FS_CardinalityType

\* What the newest of a set leave out is older than every one of them.
LEMMA NewestReach ==
    ASSUME NEW n \in Nat, NEW S \in SUBSET Txs, NEW a \in Newest(n, S), NEW b \in S, a <= b
    PROVE  b \in Newest(n, S)
<1> DEFINE Above(x) == {u \in S : u > x}
<1>0. a \in Int /\ b \in Int /\ S \subseteq Int BY ColonySyncAssumption DEF Txs, Newest
<1>1. \A u \in Above(b) : u \in Above(a) BY <1>0
<1>2. IsFiniteSet(Above(a)) /\ Cardinality(Above(a)) \in Nat /\ Cardinality(Above(b)) \in Nat
  BY TxsFinite
<1>3. Cardinality(Above(b)) <= Cardinality(Above(a)) BY <1>1, <1>2, FS_Subset, Zenon
<1> QED BY <1>2, <1>3 DEF Newest

\* A page of the back-fill has no holes: the offset moves by its length to
\* the first transaction after it.
LEMMA BatchIsRun ==
    ASSUME TypeOK
    PROVE  /\ Passed \in fill.start..(MaxTx + 1)
           /\ \A t \in Txs : t < Passed => t < fill.start \/ t \in Batch
<1> DEFINE last == IF head < fill.start + FillPage - 1 THEN head ELSE fill.start + FillPage - 1
<1>1. head \in 0..MaxTx /\ fill.start \in 1..(MaxTx + 1) BY DEF TypeOK
<1>2. last \in Int /\ last <= MaxTx BY <1>1, ColonySyncAssumption
<1>3. Batch = fill.start..last BY <1>1, <1>2, ColonySyncAssumption DEF Batch
<1>4. Cardinality(Batch) = IF fill.start > last THEN 0 ELSE last - fill.start + 1
  BY <1>1, <1>2, <1>3, FS_Interval
<1>5. Passed = IF fill.start > last THEN fill.start ELSE last + 1
  BY <1>1, <1>2, <1>4 DEF Passed
<1>6. \A t \in Txs : t \in Int BY ColonySyncAssumption DEF Txs
<1> HIDE DEF last
<1> QED BY <1>1, <1>2, <1>3, <1>5, <1>6, ColonySyncAssumption

LEMMA HandledTypes ==
    ASSUME TypeOK PROVE Handled \subseteq Batch /\ Batch \subseteq Txs
BY ColonySyncAssumption DEF Handled, Batch, Txs, TypeOK

LEMMA PageTypes ==
    ASSUME TypeOK
    PROVE  Page \subseteq Txs /\ Page \subseteq Nat /\ Feed \subseteq Txs /\ New(Page) \subseteq Page
BY ColonySyncAssumption DEF Page, Newest, Feed, Txs, New, TypeOK

LEMMA WithTypes ==
    ASSUME TypeOK, NEW S, NEW how \in {"bare", "full"}
    PROVE  /\ With(S, how) \in [Txs -> {"absent", "bare", "full"}]
           /\ \A t \in Txs : store[t] # "absent" => With(S, how)[t] # "absent"
           /\ \A t \in Txs \cap S : With(S, how)[t] = how
           /\ \A t \in Txs \ S : With(S, how)[t] = store[t]
BY DEF TypeOK, With

----------------------------------------------------------------------------
(* The steps of a session. *)

LEMMA SyncKeeps ==
    ASSUME IInv, Sync
    PROVE  IInv'
<1> USE DEF IInv
<1>0. /\ session.pc = "sync" /\ session.left = {}
      /\ UNCHANGED <<head, reacted, counted, dead, offset, cut, abandoned, overtaken, fill, troubles>>
  BY DEF Sync, filled, TypeOK
<1>1. session \in SessionRecord BY DEF TypeOK, SessionRecord
<1>2. CASE Page = {}
  <2>1. /\ session' = [session EXCEPT !.pc = "chain"] /\ store' = store
        /\ session' \in SessionRecord /\ session'.pc = "chain" /\ session'.left = {}
        /\ session'.walk = session.walk /\ session'.top = session.top
    BY <1>0, <1>1, <1>2 DEF Sync, SessionRecord, SessionPCs
  <2>3. TypeOK' BY <1>0, <2>1 DEF TypeOK, SessionRecord
  <2>4. FillKept' /\ PassedIsKept' BY <1>0, <2>1 DEF FillKept, PassedIsKept, Kept
  <2>5. WalkStands' /\ WalkLeavesNoGap' BY <1>0, <2>1 DEF WalkStands, WalkLeavesNoGap, Feed
  <2>6. CacheKept' /\ CacheCurrent' /\ RowFree' BY <1>0, <2>1 DEF CacheKept, CacheCurrent, RowFree
  <2> QED BY <2>3, <2>4, <2>5, <2>6
<1>3. CASE Page # {}
  <2> DEFINE walked == Orphans(Page) = {} /\ session'.walk = Min(Page)
  <2>1. /\ session'.pc \in {"sync", "chain"} /\ session'.top = Top
        /\ session'.walk = session.walk \/ walked
        /\ session' \in [pc : {"sync", "chain"}, walk : {session.walk, Min(Page)},
                         top : {Top}, left : {{}}]
    <3>1. CASE Orphans(Page) # {} BY <1>0, <1>1, <1>3, <3>1 DEF Sync, SessionRecord
    <3>2. CASE Orphans(Page) = {} /\ LastPage BY <1>0, <1>1, <1>3, <3>2 DEF Sync, SessionRecord
    <3>3. CASE Orphans(Page) = {} /\ ~LastPage BY <1>0, <1>1, <1>3, <3>3 DEF Sync, SessionRecord
    <3> QED BY <3>1, <3>2, <3>3
  <2>2. store' = With(New(Page), "full") BY <1>3 DEF Sync
  <2>3. Min(Page) \in Page /\ (\A t \in Page : Min(Page) <= t) BY <1>3, PageTypes, MinIsLeast
  <2>4. Min(Page) \in Feed /\ Min(Page) < session.walk /\ Min(Page) \in 1..MaxTx
    BY <2>3, PageTypes DEF Page, Newest, Txs
  <2>5. head \in 1..MaxTx /\ Top \in 0..MaxTx /\ Top <= head /\ Top # 0 /\ session.walk \in 1..(MaxTx + 1)
        /\ (session.top # 0 => Top = session.top)
    BY <1>1, <2>4, ColonySyncAssumption DEF Top, TypeOK, WalkStands, Feed, SessionRecord
  <2>6. TypeOK'
    <3>1. store' \in [Txs -> {"absent", "bare", "full"}] BY <2>2, WithTypes
    <3>2. session' \in SessionRecord /\ session'.left = {} /\ session'.pc \notin {"look", "insert"}
      <4>1. Min(Page) \in 1..(MaxTx + 1) BY <2>4, ColonySyncAssumption
      <4> QED BY <2>1, <2>5, <4>1 DEF SessionRecord, SessionPCs
    <3> QED BY <1>0, <3>1, <3>2 DEF TypeOK, SessionRecord
  <2>7. \A t \in Txs : store[t] # "absent" => store'[t] # "absent" BY <2>2, WithTypes
  <2>8. FillKept' /\ PassedIsKept' BY <1>0, <2>7 DEF FillKept, PassedIsKept, Kept
  <2>9. WalkStands' BY <1>0, <2>1, <2>5 DEF WalkStands
  <2>10. WalkLeavesNoGap'
    <3> SUFFICES ASSUME NEW t \in Feed, session'.walk <= t, t <= session'.top
                 PROVE  store'[t] # "absent"
      BY <1>0 DEF WalkLeavesNoGap, Feed
    <3>1. t \in Txs /\ t \in 1..MaxTx BY PageTypes DEF Txs
    <3>2. CASE session.walk <= t
      <4>1. session.top # 0 BY <2>5, <3>1, <3>2, ColonySyncAssumption DEF WalkStands
      <4>2. t <= session.top BY <2>1, <2>5, <4>1
      <4> QED BY <2>7, <3>1, <3>2, <4>2 DEF WalkLeavesNoGap
    <3>3. CASE t < session.walk
      <4>1. walked BY <2>1, <2>5, <3>1, <3>3
      <4>2. t \in Page
        <5> DEFINE ahead == {u \in Feed : u < session.walk}
        <5>1. ahead \in SUBSET Txs /\ t \in ahead /\ Min(Page) \in Newest(SyncPage, ahead)
              /\ Min(Page) <= t
          BY <2>3, <3>3, <4>1, PageTypes DEF Page
        <5>2. t \in Newest(SyncPage, ahead) BY <5>1, NewestReach, ColonySyncAssumption
        <5> QED BY <5>2 DEF Page
      <4>3. t \in New(Page) \/ store[t] # "absent" BY <4>1, <4>2 DEF New, Stored
      <4> QED BY <2>2, <2>7, <3>1, <4>3, WithTypes
    <3> QED BY <2>5, <3>1, <3>2, <3>3
  <2>11. CacheKept' /\ CacheCurrent' /\ RowFree' BY <1>0, <2>1 DEF CacheKept, CacheCurrent, RowFree
  <2> QED BY <2>6, <2>8, <2>9, <2>10, <2>11
<1> QED BY <1>2, <1>3

\* The other steps store posts, move the session's program counter within its
\* walk's end and the answer of the feed, or start it anew.
SessionMoves ==
    /\ session' \in SessionRecord
    /\ session'.left # {} <=> session'.pc \in {"look", "insert"}
    /\ \/ session'.walk = session.walk /\ session'.top = session.top
       \/ session'.walk = MaxTx + 1 /\ session'.top = 0

LEMMA IdleSessionType ==
    /\ IdleSession \in SessionRecord /\ IdleSession.pc = "idle" /\ IdleSession.left = {}
    /\ IdleSession.walk = MaxTx + 1 /\ IdleSession.top = 0
BY ColonySyncAssumption DEF IdleSession, SessionRecord, SessionPCs

LEMMA PcMoves ==
    ASSUME TypeOK, session.left = {}, NEW next \in {"sync", "chain", "feed"},
           session' = [session EXCEPT !.pc = next]
    PROVE  SessionMoves /\ session'.pc # "insert"
BY DEF TypeOK, SessionRecord, SessionPCs, SessionMoves

\* The next post of the answer, or the end of the session.
LEMMA GoOnMoves ==
    ASSUME TypeOK, NEW posts \in SUBSET Txs, GoOnWith(posts)
    PROVE  SessionMoves /\ session'.pc # "insert"
<1>1. CASE posts = {} BY <1>1, IdleSessionType DEF GoOnWith, SessionMoves
<1>2. CASE posts # {}
  <2>1. session' = [session EXCEPT !.pc = "look", !.left = posts] BY <1>2 DEF GoOnWith
  <2> QED BY <1>2, <2>1 DEF TypeOK, SessionRecord, SessionPCs, SessionMoves
<1> QED BY <1>1, <1>2

LEMMA AnswerTypes ==
    ASSUME TypeOK
    PROVE  Newest(FeedWindow, Feed) \in SUBSET Txs /\ session.left \ Row \in SUBSET Txs
           /\ Row \in SUBSET Txs
BY PageTypes DEF TypeOK, Newest, Row

LEMMA SessionKeeps ==
    ASSUME IInv,
           UNCHANGED <<head, reacted, counted, dead, offset, cut, abandoned, fill>>,
           troubles' = troubles \/ (troubles < MaxTroubles /\ troubles' = troubles + 1),
           overtaken' \in BOOLEAN,
           store' \in [Txs -> {"absent", "bare", "full"}],
           \A t \in Txs : store[t] # "absent" => store'[t] # "absent",
           SessionMoves, RowFree'
    PROVE  IInv'
<1> USE DEF IInv
<1>1. troubles' \in 0..MaxTroubles BY ColonySyncAssumption DEF TypeOK
<1>2. TypeOK' BY <1>1 DEF TypeOK, SessionMoves, SessionRecord
<1>3. FillKept' /\ PassedIsKept' BY DEF FillKept, PassedIsKept, Kept
<1>4. WalkStands' BY ColonySyncAssumption DEF WalkStands, TypeOK, SessionMoves
<1>5. WalkLeavesNoGap'
  <2>1. \A t \in Feed : t \in Txs /\ t \in 1..MaxTx BY PageTypes DEF Txs
  <2> QED BY <2>1, ColonySyncAssumption DEF WalkLeavesNoGap, Feed, SessionMoves
<1>6. CacheKept' /\ CacheCurrent' BY DEF CacheKept, CacheCurrent
<1> QED BY <1>2, <1>3, <1>4, <1>5, <1>6

LEMMA SessionStepKeeps ==
    ASSUME IInv, StartSession \/ SessionStep \/ SessionFault
    PROVE  IInv'
<1>0. /\ TypeOK /\ store \in [Txs -> {"absent", "bare", "full"}] /\ overtaken \in BOOLEAN
      /\ session \in SessionRecord /\ RowFree
      /\ session.left # {} <=> session.pc \in {"look", "insert"}
  BY DEF IInv, TypeOK, SessionRecord
<1> USE DEF filled, tables
<1>1. CASE StartSession
  <2>1. session' = [pc |-> "sync", walk |-> MaxTx + 1, top |-> 0, left |-> {}]
    BY <1>1 DEF StartSession, IdleSession
  <2>2. SessionMoves /\ RowFree'
    BY <2>1, ColonySyncAssumption DEF SessionMoves, SessionRecord, SessionPCs, RowFree
  <2> QED BY <1>0, <1>1, <2>2, SessionKeeps DEF StartSession
<1>2. CASE Sync BY <1>2, SyncKeeps
<1>3. CASE IngestChain
  <2>1. SessionMoves /\ RowFree' BY <1>0, <1>3, PcMoves DEF IngestChain, RowFree
  <2> QED BY <1>0, <1>3, <2>1, WithTypes, SessionKeeps DEF IngestChain
<1>4. CASE FetchFeed
  <2>1. SessionMoves /\ RowFree' BY <1>0, <1>4, AnswerTypes, GoOnMoves DEF FetchFeed, RowFree
  <2> QED BY <1>0, <1>4, <2>1, SessionKeeps DEF FetchFeed
<1>5. CASE LookUp
  <2>1. SessionMoves /\ RowFree'
    <3>1. CASE Stored(Row) = {}
      <4>1. session' = [session EXCEPT !.pc = "insert"] /\ session.pc = "look" /\ store' = store
        BY <1>5, <3>1 DEF LookUp
      <4>2. SessionMoves /\ session'.left = session.left
        BY <1>0, <4>1 DEF SessionMoves, SessionRecord, SessionPCs
      <4>3. Stored(Row)' = Stored(Row) BY <4>1, <4>2 DEF Stored, Row
      <4> QED BY <3>1, <4>2, <4>3 DEF RowFree
    <3>2. CASE Stored(Row) # {} BY <1>0, <1>5, <3>2, AnswerTypes, GoOnMoves DEF LookUp, RowFree
    <3> QED BY <3>1, <3>2
  <2> QED BY <1>0, <1>5, <2>1, SessionKeeps DEF LookUp
<1>6. CASE InsertRow
  <2>1. SessionMoves /\ RowFree' BY <1>0, <1>6, AnswerTypes, GoOnMoves DEF InsertRow, RowFree
  <2> QED BY <1>0, <1>6, <2>1, WithTypes, SessionKeeps DEF InsertRow
<1>7. CASE SyncFails \/ ChainFails
  <2>1. SessionMoves /\ RowFree' BY <1>0, <1>7, PcMoves DEF SyncFails, ChainFails, RowFree
  <2> QED BY <1>0, <1>7, <2>1, SessionKeeps DEF SyncFails, ChainFails, Trouble
<1>8. CASE FeedFails
  <2>1. SessionMoves /\ RowFree' BY <1>8, IdleSessionType DEF FeedFails, SessionMoves, RowFree
  <2> QED BY <1>0, <1>8, <2>1, SessionKeeps DEF FeedFails, Trouble
<1>9. CASE CrashSession
  <2>1. SessionMoves /\ RowFree' BY <1>9, IdleSessionType DEF CrashSession, SessionMoves, RowFree
  <2>2. PICK from \in 1..(MaxTx + 1) :
          store' = IF session.pc = "sync" THEN With({t \in New(Page) : t >= from}, "full") ELSE store
    BY <1>9 DEF CrashSession
  <2>3. /\ store' \in [Txs -> {"absent", "bare", "full"}]
        /\ \A t \in Txs : store[t] # "absent" => store'[t] # "absent"
    <3>1. CASE session.pc = "sync" BY <1>0, <2>2, <3>1, WithTypes
    <3>2. CASE session.pc # "sync" BY <1>0, <2>2, <3>2
    <3> QED BY <3>1, <3>2
  <2> QED BY <1>0, <1>9, <2>1, <2>3, SessionKeeps DEF CrashSession, Trouble
<1> QED BY <1>1, <1>2, <1>3, <1>4, <1>5, <1>6, <1>7, <1>8, <1>9 DEF SessionStep, SessionFault

----------------------------------------------------------------------------
(* The steps of a back-fill. *)

LEMMA InsertKeeps ==
    ASSUME TypeOK, NEW S \in SUBSET Txs, Insert(S)
    PROVE  /\ store' \in [Txs -> {"absent", "bare", "full"}]
           /\ reacted' \subseteq Txs /\ reacted \subseteq reacted' /\ dead' \subseteq Txs
           /\ \A t \in Txs : store[t] # "absent" => store'[t] # "absent"
           /\ \A t \in Txs : Kept(t) => Kept(t)'
           /\ \A t \in S : Hive(t) => Kept(t)'
           /\ NewReactions(S) = {} => reacted' = reacted
           /\ overtaken' \in BOOLEAN
           /\ session' = session /\ RowFree => RowFree'
<1>1. /\ store' = With({t \in S : IsPost(t)}, "full")
      /\ reacted' = reacted \cup NewReactions(S)
      /\ dead' = dead \cup {t \in S : Kind[t] = "malformed"}
  BY DEF Insert
<1>2. store' \in [Txs -> {"absent", "bare", "full"}] BY <1>1, WithTypes
<1>3. \A t \in Txs : store[t] # "absent" => store'[t] # "absent" BY <1>1, WithTypes
<1>4. reacted' \subseteq Txs /\ reacted \subseteq reacted' /\ dead \subseteq dead' /\ dead' \subseteq Txs
  BY <1>1 DEF TypeOK, NewReactions
<1>5. \A t \in Txs : Kept(t) => Kept(t)' BY <1>3, <1>4 DEF Kept
<1>6. ASSUME NEW t \in S, Hive(t) PROVE Kept(t)'
  <2>1. Kind[t] \in {"post", "reaction", "malformed"}
    BY <1>6, ColonySyncAssumption DEF Hive, Kinds
  <2>2. CASE Kind[t] = "post" BY <1>1, <2>2, WithTypes DEF Kept, IsPost
  <2>3. CASE Kind[t] = "reaction" BY <1>1, <2>3 DEF Kept, NewReactions
  <2>4. CASE Kind[t] = "malformed" BY <1>1, <2>4 DEF Kept
  <2> QED BY <2>1, <2>2, <2>3, <2>4
<1>7. NewReactions(S) = {} => reacted' = reacted BY <1>1
<1>8. overtaken' = (overtaken \/ Overtakes(S)) BY DEF Insert
<1>9. ASSUME session' = session, RowFree PROVE RowFree'
  <2> SUFFICES ASSUME session.pc = "insert", ~overtaken' PROVE Stored(Row)' = {}
    BY <1>9 DEF RowFree
  <2>1. Stored(Row) = {} /\ S \cap Row = {} BY <1>8, <1>9 DEF RowFree, Overtakes
  <2>2. Row \in SUBSET Txs BY DEF TypeOK, Row, Newest
  <2>3. \A t \in Row : store'[t] = store[t] BY <1>1, <2>1, <2>2, WithTypes
  <2>4. Row' = Row BY <1>9 DEF Row, Newest
  <2> QED BY <2>1, <2>3, <2>4 DEF Stored
<1>10. overtaken' \in BOOLEAN
  <2>1. overtaken \in BOOLEAN BY DEF TypeOK
  <2>2. Overtakes(S) \in BOOLEAN BY DEF Overtakes
  <2> QED BY <1>8, <2>1, <2>2
<1> QED BY <1>2, <1>3, <1>4, <1>5, <1>6, <1>7, <1>9, <1>10

FillRecord == [pc : {"idle", "fill"}, start : 1..(MaxTx + 1), rows : Nat, reacted : BOOLEAN]

LEMMA IdleFillType == IdleFill \in FillRecord /\ IdleFill.start = 1 /\ ~IdleFill.reacted /\ IdleFill.pc = "idle"
BY ColonySyncAssumption DEF IdleFill, FillRecord

LEMMA FillPageKeeps ==
    ASSUME IInv, Fill
    PROVE  IInv'
<1> USE DEF IInv
<1> DEFINE rows == fill.rows + Cardinality(Rows(Handled))
           any == fill.reacted \/ NewReactions(Handled) # {}
<1>1. Handled \in SUBSET Txs /\ Handled \subseteq Batch /\ Batch \subseteq Txs BY HandledTypes
<1>2. /\ Insert(Handled) /\ offset' = Passed
      /\ cut' = cut \cup ({t \in Batch : Hive(t)} \ Handled)
      /\ UNCHANGED <<head, session, troubles>>
  BY DEF Fill
<1>3. /\ fill.pc = "fill"
      /\ \/ /\ fill' = IdleFill /\ counted' = IF any THEN reacted' ELSE counted
            /\ abandoned' = IF any THEN {} ELSE abandoned
         \/ /\ fill' = [fill EXCEPT !.start = offset', !.rows = rows, !.reacted = any]
            /\ counted' = counted /\ abandoned' = abandoned
  BY DEF Fill, Recount
<1>4. fill \in FillRecord /\ any \in BOOLEAN BY DEF TypeOK, FillRecord
<1>5. rows \in Nat
  <2>1. Rows(Handled) \in SUBSET Txs BY <1>1 DEF Rows
  <2> QED BY <1>4, <2>1, TxsFinite DEF FillRecord
<1>6. Passed \in 1..(MaxTx + 1) /\ \A t \in Txs : t < Passed => t < fill.start \/ t \in Batch
  BY <1>4, BatchIsRun, ColonySyncAssumption DEF FillRecord
<1>7. fill' \in FillRecord /\ fill'.start \in {1, offset'}
  BY <1>2, <1>3, <1>4, <1>5, <1>6, IdleFillType DEF FillRecord
<1>8. /\ store' \in [Txs -> {"absent", "bare", "full"}]
      /\ reacted' \subseteq Txs /\ reacted \subseteq reacted' /\ dead' \subseteq Txs
      /\ \A t \in Txs : store[t] # "absent" => store'[t] # "absent"
      /\ \A t \in Txs : Kept(t) => Kept(t)'
      /\ \A t \in Handled : Hive(t) => Kept(t)'
      /\ NewReactions(Handled) = {} => reacted' = reacted
      /\ overtaken' \in BOOLEAN /\ RowFree'
  BY <1>1, <1>2, InsertKeeps
<1> HIDE DEF rows
<1>9. TypeOK'
  <2>1. counted' \subseteq reacted' BY <1>3, <1>8 DEF TypeOK
  <2>2. cut' \subseteq Txs BY <1>1, <1>2 DEF TypeOK
  <2>3. abandoned' \subseteq Txs BY <1>3 DEF TypeOK
  <2> QED BY <1>2, <1>6, <1>7, <1>8, <2>1, <2>2, <2>3 DEF TypeOK, FillRecord
<1>10. PassedIsKept'
  <2> SUFFICES ASSUME NEW t \in Txs, t < offset', Hive(t)
               PROVE  Kept(t)' \/ t \in cut'
    BY DEF PassedIsKept, Hive
  <2>1. CASE t < fill.start BY <1>2, <1>8, <2>1 DEF FillKept
  <2>2. CASE t \in Batch BY <1>2, <1>8, <2>2
  <2> QED BY <1>2, <1>6, <2>1, <2>2
<1>11. FillKept'
  <2>1. CASE fill'.start = offset' BY <1>10, <2>1 DEF FillKept, PassedIsKept
  <2>2. CASE fill'.start = 1 BY <2>2, ColonySyncAssumption DEF FillKept, Txs
  <2> QED BY <1>7, <2>1, <2>2
<1>12. WalkStands' /\ WalkLeavesNoGap' BY <1>2, <1>8, PageTypes DEF WalkStands, WalkLeavesNoGap, Feed
<1>13. CacheKept'
  <2>1. CASE any BY <1>3, <1>4, <2>1 DEF CacheKept, FillRecord
  <2>2. CASE ~any BY <1>2, <1>3, <1>8, <2>2 DEF CacheKept
  <2> QED BY <2>1, <2>2
<1>14. CacheCurrent'
  <2>1. CASE fill' = IdleFill
    <3>1. CASE any BY <1>3, <1>4, <2>1, <3>1, IdleFillType DEF CacheCurrent, FillRecord
    <3>2. CASE ~any BY <1>2, <1>3, <1>8, <3>2 DEF CacheKept, CacheCurrent
    <3> QED BY <3>1, <3>2
  <2>2. CASE fill'.pc = "fill" BY <2>2 DEF CacheCurrent
  <2> QED BY <1>3, <1>4, <2>1, <2>2 DEF FillRecord
<1> QED BY <1>8, <1>9, <1>10, <1>11, <1>12, <1>13, <1>14

LEMMA FillStepKeeps ==
    ASSUME IInv, FillStep \/ FillFault
    PROVE  IInv'
<1> USE DEF IInv, tables, filled
<1>0. fill \in FillRecord /\ offset \in 1..(MaxTx + 1) /\ troubles \in 0..MaxTroubles
  BY DEF TypeOK, FillRecord
<1>1. CASE StartFill
  <2>1. PICK start \in {1, offset} : fill' = [IdleFill EXCEPT !.pc = "fill", !.start = start]
    BY <1>1 DEF StartFill
  <2>2. fill' \in FillRecord /\ fill'.start = start /\ ~fill'.reacted /\ fill'.pc = "fill"
    <3>1. fill' = [pc |-> "fill", start |-> start, rows |-> 0, reacted |-> FALSE]
      BY <2>1 DEF IdleFill
    <3>2. start \in 1..(MaxTx + 1) BY <1>0, ColonySyncAssumption
    <3> QED BY <3>1, <3>2 DEF FillRecord
  <2>3. UNCHANGED <<head, tables, session, troubles>> /\ fill.pc = "idle" BY <1>1 DEF StartFill
  <2>4. TypeOK' BY <2>2, <2>3 DEF TypeOK, FillRecord
  <2>5. FillKept' BY <2>2, <2>3, ColonySyncAssumption DEF FillKept, PassedIsKept, Kept, Txs
  <2>6. PassedIsKept' BY <2>3 DEF PassedIsKept, Kept
  <2>7. WalkStands' /\ WalkLeavesNoGap' BY <2>3 DEF WalkStands, WalkLeavesNoGap, Feed
  <2>8. CacheKept' /\ CacheCurrent' BY <2>2, <2>3 DEF CacheKept, CacheCurrent
  <2>9. RowFree' BY <2>3 DEF RowFree, Stored, Row, Newest
  <2> QED BY <2>4, <2>5, <2>6, <2>7, <2>8, <2>9
<1>2. CASE Fill BY <1>2, FillPageKeeps
<1>3. CASE FillEnds \/ FillFails
  <2>1. /\ fill' = IdleFill /\ UNCHANGED <<head, store, reacted, dead, offset, cut, overtaken, session>>
        /\ troubles' = troubles \/ (troubles < MaxTroubles /\ troubles' = troubles + 1)
    BY <1>3 DEF FillEnds, FillFails, Trouble
  <2>2. counted' \subseteq reacted' /\ abandoned' \subseteq Txs /\ reacted' \ counted' \subseteq abandoned'
    <3>1. CASE FillEnds
      <4>1. CASE fill.reacted BY <2>1, <3>1, <4>1 DEF FillEnds, Recount
      <4>2. CASE ~fill.reacted BY <2>1, <3>1, <4>2 DEF FillEnds, Recount, CacheKept, TypeOK
      <4> QED BY <4>1, <4>2
    <3>2. CASE FillFails BY <3>2 DEF FillFails, TypeOK
    <3> QED BY <1>3, <3>1, <3>2
  <2>3. TypeOK' BY <1>0, <2>1, <2>2, IdleFillType, ColonySyncAssumption DEF TypeOK, FillRecord
  <2>4. FillKept' BY <2>1, IdleFillType, ColonySyncAssumption DEF FillKept, Txs
  <2>5. PassedIsKept' BY <2>1 DEF PassedIsKept, Kept
  <2>6. WalkStands' /\ WalkLeavesNoGap' BY <2>1 DEF WalkStands, WalkLeavesNoGap, Feed
  <2>7. CacheKept' /\ CacheCurrent' BY <2>2 DEF CacheKept, CacheCurrent
  <2>8. RowFree' BY <2>1 DEF RowFree, Stored, Row, Newest
  <2> QED BY <2>3, <2>4, <2>5, <2>6, <2>7, <2>8
<1>4. CASE CrashFill
  <2>1. PICK upto \in 0..MaxTx : Insert({t \in Handled : t <= upto}) BY <1>4 DEF CrashFill
  <2>2. {t \in Handled : t <= upto} \in SUBSET Txs BY HandledTypes
  <2>3. /\ fill' = IdleFill /\ UNCHANGED <<head, counted, offset, cut, session>>
        /\ troubles' \in 0..MaxTroubles /\ abandoned' = reacted' \ counted
    BY <1>0, <1>4, ColonySyncAssumption DEF CrashFill, Trouble
  <2>4. /\ store' \in [Txs -> {"absent", "bare", "full"}]
        /\ reacted' \subseteq Txs /\ reacted \subseteq reacted' /\ dead' \subseteq Txs
        /\ \A t \in Txs : store[t] # "absent" => store'[t] # "absent"
        /\ \A t \in Txs : Kept(t) => Kept(t)'
        /\ overtaken' \in BOOLEAN /\ RowFree'
    BY <2>1, <2>2, <2>3, InsertKeeps
  <2>5. TypeOK' BY <2>3, <2>4, IdleFillType DEF TypeOK, FillRecord
  <2>6. FillKept' BY <2>3, IdleFillType, ColonySyncAssumption DEF FillKept, Txs
  <2>7. PassedIsKept' BY <2>3, <2>4 DEF PassedIsKept
  <2>8. WalkStands' /\ WalkLeavesNoGap' BY <2>3, <2>4, PageTypes DEF WalkStands, WalkLeavesNoGap, Feed
  <2>9. CacheKept' /\ CacheCurrent' BY <2>3 DEF CacheKept, CacheCurrent
  <2> QED BY <2>4, <2>5, <2>6, <2>7, <2>8, <2>9
<1> QED BY <1>1, <1>2, <1>3, <1>4 DEF FillStep, FillFault

----------------------------------------------------------------------------
LEMMA InitHolds == Init => IInv
<1> SUFFICES ASSUME Init PROVE IInv OBVIOUS
<1> USE DEF Init
<1>1. TypeOK
  <2>1. store \in [Txs -> {"absent", "bare", "full"}] OBVIOUS
  <2>2. session \in SessionRecord /\ session.left = {} /\ session.pc = "idle" BY IdleSessionType
  <2>3. fill \in FillRecord BY IdleFillType
  <2>4. head \in 0..MaxTx /\ offset \in 1..(MaxTx + 1) /\ troubles \in 0..MaxTroubles
    BY ColonySyncAssumption
  <2> QED BY <2>1, <2>2, <2>3, <2>4 DEF TypeOK, FillRecord, SessionRecord
<1>2. FillKept /\ PassedIsKept BY IdleFillType, ColonySyncAssumption DEF FillKept, PassedIsKept, Txs
<1>3. WalkStands /\ WalkLeavesNoGap
  BY IdleSessionType, ColonySyncAssumption DEF WalkStands, WalkLeavesNoGap, Feed
<1>4. CacheKept /\ CacheCurrent /\ RowFree BY IdleSessionType DEF CacheKept, CacheCurrent, RowFree
<1> QED BY <1>1, <1>2, <1>3, <1>4 DEF IInv

LEMMA StepKeeps == IInv /\ [Next]_vars => IInv'
<1> SUFFICES ASSUME IInv, [Next]_vars PROVE IInv' OBVIOUS
<1>1. CASE Transact
  <2> USE DEF IInv, tables, filled
  <2>1. /\ head < MaxTx /\ head' = head + 1 /\ UNCHANGED <<tables, session, fill, troubles>>
        /\ head \in 0..MaxTx /\ session.top \in 0..MaxTx
    BY <1>1 DEF Transact, TypeOK
  <2>2. TypeOK' BY <2>1, ColonySyncAssumption DEF TypeOK
  <2>3. FillKept' /\ PassedIsKept' BY <2>1 DEF FillKept, PassedIsKept, Kept
  <2>4. WalkStands' BY <2>1, ColonySyncAssumption DEF WalkStands
  <2>5. WalkLeavesNoGap'
    <3>1. \A t \in Feed' : t <= session.top => t \in Feed
      BY <2>1, ColonySyncAssumption DEF Feed, WalkStands, IsPost
    <3> QED BY <2>1, <3>1 DEF WalkLeavesNoGap
  <2>6. CacheKept' /\ CacheCurrent' BY <2>1 DEF CacheKept, CacheCurrent
  <2>7. RowFree' BY <2>1 DEF RowFree, Stored, Row, Newest
  <2> QED BY <2>2, <2>3, <2>4, <2>5, <2>6, <2>7
<1>2. CASE StartSession \/ SessionStep \/ SessionFault BY <1>2, SessionStepKeeps
<1>3. CASE FillStep \/ FillFault BY <1>3, FillStepKeeps
<1>4. CASE UNCHANGED vars
  <2> USE DEF IInv, vars, tables, filled
  <2>1. TypeOK' BY <1>4 DEF TypeOK
  <2>2. FillKept' /\ PassedIsKept' BY <1>4 DEF FillKept, PassedIsKept, Kept
  <2>3. WalkStands' /\ WalkLeavesNoGap' BY <1>4 DEF WalkStands, WalkLeavesNoGap, Feed
  <2>4. CacheKept' /\ CacheCurrent' BY <1>4 DEF CacheKept, CacheCurrent
  <2>5. RowFree' BY <1>4 DEF RowFree, Stored, Row, Newest
  <2> QED BY <2>1, <2>2, <2>3, <2>4, <2>5
<1> QED BY <1>1, <1>2, <1>3, <1>4 DEF Next

\* The strengthening that the theorems below rest on.
THEOREM Invariance == Spec => []IInv
BY InitHolds, StepKeeps, PTL DEF Spec

\* Types: what the tables, the offset and the two processes can hold.
THEOREM TypesAreCorrect == Spec => []TypeOK
<1>1. IInv => TypeOK BY DEF IInv
<1> QED BY <1>1, Invariance, PTL

\* The offset of the back-fill (backfill.ts) passes nothing that is not in a
\* table, but for what the limit cuts off.
THEOREM OffsetLosesNothing == Spec => []PassedIsKept
<1>1. IInv => PassedIsKept BY DEF IInv
<1> QED BY <1>1, Invariance, PTL

\* The walk down the feed (api-backfill.ts) leaves no gap above it.
THEOREM WalkIsGapless == Spec => []WalkLeavesNoGap
<1>1. IInv => WalkLeavesNoGap BY DEF IInv
<1> QED BY <1>1, Invariance, PTL

\* Whenever no back-fill runs, reaction_cache lacks no more than reactions of
\* runs that a fault cut short since the last recount (backfill.ts).
THEOREM CacheIsCurrent == Spec => []CacheCurrent
<1>1. IInv => CacheCurrent BY DEF IInv
<1> QED BY <1>1, Invariance, PTL

\* A post stored with its thread and tags loses them in one way only: a session
\* looked it up before the back-fill stored it and wrote its own row afterwards
\* (sse-sense-adapter.ts).
THEOREM FullPostsStay == Spec => FullUnlessOvertaken
<1>1. ASSUME IInv, [Next]_vars, NEW t \in Txs, store[t] = "full"
      PROVE  store'[t] = "full" \/ overtaken
  <2> USE DEF tables
  <2>0. TypeOK /\ RowFree BY <1>1 DEF IInv
  <2>1. ASSUME NEW S, store' = With(S, "full") PROVE store'[t] = "full"
    BY <1>1, <2>0, <2>1, WithTypes
  <2>2. CASE Sync \/ IngestChain \/ CrashSession \/ CrashFill \/ Fill
    <3>1. store' = store \/ \E S : store' = With(S, "full")
      BY <2>2 DEF Sync, IngestChain, CrashSession, CrashFill, Fill, Insert
    <3> QED BY <1>1, <2>1, <3>1
  <2>3. CASE InsertRow
    <3>1. session.pc = "insert" /\ store' = With(Row, "bare") BY <2>3 DEF InsertRow
    <3>2. CASE overtaken BY <3>2
    <3>3. CASE ~overtaken
      <4>1. t \notin Row BY <1>1, <2>0, <3>1, <3>3 DEF RowFree, Stored
      <4> QED BY <1>1, <2>0, <3>1, <4>1, WithTypes
    <3> QED BY <3>2, <3>3
  <2>4. CASE \/ Transact \/ StartSession \/ FetchFeed \/ LookUp
             \/ SyncFails \/ ChainFails \/ FeedFails
             \/ StartFill \/ FillEnds \/ FillFails \/ UNCHANGED vars
    BY <1>1, <2>4 DEF Transact, StartSession, FetchFeed, LookUp, SyncFails, ChainFails, FeedFails,
       StartFill, FillEnds, FillFails, vars
  <2> QED BY <1>1, <2>2, <2>3, <2>4 DEF Next, SessionStep, SessionFault, FillStep, FillFault
<1>2. ASSUME IInv, [Next]_vars
      PROVE  [\A t \in Txs : store[t] = "full" => store'[t] = "full" \/ overtaken]_vars
  BY <1>1, <1>2
<1> QED BY <1>2, Invariance, PTL DEF Spec, FullUnlessOvertaken
=============================================================================
