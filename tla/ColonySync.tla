----------------------------- MODULE ColonySync -----------------------------
(***************************************************************************)
(* How the colony database (src/toolkit/colony/) is filled.  Every session  *)
(* walks the feed of the API from its newest post down (api-backfill.ts),   *)
(* then takes a window of posts from the chain (cli/v3-loop-helpers.ts) and *)
(* a window of the feed (cli/sse-sense-adapter.ts).  Beside it a back-fill  *)
(* (colony/backfill.ts) walks the transactions of the chain from the first  *)
(* one up and keeps its offset.                                             *)
(*                                                                         *)
(* A step reaches from one await to the next, but where a session looks a   *)
(* row up and then writes it: the back-fill is another process, and each    *)
(* row is a commit of its own, except in the chain ingestion.  A process    *)
(* may die between two rows.                                                *)
(***************************************************************************)
EXTENDS Integers, FiniteSets, FiniteSetsExt

CONSTANTS
    MaxTx,       \* bound: transactions on the chain, numbered as they appear
    Kind,        \* what each of them is
    Parent,      \* the post a post replies to, 0 for none
    SyncPage,    \* batchSize of syncColonyFromApi
    ChainWindow, \* recentPostsFetchLimit
    FeedWindow,  \* posts of the feed that readSSESense asks for
    FillPage,    \* batchSize of backfillFromTransactions
    FillLimit,   \* its limit
    Faults,      \* which of the faults below may happen
    MaxTroubles  \* bound: faults in a behaviour

FaultKinds == {
    "api",   \* the API does not answer, or answers with an error
    "chain", \* the chain does not answer
    "crash"} \* a process dies

Txs == 1..MaxTx
Kinds == {"post", "reaction", "malformed", "other"}

ASSUME ColonySyncAssumption ==
    /\ MaxTx \in Nat
    /\ Kind \in [Txs -> Kinds]
    /\ Parent \in [Txs -> 0..MaxTx]
    /\ \A t \in Txs : Parent[t] < t
    /\ {SyncPage, ChainWindow, FeedWindow, FillPage, FillLimit} \subseteq Nat \ {0}
    /\ Faults \subseteq FaultKinds
    /\ MaxTroubles \in Nat

VARIABLES
    head,     \* transactions on the chain so far
    store,    \* posts: "absent", "bare" (no reply_to, no tags) or "full"
    reacted,  \* hive_reactions
    counted,  \* the reactions that reaction_cache counts
    dead,     \* dead_letters
    offset,   \* _meta, "backfill_offset"
    session,  \* the session's process: pc, its walk down the feed, posts left to look up
    fill,     \* the back-fill's process: pc, start, rows inserted, reactions inserted
    cut,      \* history: rows the limit of a back-fill made it pass over
    overtaken, \* history: the row a session is about to insert was stored meanwhile
    abandoned, \* history: reactions that a back-fill cut short has left uncounted
    troubles  \* bound: faults so far

filled == <<reacted, counted, dead, offset, cut, abandoned>>
tables == <<store, filled, overtaken>>
vars == <<head, tables, session, fill, troubles>>

IsPost(t) == Kind[t] = "post"
Feed == {t \in 1..head : IsPost(t)}
Hive(t) == Kind[t] # "other"

\* The n newest of a set of posts.
Newest(n, S) == {t \in S : Cardinality({u \in S : u > t}) < n}

Trouble(kind) ==
    /\ kind \in Faults /\ troubles < MaxTroubles
    /\ troubles' = troubles + 1

\* walk: still to be fetched are the posts below it; MaxTx + 1 before the first page.
\* top: the newest post when the walk began.
\* left: posts of the feed's answer that have not been looked up and inserted.
IdleSession == [pc |-> "idle", walk |-> MaxTx + 1, top |-> 0, left |-> {}]
IdleFill == [pc |-> "idle", start |-> 1, rows |-> 0, reacted |-> FALSE]

Init ==
    /\ head = 0
    /\ store = [t \in Txs |-> "absent"]
    /\ reacted = {} /\ counted = {} /\ dead = {}
    /\ offset = 1
    /\ session = IdleSession /\ fill = IdleFill
    /\ cut = {} /\ overtaken = FALSE /\ abandoned = {}
    /\ troubles = 0

Transact ==
    /\ head < MaxTx
    /\ head' = head + 1
    /\ UNCHANGED <<tables, session, fill, troubles>>

----------------------------------------------------------------------------
\* insertPost: an upsert.
With(S, how) == [t \in Txs |-> IF t \in S THEN how ELSE store[t]]
Stored(S) == {t \in S : store[t] # "absent"}

\* Foreign keys are on in this connection: a reply needs its parent in the table.
Orphans(S) == {t \in S : store[t] = "absent" /\ Parent[t] # 0 /\ store[Parent[t]] = "absent"}

\* syncColonyFromApi, as the first thing of the SENSE phase.
StartSession ==
    /\ session.pc = "idle"
    /\ session' = [IdleSession EXCEPT !.pc = "sync"]
    /\ UNCHANGED <<head, tables, fill, troubles>>

\* The next page, newest post first.
Page == Newest(SyncPage, {t \in Feed : t < session.walk})
\* What of it gets inserted: all that is new, or what comes before the first orphan.
NewDownToKnown(S) == {t \in S \ (Stored(S) \cup Orphans(S)) : \A u \in Stored(S) : u < t}
New(S) == {t \in S \ Stored(S) : \A u \in Orphans(S) : u < t}
\* A page of duplicates, or the end of the feed, ends the walk.
LastPage == New(Page) = {} \/ {t \in Feed : t < Min(Page)} = {}
Top == IF session.top = 0 THEN head ELSE session.top

Sync ==
    /\ session.pc = "sync"
    /\ IF Page = {}
       THEN /\ session' = [session EXCEPT !.pc = "chain"]
            /\ UNCHANGED store
       ELSE /\ store' = With(New(Page), "full")
            /\ LET here == [session EXCEPT !.top = Top] IN
               session' = IF Orphans(Page) # {} THEN [here EXCEPT !.pc = "chain"]
                          ELSE IF LastPage THEN [here EXCEPT !.pc = "chain", !.walk = Min(Page)]
                          ELSE [here EXCEPT !.walk = Min(Page)]
    /\ UNCHANGED <<head, filled, overtaken, fill, troubles>>

\* getFeed is not ok: the walk ends here.
SyncFails ==
    /\ session.pc = "sync" /\ Trouble("api")
    /\ session' = [session EXCEPT !.pc = "chain"]
    /\ UNCHANGED <<head, tables, fill>>

\* ingestChainPostsIntoColonyDb: one transaction, foreign keys off.
IngestChainChecked ==
    /\ session.pc = "chain"
    /\ LET window == Newest(ChainWindow, Feed) IN
       store' = IF Orphans(window) = {} THEN With(window, "full") ELSE store
    /\ session' = [session EXCEPT !.pc = "feed"]
    /\ UNCHANGED <<head, filled, overtaken, fill, troubles>>
IngestChain ==
    /\ session.pc = "chain"
    /\ store' = With(Newest(ChainWindow, Feed), "full")
    /\ session' = [session EXCEPT !.pc = "feed"]
    /\ UNCHANGED <<head, filled, overtaken, fill, troubles>>

ChainFails ==
    /\ session.pc = "chain" /\ Trouble("chain")
    /\ session' = [session EXCEPT !.pc = "feed"]
    /\ UNCHANGED <<head, tables, fill>>

\* readSSESense: the feed as it is now, newest post first.
GoOnWith(posts) ==
    session' = IF posts = {} THEN IdleSession ELSE [session EXCEPT !.pc = "look", !.left = posts]
FetchFeed ==
    /\ session.pc = "feed"
    /\ GoOnWith(Newest(FeedWindow, Feed))
    /\ UNCHANGED <<head, tables, fill, troubles>>

\* The post it has come to.
Row == Newest(1, session.left)

\* getPost: known posts are passed over ...
LookUpNothing ==
    /\ session.pc = "look"
    /\ session' = [session EXCEPT !.pc = "insert"]
    /\ UNCHANGED <<head, tables, fill, troubles>>
LookUp ==
    /\ session.pc = "look"
    /\ IF Stored(Row) = {}
       THEN session' = [session EXCEPT !.pc = "insert"]
       ELSE GoOnWith(session.left \ Row)
    /\ UNCHANGED <<head, tables, fill, troubles>>

\* ... and insertPost writes the others, over what is there by then, without
\* reply_to and tags.
InsertRow ==
    /\ session.pc = "insert"
    /\ store' = With(Row, "bare")
    /\ overtaken' = FALSE
    /\ GoOnWith(session.left \ Row)
    /\ UNCHANGED <<head, filled, fill, troubles>>

FeedFails ==
    /\ session.pc = "feed" /\ Trouble("api")
    /\ session' = IdleSession
    /\ UNCHANGED <<head, tables, fill>>

\* The process dies, in the middle of a page perhaps.
CrashSession ==
    /\ session.pc # "idle" /\ Trouble("crash")
    /\ \E from \in 1..(MaxTx + 1) :
          store' = IF session.pc = "sync" THEN With({t \in New(Page) : t >= from}, "full") ELSE store
    /\ session' = IdleSession
    /\ overtaken' = FALSE
    /\ UNCHANGED <<head, filled, fill>>

----------------------------------------------------------------------------
\* backfillFromTransactions, from the saved offset or, with --reset-cursor, from the start.
StartFill ==
    /\ fill.pc = "idle"
    /\ \E start \in {1, offset} : fill' = [IdleFill EXCEPT !.pc = "fill", !.start = start]
    /\ UNCHANGED <<head, tables, session, troubles>>

Batch == {t \in 1..head : fill.start <= t /\ t < fill.start + FillPage}
IsRow(t) == Kind[t] \in {"post", "reaction"}
Rows(S) == {t \in S : IsRow(t)}
\* The loop over the page stops at the limit; known rows are upserted and count too.
Reached(t) == fill.rows + Cardinality({u \in Rows(Batch) : u < t}) < FillLimit
Handled == {t \in Batch : Reached(t)}
NewReactions(S) == {t \in S : Kind[t] = "reaction"}

\* The row a session has looked up is stored before the session writes it.
Overtakes(S) == session.pc = "insert" /\ S \cap Row # {}

InsertUndecodedNowhere(S) ==
    /\ store' = With({t \in S : IsPost(t)}, "full")
    /\ reacted' = reacted \cup NewReactions(S)
    /\ overtaken' = (overtaken \/ Overtakes(S))
    /\ UNCHANGED dead
Insert(S) ==
    /\ store' = With({t \in S : IsPost(t)}, "full")
    /\ reacted' = reacted \cup NewReactions(S)
    /\ dead' = dead \cup {t \in S : Kind[t] = "malformed"}
    /\ overtaken' = (overtaken \/ Overtakes(S))

\* recomputeReactionCache, when the run inserted reactions.
Recount(any) ==
    /\ counted' = IF any THEN reacted' ELSE counted
    /\ abandoned' = IF any THEN {} ELSE abandoned

\* The offset after a page: start += txs.length.
PassedByPageSize == fill.start + FillPage
Passed == fill.start + Cardinality(Batch)

\* One page.  The offset passes the whole page, and the run ends at its limit.
Fill ==
    /\ fill.pc = "fill" /\ Batch # {}
    /\ Insert(Handled)
    /\ offset' = Passed
    /\ cut' = cut \cup ({t \in Batch : Hive(t)} \ Handled)
    /\ LET rows == fill.rows + Cardinality(Rows(Handled))
           any == fill.reacted \/ NewReactions(Handled) # {}
           over == rows >= FillLimit IN
       /\ fill' = IF over THEN IdleFill
                  ELSE [fill EXCEPT !.start = offset', !.rows = rows, !.reacted = any]
       /\ Recount(over /\ any)
    /\ UNCHANGED <<head, session, troubles>>

FillEndsQuietly ==
    /\ fill.pc = "fill" /\ Batch = {}
    /\ fill' = IdleFill
    /\ UNCHANGED <<head, tables, session, troubles>>
FillEnds ==
    /\ fill.pc = "fill" /\ Batch = {}
    /\ fill' = IdleFill
    /\ UNCHANGED reacted
    /\ Recount(fill.reacted)
    /\ UNCHANGED <<head, store, dead, offset, cut, overtaken, session, troubles>>

\* getTransactions throws: finally restores the foreign keys, no more.
FillFails ==
    /\ fill.pc = "fill" /\ Trouble("chain")
    /\ fill' = IdleFill
    /\ abandoned' = reacted \ counted
    /\ UNCHANGED <<head, store, reacted, counted, dead, offset, cut, overtaken, session>>

CrashFill ==
    /\ fill.pc = "fill" /\ Trouble("crash")
    /\ \E upto \in 0..MaxTx : Insert({t \in Handled : t <= upto})
    /\ fill' = IdleFill
    /\ abandoned' = reacted' \ counted
    /\ UNCHANGED <<head, counted, offset, cut, session>>

----------------------------------------------------------------------------
SessionStep == Sync \/ IngestChain \/ FetchFeed \/ LookUp \/ InsertRow
SessionFault == SyncFails \/ ChainFails \/ FeedFails \/ CrashSession
FillStep == StartFill \/ Fill \/ FillEnds
FillFault == FillFails \/ CrashFill

Next == Transact \/ StartSession \/ SessionStep \/ SessionFault \/ FillStep \/ FillFault

Spec == Init /\ [][Next]_vars

\* The steps of a running session return or time out.  Nobody has to start one.
FairSpec == Spec /\ WF_vars(SessionStep)

----------------------------------------------------------------------------
(* Properties *)

SessionPCs == {"idle", "sync", "chain", "feed", "look", "insert"}

\* Types: what the tables, the offset and the two processes can hold.
TypeOK ==
    /\ head \in 0..MaxTx
    /\ store \in [Txs -> {"absent", "bare", "full"}]
    /\ reacted \subseteq Txs /\ counted \subseteq reacted /\ dead \subseteq Txs /\ cut \subseteq Txs
    /\ offset \in 1..(MaxTx + 1)
    /\ overtaken \in BOOLEAN /\ abandoned \subseteq Txs
    /\ session \in [pc : SessionPCs, walk : 1..(MaxTx + 1), top : 0..MaxTx, left : SUBSET Txs]
    /\ session.left # {} <=> session.pc \in {"look", "insert"}
    /\ fill \in [pc : {"idle", "fill"}, start : 1..(MaxTx + 1), rows : Nat, reacted : BOOLEAN]
    /\ troubles \in 0..MaxTroubles

Kept(t) == store[t] # "absent" \/ t \in reacted \/ t \in dead

\* What the back-fill's offset has passed is in a table, unless the limit cut
\* it off: neither a crash within a page, nor a row that does not decode, nor
\* a run that starts over loses a transaction.
PassedIsKept == \A t \in Txs : t < offset /\ Hive(t) => Kept(t) \/ t \in cut

\* The walk down the feed leaves no gap behind it, whoever else stores posts
\* meanwhile: every post from its newest down to where it is has been stored.
WalkLeavesNoGap == \A t \in Feed : session.walk <= t /\ t <= session.top => store[t] # "absent"

\* Whenever no back-fill runs, reaction_cache lacks no more than reactions of
\* runs that a fault cut short since the last recount (backfill.ts recomputes it
\* at the end of a run only, and of those that inserted reactions).
CacheCurrent == fill.pc = "idle" => reacted \ counted \subseteq abandoned

\* A post stored with its thread and tags loses them in one way only: a session
\* found it absent, the back-fill stored it, and then the session wrote its row.
FullUnlessOvertaken == [][\A t \in Txs : store[t] = "full" => store'[t] = "full" \/ overtaken]_vars

\* sse-sense-adapter.ts, line 98: "Skip if already in DB (dedup via primary key)".
KnownPostsSkipped == [][\A t \in Txs : store[t] = "full" => store'[t] = "full"]_vars

\* As long as somebody starts sessions now and then, the newest posts arrive in
\* full, replies without their parents included, whatever the walk down the feed
\* fails at.
NewestArrive ==
    []<>(session.pc = "sync") => <>[](\A t \in Newest(ChainWindow, Feed) : store[t] = "full")

============================================================================
