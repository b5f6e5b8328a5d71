----------------------------- MODULE EventLoop -----------------------------
(***************************************************************************)
(* The event runner (cli/event-runner.ts): the event loop of                *)
(* toolkit/reactive/event-loop.ts with its three kinds of sources           *)
(* (src/reactive/event-sources/), the feed cache they share, the watermark  *)
(* file, and the replies that handlers and action executor make.            *)
(*                                                                         *)
(* Posts are numbered in the order they were published; each of them is one *)
(* the sources look for (an OPINION request that mentions the agent) and    *)
(* that the handlers answer.  Each source has one chain of promises: a      *)
(* timer, the poll with its requests, the handlers of its events, the       *)
(* watermark; the chains interleave at every await.  The length of the      *)
(* timers (adaptive back-off) is left open: a timer fires at any time.      *)
(***************************************************************************)
EXTENDS Integers, FiniteSets

CONSTANTS
    Feeds,       \* sources over the shared feed: replies, mentions, tips
    Opinions,    \* sources over a search, with the thread of each post found
    Streams,     \* sources over the SSE stream, with the feed to fall back on
    FeedLimit,   \* posts the server returns for a request (limit=...)
    MaxReconnect,\* maxReconnectAttempts of the stream
    Faults,      \* which of the faults below may happen
    MaxPosts,    \* bound: posts published
    MaxTroubles  \* bound: faults in a behaviour

FaultKinds == {
    "error",   \* a request is answered with an error or not at all
    "stream",  \* the stream cannot be opened or read
    "throw",   \* poll() of a source throws
    "action",  \* a handler or its action fails, or is refused by the budget
    "stop",    \* SIGTERM, then process.exit
    "crash"}   \* the process dies

Sources == Feeds \cup Opinions \cup Streams
Posts == 1..MaxPosts

ASSUME EventLoopAssumption ==
    /\ Feeds \cap Opinions = {} /\ Feeds \cap Streams = {}
    /\ Opinions \cap Streams = {}
    /\ IsFiniteSet(Sources)
    /\ FeedLimit \in Nat \ {0} /\ MaxReconnect \in Nat
    /\ MaxPosts \in Nat /\ MaxTroubles \in Nat
    /\ Faults \subseteq FaultKinds

VARIABLES
    posts,    \* the server: how many posts were published
    replied,  \* the server: posts the agent replied to
    mark,     \* the watermark file: the post saved for each source, 0 for none
    up,       \* the process: "running", "stopping" or "down"
    pc,       \* the await each source is at
    seeded,   \* sources that began a poll in this process
    warm,     \* sources in their warm-up poll (a watermark was loaded)
    based,    \* sources with a snapshot
    snap,     \* the posts in that snapshot
    got,      \* the posts in the answer under way
    queue,    \* the events still to be handled
    cache,    \* feedCache: posts, and whether younger than FEED_CACHE_TTL_MS
    cursor,   \* lastEventId of a stream, 0 for none
    fails,    \* consecutiveFailures of a stream
    troubles, \* bound: faults so far
    asof,     \* history: how recent the answer under way, the snapshot and the
              \* cache are (posts at the time the server read them, 0: an error)
    seen,     \* history: posts a source emitted or found in its baseline
    excused   \* history: sources that had a reason to emit a post again

server == <<posts, replied>>
loop == <<seeded, warm, based, snap, queue>>
requests == <<got, cache, cursor, fails>>
history == <<asof, seen, excused>>
vars == <<server, mark, up, pc, loop, requests, troubles, history>>

PCs == {"off", "timer", "stream", "fetch", "request", "threads", "answer", "dispatch"}

\* What the server returns for a request, and the newest post of an answer (the
\* set of it: extractLatestWatermark).
Recent == {p \in 1..posts : p > posts - FeedLimit}
Newest(S) == {p \in S : \A q \in S : q <= p}

Trouble(kind) ==
    /\ kind \in Faults /\ troubles < MaxTroubles
    /\ troubles' = troubles + 1

Init ==
    /\ posts = 0 /\ replied = {}
    /\ mark = [s \in Sources |-> 0]
    /\ up = "running"
    /\ pc = [s \in Sources |-> "timer"]
    /\ seeded = {} /\ warm = {} /\ based = {}
    /\ snap = [s \in Sources |-> {}] /\ got = [s \in Sources |-> {}]
    /\ queue = [s \in Sources |-> {}]
    /\ cache = [posts |-> {}, fresh |-> FALSE, asof |-> 0]
    /\ cursor = [s \in Streams |-> 0] /\ fails = [s \in Streams |-> 0]
    /\ troubles = 0
    /\ asof = [s \in Sources |-> [got |-> 0, snap |-> 0]]
    /\ seen = [s \in Sources |-> {}]
    /\ excused = {}

----------------------------------------------------------------------------
\* pollSource: the timer fires.

Goto(s, l) == pc' = [pc EXCEPT ![s] = l]
\* The end of pollSource: a new timer unless the loop was stopped.
Rearm(s) == Goto(s, IF up = "running" THEN "timer" ELSE "off")

StartPollSeedingLater(s) ==
    LET first == s \notin seeded /\ mark[s] # 0 IN
    /\ pc[s] = "timer"
    /\ seeded' = IF first THEN seeded ELSE seeded \cup {s}
    /\ warm' = IF first THEN warm \cup {s} ELSE warm \ {s}
    /\ Goto(s, IF s \in Streams THEN "stream" ELSE IF s \in Opinions THEN "request" ELSE "fetch")
    /\ UNCHANGED <<server, mark, up, based, snap, queue, requests, troubles, history>>

StartPollForgettingMark(s) ==
    /\ pc[s] = "timer"
    /\ seeded' = seeded \cup {s}
    /\ warm' = warm \ {s}
    /\ Goto(s, IF s \in Streams THEN "stream" ELSE IF s \in Opinions THEN "request" ELSE "fetch")
    /\ UNCHANGED <<server, mark, up, based, snap, queue, requests, troubles, history>>

\* The first poll of a source whose watermark was saved only sets a baseline.
StartPoll(s) ==
    /\ pc[s] = "timer"
    /\ seeded' = seeded \cup {s}
    /\ warm' = IF s \notin seeded /\ mark[s] # 0 THEN warm \cup {s} ELSE warm \ {s}
    /\ Goto(s, IF s \in Streams THEN "stream" ELSE IF s \in Opinions THEN "request" ELSE "fetch")
    /\ UNCHANGED <<server, mark, up, based, snap, queue, requests, troubles, history>>

----------------------------------------------------------------------------
\* The answer S is there, as recent as v: diff, snapshot, dispatch.

EventsNewestOnly(s, S) == Newest(IF s \in based THEN S \ snap[s] ELSE S)
Events(s, S) ==
    IF s \in based THEN S \ snap[s] ELSE IF s \in Streams THEN {} ELSE S

\* What every answer does but for the snapshot it leaves.
Diffed(s, S, v) ==
    LET events == IF s \in warm THEN {} ELSE Events(s, S)
        baseline == s \in warm \/ (s \notin based /\ s \in Streams)
    IN
    /\ based' = based \cup {s}
    /\ queue' = [queue EXCEPT ![s] = events]
    /\ IF s \in warm /\ S # {}
       THEN \E p \in Newest(S) : mark' = [mark EXCEPT ![s] = p]
       ELSE UNCHANGED mark
    /\ IF events = {} THEN Rearm(s) ELSE Goto(s, "dispatch")
    /\ seen' = [seen EXCEPT ![s] = @ \cup events \cup (IF baseline THEN S ELSE {})]
    /\ asof' = [asof EXCEPT ![s] = [got |-> 0, snap |-> v]]
    /\ excused' = IF v < asof[s].snap THEN excused \cup {s} ELSE excused
    /\ UNCHANGED <<server, up, seeded, warm>>

ReceiveWithoutBaseline(s, S, v) ==
    /\ Diffed(s, S, v)
    /\ snap' = IF s \in warm THEN snap ELSE [snap EXCEPT ![s] = S]

Receive(s, S, v) ==
    /\ Diffed(s, S, v)
    /\ snap' = [snap EXCEPT ![s] = S]

----------------------------------------------------------------------------
\* Requests.

\* fetchFeedCached: from the cache while it is fresh ...
CacheHit(s) ==
    /\ pc[s] = "fetch" /\ cache.fresh
    /\ Receive(s, cache.posts, cache.asof)
    /\ UNCHANGED <<requests, troubles>>

\* ... else a request of its own.
CacheMiss(s) ==
    /\ pc[s] = "fetch" /\ ~cache.fresh
    /\ Goto(s, "request")
    /\ UNCHANGED <<server, mark, up, loop, requests, troubles, history>>

\* The server answers; the answer is still on its way.
Answered(s, S, v) ==
    /\ pc[s] = "request"
    /\ got' = [got EXCEPT ![s] = S]
    /\ asof' = [asof EXCEPT ![s].got = v]
    /\ Goto(s, IF s \in Opinions THEN "threads" ELSE "answer")
    /\ UNCHANGED <<server, mark, up, loop, cache, cursor, fails, seen, excused>>

Answer(s) == Answered(s, Recent, posts) /\ UNCHANGED troubles
\* fetchFeedPosts and fetchSearchPosts return [] when the API call failed.
AnswerError(s) == Answered(s, {}, 0) /\ Trouble("error")

\* Opinions: the threads are fetched at once; a post whose thread holds a reply
\* by the agent is dropped, one whose thread could not be fetched is kept
\* (fetchThreadPosts returns [], as if nobody had replied).
Threads(s, unread) ==
    /\ pc[s] = "threads"
    /\ IF unread = {} THEN UNCHANGED troubles ELSE Trouble("error")
    /\ got' = [got EXCEPT ![s] = (@ \ replied) \cup unread]
    /\ excused' = IF unread = {} THEN excused ELSE excused \cup {s}
    /\ Goto(s, "answer")
    /\ UNCHANGED <<server, mark, up, loop, cache, cursor, fails, asof, seen>>

\* The answer arrives; a feed answer replaces the cache, also an older or a
\* failed one.
Arrive(s) ==
    /\ pc[s] = "answer"
    /\ Receive(s, got[s], asof[s].got)
    /\ got' = [got EXCEPT ![s] = {}]
    /\ cache' = IF s \in Opinions THEN cache
                ELSE [posts |-> got[s], fresh |-> TRUE, asof |-> asof[s].got]
    /\ UNCHANGED <<cursor, fails, troubles>>

ExpireCache ==
    /\ cache.fresh
    /\ cache' = [cache EXCEPT !.fresh = FALSE]
    /\ UNCHANGED <<server, mark, up, pc, loop, got, cursor, fails, troubles, history>>

\* The stream yields the posts since the last one read; before the first, any
\* of the latest ones (none, if nobody posted while it was open).
StreamRead(s, from) ==
    /\ pc[s] = "stream" /\ fails[s] < MaxReconnect
    /\ cursor[s] > 0 => from = cursor[s] + 1
    /\ Receive(s, from..posts, posts)
    /\ cursor' = IF from <= posts THEN [cursor EXCEPT ![s] = posts] ELSE cursor
    /\ fails' = [fails EXCEPT ![s] = 0]
    /\ UNCHANGED <<got, cache, troubles>>

\* It fails, or it is not tried, within the back-off of an earlier failure, or
\* after MaxReconnect failures for good.  The feed is fetched instead.
StreamFails(s) ==
    /\ pc[s] = "stream" /\ fails[s] < MaxReconnect /\ Trouble("stream")
    /\ fails' = [fails EXCEPT ![s] = @ + 1]
    /\ Goto(s, "fetch")
    /\ UNCHANGED <<server, mark, up, loop, got, cache, cursor, history>>

StreamSkipped(s) ==
    /\ pc[s] = "stream"
    /\ fails[s] > 0 \/ MaxReconnect = 0
    /\ Goto(s, "fetch")
    /\ UNCHANGED <<server, mark, up, loop, requests, troubles, history>>

\* poll() throws: counted, and the source is polled again.  It stays seeded.
PollThrowsForGood(s) ==
    /\ pc[s] \in {"request", "answer"} /\ Trouble("throw")
    /\ Goto(s, "off")
    /\ got' = [got EXCEPT ![s] = {}]
    /\ excused' = IF s \in warm THEN excused \cup {s} ELSE excused
    /\ UNCHANGED <<server, mark, up, loop, cache, cursor, fails, asof, seen>>

PollThrows(s) ==
    /\ pc[s] \in {"request", "answer"} /\ Trouble("throw")
    /\ Rearm(s)
    /\ got' = [got EXCEPT ![s] = {}]
    /\ excused' = IF s \in warm THEN excused \cup {s} ELSE excused
    /\ UNCHANGED <<server, mark, up, loop, cache, cursor, fails, asof, seen>>

----------------------------------------------------------------------------
\* The events of a poll, one after the other, and the watermark.

Handle(s, p) ==
    /\ pc[s] = "dispatch" /\ p \in queue[s]
    /\ queue' = [queue EXCEPT ![s] = @ \ {p}]
    /\ replied' = replied \cup {p}
    /\ UNCHANGED <<posts, mark, up, pc, seeded, warm, based, snap, requests, troubles, history>>

\* The handler or the executor throws, or the executor gives up (budget, no
\* provider, publication failed): the event is gone.
HandleFails(s, p) ==
    /\ pc[s] = "dispatch" /\ p \in queue[s] /\ Trouble("action")
    /\ queue' = [queue EXCEPT ![s] = @ \ {p}]
    /\ UNCHANGED <<server, mark, up, pc, seeded, warm, based, snap, requests, history>>

\* Every event was tried: the watermark of the whole snapshot is saved.
Save(s) ==
    /\ pc[s] = "dispatch" /\ queue[s] = {}
    /\ \E p \in Newest(snap[s]) : mark' = [mark EXCEPT ![s] = p]
    /\ Rearm(s)
    /\ UNCHANGED <<server, up, loop, requests, troubles, history>>

----------------------------------------------------------------------------
\* The server and the process.

Publish ==
    /\ posts < MaxPosts
    /\ posts' = posts + 1
    /\ UNCHANGED <<replied, mark, up, pc, loop, requests, troubles, history>>

\* stop(): the timers are cleared, the polls in flight go on until the exit.
Stop ==
    /\ up = "running" /\ Trouble("stop")
    /\ up' = "stopping"
    /\ pc' = [s \in Sources |-> IF pc[s] = "timer" THEN "off" ELSE pc[s]]
    /\ UNCHANGED <<server, mark, loop, requests, history>>

\* What the process knew is gone, but for the watermarks.
Exit ==
    /\ up' = "down"
    /\ pc' = [s \in Sources |-> "off"]
    /\ seeded' = {} /\ warm' = {} /\ based' = {}
    /\ snap' = [s \in Sources |-> {}] /\ got' = [s \in Sources |-> {}]
    /\ queue' = [s \in Sources |-> {}]
    /\ cache' = [posts |-> {}, fresh |-> FALSE, asof |-> 0]
    /\ cursor' = [s \in Streams |-> 0] /\ fails' = [s \in Streams |-> 0]
    /\ excused' = excused \cup {s \in Sources : mark[s] = 0}
    /\ UNCHANGED <<server, mark, asof, seen>>

Exits == up = "stopping" /\ Exit /\ UNCHANGED troubles
Crash == up = "running" /\ Trouble("crash") /\ Exit

Restart ==
    /\ up = "down"
    /\ up' = "running"
    /\ pc' = [s \in Sources |-> "timer"]
    /\ UNCHANGED <<server, mark, loop, requests, troubles, history>>

Step(s) ==
    \/ StartPoll(s) \/ CacheHit(s) \/ CacheMiss(s)
    \/ Answer(s) \/ AnswerError(s) \/ (\E F \in SUBSET got[s] : Threads(s, F)) \/ Arrive(s)
    \/ PollThrows(s)
    \/ (\E p \in queue[s] : Handle(s, p) \/ HandleFails(s, p))
    \/ Save(s)

StreamStep(s) ==
    \/ (\E from \in 1..posts + 1 : StreamRead(s, from))
    \/ StreamFails(s) \/ StreamSkipped(s)

Next ==
    \/ \E s \in Sources : Step(s)
    \/ \E s \in Streams : StreamStep(s)
    \/ ExpireCache \/ Publish \/ Stop \/ Exits \/ Crash \/ Restart

Spec == Init /\ [][Next]_vars
\* Timers fire, requests are answered one way or another, pending promises are
\* run, the cache ages, a stopping process exits and systemd starts it again.
Fairness ==
    /\ \A s \in Sources : WF_vars(Step(s))
    /\ \A s \in Streams : WF_vars(StreamStep(s))
    /\ WF_vars(ExpireCache) /\ WF_vars(Exits) /\ WF_vars(Restart)

FairSpec == Spec /\ Fairness
----------------------------------------------------------------------------
\* Properties.

\* The state is well typed; a source off its timer has begun a poll, and only
\* streams stream.
TypeOK ==
    /\ posts \in 0..MaxPosts
    /\ replied \subseteq Posts
    /\ mark \in [Sources -> 0..MaxPosts]
    /\ up \in {"running", "stopping", "down"}
    /\ pc \in [Sources -> PCs]
    /\ seeded \subseteq Sources /\ warm \subseteq seeded /\ based \subseteq seeded
    /\ snap \in [Sources -> SUBSET Posts] /\ got \in [Sources -> SUBSET Posts]
    /\ queue \in [Sources -> SUBSET Posts]
    /\ cache \in [posts : SUBSET Posts, fresh : BOOLEAN, asof : 0..MaxPosts]
    /\ cursor \in [Streams -> 0..MaxPosts] /\ fails \in [Streams -> 0..MaxReconnect]
    /\ troubles \in 0..MaxTroubles
    /\ asof \in [Sources -> [got : 0..MaxPosts, snap : 0..MaxPosts]]
    /\ seen \in [Sources -> SUBSET Posts]
    /\ excused \subseteq Sources

\* A post is handed to the handlers again by a source that compares whole
\* answers only for a reason: the process died before the source's first
\* watermark, its warm-up poll threw, or an answer was an error or older than
\* the one before (event-loop.ts: snapshot, seeded, watermark).  A restart with
\* a watermark, failing handlers and overlapping polls repeat nothing.
RepeatsExplained ==
    [][\A s \in Feeds \cup Opinions :
         queue[s] = {} /\ queue'[s] \cap seen[s] # {} => s \in excused']_vars

\* Nothing a polled source can see is passed over: a post stays in the server's
\* answers until the source has it in a snapshot, unless the process stops; an
\* opinion may be answered by another source first.
NothingMissed ==
    \A s \in Feeds \cup Opinions, p \in Posts :
        p \in Recent ~> \/ p \in seen[s] \/ p \notin Recent \/ up # "running"
                        \/ s \in Opinions /\ p \in replied

\* An error in a poll or a handler never ends the polling of a source.
KeepsPolling == \A s \in Sources : []<>(pc[s] = "timer" \/ up # "running")
============================================================================
