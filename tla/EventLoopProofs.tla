-------------------------- MODULE EventLoopProofs --------------------------
(***************************************************************************)
(* EventLoop for every set of sources, feed size and number of posts: the   *)
(* type invariant, and that a polled source emits a post again only for a   *)
(* reason.  The argument is about how recent an answer is: what a source    *)
(* has seen is not newer than its snapshot, and an answer that is at least  *)
(* as recent as the snapshot shows nothing older that the snapshot lacks.   *)
(***************************************************************************)
EXTENDS EventLoop, TLAPS

\* What the server returns when v posts were published.
Window(v) == {p \in 1..v : p > v - FeedLimit}

Control ==
    \A s \in Sources :
        /\ pc[s] \notin {"off", "timer"} => s \in seeded
        /\ pc[s] = "stream" => s \in Streams
        /\ pc[s] = "threads" => s \in Opinions
        /\ pc[s] = "fetch" => s \notin Opinions
        /\ pc[s] = "dispatch" => s \in based
        /\ up = "down" => pc[s] = "off"

\* An answer under way, and the cache, are what the server returned then.
AnswerFrom(s) ==
    /\ pc[s] = "threads" => got[s] = Window(asof[s].got)
    /\ pc[s] = "answer" /\ s \notin Opinions => got[s] = Window(asof[s].got)
    /\ pc[s] = "answer" /\ s \in Opinions =>
          got[s] \subseteq Window(asof[s].got) /\ Window(asof[s].got) \ replied \subseteq got[s]

Answers ==
    /\ cache.asof <= posts /\ cache.posts = Window(cache.asof)
    /\ \A s \in Sources : asof[s].got <= posts /\ asof[s].snap <= posts
    /\ \A s \in Sources : AnswerFrom(s)

\* The posts of the snapshot's time that it lacks: those replied to by then.
Lacks(s) == Window(asof[s].snap) \ snap[s]

Memory(s) ==
    /\ seen[s] \subseteq 1..asof[s].snap
    /\ s \in based => Lacks(s) \subseteq (IF s \in Opinions THEN replied ELSE {})
    /\ s \in Opinions /\ s \in based /\ pc[s] = "answer" => got[s] \cap Lacks(s) = {}
    /\ s \notin based /\ seen[s] # {} => mark[s] # 0 /\ (s \notin seeded \/ s \in warm)
    /\ s \in warm /\ s \notin based => pc[s] \notin {"timer", "off"}

Memories == \A s \in Feeds \cup Opinions : s \notin excused => Memory(s)

IInv == TypeOK /\ Control /\ Answers /\ Memories

----------------------------------------------------------------------------
\* Types and control.

LEMMA RecentPosts == TypeOK => Recent \subseteq Posts /\ Recent = Window(posts)
  BY EventLoopAssumption DEF TypeOK, Recent, Posts, Window

LEMMA SourceKinds ==
    /\ Streams \subseteq Sources /\ Feeds \subseteq Sources /\ Opinions \subseteq Sources
    /\ \A s \in Sources : s \in Feeds \cup Opinions <=> s \notin Streams
  BY EventLoopAssumption DEF Sources

LEMMA InitInv == Init => IInv
  <1> SUFFICES ASSUME Init PROVE IInv
    OBVIOUS
  <1>1. TypeOK
    BY EventLoopAssumption, SourceKinds DEF Init, TypeOK, PCs
  <1>2. Control
    BY DEF Init, Control
  <1>3. Answers
    <2>1. Window(0) = {}
      BY DEF Window
    <2> QED BY <2>1 DEF Init, Answers, AnswerFrom
  <1>4. Memories
    BY SourceKinds DEF Init, Memories, Memory
  <1> QED BY <1>1, <1>2, <1>3, <1>4 DEF IInv

\* Receive, in every poll that ends with an answer.
LEMMA ReceiveTypes ==
    ASSUME TypeOK, Control, NEW s \in Sources, NEW S \in SUBSET Posts, NEW v \in 0..MaxPosts,
           pc[s] \notin {"off", "timer"}, Receive(s, S, v)
    PROVE  /\ mark' \in [Sources -> 0..MaxPosts] /\ up' = up
           /\ pc' \in [Sources -> PCs]
           /\ seeded' = seeded /\ warm' = warm /\ based' \subseteq seeded'
           /\ snap' \in [Sources -> SUBSET Posts] /\ queue' \in [Sources -> SUBSET Posts]
           /\ asof' \in [Sources -> [got : 0..MaxPosts, snap : 0..MaxPosts]]
           /\ seen' \in [Sources -> SUBSET Posts]
           /\ excused' \subseteq Sources
           /\ Control'
  <1> USE DEF Receive, Diffed
  <1>0. s \in seeded
    BY DEF Control
  <1>1. mark' \in [Sources -> 0..MaxPosts] /\ up' = up
    BY DEF TypeOK, Newest, Posts
  <1>2. pc' \in [Sources -> PCs]
    BY DEF TypeOK, Rearm, Goto, PCs
  <1>3. seeded' = seeded /\ warm' = warm /\ based' \subseteq seeded'
    BY <1>0 DEF TypeOK
  <1>4. snap' \in [Sources -> SUBSET Posts] /\ queue' \in [Sources -> SUBSET Posts]
    BY DEF TypeOK, Events
  <1>5. asof' \in [Sources -> [got : 0..MaxPosts, snap : 0..MaxPosts]]
    <2>1. asof' = [asof EXCEPT ![s] = [got |-> 0, snap |-> v]]
      OBVIOUS
    <2>2. asof \in [Sources -> [got : 0..MaxPosts, snap : 0..MaxPosts]]
      BY DEF TypeOK
    <2>3. 0 \in 0..MaxPosts
      BY EventLoopAssumption
    <2> HIDE DEF Receive, Diffed
    <2> QED BY <2>1, <2>2, <2>3
  <1>6. seen' \in [Sources -> SUBSET Posts]
    BY DEF TypeOK, Events
  <1>7. excused' \subseteq Sources
    BY DEF TypeOK
  <1>8. Control'
    BY <1>0, <1>3 DEF TypeOK, Control, Rearm, Goto
  <1> QED BY <1>1, <1>2, <1>3, <1>4, <1>5, <1>6, <1>7, <1>8

TC == TypeOK /\ Control

LEMMA TypeStep ==
    ASSUME TC, [Next]_vars
    PROVE  TC'
  <1> USE EventLoopAssumption, SourceKinds DEF TC
  <1>1. ASSUME NEW s \in Sources, StartPoll(s) PROVE TC'
    BY <1>1 DEF StartPoll, Goto, TypeOK, Control, PCs, server, requests, history
  <1>2. ASSUME NEW s \in Sources, CacheHit(s) PROVE TC'
    <2>1. cache.posts \in SUBSET Posts /\ cache.asof \in 0..MaxPosts
      BY DEF TypeOK
    <2>2. pc[s] \notin {"off", "timer"}
      BY <1>2 DEF CacheHit
    <2>3. Receive(s, cache.posts, cache.asof)
      BY <1>2 DEF CacheHit
    <2>4. UNCHANGED <<posts, replied, got, cache, cursor, fails, troubles>>
      BY <1>2 DEF CacheHit, Receive, Diffed, requests, server
    <2> QED BY <2>1, <2>2, <2>3, <2>4, ReceiveTypes DEF TypeOK
  <1>3. ASSUME NEW s \in Sources, CacheMiss(s) PROVE TC'
    BY <1>3 DEF CacheMiss, Goto, TypeOK, Control, PCs, server, loop, requests, history
  <1>4. ASSUME NEW s \in Sources, Answer(s) PROVE TC'
    BY <1>4, RecentPosts DEF Answer, Answered, Goto, TypeOK, Control, PCs, server, loop
  <1>5. ASSUME NEW s \in Sources, AnswerError(s) PROVE TC'
    <2>1. asof' \in [Sources -> [got : 0..MaxPosts, snap : 0..MaxPosts]]
      BY <1>5 DEF AnswerError, Answered, TypeOK
    <2>2. troubles' \in 0..MaxTroubles
      BY <1>5 DEF AnswerError, Trouble, TypeOK
    <2> QED
      BY <1>5, <2>1, <2>2 DEF AnswerError, Answered, Goto, TypeOK, Control, PCs, server, loop
  <1>6. ASSUME NEW s \in Sources, NEW F \in SUBSET got[s], Threads(s, F) PROVE TC'
    BY <1>6 DEF Threads, Trouble, Goto, TypeOK, Control, PCs, server, loop
  <1>7. ASSUME NEW s \in Sources, Arrive(s) PROVE TC'
    <2>1. got[s] \in SUBSET Posts /\ asof[s].got \in 0..MaxPosts
      BY DEF TypeOK
    <2>2. pc[s] \notin {"off", "timer"}
      BY <1>7 DEF Arrive
    <2>3. got' \in [Sources -> SUBSET Posts]
      BY <1>7 DEF Arrive, TypeOK
    <2>4. cache' \in [posts : SUBSET Posts, fresh : BOOLEAN, asof : 0..MaxPosts]
      BY <1>7, <2>1 DEF Arrive, TypeOK
    <2>5. Receive(s, got[s], asof[s].got)
      BY <1>7 DEF Arrive
    <2>6. UNCHANGED <<posts, replied, cursor, fails, troubles>>
      BY <1>7 DEF Arrive, Receive, Diffed, server
    <2> QED BY <2>1, <2>2, <2>3, <2>4, <2>5, <2>6, ReceiveTypes DEF TypeOK
  <1>8. ASSUME NEW s \in Sources, PollThrows(s) PROVE TC'
    BY <1>8 DEF PollThrows, Trouble, Rearm, Goto, TypeOK, Control, PCs, server, loop
  <1>9. ASSUME NEW s \in Sources, NEW p \in queue[s], Handle(s, p) PROVE TC'
    BY <1>9 DEF Handle, TypeOK, Control, requests, history
  <1>10. ASSUME NEW s \in Sources, NEW p \in queue[s], HandleFails(s, p) PROVE TC'
    BY <1>10 DEF HandleFails, Trouble, TypeOK, Control, requests, server, history
  <1>11. ASSUME NEW s \in Sources, Save(s) PROVE TC'
    BY <1>11 DEF Save, Newest, Posts, Rearm, Goto, TypeOK, Control, PCs, server, loop, requests, history
  <1>12. ASSUME NEW s \in Streams, NEW from \in 1..posts + 1, StreamRead(s, from) PROVE TC'
    <2>1. from..posts \in SUBSET Posts /\ posts \in 0..MaxPosts
      BY DEF TypeOK, Posts
    <2>2. pc[s] \notin {"off", "timer"} /\ Receive(s, from..posts, posts)
      BY <1>12 DEF StreamRead
    <2>3. cursor' \in [Streams -> 0..MaxPosts] /\ fails' \in [Streams -> 0..MaxReconnect]
      BY <1>12, <2>1 DEF StreamRead, TypeOK
    <2>4. UNCHANGED <<posts, replied, got, cache, troubles>>
      BY <1>12 DEF StreamRead, Receive, Diffed, server
    <2> QED BY <2>1, <2>2, <2>3, <2>4, ReceiveTypes DEF TypeOK
  <1>13. ASSUME NEW s \in Streams, StreamFails(s) PROVE TC'
    BY <1>13 DEF StreamFails, Trouble, Goto, TypeOK, Control, PCs, server, loop, history
  <1>14. ASSUME NEW s \in Streams, StreamSkipped(s) PROVE TC'
    BY <1>14 DEF StreamSkipped, Goto, TypeOK, Control, PCs, server, loop, requests, history
  <1>15. CASE ExpireCache
    BY <1>15 DEF ExpireCache, TypeOK, Control, server, loop, history
  <1>16. CASE Publish
    BY <1>16 DEF Publish, TypeOK, Control, loop, requests, history
  <1>17. CASE Stop
    BY <1>17 DEF Stop, Trouble, TypeOK, Control, PCs, server, loop, requests, history
  <1>18. ASSUME Exit, troubles' \in 0..MaxTroubles PROVE TC'
    BY <1>18 DEF Exit, TypeOK, Control, PCs, server
  <1>19. CASE Exits
    BY <1>18, <1>19 DEF Exits, TypeOK
  <1>20. CASE Crash
    BY <1>18, <1>20 DEF Crash, Trouble, TypeOK
  <1>21. CASE Restart
    BY <1>21 DEF Restart, TypeOK, Control, PCs, server, loop, requests, history
  <1>22. CASE UNCHANGED vars
    BY <1>22 DEF vars, server, loop, requests, history, TypeOK, Control
  <1> HIDE DEF TC
  <1> QED
    BY <1>1, <1>2, <1>3, <1>4, <1>5, <1>6, <1>7, <1>8, <1>9, <1>10, <1>11, <1>12, <1>13,
       <1>14, <1>15, <1>16, <1>17, <1>19, <1>20, <1>21, <1>22
    DEF Next, Step, StreamStep

\* The state of the event runner is well typed, whatever the sources.
THEOREM EventLoopTypeOK == Spec => []TypeOK
  <1>1. Init => TC
    BY InitInv DEF IInv, TC
  <1>2. TC /\ [Next]_vars => TC'
    BY TypeStep
  <1>3. TC => TypeOK
    BY DEF TC
  <1> QED BY <1>1, <1>2, <1>3, PTL DEF Spec

----------------------------------------------------------------------------
\* Answers.

LEMMA Windows ==
    ASSUME NEW u \in Nat, NEW v \in Nat
    PROVE  /\ Window(0) = {} /\ Window(v) \subseteq 1..v
           /\ u <= v => \A p \in Window(v) : p <= u => p \in Window(u)
  BY EventLoopAssumption DEF Window

LEMMA AnswersStep ==
    ASSUME IInv, [Next]_vars
    PROVE  Answers'
  <1> USE EventLoopAssumption, SourceKinds
  <1>0. TypeOK /\ Control /\ Answers
    BY DEF IInv
  <1>a. posts \in Nat /\ posts' \in Nat /\ posts <= posts' /\ Window(0) = {}
    <2>1. TypeOK'
      BY TypeStep DEF TC, IInv
    <2>2. posts \in Nat /\ posts' \in Nat
      BY <1>0, <2>1 DEF TypeOK
    <2>3. posts <= posts'
      BY <2>2 DEF Next, Step, StreamStep, vars, server, StartPoll, CacheHit, CacheMiss, Answer,
          AnswerError, Answered, Threads, Arrive, PollThrows, Handle, HandleFails, Save,
          StreamRead, StreamFails, StreamSkipped, Receive, Diffed, ExpireCache, Publish, Stop,
          Exits, Crash, Exit, Restart
    <2> QED BY <2>2, <2>3, Windows
  \* The answer of a source is as it was, or there is none under way.
  <1>b. ASSUME NEW t \in Sources, replied \subseteq replied',
              \/ got'[t] = got[t] /\ pc'[t] = pc[t] /\ asof'[t].got = asof[t].got
              \/ pc'[t] \notin {"threads", "answer"}
        PROVE AnswerFrom(t)'
    BY <1>0, <1>b DEF Answers, AnswerFrom, Window
  <1>1. ASSUME NEW s \in Sources, StartPoll(s) PROVE Answers'
    <2>1. \A t \in Sources : AnswerFrom(t)'
      BY <1>b, <1>1, <1>0 DEF StartPoll, Goto, TypeOK, server, requests, history
    <2> QED BY <1>0, <1>1, <2>1 DEF StartPoll, Answers, Window, server, requests, history
  <1>2. ASSUME NEW s \in Sources, NEW S, NEW v \in 0..MaxPosts, Receive(s, S, v), v <= posts,
              got' = [got EXCEPT ![s] = {}] \/ got' = got
        PROVE  /\ \A t \in Sources : AnswerFrom(t)'
               /\ \A t \in Sources : asof'[t].got <= posts' /\ asof'[t].snap <= posts'
    <2>1. pc' = [pc EXCEPT ![s] = pc'[s]] /\ pc'[s] \in {"timer", "off", "dispatch"}
      BY <1>0, <1>2 DEF Receive, Diffed, Rearm, Goto, TypeOK
    <2>2. asof' = [asof EXCEPT ![s] = [got |-> 0, snap |-> v]] /\ UNCHANGED <<posts, replied>>
      BY <1>2 DEF Receive, Diffed, server
    <2>3. \A t \in Sources : AnswerFrom(t)'
      BY <1>b, <1>0, <1>2, <2>1, <2>2 DEF TypeOK
    <2>4. \A t \in Sources : asof'[t].got <= posts' /\ asof'[t].snap <= posts'
      BY <1>0, <1>2, <1>a, <2>2 DEF TypeOK, Answers
    <2> QED BY <2>3, <2>4
  <1>3. ASSUME NEW s \in Sources, CacheHit(s) PROVE Answers'
    <2>1. cache.asof \in 0..MaxPosts /\ cache.asof <= posts
      BY <1>0 DEF TypeOK, Answers
    <2>2. Receive(s, cache.posts, cache.asof) /\ UNCHANGED <<got, cache>>
      BY <1>3 DEF CacheHit, requests
    <2>3. UNCHANGED posts
      BY <2>2 DEF Receive, Diffed, server
    <2> QED BY <1>0, <1>2, <2>1, <2>2, <2>3 DEF Answers, Window
  <1>4. ASSUME NEW s \in Sources, CacheMiss(s) PROVE Answers'
    <2>1. \A t \in Sources : AnswerFrom(t)'
      BY <1>b, <1>4, <1>0 DEF CacheMiss, Goto, TypeOK, server, requests, history
    <2> QED BY <1>0, <1>4, <2>1 DEF CacheMiss, Answers, Window, server, requests, history
  <1>5. ASSUME NEW s \in Sources, NEW v \in 0..posts, Answered(s, Window(v), v) PROVE Answers'
    <2>1. /\ got' = [got EXCEPT ![s] = Window(v)] /\ asof' = [asof EXCEPT ![s].got = v]
          /\ pc' = [pc EXCEPT ![s] = IF s \in Opinions THEN "threads" ELSE "answer"]
          /\ UNCHANGED <<posts, replied, cache>>
      BY <1>5 DEF Answered, Goto, server
    <2>2. AnswerFrom(s)'
      BY <1>0, <2>1 DEF TypeOK, AnswerFrom, Window
    <2>3. \A t \in Sources : t # s => AnswerFrom(t)'
      BY <1>b, <1>0, <2>1 DEF TypeOK
    <2>4. \A t \in Sources : asof'[t].got <= posts' /\ asof'[t].snap <= posts'
      BY <1>0, <1>a, <2>1 DEF TypeOK, Answers
    <2> QED BY <1>0, <2>1, <2>2, <2>3, <2>4 DEF Answers, Window
  <1>6. ASSUME NEW s \in Sources, Answer(s) PROVE Answers'
    BY <1>0, <1>a, <1>5, <1>6, RecentPosts DEF Answer
  <1>7. ASSUME NEW s \in Sources, AnswerError(s) PROVE Answers'
    BY <1>a, <1>5, <1>7 DEF AnswerError
  <1>8. ASSUME NEW s \in Sources, NEW F \in SUBSET got[s], Threads(s, F) PROVE Answers'
    <2>1. /\ got' = [got EXCEPT ![s] = (got[s] \ replied) \cup F]
          /\ pc' = [pc EXCEPT ![s] = "answer"]
          /\ UNCHANGED <<posts, replied, cache, asof>>
      BY <1>8 DEF Threads, Goto, server
    <2>2. s \in Opinions /\ got[s] = Window(asof[s].got)
      BY <1>0, <1>8 DEF Threads, Control, Answers, AnswerFrom
    <2>3. AnswerFrom(s)'
      BY <1>0, <2>1, <2>2 DEF TypeOK, AnswerFrom, Window
    <2>4. \A t \in Sources : t # s => AnswerFrom(t)'
      BY <1>b, <1>0, <2>1 DEF TypeOK
    <2> QED BY <1>0, <2>1, <2>3, <2>4 DEF Answers, Window
  <1>9. ASSUME NEW s \in Sources, Arrive(s) PROVE Answers'
    <2>1. asof[s].got \in 0..MaxPosts /\ asof[s].got <= posts
      BY <1>0 DEF TypeOK, Answers
    <2>2. Receive(s, got[s], asof[s].got) /\ got' = [got EXCEPT ![s] = {}]
      BY <1>9 DEF Arrive
    <2>3. UNCHANGED posts
      BY <2>2 DEF Receive, Diffed, server
    <2>4. cache'.asof <= posts' /\ cache'.posts = Window(cache'.asof)
      <3>1. CASE s \in Opinions
        BY <3>1, <1>0, <1>9, <2>3 DEF Arrive, Answers
      <3>2. CASE s \notin Opinions
        <4>1. cache' = [posts |-> got[s], fresh |-> TRUE, asof |-> asof[s].got]
          BY <3>2, <1>9 DEF Arrive
        <4>2. got[s] = Window(asof[s].got)
          BY <3>2, <1>0, <1>9 DEF Arrive, Answers, AnswerFrom
        <4> QED BY <4>1, <4>2, <2>1, <2>3
      <3> QED BY <3>1, <3>2
    <2> QED BY <1>2, <2>1, <2>2, <2>4 DEF Answers, Window
  <1>10. ASSUME NEW s \in Sources, PollThrows(s) PROVE Answers'
    <2>1. /\ got' = [got EXCEPT ![s] = {}]
          /\ pc' = [pc EXCEPT ![s] = pc'[s]] /\ pc'[s] \in {"timer", "off"}
          /\ UNCHANGED <<posts, replied, cache, asof>>
      BY <1>0, <1>10 DEF PollThrows, Rearm, Goto, server, TypeOK
    <2>2. \A t \in Sources : AnswerFrom(t)'
      BY <1>b, <1>0, <2>1 DEF TypeOK
    <2> QED BY <1>0, <2>1, <2>2 DEF Answers, Window
  <1>11. ASSUME NEW s \in Sources, NEW p \in queue[s], Handle(s, p) \/ HandleFails(s, p)
         PROVE  Answers'
    <2>1. UNCHANGED <<posts, pc, got, cache, asof>> /\ replied \subseteq replied'
      BY <1>11 DEF Handle, HandleFails, requests, server, history
    <2>2. \A t \in Sources : AnswerFrom(t)'
      BY <1>b, <2>1
    <2> QED BY <1>0, <2>1, <2>2 DEF Answers, Window
  <1>12. ASSUME NEW s \in Sources, Save(s) PROVE Answers'
    <2>1. /\ pc' = [pc EXCEPT ![s] = pc'[s]] /\ pc'[s] \in {"timer", "off"}
          /\ UNCHANGED <<posts, replied, got, cache, asof>>
      BY <1>0, <1>12 DEF Save, Rearm, Goto, server, requests, history, TypeOK
    <2>2. \A t \in Sources : AnswerFrom(t)'
      BY <1>b, <1>0, <2>1 DEF TypeOK
    <2> QED BY <1>0, <2>1, <2>2 DEF Answers, Window
  <1>13. ASSUME NEW s \in Streams, NEW from \in 1..posts + 1, StreamRead(s, from) PROVE Answers'
    <2>1. posts \in 0..MaxPosts /\ posts <= posts
      BY <1>0 DEF TypeOK
    <2>2. Receive(s, from..posts, posts) /\ UNCHANGED <<got, cache>>
      BY <1>13 DEF StreamRead
    <2>3. UNCHANGED posts
      BY <2>2 DEF Receive, Diffed, server
    <2> QED BY <1>0, <1>2, <2>1, <2>2, <2>3 DEF Answers, Window
  <1>14. ASSUME NEW s \in Streams, StreamFails(s) \/ StreamSkipped(s) PROVE Answers'
    <2>1. /\ pc' = [pc EXCEPT ![s] = "fetch"]
          /\ UNCHANGED <<posts, replied, got, cache, asof>>
      BY <1>14 DEF StreamFails, StreamSkipped, Goto, server, requests, history
    <2>2. \A t \in Sources : AnswerFrom(t)'
      BY <1>b, <1>0, <2>1 DEF TypeOK
    <2> QED BY <1>0, <2>1, <2>2 DEF Answers, Window
  <1>15. CASE ExpireCache
    <2>1. /\ UNCHANGED <<posts, replied, pc, got, asof>>
          /\ cache'.asof = cache.asof /\ cache'.posts = cache.posts
      BY <1>0, <1>15 DEF ExpireCache, server, history, TypeOK
    <2>2. \A t \in Sources : AnswerFrom(t)'
      BY <1>b, <2>1
    <2> QED BY <1>0, <2>1, <2>2 DEF Answers, Window
  <1>16. CASE Publish
    <2>1. UNCHANGED <<replied, pc, got, cache, asof>>
      BY <1>16 DEF Publish, requests, history
    <2>2. \A t \in Sources : AnswerFrom(t)'
      BY <1>b, <2>1
    <2>3. cache'.asof <= posts' /\ (\A t \in Sources : asof'[t].got <= posts' /\ asof'[t].snap <= posts')
      BY <1>0, <1>a, <2>1 DEF Answers, TypeOK
    <2> QED BY <1>0, <2>1, <2>2, <2>3 DEF Answers, Window
  <1>17. CASE Stop
    <2>1. UNCHANGED <<posts, replied, got, cache, asof>>
      BY <1>17 DEF Stop, server, requests, history
    <2>2. \A t \in Sources : AnswerFrom(t)'
      BY <1>b, <1>17, <2>1 DEF Stop
    <2> QED BY <1>0, <2>1, <2>2 DEF Answers, Window
  <1>18. CASE Exit
    <2>1. /\ UNCHANGED <<posts, replied, asof>> /\ pc' = [s \in Sources |-> "off"]
          /\ cache' = [posts |-> {}, fresh |-> FALSE, asof |-> 0]
      BY <1>18 DEF Exit, server
    <2>2. \A t \in Sources : AnswerFrom(t)'
      BY <1>b, <2>1
    <2>3. cache'.asof <= posts' /\ cache'.posts = Window(cache'.asof)
      BY <1>a, <2>1
    <2> QED BY <1>0, <2>1, <2>2, <2>3 DEF Answers, Window
  <1>19. CASE Restart
    <2>1. UNCHANGED <<posts, replied, got, cache, asof>> /\ pc' = [s \in Sources |-> "timer"]
      BY <1>19 DEF Restart, server, requests, history
    <2>2. \A t \in Sources : AnswerFrom(t)'
      BY <1>b, <2>1
    <2> QED BY <1>0, <2>1, <2>2 DEF Answers, Window
  <1>20. CASE UNCHANGED vars
    <2>1. UNCHANGED <<posts, replied, pc, got, cache, asof>>
      BY <1>20 DEF vars, server, requests, history
    <2>2. \A t \in Sources : AnswerFrom(t)'
      BY <1>b, <2>1
    <2> QED BY <1>0, <2>1, <2>2 DEF Answers, Window
  <1> QED
    BY <1>1, <1>3, <1>4, <1>6, <1>7, <1>8, <1>9, <1>10, <1>11, <1>12, <1>13, <1>14, <1>15,
       <1>16, <1>17, <1>18, <1>19, <1>20
    DEF Next, Step, StreamStep, Exits, Crash

----------------------------------------------------------------------------
\* What a polled source remembers.

\* The step hands source t nothing it has seen, and leaves its memory right.
Good(t) ==
    t \notin excused' => Memory(t)' /\ (queue[t] = {} => queue'[t] \cap seen[t] = {})

\* The step is none of t's.
Untouched(t) ==
    /\ seen'[t] = seen[t] /\ asof'[t].snap = asof[t].snap /\ snap'[t] = snap[t]
    /\ got'[t] = got[t] /\ queue'[t] \subseteq queue[t] /\ mark'[t] = mark[t] /\ pc'[t] = pc[t]
    /\ (t \in based' <=> t \in based) /\ (t \in warm' <=> t \in warm)
    /\ (t \in seeded' <=> t \in seeded)
    /\ replied \subseteq replied' /\ excused \subseteq excused'

Polled == Feeds \cup Opinions

LEMMA UntouchedGood ==
    ASSUME Memories, NEW t \in Polled, Untouched(t)
    PROVE  Good(t)
  BY DEF Polled, Memories, Memory, Untouched, Good, Lacks, Window

\* A source's answer, at least as recent as its snapshot, brings nothing back.
LEMMA ReceiveGood ==
    ASSUME IInv, NEW s \in Polled, NEW S \in SUBSET Posts, NEW v \in 0..MaxPosts,
           Receive(s, S, v), pc[s] \in {"fetch", "answer"},
           S \subseteq Window(v), s \in Feeds => S = Window(v),
           s \in Opinions => Window(v) \ replied \subseteq S /\ pc[s] = "answer" /\ S = got[s]
    PROVE  Good(s)
  <1> SUFFICES ASSUME s \notin excused'
               PROVE  Memory(s)' /\ (queue[s] = {} => queue'[s] \cap seen[s] = {})
    BY DEF Good
  <1> DEFINE events == IF s \in warm THEN {} ELSE Events(s, S)
             baseline == s \in warm \/ (s \notin based /\ s \in Streams)
             u == asof[s].snap
  <1>0. s \in Sources /\ s \notin Streams /\ (s \in Feeds <=> s \notin Opinions)
    BY EventLoopAssumption DEF Polled, Sources
  <1>1. TypeOK /\ Control /\ u \in Nat /\ v \in Nat
    BY <1>0, EventLoopAssumption DEF IInv, TypeOK
  <1>2. /\ based' = based \cup {s} /\ queue' = [queue EXCEPT ![s] = events]
        /\ snap' = [snap EXCEPT ![s] = S] /\ replied' = replied
        /\ seen' = [seen EXCEPT ![s] = seen[s] \cup events \cup (IF baseline THEN S ELSE {})]
        /\ asof' = [asof EXCEPT ![s] = [got |-> 0, snap |-> v]]
        /\ excused' = IF v < u THEN excused \cup {s} ELSE excused
        /\ (IF events = {} THEN Rearm(s) ELSE Goto(s, "dispatch"))
    BY DEF Receive, Diffed, server
  <1>3. u <= v /\ s \notin excused
    BY <1>1, <1>2
  <1>4. Memory(s)
    BY <1>3 DEF IInv, Memories, Polled
  <1>5. pc'[s] \notin {"fetch", "answer"}
    BY <1>0, <1>1, <1>2 DEF Rearm, Goto, TypeOK
  <1>6. events \subseteq S
    BY DEF Events
  <1>7. queue'[s] = events /\ seen'[s] = seen[s] \cup events \cup (IF baseline THEN S ELSE {})
    BY <1>0, <1>1, <1>2 DEF TypeOK
  <1>8. snap'[s] = S /\ asof'[s].snap = v
    BY <1>0, <1>1, <1>2 DEF TypeOK
  <1> HIDE DEF events, baseline
  <1>9. seen'[s] \subseteq 1..asof'[s].snap
    <2>1. seen[s] \subseteq 1..u
      BY <1>4 DEF Memory
    <2>2. S \subseteq 1..v
      BY <1>1, Windows
    <2>3. 1..u \subseteq 1..v
      BY <1>1, <1>3
    <2>4. seen'[s] \subseteq 1..v
      BY <1>6, <1>7, <2>1, <2>2, <2>3
    <2> QED BY <1>8, <2>4
  <1>10. Lacks(s)' \subseteq (IF s \in Opinions THEN replied' ELSE {})
    <2>1. Lacks(s)' = Window(v) \ S
      BY <1>8 DEF Lacks, Window
    <2> QED BY <1>0, <1>2, <2>1 DEF Polled
  <1>11. Memory(s)'
    BY <1>2, <1>5, <1>9, <1>10 DEF Memory
  <1>12. ASSUME queue[s] = {}, NEW p \in events, p \in seen[s] PROVE FALSE
    <2>1. s \notin warm /\ p \in S /\ (s \in based => p \notin snap[s])
      BY <1>12 DEF events, Events
    <2>2. p \in Window(u)
      <3>1. p \in Window(v)
        BY <2>1
      <3>2. p <= u
        BY <1>1, <1>4, <1>12 DEF Memory
      <3> QED BY <3>1, <3>2, <1>1, <1>3, Windows
    <2>3. s \in seeded
      BY <1>0, <1>1 DEF Control
    <2>4. s \in based
      BY <1>4, <1>12, <2>1, <2>3 DEF Memory
    <2>5. p \in Lacks(s)
      BY <2>1, <2>2, <2>4 DEF Lacks
    <2> QED BY <1>0, <1>4, <2>1, <2>4, <2>5 DEF Memory
  <1> QED BY <1>7, <1>11, <1>12

LEMMA MemoriesStep ==
    ASSUME IInv, [Next]_vars
    PROVE  \A t \in Polled : Good(t)
  <1> USE SourceKinds, UntouchedGood
  <1>0. TypeOK /\ Control /\ Answers /\ Memories
    BY DEF IInv
  <1>a. \A t \in Polled : t \in Sources /\ t \notin Streams
    BY DEF Polled
  \* An answer concerns its own source only.
  <1>b. ASSUME NEW s \in Sources, NEW S, NEW v, Receive(s, S, v),
              got' = got \/ got' = [got EXCEPT ![s] = {}]
        PROVE \A t \in Polled : t # s => Untouched(t)
    <2>1. pc' = [pc EXCEPT ![s] = pc'[s]]
      BY <1>b, <1>0 DEF Receive, Diffed, Rearm, Goto, TypeOK
    <2>2. \A t \in Sources : t # s => mark'[t] = mark[t]
      BY <1>b, <1>0 DEF Receive, Diffed, TypeOK
    <2>3. excused \subseteq excused' /\ replied' = replied
      BY <1>b DEF Receive, Diffed, server
    <2> QED BY <1>a, <1>b, <1>0, <2>1, <2>2, <2>3 DEF Receive, Diffed, Untouched, TypeOK
  <1>1. ASSUME NEW s \in Sources, StartPoll(s) PROVE \A t \in Polled : Good(t)
    <2>1. \A t \in Polled : t # s => Untouched(t)
      BY <1>a, <1>0, <1>1 DEF StartPoll, Goto, Untouched, TypeOK, server, requests, history
    <2>2. ASSUME s \in Polled PROVE Good(s)
      <3>1. s \notin Streams /\ pc'[s] \in {"request", "fetch"}
        BY <1>a, <2>2, <1>0, <1>1 DEF StartPoll, Goto, TypeOK
      <3>2. UNCHANGED <<replied, mark, based, snap, queue, got, asof, seen, excused>>
        BY <1>1 DEF StartPoll, server, requests, history
      <3>3. s \notin seeded /\ mark[s] # 0 => s \in warm'
        BY <1>1 DEF StartPoll
      <3>4. pc[s] = "timer"
        BY <1>1 DEF StartPoll
      <3> QED BY <1>0, <2>2, <3>1, <3>2, <3>3, <3>4 DEF Polled, Memories, Memory, Good, Lacks, Window, TypeOK
    <2> QED BY <2>1, <2>2, <1>0
  <1>2. ASSUME NEW s \in Sources, CacheHit(s) PROVE \A t \in Polled : Good(t)
    <2>1. Receive(s, cache.posts, cache.asof) /\ got' = got /\ pc[s] = "fetch"
      BY <1>2 DEF CacheHit, requests
    <2>2. ASSUME s \in Polled PROVE Good(s)
      <3>1. cache.posts \in SUBSET Posts /\ cache.asof \in 0..MaxPosts
        BY <1>0 DEF TypeOK
      <3>2. cache.posts = Window(cache.asof)
        BY <1>0 DEF Answers
      <3>3. s \notin Opinions
        BY <1>0, <2>1 DEF Control
      <3> QED BY <2>1, <2>2, <3>1, <3>2, <3>3, ReceiveGood
    <2> QED BY <1>b, <2>1, <2>2, <1>0
  <1>3. ASSUME NEW s \in Sources, CacheMiss(s) PROVE \A t \in Polled : Good(t)
    <2>1. \A t \in Polled : t # s => Untouched(t)
      BY <1>a, <1>0, <1>3 DEF CacheMiss, Goto, Untouched, TypeOK, server, loop, requests, history
    <2>2. ASSUME s \in Polled PROVE Good(s)
      <3>1. pc'[s] = "request" /\ UNCHANGED <<replied, mark, loop, got, asof, seen, excused>>
        BY <1>0, <1>3 DEF CacheMiss, Goto, TypeOK, server, requests, history
      <3> QED BY <1>0, <2>2, <3>1 DEF Polled, Memories, Memory, Good, Lacks, Window, loop
    <2> QED BY <2>1, <2>2, <1>0
  <1>4. ASSUME NEW s \in Sources, NEW S, NEW v, Answered(s, S, v) PROVE \A t \in Polled : Good(t)
    <2>1. /\ got' = [got EXCEPT ![s] = S] /\ asof' = [asof EXCEPT ![s].got = v]
          /\ pc' = [pc EXCEPT ![s] = IF s \in Opinions THEN "threads" ELSE "answer"]
          /\ UNCHANGED <<replied, mark, loop, seen, excused>>
      BY <1>4 DEF Answered, Goto, server
    <2>2. \A t \in Sources : asof'[t].snap = asof[t].snap
      BY <1>0, <2>1 DEF TypeOK
    <2>3. \A t \in Polled : t # s => Untouched(t)
      BY <1>a, <1>0, <2>1, <2>2 DEF Untouched, TypeOK, loop
    <2>4. ASSUME s \in Polled PROVE Good(s)
      <3>1. s \in Opinions => pc'[s] # "answer"
        BY <1>0, <2>1 DEF TypeOK
      <3>2. pc'[s] \notin {"timer", "off"}
        BY <1>0, <2>1 DEF TypeOK
      <3> QED BY <1>0, <2>4, <2>1, <2>2, <3>1, <3>2 DEF Polled, Memories, Memory, Good, Lacks, Window, loop
    <2> QED BY <2>3, <2>4, <1>0
  <1>5. ASSUME NEW s \in Sources, NEW F \in SUBSET got[s], Threads(s, F)
        PROVE  \A t \in Polled : Good(t)
    <2>1. /\ got' = [got EXCEPT ![s] = (got[s] \ replied) \cup F]
          /\ pc' = [pc EXCEPT ![s] = "answer"]
          /\ UNCHANGED <<replied, mark, loop, asof, seen>>
      BY <1>5 DEF Threads, Goto, server
    <2>2. excused \subseteq excused' /\ (F # {} => s \in excused')
      BY <1>5 DEF Threads
    <2>3. \A t \in Polled : t # s => Untouched(t)
      BY <1>a, <1>0, <2>1, <2>2 DEF Untouched, TypeOK, loop
    <2>4. ASSUME s \in Polled PROVE Good(s)
      <3>1. pc'[s] = "answer" /\ got'[s] = (got[s] \ replied) \cup F
        BY <1>0, <2>1 DEF TypeOK
      <3> QED BY <1>0, <2>4, <2>1, <2>2, <3>1 DEF Polled, Memories, Memory, Good, Lacks, Window, loop
    <2> QED BY <2>3, <2>4, <1>0
  <1>6. ASSUME NEW s \in Sources, Arrive(s) PROVE \A t \in Polled : Good(t)
    <2>1. Receive(s, got[s], asof[s].got) /\ got' = [got EXCEPT ![s] = {}] /\ pc[s] = "answer"
      BY <1>6 DEF Arrive
    <2>2. ASSUME s \in Polled PROVE Good(s)
      <3>1. got[s] \in SUBSET Posts /\ asof[s].got \in 0..MaxPosts
        BY <1>0 DEF TypeOK
      <3>2. AnswerFrom(s)
        BY <1>0 DEF Answers
      <3>3. s \in Feeds => s \notin Opinions
        BY EventLoopAssumption
      <3> QED BY <2>1, <2>2, <3>1, <3>2, <3>3, ReceiveGood DEF AnswerFrom, Polled
    <2> QED BY <1>b, <2>1, <2>2, <1>0
  <1>7. ASSUME NEW s \in Sources, PollThrows(s) PROVE \A t \in Polled : Good(t)
    <2>1. /\ got' = [got EXCEPT ![s] = {}]
          /\ pc' = [pc EXCEPT ![s] = pc'[s]] /\ pc'[s] \in {"timer", "off"}
          /\ UNCHANGED <<replied, mark, loop, asof, seen>>
          /\ excused' = IF s \in warm THEN excused \cup {s} ELSE excused
      BY <1>0, <1>7 DEF PollThrows, Rearm, Goto, server, TypeOK
    <2>2. \A t \in Polled : t # s => Untouched(t)
      BY <1>a, <1>0, <2>1 DEF Untouched, TypeOK, loop
    <2>3. ASSUME s \in Polled PROVE Good(s)
      BY <1>0, <2>3, <2>1 DEF Polled, Memories, Memory, Good, Lacks, Window, loop
    <2> QED BY <2>2, <2>3, <1>0
  <1>8. ASSUME NEW s \in Sources, NEW p \in queue[s], Handle(s, p) \/ HandleFails(s, p)
        PROVE  \A t \in Polled : Good(t)
    <2>1. queue' = [queue EXCEPT ![s] = queue[s] \ {p}] /\ replied \subseteq replied'
      BY <1>8 DEF Handle, HandleFails, server
    <2>2. UNCHANGED <<mark, pc, seeded, warm, based, snap, got, asof, seen, excused>>
      BY <1>8 DEF Handle, HandleFails, requests, history
    <2>3. \A t \in Polled : Untouched(t)
      BY <1>a, <1>0, <2>1, <2>2 DEF Untouched, TypeOK
    <2> QED BY <2>3, <1>0
  <1>9. ASSUME NEW s \in Sources, Save(s) PROVE \A t \in Polled : Good(t)
    <2>1. PICK p \in Newest(snap[s]) : mark' = [mark EXCEPT ![s] = p]
      BY <1>9 DEF Save
    <2>2. /\ pc[s] = "dispatch" /\ pc' = [pc EXCEPT ![s] = pc'[s]] /\ pc'[s] \in {"timer", "off"}
          /\ UNCHANGED <<replied, loop, got, asof, seen, excused>>
      BY <1>0, <1>9 DEF Save, Rearm, Goto, server, requests, history, TypeOK
    <2>3. \A t \in Polled : t # s => Untouched(t)
      BY <1>a, <1>0, <2>1, <2>2 DEF Untouched, TypeOK, loop
    <2>4. ASSUME s \in Polled PROVE Good(s)
      <3>1. s \in based
        BY <1>0, <2>2 DEF Control
      <3> QED BY <1>0, <2>4, <2>2, <3>1 DEF Polled, Memories, Memory, Good, Lacks, Window, loop
    <2> QED BY <2>3, <2>4, <1>0
  <1>10. ASSUME NEW s \in Streams, NEW from \in 1..posts + 1, StreamRead(s, from)
         PROVE  \A t \in Polled : Good(t)
    <2>1. Receive(s, from..posts, posts) /\ got' = got
      BY <1>10 DEF StreamRead
    <2> QED BY <1>a, <1>b, <2>1, <1>0
  <1>11. ASSUME NEW s \in Streams, StreamFails(s) \/ StreamSkipped(s)
         PROVE  \A t \in Polled : Good(t)
    <2>1. /\ pc' = [pc EXCEPT ![s] = "fetch"]
          /\ UNCHANGED <<replied, mark, loop, got, asof, seen, excused>>
      BY <1>11 DEF StreamFails, StreamSkipped, Goto, server, requests, history
    <2>2. \A t \in Polled : Untouched(t)
      BY <1>a, <1>0, <2>1 DEF Untouched, TypeOK, loop
    <2> QED BY <2>2, <1>0
  <1>12. CASE ExpireCache \/ Publish \/ UNCHANGED vars
    <2>1. UNCHANGED <<replied, mark, pc, loop, got, asof, seen, excused>>
      BY <1>12 DEF ExpireCache, Publish, vars, server, requests, history
    <2>2. \A t \in Polled : Untouched(t)
      BY <2>1 DEF Untouched, loop
    <2> QED BY <2>2, <1>0
  <1>13. CASE Stop
    <2>1. /\ pc' = [s \in Sources |-> IF pc[s] = "timer" THEN "off" ELSE pc[s]]
          /\ UNCHANGED <<replied, mark, loop, got, asof, seen, excused>>
      BY <1>13 DEF Stop, server, requests, history
    <2>2. ASSUME NEW t \in Polled PROVE Good(t)
      <3>1. pc'[t] = IF pc[t] = "timer" THEN "off" ELSE pc[t]
        BY <1>a, <2>1
      <3> QED BY <1>0, <2>1, <3>1 DEF Polled, Memories, Memory, Good, Lacks, Window, loop
    <2> QED BY <2>2
  <1>14. CASE Exit
    <2>1. /\ UNCHANGED <<replied, mark, asof, seen>>
          /\ seeded' = {} /\ warm' = {} /\ based' = {}
          /\ queue' = [s \in Sources |-> {}] /\ excused' = excused \cup {s \in Sources : mark[s] = 0}
      BY <1>14 DEF Exit, server
    <2> QED BY <1>a, <1>0, <2>1 DEF Polled, Memories, Memory, Good, Lacks, Window
  <1>15. CASE Restart
    <2>1. /\ up = "down" /\ pc' = [s \in Sources |-> "timer"]
          /\ UNCHANGED <<replied, mark, loop, got, asof, seen, excused>>
      BY <1>15 DEF Restart, server, requests, history
    <2>2. \A t \in Polled : pc[t] = "off"
      BY <1>a, <1>0, <2>1 DEF Control
    <2>3. \A t \in Polled : pc'[t] = "timer"
      BY <1>a, <2>1
    <2> QED BY <1>0, <2>1, <2>2, <2>3 DEF Polled, Memories, Memory, Good, Lacks, Window, loop
  <1> QED
    BY <1>1, <1>2, <1>3, <1>4, <1>5, <1>6, <1>7, <1>8, <1>9, <1>10, <1>11, <1>12, <1>13,
       <1>14, <1>15
    DEF Next, Step, StreamStep, Answer, AnswerError, Exits, Crash

LEMMA InvStep == IInv /\ [Next]_vars => IInv'
  <1> SUFFICES ASSUME IInv, [Next]_vars PROVE IInv'
    OBVIOUS
  <1>1. TypeOK' /\ Control'
    BY TypeStep DEF TC, IInv
  <1>2. Answers'
    BY AnswersStep
  <1>3. Memories'
    BY MemoriesStep DEF Memories, Good, Polled
  <1> QED BY <1>1, <1>2, <1>3 DEF IInv

\* What the sources know of each other's answers and of their own is right in
\* every state, whatever the sources, the faults and the number of posts.
THEOREM EventLoopInvariant == Spec => []IInv
  BY InitInv, InvStep, PTL DEF Spec

\* A polled source hands a post to the handlers again only for a reason.
THEOREM EventLoopRepeatsExplained == Spec => RepeatsExplained
  <1>1. IInv /\ [Next]_vars =>
          [\A s \in Feeds \cup Opinions :
             queue[s] = {} /\ queue'[s] \cap seen[s] # {} => s \in excused']_vars
    BY MemoriesStep DEF Good, Polled
  <1> QED BY <1>1, EventLoopInvariant, PTL DEF Spec, RepeatsExplained

============================================================================
