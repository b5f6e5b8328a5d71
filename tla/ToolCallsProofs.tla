--------------------------- MODULE ToolCallsProofs ---------------------------
(***************************************************************************)
(* Theorems about ToolCalls for every number of sessions, every limit and    *)
(* cool-down, with all its faults: types, the limits of the log, and whom a  *)
(* refused entry is owed to.                                                 *)
(***************************************************************************)
EXTENDS ToolCalls, FiniteSetTheorems, TLAPS

\* Numbers of transactions count them.
Numbered ==
    /\ IsFiniteSet(landed)
    /\ \A t \in landed : t.id <= Cardinality(landed)

\* A transaction is recorded by one call and refused once.
Owned ==
    /\ \A s, t \in Sessions :
          s # t /\ call[s].pc = "record" /\ call[t].pc = "record" => call[s].entry # call[t].entry
    /\ \A r \in refused, s \in Sessions : call[s].pc = "record" => call[s].entry # r.tx

\* As long as the log is the one a call has checked, it allows the call.
StillAllowed ==
    \A s \in Sessions :
        call[s].pc \in {"send", "record"} /\ log = call[s].seen => Allowed(call[s].what, log)

\* What has refused a call of a session was there for its later calls to see.
SeenSince ==
    \A r \in refused, s \in Sessions :
        r.by = s /\ call[s].pc \in {"send", "record"} => r.over \subseteq call[s].seen

IInv == TypeOK /\ Numbered /\ Owned /\ RecordedWithinLimit /\ StillAllowed /\ SeenSince /\ RefusedForOthers

----------------------------------------------------------------------------
LEMMA Numbers ==
    ASSUME TypeOK, Numbered
    PROVE  /\ clock \in Nat /\ Cardinality(landed) \in Nat
           /\ \A t \in landed : t.id \in Nat /\ t.at \in Nat /\ t.what \in Things
BY ToolAssumption, FS_CardinalityType DEF TypeOK, Numbered, Txs

\* A new transaction is new, and leaves the numbers as they should be.
LEMMA NewTx ==
    ASSUME TypeOK, Numbered, NEW w \in Things, Cardinality(landed) < MaxTxs
    PROVE  /\ Tx(w) \in Txs /\ Tx(w) \notin landed /\ Tx(w).what = w
           /\ IsFiniteSet(landed \cup {Tx(w)})
           /\ \A t \in landed \cup {Tx(w)} : t.id <= Cardinality(landed \cup {Tx(w)})
<1>1. /\ clock \in 0..MaxTime /\ Cardinality(landed) \in Nat /\ IsFiniteSet(landed)
      /\ \A t \in landed : t.id \in Nat /\ t.id <= Cardinality(landed)
  BY Numbers DEF TypeOK, Numbered
<1>2. Tx(w).id = Cardinality(landed) + 1 /\ Tx(w).what = w BY DEF Tx
<1>3. Tx(w) \in Txs BY <1>1, ToolAssumption DEF Tx, Txs
<1>4. Tx(w) \notin landed BY <1>1, <1>2
<1>5. Cardinality(landed \cup {Tx(w)}) = Cardinality(landed) + 1 /\ IsFiniteSet(landed \cup {Tx(w)})
  BY <1>1, <1>4, FS_AddElement
<1>6. ASSUME NEW t \in landed \cup {Tx(w)} PROVE t.id <= Cardinality(landed \cup {Tx(w)})
  <2>1. CASE t = Tx(w) BY <2>1, <1>1, <1>2, <1>5
  <2>2. CASE t \in landed BY <2>2, <1>1, <1>5
  <2> QED BY <2>1, <2>2
<1> QED BY <1>2, <1>3, <1>4, <1>5, <1>6

\* What is allowed stays allowed as time passes and the log does not change.
LEMMA AllowedLater ==
    ASSUME TypeOK, Numbered, clock' \in Nat, clock <= clock', UNCHANGED log, NEW w \in Things, Allowed(w, log)
    PROVE  Allowed(w, log)'
<1>1. /\ clock \in Nat /\ \A e \in log : e.at \in Nat
  BY Numbers DEF TypeOK
<1>2. Recent(log)' \subseteq Recent(log) BY <1>1, ToolAssumption DEF Recent
<1>3. About(Recent(log), w)' \subseteq About(Recent(log), w) BY <1>2 DEF About
<1>4. IsFiniteSet(About(Recent(log), w))
  <2>1. About(Recent(log), w) \subseteq landed BY DEF About, Recent, TypeOK
  <2> QED BY <2>1, FS_Subset DEF Numbered
<1>5. /\ Cardinality(About(Recent(log), w)') <= Cardinality(About(Recent(log), w))
      /\ Cardinality(About(Recent(log), w)') \in Nat /\ Cardinality(About(Recent(log), w)) \in Nat
  BY <1>3, <1>4, FS_Subset, FS_CardinalityType
<1>6. CASE w \in Posts
  <2>1. MayTip(w, log) BY <1>6 DEF Allowed
  <2>2. Cardinality(About(Recent(log), w)') < MaxPerPost
    BY <1>5, <2>1, ToolAssumption DEF MayTip
  <2>3. \A e \in Recent(log)' : e.what \in Posts => clock' - e.at >= Cooldown
    <3> TAKE e \in Recent(log)'
    <3>1. e \in Recent(log) /\ e.at \in Nat BY <1>1, <1>2 DEF Recent
    <3>2. e.what \in Posts => clock - e.at >= Cooldown BY <2>1, <3>1 DEF MayTip
    <3> QED BY <3>1, <3>2, <1>1, ToolAssumption
  <2> QED BY <1>6, <2>2, <2>3 DEF Allowed, MayTip
<1>7. CASE w \notin Posts
  BY <1>3, <1>7 DEF Allowed, Duplicate
<1> QED BY <1>6, <1>7

\* The limits are kept as time passes.
LEMMA WithinLater ==
    ASSUME TypeOK, Numbered, RecordedWithinLimit, clock' \in Nat, clock <= clock', UNCHANGED log
    PROVE  RecordedWithinLimit'
<1> SUFFICES ASSUME NEW w \in Things PROVE Cardinality(About(Recent(log), w)') <= Limit(w)
  BY DEF RecordedWithinLimit, Limit
<1>1. /\ clock \in Nat /\ \A e \in log : e.at \in Nat
  BY Numbers DEF TypeOK
<1>2. Recent(log)' \subseteq Recent(log) BY <1>1, ToolAssumption DEF Recent
<1>3. About(Recent(log), w)' \subseteq About(Recent(log), w) BY <1>2 DEF About
<1>4. IsFiniteSet(About(Recent(log), w))
  <2>1. About(Recent(log), w) \subseteq landed BY DEF About, Recent, TypeOK
  <2> QED BY <2>1, FS_Subset DEF Numbered
<1>5. /\ Cardinality(About(Recent(log), w)') <= Cardinality(About(Recent(log), w))
      /\ Cardinality(About(Recent(log), w)') \in Nat /\ Cardinality(About(Recent(log), w)) \in Nat
  BY <1>3, <1>4, FS_Subset, FS_CardinalityType
<1>6. Limit(w) \in Nat BY ToolAssumption DEF Limit
<1> QED BY <1>5, <1>6 DEF RecordedWithinLimit

----------------------------------------------------------------------------
\* What a call can be, by its pc.
LEMMA CallTypes ==
    ASSUME TypeOK, NEW s \in Sessions
    PROVE  /\ call[s].pc \in {"idle", "check", "send", "record"}
           /\ call[s].pc = "idle" <=> call[s] = Idle
           /\ call[s].pc # "idle" => call[s].what \in Things
           /\ call[s].pc \in {"send", "record"} => call[s].seen \in SUBSET log
           /\ call[s].pc = "record" => call[s].entry \in landed \ log
<1>1. call[s] \in Calls BY DEF TypeOK
<1> QED BY <1>1 DEF Calls, Idle

\* Nothing that has happened changes: at most a call ends or begins.
LEMMA QuietKeeps ==
    ASSUME IInv, UNCHANGED <<clock, log, landed, refused>>,
           session' \in [Sessions -> [last : 0..MaxTime, expired : BOOLEAN]],
           troubles' \in 0..MaxTroubles,
           NEW s \in Sessions, NEW c \in {Idle} \cup [pc : {"check"}, what : Things],
           call' = call \/ call' = [call EXCEPT ![s] = c]
    PROVE  IInv'
<1> USE DEF IInv
<1>1. c \in Calls /\ c.pc \notin {"send", "record"} BY DEF Calls, Idle
<1>2. \A t \in Sessions : call'[t] = call[t] \/ call'[t].pc \notin {"send", "record"}
  BY <1>1 DEF TypeOK
<1>3. call' \in [Sessions -> Calls] /\ Calls' = Calls BY <1>1 DEF TypeOK, Calls
<1>4. TypeOK' BY <1>2, <1>3 DEF TypeOK
<1>5. Numbered' BY DEF Numbered
<1>6. Owned' BY <1>2 DEF Owned
<1>7. RecordedWithinLimit' BY DEF RecordedWithinLimit, Recent, About, Limit
<1>8. StillAllowed' BY <1>2 DEF StillAllowed, Allowed, MayTip, Duplicate, Recent, About
<1>9. SeenSince' BY <1>2 DEF SeenSince
<1>10. RefusedForOthers' BY DEF RefusedForOthers
<1> QED BY <1>4, <1>5, <1>6, <1>7, <1>8, <1>9, <1>10

\* A check that lets the call through.
LEMMA PassKeeps ==
    ASSUME IInv, UNCHANGED <<clock, log, landed, refused, troubles>>,
           session' \in [Sessions -> [last : 0..MaxTime, expired : BOOLEAN]],
           NEW s \in Sessions, call[s].pc = "check", Allowed(call[s].what, log),
           call' = [call EXCEPT ![s] = [pc |-> "send", what |-> call[s].what, seen |-> log]]
    PROVE  IInv'
<1> USE DEF IInv
<1> DEFINE c == [pc |-> "send", what |-> call[s].what, seen |-> log]
<1>0. call[s].what \in Things BY CallTypes
<1>1. c \in Calls /\ c.pc = "send" /\ c.what = call[s].what /\ c.seen = log BY <1>0 DEF Calls
<1> HIDE DEF c
<1>2. call' = [call EXCEPT ![s] = c] BY DEF c
<1>3. call' \in [Sessions -> Calls] /\ Calls' = Calls BY <1>1, <1>2 DEF TypeOK, Calls
<1>4. /\ call'[s] = c /\ \A t \in Sessions : t # s => call'[t] = call[t]
  BY <1>2 DEF TypeOK
<1>5. TypeOK' BY <1>1, <1>3, <1>4 DEF TypeOK
<1>6. Numbered' BY DEF Numbered
<1>7. Owned' BY <1>1, <1>4 DEF Owned
<1>8. RecordedWithinLimit' BY DEF RecordedWithinLimit, Recent, About, Limit
<1>9. StillAllowed'
  <2>1. \A w : Allowed(w, log)' = Allowed(w, log)
    BY DEF Allowed, MayTip, Duplicate, Recent, About
  <2> QED BY <2>1, <1>1, <1>4 DEF StillAllowed
<1>10. SeenSince' BY <1>1, <1>4 DEF SeenSince, TypeOK
<1>11. RefusedForOthers' BY DEF RefusedForOthers
<1> QED BY <1>5, <1>6, <1>7, <1>8, <1>9, <1>10, <1>11

LEMMA LandKeeps == ASSUME IInv, NEW s \in Sessions, Land(s) PROVE IInv'
<1> USE DEF IInv
<1> DEFINE w == call[s].what
           e == Tx(w)
           c == [pc |-> "record", what |-> w, seen |-> call[s].seen, entry |-> e]
<1>0. /\ call[s].pc = "send" /\ Cardinality(landed) < MaxTxs
      /\ landed' = landed \cup {e} /\ call' = [call EXCEPT ![s] = c]
      /\ UNCHANGED <<clock, session, log, refused, troubles>>
  BY DEF Land
<1>1. w \in Things /\ call[s].seen \in SUBSET log BY <1>0, CallTypes
<1>2. /\ e \in Txs /\ e \notin landed /\ e.what = w /\ IsFiniteSet(landed \cup {e})
      /\ \A t \in landed \cup {e} : t.id <= Cardinality(landed \cup {e})
  BY <1>0, <1>1, NewTx
<1> HIDE DEF e
<1>3. c.pc = "record" /\ c.what = w /\ c.seen = call[s].seen /\ c.entry = e OBVIOUS
<1>4. c \in Calls' BY <1>0, <1>1, <1>2 DEF Calls, TypeOK
<1> HIDE DEF c, w
<1>5. Calls \subseteq Calls' BY <1>0 DEF Calls
<1>6. /\ call' \in [Sessions -> Calls'] /\ call'[s] = c
      /\ \A t \in Sessions : t # s => call'[t] = call[t]
  BY <1>0, <1>4, <1>5 DEF TypeOK
<1>7. TypeOK' BY <1>0, <1>2, <1>3, <1>6 DEF TypeOK
<1>8. Numbered' BY <1>0, <1>2 DEF Numbered
<1>9. Owned'
  <2>1. \A t \in Sessions : call[t].pc = "record" => call[t].entry # e BY <1>2, CallTypes
  <2>2. \A r \in refused : r.tx # e BY <1>2 DEF TypeOK
  <2> QED BY <1>0, <1>3, <1>6, <2>1, <2>2 DEF Owned
<1>10. RecordedWithinLimit' BY <1>0 DEF RecordedWithinLimit, Recent, About, Limit
<1>11. StillAllowed'
  <2>1. \A v : Allowed(v, log)' = Allowed(v, log)
    BY <1>0 DEF Allowed, MayTip, Duplicate, Recent, About
  <2> QED BY <2>1, <1>0, <1>3, <1>6 DEF StillAllowed, w
<1>12. SeenSince' BY <1>0, <1>3, <1>6 DEF SeenSince
<1>13. RefusedForOthers' BY <1>0 DEF RefusedForOthers
<1> QED BY <1>7, <1>8, <1>9, <1>10, <1>11, <1>12, <1>13

\* A transaction lands and its call is over.
LEMMA UnheardKeeps ==
    ASSUME IInv, NEW s \in Sessions, call[s].pc = "send", Cardinality(landed) < MaxTxs,
           landed' = landed \cup {Tx(call[s].what)}, call' = [call EXCEPT ![s] = Idle],
           session' \in [Sessions -> [last : 0..MaxTime, expired : BOOLEAN]],
           troubles' \in 0..MaxTroubles, UNCHANGED <<clock, log, refused>>
    PROVE  IInv'
<1> USE DEF IInv
<1> DEFINE e == Tx(call[s].what)
<1>1. call[s].what \in Things BY CallTypes
<1>2. /\ e \in Txs /\ e \notin landed /\ IsFiniteSet(landed \cup {e})
      /\ \A t \in landed \cup {e} : t.id <= Cardinality(landed \cup {e})
  BY <1>1, NewTx
<1>3. landed' = landed \cup {e} OBVIOUS
<1> HIDE DEF e
<1>5. Calls \subseteq Calls' /\ Idle \in Calls' BY <1>3 DEF Calls
<1>6. /\ call' \in [Sessions -> Calls'] /\ call'[s].pc = "idle"
      /\ \A t \in Sessions : t # s => call'[t] = call[t]
  BY <1>5 DEF TypeOK, Idle
<1>7. TypeOK' BY <1>2, <1>3, <1>6 DEF TypeOK
<1>8. Numbered' BY <1>2, <1>3 DEF Numbered
<1>9. Owned' BY <1>6 DEF Owned
<1>10. RecordedWithinLimit' BY DEF RecordedWithinLimit, Recent, About, Limit
<1>11. StillAllowed'
  <2>1. \A v : Allowed(v, log)' = Allowed(v, log)
    BY DEF Allowed, MayTip, Duplicate, Recent, About
  <2> QED BY <2>1, <1>6 DEF StillAllowed
<1>12. SeenSince' BY <1>6 DEF SeenSince
<1>13. RefusedForOthers' BY DEF RefusedForOthers
<1> QED BY <1>7, <1>8, <1>9, <1>10, <1>11, <1>12, <1>13

\* The guard takes the entry.
LEMMA RecordedKeeps ==
    ASSUME IInv, NEW s \in Sessions, Record(s), Allowed(call[s].what, log)
    PROVE  IInv'
<1> USE DEF IInv
<1> DEFINE w == call[s].what
           e == call[s].entry
<1>0. /\ call[s].pc = "record" /\ log' = log \cup {e} /\ call' = [call EXCEPT ![s] = Idle]
      /\ UNCHANGED <<clock, session, landed, refused, troubles>>
  BY DEF Record
<1>1. w \in Things /\ e \in landed \ log /\ e.what = w
  BY <1>0, CallTypes DEF TypeOK
<1>2. Allowed(w, log) OBVIOUS
<1>3. /\ \A t \in Sessions : t # s /\ call[t].pc = "record" => call[t].entry # e
      /\ \A r \in refused : r.tx # e
  BY <1>0 DEF Owned
<1> HIDE DEF e, w
<1>4. /\ call'[s] = Idle /\ call'[s].pc = "idle"
      /\ \A t \in Sessions : t # s => call'[t] = call[t]
  BY <1>0 DEF TypeOK, Idle
<1>5. ASSUME NEW t \in Sessions PROVE call'[t] \in Calls'
  <2>1. CASE t = s BY <2>1, <1>4 DEF Calls
  <2>2. CASE t # s
    <3>1. call[t] \in Calls /\ call'[t] = call[t] BY <2>2, <1>4 DEF TypeOK
    <3>2. CASE call[t].pc = "record"
      <4>1. call[t] \in [pc : {"record"}, what : Things, seen : SUBSET log, entry : landed \ log]
        BY <3>1, <3>2 DEF Calls, Idle
      <4>2. call[t] \in [pc : {"record"}, what : Things, seen : SUBSET log', entry : landed' \ log']
        BY <4>1, <3>2, <2>2, <1>0, <1>3
      <4> QED BY <4>2, <3>1 DEF Calls
    <3>3. CASE call[t].pc # "record" BY <3>1, <3>3, <1>0 DEF Calls, Idle
    <3> QED BY <3>2, <3>3
  <2> QED BY <2>1, <2>2
<1>6. TypeOK'
  <2>1. call' \in [Sessions -> Calls'] BY <1>0, <1>5 DEF TypeOK
  <2>2. refused' \subseteq [tx : landed' \ log', by : Sessions, over : SUBSET log']
    BY <1>0, <1>3 DEF TypeOK
  <2>3. \A t \in Sessions : call'[t].pc = "record" => call'[t].entry.what = call'[t].what
    BY <1>4 DEF TypeOK
  <2> QED BY <2>1, <2>2, <2>3, <1>0, <1>1 DEF TypeOK
<1>7. Numbered' BY <1>0 DEF Numbered
<1>8. Owned' BY <1>0, <1>4 DEF Owned
<1>9. RecordedWithinLimit'
  <2> SUFFICES ASSUME NEW v \in Things PROVE Cardinality(About(Recent(log), v)') <= Limit(v)
    BY DEF RecordedWithinLimit, Limit
  <2>1. CASE v # w
    <3>1. About(Recent(log), v)' = About(Recent(log), v) BY <2>1, <1>0, <1>1 DEF About, Recent
    <3> QED BY <3>1 DEF RecordedWithinLimit
  <2>2. CASE v = w
    <3> DEFINE A == About(Recent(log), v)
    <3>1. A' \subseteq A \cup {e} BY <1>0 DEF About, Recent
    <3>2. IsFiniteSet(A)
      <4>1. A \subseteq landed BY DEF About, Recent, TypeOK
      <4> QED BY <4>1, FS_Subset DEF Numbered
    <3>3. e \notin A BY <1>1 DEF About, Recent
    <3>4. /\ IsFiniteSet(A \cup {e}) /\ Cardinality(A \cup {e}) = Cardinality(A) + 1
          /\ Cardinality(A) \in Nat
      BY <3>2, <3>3, FS_AddElement, FS_CardinalityType
    <3>5. Cardinality(A') <= Cardinality(A \cup {e}) /\ Cardinality(A') \in Nat
      BY <3>1, <3>4, FS_Subset, FS_CardinalityType
    <3>6. Cardinality(A) < Limit(v)
      <4>1. CASE v \in Posts BY <4>1, <2>2, <1>2 DEF Allowed, MayTip, Limit
      <4>2. CASE v \notin Posts
        <5>1. A = {} BY <4>2, <2>2, <1>2 DEF Allowed, Duplicate
        <5>2. Cardinality(A) = 0 BY <5>1, FS_EmptySet
        <5> QED BY <5>2, <4>2 DEF Limit
      <4> QED BY <4>1, <4>2
    <3>7. Limit(v) \in Nat BY ToolAssumption DEF Limit
    <3> HIDE DEF A
    <3>8. Cardinality(A') <= Limit(v) BY <3>4, <3>5, <3>6, <3>7
    <3> QED BY <3>8 DEF A
  <2> QED BY <2>1, <2>2
<1>10. StillAllowed'
  <2> SUFFICES ASSUME NEW t \in Sessions, call'[t].pc \in {"send", "record"}, log' = call'[t].seen
               PROVE  FALSE
    BY DEF StillAllowed
  <2>1. t # s /\ call'[t] = call[t] BY <1>4
  <2>2. call[t].seen \in SUBSET log BY <2>1, CallTypes
  <2> QED BY <2>1, <2>2, <1>0, <1>1
<1>11. SeenSince' BY <1>0, <1>4 DEF SeenSince
<1>12. RefusedForOthers' BY <1>0 DEF RefusedForOthers
<1> QED BY <1>6, <1>7, <1>8, <1>9, <1>10, <1>11, <1>12

\* The guard refuses the entry.
LEMMA RefusedKeeps ==
    ASSUME IInv, NEW s \in Sessions, Record(s), ~Allowed(call[s].what, log)
    PROVE  IInv'
<1> USE DEF IInv
<1> DEFINE r == [tx |-> call[s].entry, by |-> s, over |-> log \ call[s].seen]
<1>0. /\ call[s].pc = "record" /\ refused' = refused \cup {r} /\ call' = [call EXCEPT ![s] = Idle]
      /\ UNCHANGED <<clock, session, landed, log, troubles>>
  BY DEF Record
<1>1. call[s].entry \in landed \ log /\ call[s].seen \in SUBSET log
  BY <1>0, CallTypes
<1>2. /\ r \in [tx : landed \ log, by : Sessions, over : SUBSET log]
      /\ r.tx = call[s].entry /\ r.by = s /\ r.over = log \ call[s].seen
  BY <1>1
<1> HIDE DEF r
<1>3. r.over # {}
  <2>1. log # call[s].seen BY <1>0 DEF StillAllowed
  <2> QED BY <2>1, <1>1, <1>2
<1>4. \A q \in refused : q.by = s => q.over \cap r.over = {}
  BY <1>0, <1>2 DEF SeenSince
<1>5. Calls' = Calls /\ Idle \in Calls BY <1>0 DEF Calls
<1>6. /\ call' \in [Sessions -> Calls] /\ call'[s].pc = "idle"
      /\ \A t \in Sessions : t # s => call'[t] = call[t]
  BY <1>0, <1>5 DEF TypeOK, Idle
<1>7. TypeOK' BY <1>0, <1>2, <1>5, <1>6 DEF TypeOK
<1>8. Numbered' BY <1>0 DEF Numbered
<1>9. Owned'
  <2>1. \A t \in Sessions : t # s /\ call[t].pc = "record" => call[t].entry # r.tx
    BY <1>0, <1>2 DEF Owned
  <2> QED BY <2>1, <1>0, <1>6 DEF Owned
<1>10. RecordedWithinLimit' BY <1>0 DEF RecordedWithinLimit, Recent, About, Limit
<1>11. StillAllowed'
  <2>1. \A v : Allowed(v, log)' = Allowed(v, log)
    BY <1>0 DEF Allowed, MayTip, Duplicate, Recent, About
  <2> QED BY <2>1, <1>0, <1>6 DEF StillAllowed
<1>12. SeenSince' BY <1>0, <1>2, <1>6 DEF SeenSince
<1>13. RefusedForOthers'
  <2>1. \A q \in refused' : q.over # {} BY <1>0, <1>3 DEF RefusedForOthers
  <2>2. ASSUME NEW p \in refused', NEW q \in refused', q # p, q.by = p.by
        PROVE  q.over \cap p.over = {}
    <3>1. CASE p = r BY <3>1, <2>2, <1>0, <1>2, <1>4
    <3>2. CASE q = r BY <3>2, <2>2, <1>0, <1>2, <1>4
    <3>3. CASE p \in refused /\ q \in refused BY <3>3, <2>2 DEF RefusedForOthers
    <3> QED BY <3>1, <3>2, <3>3, <1>0
  <2> QED BY <2>1, <2>2 DEF RefusedForOthers
<1> QED BY <1>7, <1>8, <1>9, <1>10, <1>11, <1>12, <1>13

LEMMA TickKeeps == ASSUME IInv, Tick PROVE IInv'
<1> USE DEF IInv
<1>0. /\ clock < MaxTime /\ clock' = clock + 1
      /\ UNCHANGED <<session, call, log, landed, refused, troubles>>
  BY DEF Tick
<1>1. clock \in Nat /\ clock' \in 0..MaxTime /\ clock' \in Nat /\ clock <= clock'
  BY <1>0, ToolAssumption DEF TypeOK
<1>2. TypeOK' BY <1>0, <1>1 DEF TypeOK, Calls
<1>3. Numbered' BY <1>0 DEF Numbered
<1>4. Owned' BY <1>0 DEF Owned
<1>5. RecordedWithinLimit' BY <1>0, <1>1, WithinLater
<1>6. StillAllowed'
  <2> SUFFICES ASSUME NEW s \in Sessions, call[s].pc \in {"send", "record"}, log = call[s].seen
               PROVE  Allowed(call[s].what, log)'
    BY <1>0 DEF StillAllowed
  <2>1. call[s].what \in Things /\ Allowed(call[s].what, log)
    BY CallTypes DEF StillAllowed
  <2>2. \A w \in Things : Allowed(w, log) => Allowed(w, log)'
    BY <1>0, <1>1, AllowedLater
  <2>3. call' = call BY <1>0
  <2> QED BY <2>1, <2>2, <2>3 DEF Allowed, MayTip, Duplicate
<1>7. SeenSince' BY <1>0 DEF SeenSince
<1>8. RefusedForOthers' BY <1>0 DEF RefusedForOthers
<1> QED BY <1>2, <1>3, <1>4, <1>5, <1>6, <1>7, <1>8

LEMMA InitHolds == Init => IInv
<1> SUFFICES ASSUME Init PROVE IInv OBVIOUS
<1>1. /\ clock = 0 /\ log = {} /\ landed = {} /\ refused = {} /\ troubles = 0
      /\ session = [s \in Sessions |-> Connected] /\ call = [s \in Sessions |-> Idle]
  BY DEF Init
<1>2. Connected \in [last : 0..MaxTime, expired : BOOLEAN]
  BY <1>1, ToolAssumption DEF Connected
<1>3. TypeOK BY <1>1, <1>2, ToolAssumption DEF TypeOK, Calls, Idle
<1>4. Numbered BY <1>1, FS_EmptySet DEF Numbered
<1>5. Owned /\ SeenSince /\ RefusedForOthers BY <1>1 DEF Owned, SeenSince, RefusedForOthers, Idle
<1>6. StillAllowed BY <1>1 DEF StillAllowed, Idle
<1>7. RecordedWithinLimit
  <2>1. \A w : About(Recent(log), w) = {} BY <1>1 DEF About, Recent
  <2>2. \A w \in Things : 0 <= Limit(w) BY ToolAssumption DEF Limit
  <2> QED BY <2>1, <2>2, FS_EmptySet DEF RecordedWithinLimit
<1> QED BY <1>3, <1>4, <1>5, <1>6, <1>7 DEF IInv

LEMMA StepKeeps == ASSUME IInv, [Next]_vars PROVE IInv'
<1>0. TypeOK BY DEF IInv
<1> DEFINE S == [Sessions -> [last : 0..MaxTime, expired : BOOLEAN]]
<1>1. /\ clock \in 0..MaxTime /\ session \in S /\ troubles \in 0..MaxTroubles
  BY <1>0 DEF TypeOK
<1>2. /\ Connected \in [last : 0..MaxTime, expired : BOOLEAN]
      /\ \A s \in Sessions : Expired(s) \in BOOLEAN
  BY <1>1 DEF Connected, Expired
<1>3. ASSUME NEW s \in Sessions PROVE Asked(s) \in S
  <2> DEFINE b == Expired(s)
  <2>1. b \in BOOLEAN BY <1>2
  <2> HIDE DEF b
  <2>2. [session EXCEPT ![s].expired = b] \in S BY <1>1, <2>1
  <2> QED BY <2>2 DEF Asked, b
<1>4. \A k \in FaultKinds : Trouble(k) => troubles' \in 0..MaxTroubles
  BY <1>1, ToolAssumption DEF Trouble
<1>5. CASE UNCHANGED vars
  <2>1. UNCHANGED <<clock, log, landed, refused>> /\ session' \in S /\ troubles' \in 0..MaxTroubles /\ call' = call
    BY <1>1, <1>5 DEF vars
  <2>2. CASE Sessions = {}
    BY <2>1, <1>5, <2>2 DEF vars, IInv, TypeOK, Numbered, Owned, RecordedWithinLimit, StillAllowed, SeenSince,
       RefusedForOthers, Calls, Allowed, MayTip, Duplicate, Recent, About
  <2>3. CASE Sessions # {}
    <3>1. PICK s \in Sessions : TRUE BY <2>3
    <3> QED BY <2>1, <3>1, QuietKeeps
  <2> QED BY <2>2, <2>3
<1>6. CASE Tick BY <1>6, TickKeeps
<1>7. ASSUME NEW s \in Sessions, Step(s) PROVE IInv'
  <2>1. CASE Look(s)
    BY <2>1, <1>1, <1>3, QuietKeeps DEF Look
  <2>2. CASE Connect(s)
    <3>1. session' \in S BY <2>2, <1>1, <1>2 DEF Connect
    <3> QED BY <2>2, <3>1, <1>1, QuietKeeps DEF Connect
  <2>3. CASE Disconnect(s)
    <3>1. session' \in S BY <2>3, <1>1 DEF Disconnect
    <3>2. troubles' \in 0..MaxTroubles BY <2>3, <1>4 DEF Disconnect, FaultKinds
    <3> QED BY <2>3, <3>1, <3>2, QuietKeeps DEF Disconnect
  <2>4. ASSUME NEW w \in Things, Begin(s, w) PROVE IInv'
    <3>1. session' \in S BY <2>4, <1>1 DEF Begin
    <3>2. [pc |-> "check", what |-> w] \in [pc : {"check"}, what : Things] OBVIOUS
    <3> QED BY <2>4, <3>1, <3>2, <1>1, QuietKeeps DEF Begin
  <2>5. CASE Check(s)
    <3>1. session' \in S BY <2>5, <1>1, <1>3 DEF Check
    <3>2. CASE Allowed(call[s].what, log) /\ ~Expired(s)
      BY <2>5, <3>1, <3>2, PassKeeps DEF Check
    <3>3. CASE ~(Allowed(call[s].what, log) /\ ~Expired(s))
      BY <2>5, <3>1, <3>3, <1>1, QuietKeeps DEF Check
    <3> QED BY <3>2, <3>3
  <2>6. CASE Land(s) BY <2>6, LandKeeps
  <2>7. CASE Record(s) BY <2>7, RecordedKeeps, RefusedKeeps
  <2>8. CASE SendFails(s)
    <3>1. troubles' \in 0..MaxTroubles BY <2>8, <1>4 DEF SendFails, FaultKinds
    <3>2. CASE UNCHANGED landed
      BY <2>8, <3>1, <3>2, <1>1, QuietKeeps DEF SendFails
    <3>3. CASE Cardinality(landed) < MaxTxs /\ landed' = landed \cup {Tx(call[s].what)}
      BY <2>8, <3>1, <3>3, <1>1, UnheardKeeps DEF SendFails
    <3> QED BY <2>8, <3>2, <3>3 DEF SendFails
  <2>9. CASE StoreFails(s)
    <3>1. troubles' \in 0..MaxTroubles BY <2>9, <1>4 DEF StoreFails, FaultKinds
    <3> QED BY <2>9, <3>1, <1>1, QuietKeeps DEF StoreFails
  <2>10. CASE Crash(s)
    <3>1. troubles' \in 0..MaxTroubles BY <2>10, <1>4 DEF Crash, FaultKinds
    <3>2. session' \in S BY <2>10, <1>1, <1>2 DEF Crash
    <3>3. CASE UNCHANGED landed
      BY <2>10, <3>1, <3>2, <3>3, QuietKeeps DEF Crash
    <3>4. CASE /\ call[s].pc = "send" /\ Cardinality(landed) < MaxTxs
               /\ landed' = landed \cup {Tx(call[s].what)}
      BY <2>10, <3>1, <3>2, <3>4, UnheardKeeps DEF Crash
    <3> QED BY <2>10, <3>3, <3>4 DEF Crash
  <2> QED BY <1>7, <2>1, <2>2, <2>3, <2>4, <2>5, <2>6, <2>7, <2>8, <2>9, <2>10 DEF Step
<1> QED BY <1>5, <1>6, <1>7 DEF Next

----------------------------------------------------------------------------
\* Every reachable state satisfies the inductive invariant.
THEOREM Invariance == Spec => []IInv
<1>1. Init => IInv BY InitHolds
<1>2. IInv /\ [Next]_vars => IInv' BY StepKeeps
<1> QED BY <1>1, <1>2, PTL DEF Spec

\* The types of a session, its call and the logs (session.ts, tool-wrapper.ts).
THEOREM TypesAreCorrect == Spec => []TypeOK
<1>1. IInv => TypeOK BY DEF IInv
<1> QED BY <1>1, Invariance, PTL

\* The logs that the guards keep hold no more than the limits allow, however many
\* calls of however many sessions run side by side (dedup-guard.ts, tip-spend-cap.ts).
THEOREM LogWithinLimits == Spec => []RecordedWithinLimit
<1>1. IInv => RecordedWithinLimit BY DEF IInv
<1> QED BY <1>1, Invariance, PTL

\* A transaction that its call cannot record is owed to entries of other sessions,
\* and no entry keeps out two of one session (tools/tip.ts, tools/publish.ts).
THEOREM RefusedOnlyForOthers == Spec => []RefusedForOthers
<1>1. IInv => RefusedForOthers BY DEF IInv
<1> QED BY <1>1, Invariance, PTL
=============================================================================
