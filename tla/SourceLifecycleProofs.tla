------------------------ MODULE SourceLifecycleProofs ------------------------
(***************************************************************************)
(* Theorems about SourceLifecycle for every catalog, every number of hooks    *)
(* and commands, and all thresholds: types, that the catalog stays readable   *)
(* while processes do not share the temporary file, and that runs that do not *)
(* overlap lead it along the automaton.                                      *)
(***************************************************************************)
EXTENDS SourceLifecycle, TLAPS

\* While nobody has shared the temporary file, it belongs to one process, and is
\* whole once that process is to rename it.
Exclusive ==
    ~shared =>
        /\ Readable
        /\ \A p, q \in Writers : run[p].pc \in {"write", "rename"} /\ run[q].pc \in {"write", "rename"} => p = q
        /\ \A p \in Writers :
              /\ run[p].pc = "write" => run[p].at = "tmp" /\ tmp = Empty
              /\ run[p].pc = "rename" => tmp.is = "whole"

Led(c, new) == \A s \in Sources : Follows(s, c[s], new[s])

\* A run that is alone: the others rest, the catalog is the one it has loaded, and
\* what it is about to write follows from that.
Steady ==
    \A p \in Writers : alone[p] /\ run[p] # Idle =>
        /\ \A q \in Writers \ {p} : run[q] = Idle
        /\ Readable
        /\ run[p].pc = "testing" => catalog.records = run[p].loaded
        /\ run[p].pc = "write" =>
              /\ run[p].at = "tmp" /\ tmp = Empty
              /\ Led(catalog.records, run[p].text.records)
        /\ run[p].pc = "rename" => tmp.is = "whole" /\ Led(catalog.records, tmp.records)

IInv == TypeOK /\ Exclusive /\ Steady

----------------------------------------------------------------------------
(* The automaton *)

LEMMA TestedTypes ==
    ASSUME NEW r \in Record, NEW outcome \in {"pass", "fail", "none"}
    PROVE  /\ Tested(r, outcome) \in Record
           /\ Tested(r, outcome).status = r.status /\ Tested(r, outcome).since = r.since
           /\ <<Tested(r, outcome).passes, Tested(r, outcome).failures>>
                \in {<<r.passes, r.failures>>, <<r.passes + 1, 0>>, <<0, r.failures + 1>>}
<1> DEFINE new == Tested(r, outcome)
<1>0. r.passes \in Nat /\ r.failures \in Nat /\ r.passes + 1 \in Nat /\ r.failures + 1 \in Nat
  BY DEF Record
<1>1. CASE outcome = "pass"
  <2>1. new = [r EXCEPT !.passes = r.passes + 1, !.failures = 0] BY <1>1 DEF Tested
  <2>2. new = [status |-> r.status, passes |-> r.passes + 1, failures |-> 0, since |-> r.since]
    BY <2>1 DEF Record
  <2>3. /\ new.status = r.status /\ new.since = r.since
        /\ new.passes = r.passes + 1 /\ new.failures = 0 /\ new \in Record
    BY <1>0, <2>2 DEF Record
  <2> QED BY <2>3
<1>2. CASE outcome = "fail"
  <2>1. new = [r EXCEPT !.passes = 0, !.failures = r.failures + 1] BY <1>2 DEF Tested
  <2>2. new = [status |-> r.status, passes |-> 0, failures |-> r.failures + 1, since |-> r.since]
    BY <2>1 DEF Record
  <2>3. /\ new.status = r.status /\ new.since = r.since
        /\ new.passes = 0 /\ new.failures = r.failures + 1 /\ new \in Record
    BY <1>0, <2>2 DEF Record
  <2> QED BY <2>3
<1>3. CASE outcome = "none" BY <1>3 DEF Tested, Record
<1> QED BY <1>1, <1>2, <1>3

\* A record that moves has one of the automaton's reasons for it.
LEMMA MovedFollows ==
    ASSUME NEW s \in Sources, NEW r \in Record, clock \in Nat
    PROVE  /\ Moved(s, r) \in Record
           /\ Moved(s, r).passes = r.passes /\ Moved(s, r).failures = r.failures
           /\ IF Moved(s, r).status = r.status THEN Moved(s, r).since = r.since ELSE Move(s, r, Moved(s, r))
<1> DEFINE t == Transition(s, r)
           new == Moved(s, r)
<1>1. r.status \in Statuses /\ r.passes \in Nat /\ r.failures \in Nat /\ r.since \in Nat BY DEF Record
<1>2. t \in Statuses BY <1>1 DEF Transition, Statuses
<1>3. CASE t = r.status BY <1>3 DEF Moved
<1>4. CASE t # r.status
  <2>1. new = [r EXCEPT !.status = t, !.since = clock] BY <1>4 DEF Moved
  <2>2. new \in Record /\ new.status = t /\ new.passes = r.passes /\ new.failures = r.failures
    BY <2>1, <1>2 DEF Record
  <2> HIDE DEF new
  <2>3. Move(s, r, new)
    <3>1. CASE r.status = "quarantined" BY <3>1, <1>4, <2>2 DEF Transition, Move
    <3>2. CASE r.status = "active" BY <3>2, <1>4, <2>2 DEF Transition, Move
    <3>3. CASE r.status = "degraded" BY <3>3, <1>4, <2>2 DEF Transition, Move
    <3>4. CASE r.status = "stale" BY <3>4, <1>4, <2>2 DEF Transition, Move
    <3>5. CASE r.status \in {"deprecated", "archived"} BY <3>5, <1>4 DEF Transition
    <3> QED BY <1>1, <3>1, <3>2, <3>3, <3>4, <3>5 DEF Statuses
  <2> QED BY <1>4, <2>2, <2>3 DEF new
<1> QED BY <1>3, <1>4

\* What a run writes follows from what it has loaded.
LEMMA UpdatedFollows ==
    ASSUME NEW c \in Records, clock \in Nat, NEW S \in SUBSET Sources, NEW outcomes \in [S -> Outcomes]
    PROVE  Updated(c, outcomes) \in Records /\ Led(c, Updated(c, outcomes))
<1> DEFINE new == Updated(c, outcomes)
<1>1. ASSUME NEW s \in Sources PROVE new[s] \in Record /\ Follows(s, c[s], new[s])
  <2>1. c[s] \in Record BY DEF Records
  <2>2. CASE s \in S /\ outcomes[s] # "throws"
    <3> DEFINE r == Tested(c[s], outcomes[s])
    <3>1. outcomes[s] \in {"pass", "fail", "none"} BY <2>2 DEF Outcomes
    <3>2. /\ r \in Record /\ r.status = c[s].status /\ r.since = c[s].since
          /\ <<r.passes, r.failures>> \in
                {<<c[s].passes, c[s].failures>>, <<c[s].passes + 1, 0>>, <<0, c[s].failures + 1>>}
      BY <2>1, <3>1, TestedTypes
    <3>3. new[s] = Moved(s, r) BY <2>2 DEF Updated
    <3> HIDE DEF r, new
    <3>4. /\ new[s] \in Record /\ new[s].passes = r.passes /\ new[s].failures = r.failures
          /\ IF new[s].status = r.status THEN new[s].since = r.since ELSE Move(s, r, new[s])
      BY <3>2, <3>3, MovedFollows
    <3>5. Move(s, r, new[s]) = Move(s, c[s], new[s]) BY <3>2 DEF Move
    <3> QED BY <3>2, <3>4, <3>5 DEF Follows
  <2>3. CASE ~(s \in S /\ outcomes[s] # "throws")
    <3>1. new[s] = c[s] BY <2>3 DEF Updated
    <3> QED BY <2>1, <3>1 DEF Follows
  <2> QED BY <2>2, <2>3
<1>2. new \in Records BY <1>1 DEF Records, Updated
<1> QED BY <1>1, <1>2 DEF Led

\* A reason for a move stays one as the days go by.
LEMMA LedLater ==
    ASSUME NEW c \in Records, NEW new \in Records, clock \in Nat, clock' = clock + 1, Led(c, new)
    PROVE  Led(c, new)'
<1> SUFFICES ASSUME NEW s \in Sources PROVE Follows(s, c[s], new[s])' BY DEF Led
<1>1. Follows(s, c[s], new[s]) BY DEF Led
<1>2. c[s].since \in Nat /\ StaleDays \in Nat /\ DeprecatedDays \in Nat
  BY LifecycleAssumption DEF Records, Record
<1>3. Move(s, c[s], new[s]) => Move(s, c[s], new[s])' BY <1>2 DEF Move
<1> QED BY <1>1, <1>3 DEF Follows

LEMMA SameLed == ASSUME UNCHANGED clock PROVE \A c, new : Led(c, new)' = Led(c, new)
BY DEF Led, Follows, Move

----------------------------------------------------------------------------
(* The files *)

LEMMA RunTypes ==
    ASSUME TypeOK, NEW p \in Writers
    PROVE  /\ run[p].pc \in {"idle", "testing", "write", "rename"}
           /\ run[p].pc = "idle" <=> run[p] = Idle
           /\ run[p].pc = "testing" => run[p].sample \subseteq Sources /\ run[p].loaded \in Records
           /\ run[p].pc = "write" =>
                 /\ run[p].text.is = "whole" /\ run[p].text.records \in Records
                 /\ run[p].text \in Files /\ run[p].at \in {"tmp", "catalog", "gone"}
<1>1. run[p] \in Runs BY DEF TypeOK
<1> QED BY <1>1 DEF Runs, Idle, Files

LEMMA FileTypes ==
    /\ Empty.is = "empty" /\ Garbled.is = "garbled" /\ None.is = "none"
    /\ \A f \in Files : f # None /\ (f.is = "whole" => f.records \in Records)
    /\ Empty \in Files /\ Garbled \in Files
BY DEF Empty, Garbled, None, Files

LEMMA LoadKeeps == ASSUME IInv, NEW p \in Writers, Load(p) PROVE IInv'
<1> USE DEF IInv
<1>1. PICK sample \in SUBSET Sources :
         run' = [run EXCEPT ![p] = [pc |-> "testing", sample |-> sample, loaded |-> catalog.records]]
  BY DEF Load, Samples
<1>2. run[p] = Idle /\ Readable /\ UNCHANGED <<clock, catalog, tmp, shared>>
  BY DEF Load
<1>3. /\ alone' \in [Writers -> BOOLEAN] /\ runs' \in 0..MaxRuns
      /\ alone'[p] => \A t \in Writers : run[t] = Idle
      /\ \A q \in Writers \ {p} : alone'[q] => alone[q] /\ run[q] = Idle
  <2>1. alone' = [q \in Writers |->
                    IF q = p THEN \A t \in Writers : run[t] = Idle ELSE alone[q] /\ run[q] = Idle]
    BY DEF Load, Starts
  <2>2. \A q \in Writers : alone'[q] \in BOOLEAN BY <2>1 DEF TypeOK
  <2>3. alone' \in [Writers -> BOOLEAN] BY <2>1, <2>2
  <2>4. runs' \in 0..MaxRuns BY LifecycleAssumption DEF Load, Starts, TypeOK
  <2> QED BY <2>1, <2>3, <2>4
<1> DEFINE c == [pc |-> "testing", sample |-> sample, loaded |-> catalog.records]
<1>4. catalog.records \in Records BY <1>2, FileTypes DEF TypeOK, Readable
<1>5. c \in Runs /\ c.pc = "testing" /\ c.loaded = catalog.records /\ c # Idle BY <1>4 DEF Runs, Idle
<1> HIDE DEF c
<1>6. /\ run' \in [Writers -> Runs] /\ run'[p] = c
      /\ \A q \in Writers : q # p => run'[q] = run[q]
  BY <1>1, <1>5 DEF TypeOK, c
<1>7. TypeOK' BY <1>2, <1>3, <1>5, <1>6 DEF TypeOK
<1>8. Exclusive' BY <1>2, <1>5, <1>6 DEF Exclusive, Readable
<1>9. Steady'
  <2> SUFFICES ASSUME NEW q \in Writers, alone'[q], run'[q] # Idle
               PROVE  /\ \A t \in Writers \ {q} : run'[t] = Idle
                      /\ Readable'
                      /\ run'[q].pc = "testing" /\ catalog'.records = run'[q].loaded
    BY <1>5, <1>6 DEF Steady, Idle
  <2>1. q = p BY <1>3, <1>6
  <2> QED BY <2>1, <1>2, <1>3, <1>5, <1>6 DEF Readable
<1> QED BY <1>7, <1>8, <1>9

\* A run ends, or dies, where no file changes.
LEMMA EndKeeps ==
    ASSUME IInv, NEW p \in Writers, run' = [run EXCEPT ![p] = Idle],
           UNCHANGED <<clock, catalog, tmp, alone, shared, runs>>
    PROVE  IInv'
<1> USE DEF IInv
<1>1. /\ run' \in [Writers -> Runs] /\ run'[p] = Idle
      /\ \A q \in Writers : q # p => run'[q] = run[q]
  BY DEF TypeOK, Runs
<1>2. Idle.pc = "idle" BY DEF Idle
<1>3. TypeOK' BY <1>1, <1>2 DEF TypeOK
<1>4. Exclusive' BY <1>1, <1>2 DEF Exclusive, Readable
<1>5. Steady'
  <2>1. \A c, new : Led(c, new)' = Led(c, new) BY SameLed
  <2> SUFFICES ASSUME NEW q \in Writers, alone[q], run'[q] # Idle
               PROVE  /\ \A t \in Writers \ {q} : run'[t] = Idle
                      /\ Readable
                      /\ run'[q].pc = "testing" => catalog.records = run'[q].loaded
                      /\ run'[q].pc = "write" =>
                            /\ run'[q].at = "tmp" /\ tmp = Empty
                            /\ Led(catalog.records, run'[q].text.records)
                      /\ run'[q].pc = "rename" => tmp.is = "whole" /\ Led(catalog.records, tmp.records)
    BY <2>1 DEF Steady, Readable
  <2>2. q # p /\ run'[q] = run[q] BY <1>1
  <2> QED BY <2>2, <1>1 DEF Steady
<1> QED BY <1>3, <1>4, <1>5

LEMMA OpenKeeps == ASSUME IInv, NEW p \in Writers, Open(p) PROVE IInv'
<1> USE DEF IInv
<1>1. PICK opened \in Opened(p) : run' = [run EXCEPT ![p] = opened]
  BY DEF Open
<1>2. /\ run[p].pc = "testing" /\ tmp' = Empty /\ shared' = Sharing(p)
      /\ UNCHANGED <<clock, catalog, alone, runs>>
  BY DEF Open
<1>3. clock \in Nat /\ run[p].sample \in SUBSET Sources /\ run[p].loaded \in Records
  BY <1>2, RunTypes, LifecycleAssumption DEF TypeOK
<1>4. PICK outcomes \in [run[p].sample -> Outcomes] :
         opened = [pc |-> "write", text |-> Whole(Updated(run[p].loaded, outcomes)), at |-> "tmp"]
  BY DEF Opened
<1> DEFINE new == Updated(run[p].loaded, outcomes)
<1>5. new \in Records /\ Led(run[p].loaded, new) BY <1>3, UpdatedFollows
<1> HIDE DEF new
<1>6. opened = [pc |-> "write", text |-> [is |-> "whole", records |-> new], at |-> "tmp"]
  BY <1>4 DEF Whole, new
<1>7. /\ opened.pc = "write" /\ opened.at = "tmp" /\ opened.text.records = new /\ opened # Idle
      /\ opened \in Runs
  BY <1>5, <1>6 DEF Runs, Idle
<1>8. /\ run' \in [Writers -> Runs] /\ run'[p] = opened
      /\ \A q \in Writers : q # p => run'[q] = run[q]
  BY <1>1, <1>7 DEF TypeOK
<1>9. Empty \in Files /\ Empty # None /\ shared' \in BOOLEAN
  <2>1. Empty \in Files /\ Empty # None BY FileTypes
  <2>2. shared' \in BOOLEAN BY <1>2 DEF Sharing, TypeOK
  <2> QED BY <2>1, <2>2
<1>10. TypeOK' BY <1>2, <1>8, <1>9 DEF TypeOK
<1>11. Exclusive'
  <2> SUFFICES ASSUME ~shared' PROVE Exclusive' BY DEF Exclusive
  <2>1. ~shared /\ \A q \in Writers : q # p => run'[q].pc \notin {"write", "rename"}
    BY <1>2, <1>8 DEF Sharing
  <2> QED BY <2>1, <1>2, <1>7, <1>8 DEF Exclusive, Readable
<1>12. Steady'
  <2>0. \A d, e : Led(d, e)' = Led(d, e) BY <1>2, SameLed
  <2> SUFFICES ASSUME NEW q \in Writers, alone[q], run'[q] # Idle
               PROVE  /\ \A t \in Writers \ {q} : run'[t] = Idle
                      /\ Readable
                      /\ run'[q].pc = "write" /\ run'[q].at = "tmp"
                      /\ Led(catalog.records, run'[q].text.records)
    BY <1>2, <2>0 DEF Steady, Readable
  <2>1. run[p] # Idle BY <1>2 DEF Idle
  <2>2. q = p BY <2>1, <1>8 DEF Steady
  <2>3. Led(catalog.records, new)
    BY <2>1, <2>2, <1>2, <1>5 DEF Steady
  <2> QED BY <2>1, <2>2, <2>3, <1>7, <1>8 DEF Steady
<1> QED BY <1>10, <1>11, <1>12

LEMMA WriteKeeps == ASSUME IInv, NEW p \in Writers, Write(p) PROVE IInv'
<1> USE DEF IInv
<1> DEFINE c == [pc |-> "rename"]
<1>1. /\ run[p].pc = "write" /\ run' = [run EXCEPT ![p] = c]
      /\ UNCHANGED <<clock, alone, shared, runs>>
  BY DEF Write
<1>2. c \in Runs /\ c.pc = "rename" /\ c # Idle BY DEF Runs, Idle
<1> HIDE DEF c
<1>3. /\ run' \in [Writers -> Runs] /\ run'[p] = c
      /\ \A q \in Writers : q # p => run'[q] = run[q]
  BY <1>1, <1>2 DEF TypeOK
<1>4. run[p].text \in Files /\ run[p].text.is = "whole" BY <1>1, RunTypes
<1>5. /\ catalog' \in Files /\ tmp' \in Files \cup {None}
      /\ run[p].at = "tmp" => tmp' \in Texts(tmp, run[p].text) /\ catalog' = catalog
      /\ tmp' = None => tmp = None
  <2>1. \A file, text : text \in Files => Texts(file, text) \subseteq Files
    BY FileTypes DEF Texts
  <2>2. None \notin Files BY FileTypes
  <2>3. CASE run[p].at = "tmp" BY <2>1, <2>2, <2>3, <1>4 DEF Write, TypeOK
  <2>4. CASE run[p].at = "catalog" BY <2>1, <2>4, <1>4 DEF Write, TypeOK
  <2>5. CASE run[p].at = "gone" BY <2>5 DEF Write, TypeOK
  <2> QED BY <2>3, <2>4, <2>5, <1>1, RunTypes
<1>6. TypeOK' BY <1>1, <1>2, <1>3, <1>5 DEF TypeOK
<1>7. Texts(Empty, run[p].text) = {run[p].text} BY DEF Texts
<1>8. Exclusive'
  <2> SUFFICES ASSUME ~shared PROVE Exclusive' BY <1>1 DEF Exclusive
  <2>1. run[p].at = "tmp" /\ tmp = Empty BY <1>1 DEF Exclusive
  <2>2. tmp' = run[p].text /\ catalog' = catalog BY <2>1, <1>5, <1>7
  <2>3. \A q \in Writers : q # p => run'[q].pc \notin {"write", "rename"}
    BY <1>1, <1>3 DEF Exclusive
  <2> QED BY <2>2, <2>3, <1>1, <1>2, <1>3, <1>4 DEF Exclusive, Readable
<1>9. Steady'
  <2>0. \A d, e : Led(d, e)' = Led(d, e) BY <1>1, SameLed
  <2>1. run[p] # Idle BY <1>1 DEF Idle
  <2>2. CASE ~alone[p]
    <3>1. \A q \in Writers : q # p /\ alone[q] => run[q] = Idle BY <2>1 DEF Steady
    <3> QED BY <3>1, <2>2, <1>1, <1>3 DEF Steady
  <2>3. CASE alone[p]
    <3>1. /\ run[p].at = "tmp" /\ tmp = Empty /\ Readable
          /\ Led(catalog.records, run[p].text.records)
          /\ \A q \in Writers \ {p} : run[q] = Idle
      BY <1>1, <2>1, <2>3 DEF Steady
    <3>2. tmp' = run[p].text /\ catalog' = catalog BY <3>1, <1>5, <1>7
    <3>3. \A q \in Writers : q # p => run'[q] = Idle BY <3>1, <1>3
    <3> QED BY <2>0, <3>1, <3>2, <3>3, <1>1, <1>2, <1>3, <1>4 DEF Steady, Readable
  <2> QED BY <2>2, <2>3
<1> QED BY <1>6, <1>8, <1>9

LEMMA RenameKeeps == ASSUME IInv, NEW p \in Writers, Rename(p), tmp # None PROVE IInv'
<1> USE DEF IInv
<1>1. /\ run[p].pc = "rename" /\ catalog' = tmp /\ tmp' = None
      /\ run' = [q \in Writers |-> IF q = p THEN Idle ELSE Behind(run[q])]
      /\ UNCHANGED <<clock, alone, shared, runs>>
  BY DEF Rename
<1>2. ASSUME NEW q \in Writers
      PROVE  /\ Behind(run[q]) \in Runs /\ Behind(run[q]).pc = run[q].pc
             /\ run[q].pc # "write" => Behind(run[q]) = run[q]
             /\ run[q].pc = "write" => Behind(run[q]).at # "tmp"
  <2>1. run[q] \in Runs BY DEF TypeOK
  <2>2. CASE run[q].pc = "write"
    <3>1. run[q] \in [pc : {"write"}, text : [is : {"whole"}, records : Records], at : {"tmp", "catalog", "gone"}]
      BY <2>1, <2>2 DEF Runs, Idle
    <3>2. Behind(run[q]) = [run[q] EXCEPT !.at = IF run[q].at = "tmp" THEN "catalog" ELSE "gone"]
      BY <2>2 DEF Behind
    <3>3. Behind(run[q]) = [pc |-> "write", text |-> run[q].text, at |-> IF run[q].at = "tmp" THEN "catalog" ELSE "gone"]
      BY <3>1, <3>2
    <3> QED BY <3>1, <3>3, <2>2 DEF Runs
  <2>3. CASE run[q].pc # "write" BY <2>1, <2>3 DEF Behind
  <2> QED BY <2>2, <2>3
<1>3. /\ run' \in [Writers -> Runs] /\ run'[p] = Idle /\ Idle.pc = "idle"
      /\ \A q \in Writers : q # p => run'[q] = Behind(run[q])
  BY <1>1, <1>2 DEF Runs, Idle
<1>4. \A q \in Writers : run'[q].pc = "write" => run'[q].at # "tmp" BY <1>2, <1>3
<1>5. TypeOK' BY <1>1, <1>3, <1>4 DEF TypeOK
<1>6. Exclusive'
  <2> SUFFICES ASSUME ~shared PROVE Exclusive' BY <1>1 DEF Exclusive
  <2>1. \A q \in Writers : run'[q].pc \notin {"write", "rename"}
    BY <1>1, <1>2, <1>3 DEF Exclusive
  <2> QED BY <2>1, <1>1 DEF Exclusive, Readable
<1>7. Steady'
  <2>1. run[p] # Idle BY <1>1, <1>3
  <2> SUFFICES ASSUME NEW q \in Writers, alone[q], run'[q] # Idle PROVE FALSE
    BY <1>1 DEF Steady
  <2>2. q # p /\ run[q].pc # "idle" BY <1>2, <1>3, RunTypes
  <2> QED BY <2>1, <2>2, <1>3 DEF Steady
<1> QED BY <1>5, <1>6, <1>7

LEMMA TickKeeps == ASSUME IInv, Tick PROVE IInv'
<1> USE DEF IInv
<1>1. /\ clock' = clock + 1 /\ clock \in Nat /\ clock' \in 0..MaxDays
      /\ UNCHANGED <<catalog, tmp, run, alone, shared, runs>>
  BY LifecycleAssumption DEF Tick, TypeOK
<1>2. TypeOK' BY <1>1 DEF TypeOK
<1>3. Exclusive' BY <1>1 DEF Exclusive, Readable
<1>4. Steady'
  <2> SUFFICES ASSUME NEW p \in Writers, alone[p], run[p] # Idle
               PROVE  /\ run[p].pc = "write" => Led(catalog.records, run[p].text.records)'
                      /\ run[p].pc = "rename" => Led(catalog.records, tmp.records)'
    BY <1>1 DEF Steady, Readable
  <2>1. Readable /\ catalog.records \in Records BY FileTypes DEF Steady, TypeOK, Readable
  <2>2. \A c, new \in Records : Led(c, new) => Led(c, new)' BY <1>1, LedLater
  <2>3. CASE run[p].pc = "write"
    <3>1. Led(catalog.records, run[p].text.records) /\ run[p].text.records \in Records
      BY <2>3, RunTypes DEF Steady
    <3> QED BY <2>1, <2>2, <2>3, <3>1, <1>1 DEF Led
  <2>4. CASE run[p].pc = "rename"
    <3>1. Led(catalog.records, tmp.records) /\ tmp.is = "whole" BY <2>4 DEF Steady
    <3>2. tmp.records \in Records BY <3>1, FileTypes DEF TypeOK
    <3> QED BY <2>1, <2>2, <2>4, <3>1, <3>2, <1>1 DEF Led
  <2> QED BY <2>3, <2>4
<1> QED BY <1>2, <1>3, <1>4

LEMMA InitHolds == Init => IInv
<1> SUFFICES ASSUME Init PROVE IInv OBVIOUS
<1>1. PICK records \in [Sources -> {Fresh(status) : status \in Starting}] : catalog = Whole(records)
  BY DEF Init
<1>2. records \in Records
  <2>1. \A status \in Starting : Fresh(status) \in Record
    BY LifecycleAssumption DEF Fresh, Record
  <2> QED BY <2>1 DEF Records
<1>3. catalog \in Files /\ Readable BY <1>1, <1>2 DEF Whole, Files, Readable
<1>4. \A p \in Writers : run[p] = Idle BY DEF Init
<1>5. Idle.pc = "idle" /\ Idle \in Runs BY DEF Idle, Runs
<1>6. TypeOK
  <2>1. 0 \in 0..MaxDays /\ 0 \in 0..MaxRuns BY LifecycleAssumption
  <2>2. run \in [Writers -> Runs] BY <1>5 DEF Init
  <2>3. \A p \in Writers : run[p].pc # "write" BY <1>4, <1>5
  <2>4. alone \in [Writers -> BOOLEAN] BY DEF Init
  <2> QED BY <1>3, <2>1, <2>2, <2>3, <2>4 DEF Init, TypeOK
<1>7. Exclusive BY <1>3, <1>4, <1>5 DEF Exclusive
<1>8. Steady BY <1>4 DEF Steady
<1> QED BY <1>6, <1>7, <1>8 DEF IInv

LEMMA StepKeeps == ASSUME IInv, [Next]_vars PROVE IInv'
<1>1. CASE UNCHANGED vars
  <2> USE <1>1 DEF vars
  <2>1. TypeOK' BY DEF IInv, TypeOK
  <2>2. Exclusive' BY DEF IInv, Exclusive, Readable
  <2>3. \A c, new : Led(c, new) <=> Led(c, new)' BY SameLed
  <2>4. Steady'
    <3> SUFFICES ASSUME NEW p \in Writers, alone[p], run[p] # Idle
                 PROVE  /\ \A q \in Writers \ {p} : run[q] = Idle
                        /\ Readable
                        /\ run[p].pc = "testing" => catalog.records = run[p].loaded
                        /\ run[p].pc = "write" =>
                              /\ run[p].at = "tmp" /\ tmp = Empty
                              /\ Led(catalog.records, run[p].text.records)'
                        /\ run[p].pc = "rename" => tmp.is = "whole" /\ Led(catalog.records, tmp.records)'
      BY DEF Steady, Readable
    <3> QED BY <2>3 DEF IInv, Steady
  <2> QED BY <2>1, <2>2, <2>4 DEF IInv
<1>2. CASE Tick BY <1>2, TickKeeps
<1>3. ASSUME NEW p \in Writers, Load(p) PROVE IInv' BY <1>3, LoadKeeps
<1>4. ASSUME NEW p \in Writers, Quit(p) PROVE IInv' BY <1>4, EndKeeps DEF Quit
<1>5. ASSUME NEW p \in Writers, Open(p) PROVE IInv' BY <1>5, OpenKeeps
<1>6. ASSUME NEW p \in Writers, Write(p) PROVE IInv' BY <1>6, WriteKeeps
<1>7. ASSUME NEW p \in Writers, Rename(p) PROVE IInv'
  <2>1. CASE tmp = None BY <1>7, <2>1, EndKeeps DEF Rename
  <2>2. CASE tmp # None BY <1>7, <2>2, RenameKeeps
  <2> QED BY <2>1, <2>2
<1>8. ASSUME NEW p \in Writers, Crash(p) PROVE IInv' BY <1>8, EndKeeps DEF Crash
<1> QED BY <1>1, <1>2, <1>3, <1>4, <1>5, <1>6, <1>7, <1>8 DEF Next

----------------------------------------------------------------------------
\* Every reachable state satisfies the inductive invariant.
THEOREM Invariance == Spec => []IInv
<1>1. Init => IInv BY InitHolds
<1>2. IInv /\ [Next]_vars => IInv' BY StepKeeps
<1> QED BY <1>1, <1>2, PTL DEF Spec

\* The types of the files and the runs (lifecycle-plugin.ts, source-lifecycle.ts).
THEOREM TypesAreCorrect == Spec => []TypeOK
<1>1. IInv => TypeOK BY DEF IInv
<1> QED BY <1>1, Invariance, PTL

\* Unless two processes have the temporary file at once, writeFileSync and
\* renameSync replace the catalog whole, wherever a process dies.
THEOREM CatalogStaysWhole == Spec => []WholeUnlessShared
<1>1. IInv => WholeUnlessShared BY DEF IInv, Exclusive, WholeUnlessShared
<1> QED BY <1>1, Invariance, PTL

\* Runs of the hook and the command that do not overlap lose no test, and lead
\* every source along the automaton in the head of lifecycle.ts.
THEOREM TestsAreKept == Spec => OneTestAtATime
<1> DEFINE A == (Readable /\ Readable') =>
                   \/ \A s \in Sources : Follows(s, catalog.records[s], catalog'.records[s])
                   \/ \E p \in Writers : run[p] # Idle /\ ~alone[p]
<1>1. IInv /\ [Next]_vars => [A]_vars
  <2> SUFFICES ASSUME IInv, Next, Readable, Readable',
                      \A p \in Writers : run[p] # Idle => alone[p]
               PROVE  Led(catalog.records, catalog'.records)
    BY DEF Led
  <2>1. catalog.records \in Records BY FileTypes DEF IInv, TypeOK, Readable
  <2>2. CASE UNCHANGED catalog BY <2>1, <2>2 DEF Led, Follows, Records, Record
  <2>3. ASSUME NEW p \in Writers, Write(p) PROVE UNCHANGED catalog
    <3>1. run[p] # Idle /\ alone[p] BY <2>3 DEF Write, Idle
    <3>2. run[p].at = "tmp" BY <2>3, <3>1 DEF IInv, Steady, Write
    <3> QED BY <2>3, <3>2 DEF Write
  <2>4. ASSUME NEW p \in Writers, Rename(p) PROVE Led(catalog.records, catalog'.records)
    <3>1. run[p] # Idle /\ alone[p] BY <2>4 DEF Rename, Idle
    <3>2. tmp.is = "whole" /\ Led(catalog.records, tmp.records)
      BY <2>4, <3>1 DEF IInv, Steady, Rename
    <3>3. tmp # None BY <3>2, FileTypes
    <3> QED BY <2>4, <3>2, <3>3 DEF Rename
  <2> QED BY <2>2, <2>3, <2>4 DEF Next, Tick, Load, Quit, Open, Crash
<1> QED BY <1>1, Invariance, PTL DEF Spec, OneTestAtATime
=============================================================================
