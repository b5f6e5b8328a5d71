--------------------------- MODULE SourceLifecycle ---------------------------
(***************************************************************************)
(* The life of the sources in config/sources/catalog.json: the lifecycle      *)
(* hook of a session (plugins/lifecycle-plugin.ts) and the command            *)
(* "source-lifecycle apply" (cli/source-lifecycle.ts) load the catalog, test   *)
(* some of its sources, move them along the state machine of                 *)
(* toolkit/sources/lifecycle.ts, and write the whole catalog back, by way of   *)
(* a temporary file whose name they all share.  Sessions of several agents    *)
(* have one catalog and no lock on it.                                        *)
(*                                                                         *)
(* A test takes seconds and touches memory only, so that the tests of a run    *)
(* are part of its next step; the calls on the file system are steps of        *)
(* their own.                                                                *)
(***************************************************************************)
EXTENDS Integers, FiniteSets

CONSTANTS
    Sources,
    Hooks, Commands,    \* processes that run the hook, and those that run the command
    Starting,           \* the statuses that sources may have at first
    Overall,            \* rating.overall of each source, which nothing changes
    PromotionPasses,    \* PROMOTION_PASSES
    DegradedRating,     \* DEGRADED_RATING_THRESHOLD
    DegradedFailures,   \* DEGRADED_FAILURE_THRESHOLD
    RecoveryRating,     \* RECOVERY_RATING_THRESHOLD
    StaleDays,          \* STALE_DAYS
    DeprecatedDays,     \* DEPRECATED_DAYS
    ArchiveFailures,    \* QUARANTINE_ARCHIVE_FAILURES
    SampleSize,         \* sampleSize of the hook
    MaxDays,            \* bound: the clock
    MaxRuns             \* bound: runs of the hook and the command

Writers == Hooks \cup Commands
Statuses == {"quarantined", "active", "degraded", "stale", "deprecated", "archived"}

ASSUME LifecycleAssumption ==
    /\ Hooks \cap Commands = {}
    /\ Overall \in [Sources -> 0..100] /\ Starting \subseteq Statuses
    /\ {PromotionPasses, DegradedFailures, ArchiveFailures, SampleSize} \subseteq Nat \ {0}
    /\ {DegradedRating, RecoveryRating, StaleDays, DeprecatedDays, MaxDays, MaxRuns} \subseteq Nat

VARIABLES
    clock,   \* days
    catalog, \* the file: the sources' records, or one of those below
    tmp,     \* the temporary file, or none
    run,     \* of each process: what it does, see Idle
    alone,   \* history: whether no other run has overlapped this one
    shared,  \* history: whether two processes have had the temporary file at once
    runs     \* bound: runs so far

vars == <<clock, catalog, tmp, run, alone, shared, runs>>

\* since: statusChangedAt, which every degraded and every stale source has (without
\* it the day of the last failure would count).
Record == [status : Statuses, passes : Nat, failures : Nat, since : Nat]
Records == [Sources -> Record]

\* A file that was just opened, and one with the rest of a longer text after its own.
Whole(records) == [is |-> "whole", records |-> records]
Empty == [is |-> "empty"]
Garbled == [is |-> "garbled"]
None == [is |-> "none"]
Readable == catalog.is = "whole"

\* pc: "testing", then "write" and "rename".
Idle == [pc |-> "idle"]

Fresh(status) == [status |-> status, passes |-> 0, failures |-> 0, since |-> 0]

Init ==
    /\ clock = 0
    /\ \E records \in [Sources -> {Fresh(status) : status \in Starting}] : catalog = Whole(records)
    /\ tmp = None
    /\ run = [p \in Writers |-> Idle]
    /\ alone = [p \in Writers |-> TRUE] /\ shared = FALSE
    /\ runs = 0

----------------------------------------------------------------------------
(* lifecycle.ts *)

\* By status and counts, and up to 40 for the days since the last test, which the model leaves open.
Urgency(r) ==
    (IF r.status = "quarantined" /\ r.failures = 0 THEN 100 + 10 * r.passes ELSE 0)
      + (IF r.failures > 0 THEN 50 + 5 * r.failures ELSE 0)
MaxStaleness == 40

\* The hook's choices: the most urgent ones that are neither deprecated nor archived.
Samples(c) ==
    LET eligible == {s \in Sources : c[s].status \notin {"deprecated", "archived"}}
        size == IF Cardinality(eligible) <= SampleSize THEN Cardinality(eligible) ELSE SampleSize
    IN  {S \in SUBSET eligible :
            /\ Cardinality(S) = size
            /\ \A s \in S, t \in eligible \ S : Urgency(c[s]) + MaxStaleness >= Urgency(c[t])}

\* "none" is a test without a verdict; one that throws is no test.
Outcomes == {"pass", "fail", "none", "throws"}
TestedTakingBack(r, outcome) ==
    CASE outcome = "pass" -> [r EXCEPT !.passes = @ + 1, !.failures = 0]
      [] outcome = "fail" -> [r EXCEPT !.passes = @ - 1, !.failures = @ + 1]
      [] OTHER -> r
TestedKeepingPasses(r, outcome) ==
    CASE outcome = "pass" -> [r EXCEPT !.passes = @ + 1, !.failures = 0]
      [] outcome = "fail" -> [r EXCEPT !.failures = @ + 1]
      [] OTHER -> r
Tested(r, outcome) ==
    CASE outcome = "pass" -> [r EXCEPT !.passes = @ + 1, !.failures = 0]
      [] outcome = "fail" -> [r EXCEPT !.passes = 0, !.failures = @ + 1]
      [] OTHER -> r

\* evaluateTransition: where the record leads, its own status if nowhere.
Transition(s, r) ==
    LET passed == r.passes >= PromotionPasses /\ r.failures = 0
    IN  CASE r.status = "quarantined" /\ passed -> "active"
          [] r.status = "quarantined" /\ ~passed /\ r.failures >= ArchiveFailures -> "archived"
          [] r.status = "active" /\ (Overall[s] < DegradedRating \/ r.failures >= DegradedFailures) -> "degraded"
          [] r.status = "degraded" /\ passed /\ Overall[s] >= RecoveryRating -> "active"
          [] r.status = "degraded" /\ ~(passed /\ Overall[s] >= RecoveryRating)
               /\ clock - r.since >= StaleDays -> "stale"
          [] r.status = "stale" /\ clock - r.since >= DeprecatedDays -> "deprecated"
          [] OTHER -> r.status

Moved(s, r) ==
    IF Transition(s, r) = r.status THEN r ELSE [r EXCEPT !.status = Transition(s, r), !.since = clock]

\* What a run makes of the records that it has loaded.
Updated(c, outcomes) ==
    [s \in Sources |-> IF s \in DOMAIN outcomes /\ outcomes[s] # "throws"
                       THEN Moved(s, Tested(c[s], outcomes[s])) ELSE c[s]]

----------------------------------------------------------------------------
(* The hook and the command *)

\* Overlapping runs are not alone any more.
Starts(p) ==
    /\ alone' = [q \in Writers |->
                    IF q = p THEN \A t \in Writers : run[t] = Idle ELSE alone[q] /\ run[q] = Idle]
    /\ runs < MaxRuns /\ runs' = runs + 1

\* Neither the hook nor the command goes on without a catalog or a source to test.
Load(p) ==
    /\ run[p] = Idle /\ Readable /\ Starts(p)
    /\ \E sample \in (IF p \in Hooks THEN Samples(catalog.records) ELSE SUBSET Sources) \ {{}} :
          run' = [run EXCEPT ![p] = [pc |-> "testing", sample |-> sample, loaded |-> catalog.records]]
    /\ UNCHANGED <<clock, catalog, tmp, shared>>

\* The command dies of a test that throws, or only checks; the hook is on a dry run.
Quit(p) ==
    /\ run[p].pc = "testing"
    /\ run' = [run EXCEPT ![p] = Idle]
    /\ UNCHANGED <<clock, catalog, tmp, alone, shared, runs>>

Opened(p) == {[pc |-> "write", text |-> Whole(Updated(run[p].loaded, outcomes)), at |-> "tmp"] :
                 outcomes \in [run[p].sample -> IF p \in Hooks THEN Outcomes ELSE Outcomes \ {"throws"}]}
Sharing(p) == shared \/ \E q \in Writers \ {p} : run[q].pc \in {"write", "rename"}

OpenInPlace(p) ==
    /\ run[p].pc = "testing"
    /\ \E opened \in Opened(p) : run' = [run EXCEPT ![p] = [opened EXCEPT !.at = "catalog"]]
    /\ catalog' = Empty /\ shared' = Sharing(p)
    /\ UNCHANGED <<clock, tmp, alone, runs>>
\* The tests are done; writeFileSync opens the temporary file and empties it.
Open(p) ==
    /\ run[p].pc = "testing"
    /\ \E opened \in Opened(p) : run' = [run EXCEPT ![p] = opened]
    /\ tmp' = Empty /\ shared' = Sharing(p)
    /\ UNCHANGED <<clock, catalog, alone, runs>>

\* Writing over the text of another process leaves the end of a longer one.
Texts(file, text) == IF file = Empty THEN {text} ELSE {text, Garbled}

\* The text goes to the file that was opened, which may be the catalog by now, or
\* a file that has been replaced.
Write(p) ==
    /\ run[p].pc = "write"
    /\ \/ run[p].at = "tmp" /\ tmp' \in Texts(tmp, run[p].text) /\ UNCHANGED catalog
       \/ run[p].at = "catalog" /\ catalog' \in Texts(catalog, run[p].text) /\ UNCHANGED tmp
       \/ run[p].at = "gone" /\ UNCHANGED <<catalog, tmp>>
    /\ run' = [run EXCEPT ![p] = [pc |-> "rename"]]
    /\ UNCHANGED <<clock, alone, shared, runs>>

\* Where a process that is still to write finds its file after a rename.
Behind(r) ==
    IF r.pc # "write" THEN r
    ELSE [r EXCEPT !.at = IF @ = "tmp" THEN "catalog" ELSE "gone"]

\* renameSync; it throws if another process has renamed the file already.
Rename(p) ==
    /\ run[p].pc = "rename"
    /\ IF tmp = None
       THEN run' = [run EXCEPT ![p] = Idle] /\ UNCHANGED <<catalog, tmp>>
       ELSE /\ catalog' = tmp /\ tmp' = None
            /\ run' = [q \in Writers |-> IF q = p THEN Idle ELSE Behind(run[q])]
    /\ UNCHANGED <<clock, alone, shared, runs>>

\* A process dies; the end of a session also ends a hook that has timed out.
Crash(p) ==
    /\ run[p].pc \in {"write", "rename"}
    /\ run' = [run EXCEPT ![p] = Idle]
    /\ UNCHANGED <<clock, catalog, tmp, alone, shared, runs>>

Tick ==
    /\ clock < MaxDays
    /\ clock' = clock + 1
    /\ UNCHANGED <<catalog, tmp, run, alone, shared, runs>>

Next ==
    \/ Tick
    \/ \E p \in Writers : Load(p) \/ Quit(p) \/ Open(p) \/ Write(p) \/ Rename(p) \/ Crash(p)

Spec == Init /\ [][Next]_vars

----------------------------------------------------------------------------
(* Properties *)

Files == {Empty, Garbled} \cup [is : {"whole"}, records : Records]

Runs ==
    {Idle, [pc |-> "rename"]}
      \cup [pc : {"testing"}, sample : SUBSET Sources, loaded : Records]
      \cup [pc : {"write"}, text : [is : {"whole"}, records : Records], at : {"tmp", "catalog", "gone"}]

\* Types: what the files hold and where each run is; a process that is to write
\* to the temporary file finds it.
TypeOK ==
    /\ clock \in 0..MaxDays /\ runs \in 0..MaxRuns
    /\ catalog \in Files /\ tmp \in Files \cup {None}
    /\ run \in [Writers -> Runs]
    /\ \A p \in Writers : run[p].pc = "write" /\ tmp = None => run[p].at # "tmp"
    /\ alone \in [Writers -> BOOLEAN] /\ shared \in BOOLEAN

\* The catalog can be read at every moment, whatever process dies where, unless
\* two processes have had the temporary file at once.
WholeUnlessShared == Readable \/ shared

\* The automaton in the head of lifecycle.ts, for one test of a source: counts in
\* a row, and the conditions of each move.
Move(s, r, new) ==
    LET promoted == new.passes >= PromotionPasses /\ new.failures = 0
    IN  CASE <<r.status, new.status>> = <<"quarantined", "active">>   -> promoted
          [] <<r.status, new.status>> = <<"quarantined", "archived">> -> new.failures >= ArchiveFailures
          [] <<r.status, new.status>> = <<"active", "degraded">> ->
                Overall[s] < DegradedRating \/ new.failures >= DegradedFailures
          [] <<r.status, new.status>> = <<"degraded", "active">> -> promoted /\ Overall[s] >= RecoveryRating
          [] <<r.status, new.status>> = <<"degraded", "stale">>  -> clock - r.since >= StaleDays
          [] <<r.status, new.status>> = <<"stale", "deprecated">> -> clock - r.since >= DeprecatedDays
          [] OTHER -> FALSE
Follows(s, r, new) ==
    /\ <<new.passes, new.failures>> \in {<<r.passes, r.failures>>, <<r.passes + 1, 0>>, <<0, r.failures + 1>>}
    /\ IF new.status = r.status THEN new.since = r.since ELSE Move(s, r, new)

\* Runs that do not overlap lose no test: the catalog changes from one test of its
\* sources to the next, along the automaton.
OneTestAtATime ==
    [][(Readable /\ Readable') =>
         \/ \A s \in Sources : Follows(s, catalog.records[s], catalog'.records[s])
         \/ \E p \in Writers : run[p] # Idle /\ ~alone[p]]_vars
=============================================================================
