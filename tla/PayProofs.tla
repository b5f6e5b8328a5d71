----------------------------- MODULE PayProofs -----------------------------
(***************************************************************************)
(* Theorems about Pay for every number of callers, requests, amounts, caps  *)
(* and windows.  With all faults: type correctness, the exclusion the lock  *)
(* files give, and that no money is held without a reason.  When no process *)
(* dies inside a file write ("torn" is not among the faults):               *)
(* PaymentsCovered, the rolling cap, that a known receipt is not paid for   *)
(* again, and that Pay implements SpendBudget.                              *)
(***************************************************************************)
EXTENDS Pay, FiniteSetTheorems, TLAPS

\* What the latter theorems assume: a torn ledger reads as an empty one.
WholeWrites == "torn" \notin Faults

\* The labels at which a caller holds the lock of each file.
SpendHeld == {"reserve", "reserveWrite", "undo", "undoWrite"}
ReceiptsHeld == {"record", "recordWrite"}

\* The labels at which a caller has a reservation whose fate is open.
OpenAt == {"reserveWrite", "settle", "lockUndo", "undo"}

\* A lock is held by the caller that is between lock() and unlock(), no other.
Exclusion ==
    \A c \in Callers :
        /\ pc[c] \in SpendHeld <=> lock["spend"] = c
        /\ pc[c] \in ReceiptsHeld <=> lock["receipts"] = c

\* A running call knows its request, and its amount once it was asked for one.
CallsFormed ==
    \A c \in Callers :
        /\ pc[c] # "idle" => entry[c].key \in Keys
        /\ pc[c] \notin {"idle", "fetch"} => entry[c].amount \in 1..MaxSpend

\* Reservation ids are never reused: the open reservations differ from one
\* another and from everything paid, and all ids are below the next one.
FreshIds ==
    /\ \A e \in Ledger \cup paid : e.id < nextId
    /\ \A c \in Callers : pc[c] \in OpenAt =>
         /\ entry[c].id < nextId
         /\ \A p \in paid : p.id # entry[c].id
         /\ \A d \in Callers \ {c} : pc[d] \in OpenAt => entry[d].id # entry[c].id

\* An open reservation is in the ledger as long as the window sees it.
OpenCovered ==
    \A c \in Callers : pc[c] \in OpenAt /\ entry[c].at > now - Window => entry[c] \in Ledger

\* The ledger is finite and its live part fits the cap.
LedgerFits ==
    /\ IsFiniteSet(ledger)
    /\ \A c \in Callers : IsFiniteSet(buf[c])
    /\ Spent(Live(Ledger, now)) <= Cap

\* The inductive invariant: TInv is inductive alone, SInv relative to it.
TInv == TypeOK /\ CallsFormed /\ Exclusion
SInv == FreshIds /\ OpenCovered /\ PaymentsCovered /\ LedgerFits
IInv == TInv /\ SInv

----------------------------------------------------------------------------
\* The sum of amounts.

\* The units of a finite set of entries are finite, so their number is a number.
LEMMA SpentType ==
    ASSUME NEW S, IsFiniteSet(S)
    PROVE  IsFiniteSet(Units(S)) /\ Spent(S) \in Nat
<1>1. IsFiniteSet(1..MaxPerCall)
  BY FS_Interval, PayAssumption
<1>2. IsFiniteSet(S \X (1..MaxPerCall))
  BY <1>1, FS_Product
<1>3. Units(S) \in SUBSET (S \X (1..MaxPerCall))
  BY DEF Units
<1>4. IsFiniteSet(Units(S))
  BY <1>2, <1>3, FS_Subset
<1> QED
  BY <1>4, FS_CardinalityType DEF Spent

\* Fewer entries never add up to more (pruning, rolling back).
LEMMA SpentMonotone ==
    ASSUME NEW T, IsFiniteSet(T), NEW S \in SUBSET T
    PROVE  Spent(S) <= Spent(T)
<1>1. Units(S) \in SUBSET Units(T)
  BY DEF Units
<1> QED
  BY <1>1, SpentType, FS_Subset DEF Spent

\* One more entry adds at most its amount.
LEMMA SpentAdd ==
    ASSUME NEW S, IsFiniteSet(S), NEW e, e.amount \in 1..MaxPerCall
    PROVE  Spent(S \cup {e}) <= Spent(S) + e.amount
<1> DEFINE own == {e} \X (1..e.amount)
<1>1. IsFiniteSet({e}) /\ Cardinality({e}) = 1
  BY FS_Singleton
<1>2. IsFiniteSet(1..e.amount) /\ Cardinality(1..e.amount) = e.amount
  BY FS_Interval
<1>3. IsFiniteSet(own) /\ Cardinality(own) = e.amount
  BY <1>1, <1>2, FS_Product, Cardinality({e}) * Cardinality(1..e.amount) = e.amount
<1>4. Units(S \cup {e}) \in SUBSET (Units(S) \cup own)
  BY PayAssumption DEF Units
<1>5. IsFiniteSet(Units(S)) /\ Cardinality(Units(S)) \in Nat
  BY SpentType DEF Spent
<1>6. /\ IsFiniteSet(Units(S) \cup own)
      /\ Cardinality(Units(S) \cup own)
           = Cardinality(Units(S)) + Cardinality(own) - Cardinality(Units(S) \cap own)
  BY <1>3, <1>5, FS_Union
<1>7. Cardinality(Units(S) \cap own) \in Nat
  BY <1>3, FS_Subset, FS_CardinalityType, Units(S) \cap own \in SUBSET own
<1>8. /\ Cardinality(Units(S \cup {e})) <= Cardinality(Units(S) \cup own)
      /\ Cardinality(Units(S \cup {e})) \in Nat
  BY <1>4, <1>6, FS_Subset, FS_CardinalityType
<1> QED
  BY <1>3, <1>5, <1>6, <1>7, <1>8 DEF Spent
----------------------------------------------------------------------------
\* Types, well-formed calls and lock exclusion.

LEMMA TInvInit == Init => TInv
BY PayAssumption DEF Init, TInv, TypeOK, CallsFormed, Exclusion, Files, PCs, NoCall,
   SpendHeld, ReceiptsHeld, Entry, Receipt

LEMMA TInvStep == TInv /\ [Next]_vars => TInv'
<1> SUFFICES ASSUME TInv, [Next]_vars PROVE TInv'
  OBVIOUS
<1> USE PayAssumption DEF TInv, TypeOK, CallsFormed, Exclusion, SpendHeld, ReceiptsHeld,
      Files, PCs, Entry, Receipt, NoCall, CallFor, Goto, filevars, callvars
<1>1. ASSUME NEW c \in Callers, NoPayment(c) PROVE TInv'
  BY <1>1 DEF NoPayment, Return
<1>2. ASSUME NEW c \in Callers, LockSpend(c) PROVE TInv'
  BY <1>2 DEF LockSpend, Acquire
<1>3. ASSUME NEW c \in Callers, Reserve(c) PROVE TInv'
  <2>1. CASE Spent(Live(ledger, now)) + entry[c].amount > Cap
    <3>1. Return(c) /\ Release("spend") /\ pc[c] = "reserve" /\
          UNCHANGED <<ledger, nextId, now, receipts, paid, recorded, abandoned>>
      BY <1>3, <2>1 DEF Reserve
    <3> QED
      BY <3>1 DEF Return, Release
  <2>2. CASE ~(Spent(Live(ledger, now)) + entry[c].amount > Cap)
    <3> DEFINE e == [entry[c] EXCEPT !.id = nextId, !.at = now]
    <3>1. pc[c] = "reserve" /\ WriteReservation(c, Live(ledger, now)) /\
          UNCHANGED <<now, receipts, paid, recorded, abandoned>>
      BY <1>3, <2>2 DEF Reserve
    <3>2. e \in Entry /\ Live(ledger, now) \in SUBSET Entry
      <4>1. entry[c].key \in Keys /\ entry[c].amount \in 1..MaxSpend
        BY <3>1
      <4>2. entry[c] \in [id : Nat, at : Nat, amount : 0..MaxSpend, key : Keys \cup {"none"}]
        OBVIOUS
      <4>3. e \in Entry
        BY <4>1, <4>2
      <4> QED
        BY <4>1, <4>3 DEF Live
    <3> HIDE DEF e
    <3>3. /\ entry' = [entry EXCEPT ![c] = e] /\ buf' = [buf EXCEPT ![c] = Live(ledger, now) \cup {e}]
          /\ ledger' = {} /\ nextId' = nextId + 1 /\ pc' = [pc EXCEPT ![c] = "reserveWrite"]
          /\ UNCHANGED <<lock, rbuf, known>>
      BY <3>1 DEF WriteReservation, e
    <3> QED
      BY <3>1, <3>2, <3>3
  <2> QED
    BY <2>1, <2>2
<1>4. ASSUME NEW c \in Callers, ReserveWrite(c) PROVE TInv'
  BY <1>4 DEF ReserveWrite, Release
<1>5. ASSUME NEW c \in Callers, Settled(c) PROVE TInv'
  BY <1>5 DEF Settled
<1>6. ASSUME NEW c \in Callers, Refused(c) PROVE TInv'
  BY <1>6 DEF Refused
<1>7. ASSUME NEW c \in Callers, LockUndo(c) PROVE TInv'
  BY <1>7 DEF LockUndo, Acquire
<1>8. ASSUME NEW c \in Callers, Undo(c) PROVE TInv'
  <2>1. CASE Own(c) # {}
    <3>1. /\ pc[c] = "undo" /\ buf' = [buf EXCEPT ![c] = ledger \ Own(c)] /\ ledger' = {}
          /\ pc' = [pc EXCEPT ![c] = "undoWrite"]
          /\ UNCHANGED <<lock, entry, rbuf, known, now, receipts, nextId, paid, recorded, abandoned>>
      BY <1>8, <2>1 DEF Undo
    <3> QED
      BY <3>1
  <2>2. CASE Own(c) = {}
    <3>1. Return(c) /\ Release("spend") /\ pc[c] = "undo" /\
          UNCHANGED <<ledger, now, receipts, nextId, paid, recorded, abandoned>>
      BY <1>8, <2>2 DEF Undo
    <3> QED
      BY <3>1 DEF Return, Release
  <2> QED
    BY <2>1, <2>2
<1>9. ASSUME NEW c \in Callers, UndoWrite(c) PROVE TInv'
  BY <1>9 DEF UndoWrite, Release, Return
<1>10. ASSUME NEW c \in Callers, Delivered(c) PROVE TInv'
  BY <1>10 DEF Delivered
<1>11. ASSUME NEW c \in Callers, NotDelivered(c) PROVE TInv'
  BY <1>11 DEF NotDelivered, Return
<1>12. ASSUME NEW c \in Callers, LockReceipt(c) PROVE TInv'
  BY <1>12 DEF LockReceipt, Acquire
<1>13. ASSUME NEW c \in Callers, Record(c) PROVE TInv'
  BY <1>13 DEF Record, WriteReceipt, InRetention
<1>14. ASSUME NEW c \in Callers, RecordWrite(c) PROVE TInv'
  BY <1>14 DEF RecordWrite, Release, Return
<1>15. ASSUME NEW c \in Callers, LockTimeout(c) PROVE TInv'
  <2>1. pc[c] \in {"lockSpend", "lockUndo", "lockReceipt"}
    BY <1>15 DEF LockTimeout, WaitsFor
  <2>2. entry[c] \in Entry
    BY <2>1
  <2>3. abandoned' \in SUBSET Entry
    BY <1>15, <2>2 DEF LockTimeout
  <2> QED
    BY <1>15, <2>1, <2>3 DEF LockTimeout, Return
<1>16. ASSUME NEW c \in Callers, Crash(c) PROVE TInv'
  BY <1>16 DEF Crash, Return
<1>17. ASSUME NEW c \in Callers, NEW a \in Amounts, Demand(c, a) PROVE TInv'
  <2>1. CASE a > MaxSpend
    <3>1. Return(c) /\ pc[c] = "fetch" /\
          UNCHANGED <<now, filevars, nextId, paid, recorded, abandoned>>
      BY <1>17, <2>1 DEF Demand
    <3> QED
      BY <3>1 DEF Return
  <2>2. CASE ~(a > MaxSpend)
    <3>1. a \in 1..MaxSpend
      BY <2>2
    <3>2. /\ pc[c] = "fetch" /\ pc' = [pc EXCEPT ![c] = "lockSpend"]
          /\ entry' = [entry EXCEPT ![c].amount = a]
          /\ UNCHANGED <<now, filevars, buf, rbuf, known, nextId, paid, recorded, abandoned>>
      BY <1>17, <2>2 DEF Demand
    <3>3. [entry[c] EXCEPT !.amount = a]
            \in [id : Nat, at : Nat, amount : 0..MaxSpend, key : Keys \cup {"none"}]
      BY <3>1
    <3> QED
      BY <3>1, <3>2, <3>3
  <2> QED
    BY <2>1, <2>2
<1>18. ASSUME NEW c \in Callers, NEW landed \in BOOLEAN, SettleThrows(c, landed) PROVE TInv'
  BY <1>18 DEF SettleThrows, Return
<1>19. ASSUME NEW c \in Callers, NEW k \in Keys, Start(c, k) PROVE TInv'
  BY <1>19 DEF Start
<1>20. ASSUME NEW f \in Files, BreakStale(f) PROVE TInv'
  BY <1>20 DEF BreakStale, Release
<1>21. CASE Tick
  BY <1>21 DEF Tick
<1>22. CASE UNCHANGED vars
  BY <1>22 DEF vars
<1> HIDE DEF TInv
<1> QED
  BY <1>1, <1>2, <1>3, <1>4, <1>5, <1>6, <1>7, <1>8, <1>9, <1>10, <1>11, <1>12, <1>13,
     <1>14, <1>15, <1>16, <1>17, <1>18, <1>19, <1>20, <1>21, <1>22 DEF Next, Step, Replay
----------------------------------------------------------------------------
\* The ledger.

\* At most one call writes the pay-spend file; the ledger is what it writes.
LEMMA LedgerOfWriter ==
    ASSUME TInv
    PROVE  /\ \A w \in Writers : Ledger = buf[w]
           /\ Writers = {} => Ledger = ledger
BY DEF TInv, Exclusion, SpendHeld, Writers, Ledger

\* The set of writers, the file and what they write determine the ledger.
LEMMA SameLedger ==
    ASSUME TInv, TInv', Writers' = Writers, ledger' = ledger,
           \A w \in Writers : buf'[w] = buf[w]
    PROVE  Ledger' = Ledger
<1>1. TInv' => /\ \A w \in Writers' : Ledger' = buf'[w]
               /\ Writers' = {} => Ledger' = ledger'
  BY DEF TInv, Exclusion, SpendHeld, Writers, Ledger
<1>2. CASE Writers = {}
  BY <1>1, <1>2, LedgerOfWriter
<1>3. ASSUME NEW w \in Writers PROVE Ledger' = Ledger
  BY <1>1, <1>3, LedgerOfWriter
<1> QED
  BY <1>2, <1>3

\* The ledger is a finite set of entries.
LEMMA LedgerType ==
    ASSUME TInv, LedgerFits
    PROVE  Ledger \in SUBSET Entry /\ IsFiniteSet(Ledger)
BY DEF TInv, TypeOK, LedgerFits, Ledger, Writers

\* A step that changes neither the clock, the ledger nor the payments, and opens
\* no reservation, cannot disturb the invariant.
KeepsMoney ==
    /\ UNCHANGED <<now, paid, nextId>>
    /\ Ledger' = Ledger
    /\ IsFiniteSet(ledger') /\ \A c \in Callers : IsFiniteSet(buf'[c])
    /\ \A c \in Callers : pc'[c] \in OpenAt => pc[c] \in OpenAt /\ entry'[c] = entry[c]

LEMMA KeepsMoneyKeepsSInv ==
    ASSUME TInv, SInv, KeepsMoney
    PROVE  SInv'
<1>1. FreshIds' /\ OpenCovered'
  BY DEF SInv, FreshIds, OpenCovered, KeepsMoney
<1>2. PaymentsCovered' /\ LedgerFits'
  BY DEF SInv, PaymentsCovered, LedgerFits, KeepsMoney, Live, Spent, Units
<1> QED
  BY <1>1, <1>2 DEF SInv

\* The steps of one caller that touch neither file, seen from the ledger.
QuietFor(c, l) ==
    /\ UNCHANGED <<now, paid, nextId, ledger>>
    /\ c \notin Writers /\ l \notin {"reserveWrite", "undoWrite"} /\ Goto(c, l)
    /\ l \in OpenAt => pc[c] \in OpenAt /\ entry' = entry
    /\ buf' = buf \/ buf' = [buf EXCEPT ![c] = {}]
    /\ \A d \in Callers \ {c} : entry'[d] = entry[d]

LEMMA QuietKeepsMoney ==
    ASSUME TInv, TInv', SInv, NEW c \in Callers, NEW l, QuietFor(c, l)
    PROVE  KeepsMoney
<1>1. Writers' = Writers
  BY DEF QuietFor, Writers, TInv, TypeOK, Goto
<1>2. ledger' = ledger /\ \A w \in Writers : buf'[w] = buf[w]
  BY DEF QuietFor, Writers, TInv, TypeOK
<1>3. Ledger' = Ledger
  BY <1>1, <1>2, SameLedger
<1>4. IsFiniteSet(ledger') /\ \A d \in Callers : IsFiniteSet(buf'[d])
  BY FS_EmptySet DEF QuietFor, SInv, LedgerFits, TInv, TypeOK
<1>5. \A d \in Callers : pc'[d] \in OpenAt => pc[d] \in OpenAt /\ entry'[d] = entry[d]
  BY DEF QuietFor, TInv, TypeOK, Goto
<1> QED
  BY <1>3, <1>4, <1>5 DEF KeepsMoney, QuietFor
----------------------------------------------------------------------------
\* The steps that move money.

\* A granted reservation: the ledger is pruned and grows by an entry that fits.
LEMMA GrantKeepsSInv ==
    ASSUME TInv, TInv', SInv, NEW c \in Callers, pc[c] = "reserve",
           Spent(Live(ledger, now)) + entry[c].amount <= Cap,
           WriteReservation(c, Live(ledger, now)), UNCHANGED <<now, paid>>
    PROVE  SInv'
<1> DEFINE e == [entry[c] EXCEPT !.id = nextId, !.at = now]
           kept == Live(ledger, now)
<1>1. /\ e \in Entry /\ e.id = nextId /\ e.at = now /\ e.amount = entry[c].amount
      /\ e.amount \in 1..MaxPerCall
  <2>1. entry[c].key \in Keys /\ entry[c].amount \in 1..MaxSpend
    BY DEF TInv, CallsFormed
  <2>2. entry[c] \in [id : Nat, at : Nat, amount : 0..MaxSpend, key : Keys \cup {"none"}]
        /\ nextId \in Nat /\ now \in Nat
    BY DEF TInv, TypeOK
  <2>3. e \in Entry
    BY <2>1, <2>2, PayAssumption DEF Entry
  <2>4. e.id = nextId
    BY <2>2
  <2>5. e.at = now
    BY <2>2
  <2>6. e.amount = entry[c].amount
    BY <2>2
  <2> QED
    BY <2>1, <2>3, <2>4, <2>5, <2>6, PayAssumption
<1> HIDE DEF e
<1>2. /\ entry' = [entry EXCEPT ![c] = e] /\ buf' = [buf EXCEPT ![c] = kept \cup {e}]
      /\ ledger' = {} /\ nextId' = nextId + 1 /\ pc' = [pc EXCEPT ![c] = "reserveWrite"]
  BY DEF WriteReservation, Goto, e
<1>3. Writers = {} /\ Ledger = ledger
  BY LedgerOfWriter DEF TInv, Exclusion, SpendHeld, Writers
<1>4. Ledger' = kept \cup {e}
  <2>1. c \in Writers'
    BY <1>2 DEF TInv, TypeOK, Writers
  <2>2. lock'["spend"] = c
    BY <1>2 DEF TInv, TypeOK, Exclusion, SpendHeld
  <2> QED
    BY <1>2, <2>1, <2>2 DEF Ledger, TInv, TypeOK
<1>5. IsFiniteSet(kept) /\ kept \in SUBSET ledger
  BY FS_Subset DEF Live, SInv, LedgerFits
<1>6. FreshIds'
  <2>1. \A d \in Callers \ {c} : pc'[d] = pc[d] /\ entry'[d] = entry[d]
    BY <1>2 DEF TInv, TypeOK
  <2>2. pc'[c] \in OpenAt /\ entry'[c] = e
    BY <1>2 DEF TInv, TypeOK, OpenAt
  <2>3. nextId \in Nat /\ \A f \in Ledger \cup paid : f.id \in Nat
    BY LedgerType DEF TInv, TypeOK, Entry, SInv
  <2>4. \A d \in Callers : entry[d].id \in Nat
    BY DEF TInv, TypeOK
  <2> QED
    BY <1>1, <1>2, <1>3, <1>4, <1>5, <2>1, <2>2, <2>3, <2>4 DEF FreshIds, SInv
<1>7. OpenCovered' /\ PaymentsCovered'
  <2>1. \A d \in Callers \ {c} : pc'[d] = pc[d] /\ entry'[d] = entry[d]
    BY <1>2 DEF TInv, TypeOK
  <2>2. entry'[c] = e
    BY <1>2 DEF TInv, TypeOK
  <2> QED
    BY <1>3, <1>4, <2>1, <2>2 DEF OpenCovered, PaymentsCovered, SInv, Live
<1>8. LedgerFits'
  <2>1. IsFiniteSet(ledger') /\ \A d \in Callers : IsFiniteSet(buf'[d])
    BY <1>2, <1>5, FS_EmptySet, FS_AddElement DEF SInv, LedgerFits, TInv, TypeOK
  <2>2. Spent(kept \cup {e}) <= Spent(kept) + e.amount
    BY <1>1, <1>5, SpentAdd
  <2>3. Live(kept \cup {e}, now) \in SUBSET (kept \cup {e}) /\ IsFiniteSet(kept \cup {e})
    BY <1>5, FS_AddElement DEF Live
  <2>4. Spent(Live(kept \cup {e}, now)) <= Spent(kept \cup {e})
    BY <2>3, SpentMonotone
  <2>5. /\ Spent(kept) \in Nat /\ Spent(kept \cup {e}) \in Nat
        /\ Spent(Live(kept \cup {e}, now)) \in Nat /\ Cap \in Nat
    BY <1>5, <2>3, SpentType, FS_Subset, PayAssumption
  <2>6. Spent(Live(kept \cup {e}, now)) <= Cap
    BY <1>1, <2>2, <2>4, <2>5
  <2>7. Spent(Live(Ledger, now))' = Spent(Live(kept \cup {e}, now))
    BY <1>4 DEF Spent, Units, Live
  <2> QED
    BY <2>1, <2>6, <2>7 DEF LedgerFits
<1> QED
  BY <1>6, <1>7, <1>8 DEF SInv

\* A rollback that finds its entry: the ledger loses the call's own entry only.
LEMMA UndoKeepsSInv ==
    ASSUME TInv, TInv', SInv, NEW c \in Callers, Undo(c), Own(c) # {}
    PROVE  SInv'
<1>1. /\ pc[c] = "undo" /\ buf' = [buf EXCEPT ![c] = ledger \ Own(c)] /\ ledger' = {}
      /\ pc' = [pc EXCEPT ![c] = "undoWrite"]
      /\ UNCHANGED <<entry, now, nextId, paid>>
  BY DEF Undo, Goto
<1>2. Writers = {} /\ Ledger = ledger
  BY <1>1, LedgerOfWriter DEF TInv, Exclusion, SpendHeld, Writers
<1>3. Ledger' = ledger \ Own(c)
  <2>1. c \in Writers'
    BY <1>1 DEF TInv, TypeOK, Writers
  <2>2. lock'["spend"] = c
    BY <1>1 DEF TInv, TypeOK, Exclusion, SpendHeld
  <2> QED
    BY <1>1, <2>1, <2>2 DEF Ledger, TInv, TypeOK
<1>4. \A d \in Callers : pc'[d] \in OpenAt => pc[d] \in OpenAt /\ d # c
  BY <1>1 DEF TInv, TypeOK, OpenAt
<1>5. pc[c] \in OpenAt
  BY <1>1 DEF OpenAt
<1>6. FreshIds'
  BY <1>1, <1>2, <1>3, <1>4 DEF FreshIds, SInv
<1>7. OpenCovered'
  BY <1>1, <1>2, <1>3, <1>4, <1>5 DEF OpenCovered, SInv, FreshIds, Own
<1>8. PaymentsCovered'
  BY <1>1, <1>2, <1>3, <1>5 DEF PaymentsCovered, SInv, FreshIds, Own, Live
<1>9. LedgerFits'
  <2>1. IsFiniteSet(ledger) /\ IsFiniteSet(ledger \ Own(c))
    BY FS_Subset, ledger \ Own(c) \in SUBSET ledger DEF SInv, LedgerFits
  <2>2. IsFiniteSet(ledger') /\ \A d \in Callers : IsFiniteSet(buf'[d])
    BY <1>1, <2>1, FS_EmptySet DEF SInv, LedgerFits, TInv, TypeOK
  <2>3. Live(ledger \ Own(c), now) \in SUBSET Live(ledger, now) /\ IsFiniteSet(Live(ledger, now))
    BY <2>1, FS_Subset, Live(ledger, now) \in SUBSET ledger DEF Live
  <2>4. Spent(Live(ledger \ Own(c), now)) <= Spent(Live(ledger, now))
    BY <2>3, SpentMonotone
  <2>5. /\ Spent(Live(ledger, now)) \in Nat /\ Spent(Live(ledger \ Own(c), now)) \in Nat
        /\ Spent(Live(ledger, now)) <= Cap /\ Cap \in Nat
    BY <1>2, <2>3, SpentType, FS_Subset, PayAssumption DEF SInv, LedgerFits
  <2>6. Spent(Live(Ledger, now))' = Spent(Live(ledger \ Own(c), now))
    BY <1>1, <1>3 DEF Spent, Units, Live
  <2> QED
    BY <2>2, <2>4, <2>5, <2>6 DEF LedgerFits
<1> QED
  BY <1>6, <1>7, <1>8, <1>9 DEF SInv

\* A settlement: what is paid was open, so it is covered and unlike any other.
LEMMA PayKeepsSInv ==
    ASSUME TInv, TInv', SInv, NEW c \in Callers, pc[c] = "settle",
           paid' = paid \cup {entry[c]},
           UNCHANGED <<now, nextId, ledger>>, buf' = buf \/ buf' = [buf EXCEPT ![c] = {}],
           \E l : l \in {"deliver", "idle"} /\ Goto(c, l),
           \A d \in Callers \ {c} : entry'[d] = entry[d]
    PROVE  SInv'
<1>1. Writers' = Writers /\ \A w \in Writers : buf'[w] = buf[w]
  BY DEF Writers, Goto, TInv, TypeOK
<1>2. Ledger' = Ledger
  BY <1>1, SameLedger
<1>3. \A d \in Callers : pc'[d] \in OpenAt => pc[d] \in OpenAt /\ d # c /\ entry'[d] = entry[d]
  BY DEF OpenAt, Goto, TInv, TypeOK
<1>4. pc[c] \in OpenAt
  BY DEF OpenAt
<1>5. FreshIds' /\ OpenCovered'
  BY <1>2, <1>3, <1>4 DEF FreshIds, OpenCovered, SInv
<1>6. PaymentsCovered'
  BY <1>2, <1>4 DEF PaymentsCovered, OpenCovered, SInv, Live
<1>7. \A d \in Callers : IsFiniteSet(buf'[d])
  BY FS_EmptySet DEF SInv, LedgerFits, TInv, TypeOK
<1>8. LedgerFits'
  BY <1>2, <1>7 DEF LedgerFits, SInv, Spent, Units, Live
<1> QED
  BY <1>5, <1>6, <1>8 DEF SInv

\* Time passes: the window only loses entries.
LEMMA TickKeepsSInv ==
    ASSUME TInv, SInv, Tick
    PROVE  SInv'
<1>1. now' = now + 1 /\ now \in Nat /\ UNCHANGED <<lock, ledger, buf, pc, entry, nextId, paid>>
  BY DEF Tick, filevars, callvars, TInv, TypeOK
<1>2. Ledger' = Ledger
  BY <1>1 DEF Ledger, Writers
<1>3. /\ Ledger \in SUBSET Entry /\ IsFiniteSet(Ledger) /\ paid \in SUBSET Entry
      /\ \A c \in Callers : entry[c].at \in Nat
  BY LedgerType DEF SInv, TInv, TypeOK
<1>4. Live(Ledger, now + 1) \in SUBSET Live(Ledger, now) /\ Live(paid, now + 1) \in SUBSET Live(paid, now)
  BY <1>1, <1>3, PayAssumption DEF Live, Entry
<1>5. FreshIds'
  BY <1>1, <1>2 DEF FreshIds, SInv
<1>6. OpenCovered'
  BY <1>1, <1>2, <1>3, PayAssumption DEF OpenCovered, SInv
<1>7. PaymentsCovered'
  BY <1>1, <1>2, <1>4 DEF PaymentsCovered, SInv, Live
<1>8. LedgerFits'
  <2>1. IsFiniteSet(Live(Ledger, now))
    BY <1>3, FS_Subset, Live(Ledger, now) \in SUBSET Ledger DEF Live
  <2>2. Spent(Live(Ledger, now + 1)) <= Spent(Live(Ledger, now))
    BY <1>4, <2>1, SpentMonotone
  <2>3. /\ Spent(Live(Ledger, now)) \in Nat /\ Spent(Live(Ledger, now + 1)) \in Nat
        /\ Spent(Live(Ledger, now)) <= Cap /\ Cap \in Nat
    BY <1>4, <2>1, SpentType, FS_Subset, PayAssumption DEF SInv, LedgerFits
  <2>4. Spent(Live(Ledger, now))' = Spent(Live(Ledger, now + 1))
    BY <1>1, <1>2 DEF Spent, Units, Live
  <2> QED
    BY <1>1, <2>2, <2>3, <2>4 DEF LedgerFits, SInv
<1> QED
  BY <1>5, <1>6, <1>7, <1>8 DEF SInv
----------------------------------------------------------------------------
\* The invariant is inductive.

LEMMA SInvInit == Init => SInv
<1> SUFFICES ASSUME Init PROVE SInv
  OBVIOUS
<1>1. Ledger = {} /\ Live({}, now) = {}
  BY PayAssumption DEF Init, Ledger, Writers, Live
<1>2. Spent({}) = 0
  <2>1. Units({}) = {}
    BY DEF Units
  <2> QED
    BY <2>1, FS_EmptySet DEF Spent
<1>3. FreshIds /\ OpenCovered /\ PaymentsCovered
  BY <1>1 DEF Init, FreshIds, OpenCovered, OpenAt, PaymentsCovered, Live
<1>4. LedgerFits
  <2>1. \A c \in Callers : buf[c] = {}
    BY DEF Init
  <2>2. Spent(Live(Ledger, now)) <= Cap
    BY <1>1, <1>2, PayAssumption
  <2>3. IsFiniteSet(ledger) /\ \A c \in Callers : IsFiniteSet(buf[c])
    BY <2>1, FS_EmptySet DEF Init
  <2> QED
    BY <2>2, <2>3 DEF LedgerFits
<1> QED
  BY <1>3, <1>4 DEF SInv

\* What a step does to the money: a caller goes on without touching it, gets a
\* reservation, rolls one back or pays one, a write completes, or time passes.
Grants(c) ==
    /\ pc[c] = "reserve"
    /\ Spent(Live(ledger, now)) + entry[c].amount <= Cap
    /\ WriteReservation(c, Live(ledger, now))
    /\ UNCHANGED <<now, paid>>

RollsBack(c) == Undo(c) /\ Own(c) # {}

Pays(c) ==
    /\ pc[c] = "settle"
    /\ paid' = paid \cup {entry[c]}
    /\ UNCHANGED <<now, nextId, ledger>>
    /\ buf' = buf \/ buf' = [buf EXCEPT ![c] = {}]
    /\ \E l : l \in {"deliver", "idle"} /\ Goto(c, l)
    /\ \A d \in Callers \ {c} : entry'[d] = entry[d]

Rests == KeepsMoney /\ \A c \in Callers : pc[c] \in OpenAt => pc'[c] \in OpenAt

OneKind ==
    \/ \E c \in Callers, l \in PCs : QuietFor(c, l)
    \/ \E c \in Callers : Grants(c) \/ RollsBack(c) \/ Pays(c)
    \/ Rests
    \/ Tick

LEMMA StepKinds ==
    ASSUME WholeWrites, TInv, TInv', SInv, [Next]_vars
    PROVE  OneKind
<1> USE DEF OneKind
<1>1. ASSUME NEW c \in Callers, NoPayment(c) PROVE OneKind
  <2>1. QuietFor(c, "idle")
    BY <1>1 DEF QuietFor, NoPayment, Return, filevars, Writers, OpenAt, TInv, TypeOK, Goto
  <2> QED
    BY <2>1 DEF PCs
<1>2. ASSUME NEW c \in Callers, LockSpend(c) PROVE OneKind
  <2>1. QuietFor(c, "reserve")
    BY <1>2 DEF QuietFor, LockSpend, filevars, Writers, OpenAt, TInv, TypeOK, Goto
  <2> QED
    BY <2>1 DEF PCs
<1>3. ASSUME NEW c \in Callers, Refused(c) PROVE OneKind
  <2>1. QuietFor(c, "lockUndo")
    BY <1>3 DEF QuietFor, Refused, filevars, Writers, OpenAt, TInv, TypeOK, Goto
  <2> QED
    BY <2>1 DEF PCs
<1>4. ASSUME NEW c \in Callers, LockUndo(c) PROVE OneKind
  <2>1. QuietFor(c, "undo")
    BY <1>4 DEF QuietFor, LockUndo, filevars, Writers, OpenAt, TInv, TypeOK, Goto
  <2> QED
    BY <2>1 DEF PCs
<1>5. ASSUME NEW c \in Callers, Delivered(c) PROVE OneKind
  <2>1. QuietFor(c, "lockReceipt")
    BY <1>5 DEF QuietFor, Delivered, filevars, Writers, OpenAt, TInv, TypeOK, Goto
  <2> QED
    BY <2>1 DEF PCs
<1>6. ASSUME NEW c \in Callers, NotDelivered(c) PROVE OneKind
  <2>1. QuietFor(c, "idle")
    BY <1>6 DEF QuietFor, NotDelivered, Return, filevars, Writers, OpenAt, TInv, TypeOK, Goto
  <2> QED
    BY <2>1 DEF PCs
<1>7. ASSUME NEW c \in Callers, LockReceipt(c) PROVE OneKind
  <2>1. QuietFor(c, "record")
    BY <1>7 DEF QuietFor, LockReceipt, filevars, Writers, OpenAt, TInv, TypeOK, Goto
  <2> QED
    BY <2>1 DEF PCs
<1>8. ASSUME NEW c \in Callers, Record(c) PROVE OneKind
  <2>1. QuietFor(c, "recordWrite")
    BY <1>8 DEF QuietFor, Record, WriteReceipt, filevars, Writers, OpenAt, TInv, TypeOK, Goto
  <2> QED
    BY <2>1 DEF PCs
<1>9. ASSUME NEW c \in Callers, RecordWrite(c) PROVE OneKind
  <2>1. QuietFor(c, "idle")
    BY <1>9 DEF QuietFor, RecordWrite, Return, filevars, Writers, OpenAt, TInv, TypeOK, Goto
  <2> QED
    BY <2>1 DEF PCs
<1>10. ASSUME NEW c \in Callers, LockTimeout(c) PROVE OneKind
  <2>1. QuietFor(c, "idle")
    BY <1>10 DEF QuietFor, LockTimeout, WaitsFor, Return, filevars, Writers, OpenAt, TInv, TypeOK, Goto
  <2> QED
    BY <2>1 DEF PCs
<1>11. ASSUME NEW c \in Callers, Crash(c) PROVE OneKind
  <2>1. QuietFor(c, "idle")
    BY <1>11 DEF QuietFor, Crash, Return, WholeWrites, filevars, Writers, OpenAt, TInv, TypeOK, Goto
  <2> QED
    BY <2>1 DEF PCs
<1>12. ASSUME NEW c \in Callers, NEW k \in Keys, Start(c, k) PROVE OneKind
  <2>1. QuietFor(c, "fetch")
    BY <1>12 DEF QuietFor, Start, filevars, Writers, OpenAt, TInv, TypeOK, Goto
  <2> QED
    BY <2>1 DEF PCs
<1>13. ASSUME NEW c \in Callers, NEW a \in Amounts, Demand(c, a) PROVE OneKind
  <2>1. CASE a > MaxSpend
    <3>1. Return(c) /\ pc[c] = "fetch" /\ UNCHANGED <<now, filevars, nextId, paid>>
      BY <1>13, <2>1 DEF Demand
    <3>2. QuietFor(c, "idle")
      BY <3>1 DEF QuietFor, Return, filevars, Writers, OpenAt, TInv, TypeOK, Goto
    <3> QED
      BY <3>2 DEF PCs
  <2>2. CASE ~(a > MaxSpend)
    <3>1. /\ pc[c] = "fetch" /\ Goto(c, "lockSpend") /\ entry' = [entry EXCEPT ![c].amount = a]
          /\ UNCHANGED <<now, filevars, buf, nextId, paid>>
      BY <1>13, <2>2 DEF Demand
    <3>2. QuietFor(c, "lockSpend")
      BY <3>1 DEF QuietFor, filevars, Writers, OpenAt, TInv, TypeOK, Goto
    <3> QED
      BY <3>2 DEF PCs
  <2> QED
    BY <2>1, <2>2
<1>14. ASSUME NEW c \in Callers, Reserve(c) PROVE OneKind
  <2>1. CASE Spent(Live(ledger, now)) + entry[c].amount > Cap
    <3>1. /\ Return(c) /\ pc[c] = "reserve"
          /\ UNCHANGED <<ledger, nextId, now, paid>>
      BY <1>14, <2>1 DEF Reserve
    <3>2. QuietFor(c, "idle")
      BY <3>1 DEF QuietFor, Return, filevars, Writers, OpenAt, TInv, TypeOK, Goto
    <3> QED
      BY <3>2 DEF PCs
  <2>2. CASE ~(Spent(Live(ledger, now)) + entry[c].amount > Cap)
    <3>1. /\ WriteReservation(c, Live(ledger, now)) /\ pc[c] = "reserve"
          /\ UNCHANGED <<now, paid>>
      BY <1>14, <2>2 DEF Reserve
    <3>2. Spent(Live(ledger, now)) \in Nat /\ entry[c].amount \in Nat /\ Cap \in Nat
      <4>1. IsFiniteSet(Live(ledger, now))
        BY FS_Subset, Live(ledger, now) \in SUBSET ledger DEF Live, SInv, LedgerFits
      <4> QED
        BY <4>1, SpentType, PayAssumption DEF TInv, TypeOK
    <3>3. Spent(Live(ledger, now)) + entry[c].amount <= Cap
      BY <2>2, <3>2
    <3> QED
      BY <3>1, <3>3 DEF Grants
  <2> QED
    BY <2>1, <2>2
<1>15. ASSUME NEW c \in Callers, Undo(c) PROVE OneKind
  <2>1. CASE Own(c) # {}
    BY <1>15, <2>1 DEF RollsBack
  <2>2. CASE Own(c) = {}
    <3>1. Return(c) /\ pc[c] = "undo" /\ UNCHANGED <<ledger, now, nextId, paid>>
      BY <1>15, <2>2 DEF Undo
    <3>2. QuietFor(c, "idle")
      BY <3>1 DEF QuietFor, Return, filevars, Writers, OpenAt, TInv, TypeOK, Goto
    <3> QED
      BY <3>2 DEF PCs
  <2> QED
    BY <2>1, <2>2
<1>16. ASSUME NEW c \in Callers, ReserveWrite(c) PROVE OneKind
  <2>1. c \in Writers /\ Ledger = buf[c] /\ ledger' = buf[c]
    BY <1>16, LedgerOfWriter DEF ReserveWrite, Writers
  <2>2. Writers' = {}
    BY <1>16 DEF ReserveWrite, Goto, Release, Writers, TInv, TypeOK, Exclusion, SpendHeld
  <2>3. Ledger' = Ledger
    <3>1. TInv' => (Writers' = {} => Ledger' = ledger')
      BY DEF Writers, Ledger
    <3> QED
      BY <2>1, <2>2, <3>1
  <2>4. IsFiniteSet(ledger') /\ \A d \in Callers : IsFiniteSet(buf'[d])
    BY <1>16, <2>1, FS_EmptySet DEF ReserveWrite, SInv, LedgerFits, TInv, TypeOK
  <2>5. /\ UNCHANGED <<now, paid, nextId>>
        /\ \A d \in Callers : pc'[d] \in OpenAt => pc[d] \in OpenAt /\ entry'[d] = entry[d]
        /\ \A d \in Callers : pc[d] \in OpenAt => pc'[d] \in OpenAt
    BY <1>16 DEF ReserveWrite, Goto, OpenAt, TInv, TypeOK
  <2> QED
    BY <2>3, <2>4, <2>5 DEF KeepsMoney, Rests
<1>17. ASSUME NEW c \in Callers, UndoWrite(c) PROVE OneKind
  <2>1. c \in Writers /\ Ledger = buf[c] /\ ledger' = buf[c]
    BY <1>17, LedgerOfWriter DEF UndoWrite, Return, Writers
  <2>2. Writers' = {}
    BY <1>17 DEF UndoWrite, Return, Goto, Release, Writers, TInv, TypeOK, Exclusion, SpendHeld
  <2>3. Ledger' = Ledger
    <3>1. TInv' => (Writers' = {} => Ledger' = ledger')
      BY DEF Writers, Ledger
    <3> QED
      BY <2>1, <2>2, <3>1
  <2>4. IsFiniteSet(ledger') /\ \A d \in Callers : IsFiniteSet(buf'[d])
    BY <1>17, <2>1, FS_EmptySet DEF UndoWrite, Return, SInv, LedgerFits, TInv, TypeOK
  <2>5. /\ UNCHANGED <<now, paid, nextId>>
        /\ \A d \in Callers : pc'[d] \in OpenAt => pc[d] \in OpenAt /\ entry'[d] = entry[d]
        /\ \A d \in Callers : pc[d] \in OpenAt => pc'[d] \in OpenAt
    BY <1>17 DEF UndoWrite, Return, Goto, OpenAt, TInv, TypeOK
  <2> QED
    BY <2>3, <2>4, <2>5 DEF KeepsMoney, Rests
<1>18. ASSUME NEW c \in Callers, Settled(c) PROVE OneKind
  BY <1>18 DEF Settled, filevars, Pays
<1>19. ASSUME NEW c \in Callers, NEW landed \in BOOLEAN, SettleThrows(c, landed) PROVE OneKind
  <2>1. CASE landed
    <3>1. /\ pc[c] = "settle" /\ Return(c) /\ paid' = paid \cup {entry[c]}
          /\ UNCHANGED <<now, filevars, nextId>>
      BY <1>19, <2>1 DEF SettleThrows
    <3> QED
      BY <3>1 DEF Return, filevars, TInv, TypeOK, Pays
  <2>2. CASE ~landed
    <3>1. /\ pc[c] = "settle" /\ Return(c) /\ UNCHANGED <<now, filevars, nextId, paid>>
      BY <1>19, <2>2 DEF SettleThrows
    <3>2. QuietFor(c, "idle")
      BY <3>1 DEF QuietFor, Return, filevars, Writers, OpenAt, TInv, TypeOK, Goto
    <3> QED
      BY <3>2 DEF PCs
  <2> QED
    BY <2>1, <2>2
<1>20. ASSUME NEW f \in Files, BreakStale(f) PROVE OneKind
  <2>1. Ledger' = Ledger
    BY <1>20, SameLedger DEF BreakStale, callvars, Writers
  <2> QED
    BY <1>20, <2>1 DEF KeepsMoney, Rests, BreakStale, callvars, SInv, LedgerFits
<1>21. CASE Tick
  BY <1>21
<1>22. CASE UNCHANGED vars
  <2>1. Ledger' = Ledger
    BY <1>22 DEF vars, filevars, callvars, Ledger, Writers
  <2> QED
    BY <1>22, <2>1 DEF KeepsMoney, Rests, vars, filevars, callvars, SInv, LedgerFits
<1> QED
  BY <1>1, <1>2, <1>3, <1>4, <1>5, <1>6, <1>7, <1>8, <1>9, <1>10, <1>11, <1>12, <1>13, <1>14, <1>15, <1>16, <1>17, <1>18, <1>19, <1>20, <1>21, <1>22 DEF Next, Step, Replay

LEMMA SInvStep ==
    ASSUME WholeWrites, TInv, TInv', SInv, [Next]_vars
    PROVE  SInv'
<1>1. ASSUME NEW c \in Callers, NEW l \in PCs, QuietFor(c, l) PROVE SInv'
  BY <1>1, QuietKeepsMoney, KeepsMoneyKeepsSInv
<1>2. ASSUME NEW c \in Callers, Grants(c) PROVE SInv'
  BY <1>2, GrantKeepsSInv DEF Grants
<1>3. ASSUME NEW c \in Callers, RollsBack(c) PROVE SInv'
  BY <1>3, UndoKeepsSInv DEF RollsBack
<1>4. ASSUME NEW c \in Callers, Pays(c) PROVE SInv'
  BY <1>4, PayKeepsSInv DEF Pays
<1>5. CASE Rests
  BY <1>5, KeepsMoneyKeepsSInv DEF Rests
<1>6. CASE Tick
  BY <1>6, TickKeepsSInv
<1> QED
  BY <1>1, <1>2, <1>3, <1>4, <1>5, <1>6, StepKinds DEF OneKind
----------------------------------------------------------------------------
\* Money that is held, and by whom; here processes may also die inside a write.

\* What the ledger holds is paid, given up, or the reservation of a call that has
\* yet to decide it; and a file under a write is empty.
HeldInv ==
    /\ \A e \in Ledger :
         \/ e \in paid \cup abandoned
         \/ \E c \in Callers : pc[c] \in OpenAt /\ entry[c] = e
    /\ Writers # {} => ledger = {}

\* The step of a caller that writes no pay-spend file leaves the ledger alone.
LEMMA OutsideKeepsLedger ==
    ASSUME TInv, TInv', NEW c \in Callers, NEW l, Goto(c, l), c \notin Writers,
           l \notin {"reserveWrite", "undoWrite"}, ledger' = ledger,
           buf' = buf \/ buf' = [buf EXCEPT ![c] = {}]
    PROVE  Writers' = Writers /\ Ledger' = Ledger
<1>1. Writers' = Writers
  BY DEF Writers, TInv, TypeOK, Goto
<1>2. \A w \in Writers : buf'[w] = buf[w]
  BY DEF Writers, TInv, TypeOK
<1> QED
  BY <1>1, <1>2, SameLedger

\* Held money stays accounted when the ledger does not grow and what a caller
\* gives up is paid, abandoned or gone.
Outside(c) ==
    /\ c \notin Writers /\ ledger' = ledger
    /\ \E l \in PCs \ {"reserveWrite", "undoWrite"} : Goto(c, l)
    /\ buf' = buf \/ buf' = [buf EXCEPT ![c] = {}]
    /\ \A d \in Callers \ {c} : entry'[d] = entry[d]
    /\ paid \subseteq paid' /\ abandoned \subseteq abandoned'
    /\ pc[c] \in OpenAt =>
         \/ pc'[c] \in OpenAt /\ entry'[c] = entry[c]
         \/ entry[c] \in paid' \cup abandoned'
         \/ entry[c] \notin Ledger

LEMMA OutsideKeepsHeld ==
    ASSUME TInv, TInv', HeldInv, NEW c \in Callers, Outside(c)
    PROVE  HeldInv'
<1>1. Writers' = Writers /\ Ledger' = Ledger
  BY OutsideKeepsLedger DEF Outside
<1>2. \A d \in Callers \ {c} : pc'[d] = pc[d] /\ entry'[d] = entry[d]
  BY DEF Outside, Goto, TInv, TypeOK
<1>3. \A e \in Ledger' :
        \/ e \in paid' \cup abandoned'
        \/ \E d \in Callers : pc'[d] \in OpenAt /\ entry'[d] = e
  BY <1>1, <1>2 DEF HeldInv, Outside
<1> QED
  BY <1>1, <1>3 DEF HeldInv, Outside

\* The steps that write, begin to write or die in a write.
LEMMA WriteKeepsHeld ==
    ASSUME TInv, TInv', HeldInv, NEW c \in Callers,
           \/ ReserveWrite(c) \/ UndoWrite(c) \/ (Undo(c) /\ Own(c) # {})
           \/ WriteReservation(c, Live(ledger, now)) /\ pc[c] = "reserve" /\ UNCHANGED <<paid, abandoned>>
           \/ Crash(c) /\ c \in Writers
    PROVE  HeldInv'
<1>1. /\ pc[c] \in SpendHeld
      /\ \A d \in Callers \ {c} : pc'[d] = pc[d] /\ entry'[d] = entry[d]
      /\ paid \subseteq paid' /\ abandoned \subseteq abandoned'
  BY DEF ReserveWrite, UndoWrite, Undo, WriteReservation, Crash, Return, Goto, Writers, SpendHeld,
         TInv, TypeOK
<1>2. \A d \in Callers \ {c} : pc[d] \notin SpendHeld
  BY <1>1 DEF TInv, Exclusion
<1>3. CASE ReserveWrite(c)
  <2>1. c \in Writers /\ Writers' = {} /\ Ledger = buf[c] /\ ledger' = buf[c]
    BY <1>2, <1>3, LedgerOfWriter DEF ReserveWrite, Goto, Writers, SpendHeld, TInv, TypeOK
  <2>2. lock'["spend"] = NoOne
    BY <1>3 DEF ReserveWrite, Release, TInv, TypeOK, Files
  <2>3. Ledger' = Ledger
    BY <2>1, <2>2 DEF Ledger
  <2>4. pc'[c] \in OpenAt /\ entry' = entry
    BY <1>3 DEF ReserveWrite, Goto, OpenAt, TInv, TypeOK
  <2> QED
    BY <1>1, <2>1, <2>3, <2>4 DEF HeldInv
<1>4. CASE UndoWrite(c)
  <2>1. /\ c \in Writers /\ Writers' = {} /\ Ledger = buf[c] /\ ledger' = buf[c]
        /\ pc[c] \notin OpenAt
    BY <1>2, <1>4, LedgerOfWriter DEF UndoWrite, Return, Goto, Writers, SpendHeld, OpenAt, TInv, TypeOK
  <2>2. lock'["spend"] = NoOne
    BY <1>4 DEF UndoWrite, Release, TInv, TypeOK, Files
  <2>3. Ledger' = Ledger
    BY <2>1, <2>2 DEF Ledger
  <2> QED
    BY <1>1, <2>1, <2>3 DEF HeldInv
<1>5. CASE Undo(c) /\ Own(c) # {}
  <2>1. /\ pc[c] = "undo" /\ ledger' = {} /\ lock' = lock
        /\ buf' = [buf EXCEPT ![c] = ledger \ Own(c)] /\ pc' = [pc EXCEPT ![c] = "undoWrite"]
    BY <1>5 DEF Undo, Goto
  <2>2. Ledger = ledger
    BY <1>2, <2>1, LedgerOfWriter DEF Writers, SpendHeld
  <2>3. lock'["spend"] = c /\ c \in Writers' /\ buf'[c] = ledger \ Own(c)
    BY <2>1 DEF Writers, TInv, TypeOK, Exclusion, SpendHeld
  <2>4. Ledger' = ledger \ Own(c)
    BY <2>3 DEF Ledger
  <2>5. entry[c] \notin ledger \ Own(c)
    BY DEF Own
  <2> QED
    BY <1>1, <2>1, <2>2, <2>4, <2>5 DEF HeldInv
<1>6. CASE WriteReservation(c, Live(ledger, now)) /\ pc[c] = "reserve" /\ UNCHANGED <<paid, abandoned>>
  <2> DEFINE e == [entry[c] EXCEPT !.id = nextId, !.at = now]
  <2>1. /\ entry' = [entry EXCEPT ![c] = e] /\ ledger' = {} /\ lock' = lock
        /\ buf' = [buf EXCEPT ![c] = Live(ledger, now) \cup {e}] /\ pc' = [pc EXCEPT ![c] = "reserveWrite"]
    BY <1>6 DEF WriteReservation, Goto
  <2> HIDE DEF e
  <2>2. Ledger = ledger
    BY <1>2, <1>6, LedgerOfWriter DEF Writers, SpendHeld
  <2>3. lock'["spend"] = c /\ c \in Writers' /\ buf'[c] = Live(ledger, now) \cup {e}
    BY <1>6, <2>1 DEF Writers, TInv, TypeOK, Exclusion, SpendHeld
  <2>4. Ledger' = Live(ledger, now) \cup {e} /\ Live(ledger, now) \subseteq Ledger
    BY <2>2, <2>3 DEF Ledger, Live
  <2>5. pc'[c] \in OpenAt /\ entry'[c] = e /\ pc[c] \notin OpenAt
    BY <1>6, <2>1 DEF OpenAt, TInv, TypeOK
  <2>6. \A f \in Ledger' :
          \/ f \in paid' \cup abandoned'
          \/ \E d \in Callers : pc'[d] \in OpenAt /\ entry'[d] = f
    BY <1>1, <2>4, <2>5 DEF HeldInv
  <2> QED
    BY <2>1, <2>6 DEF HeldInv
<1>7. CASE Crash(c) /\ c \in Writers
  <2>1. ledger' = {}
    BY <1>7 DEF Crash, HeldInv
  <2>2. lock'["spend"] = Stale
    BY <1>1, <1>7 DEF Crash, TInv, TypeOK, Exclusion, Files
  <2>3. Ledger' = {}
    BY <2>1, <2>2, PayAssumption DEF Ledger, Writers
  <2> QED
    BY <2>1, <2>3 DEF HeldInv
<1> QED
  BY <1>3, <1>4, <1>5, <1>6, <1>7

LEMMA HeldInvStep ==
    ASSUME TInv, TInv', HeldInv, [Next]_vars
    PROVE  HeldInv'
<1> USE DEF Outside, OpenAt, Writers, filevars, Goto, TInv, TypeOK, PCs
<1>1. ASSUME NEW c \in Callers, Outside(c) PROVE HeldInv'
  BY <1>1, OutsideKeepsHeld
<1> HIDE DEF HeldInv
<1>2. ASSUME NEW c \in Callers, NoPayment(c) PROVE HeldInv'
  <2>1. Outside(c) BY <1>2 DEF NoPayment, Return
  <2> QED BY <1>1, <2>1
<1>3. ASSUME NEW c \in Callers, NEW a \in Amounts, Demand(c, a) PROVE HeldInv'
  <2>1. Outside(c) BY <1>3 DEF Demand, Return
  <2> QED BY <1>1, <2>1
<1>4. ASSUME NEW c \in Callers, LockSpend(c) \/ LockUndo(c) \/ LockReceipt(c) PROVE HeldInv'
  <2>1. Outside(c) BY <1>4 DEF LockSpend, LockUndo, LockReceipt
  <2> QED BY <1>1, <2>1
<1>5. ASSUME NEW c \in Callers, Reserve(c) PROVE HeldInv'
  <2>1. CASE Spent(Live(ledger, now)) + entry[c].amount > Cap
    <3>1. Outside(c) BY <1>5, <2>1 DEF Reserve, Return
    <3> QED BY <1>1, <3>1
  <2>2. CASE ~(Spent(Live(ledger, now)) + entry[c].amount > Cap)
    <3>1. WriteReservation(c, Live(ledger, now)) /\ pc[c] = "reserve" /\ UNCHANGED <<paid, abandoned>>
      BY <1>5, <2>2 DEF Reserve
    <3> QED BY <3>1, WriteKeepsHeld
  <2> QED BY <2>1, <2>2
<1>6. ASSUME NEW c \in Callers, ReserveWrite(c) \/ UndoWrite(c) PROVE HeldInv'
  BY <1>6, WriteKeepsHeld
<1>7. ASSUME NEW c \in Callers, Settled(c) PROVE HeldInv'
  <2>1. Outside(c) BY <1>7 DEF Settled
  <2> QED BY <1>1, <2>1
<1>8. ASSUME NEW c \in Callers, Refused(c) PROVE HeldInv'
  <2>1. Outside(c) BY <1>8 DEF Refused
  <2> QED BY <1>1, <2>1
<1>9. ASSUME NEW c \in Callers, NEW landed \in BOOLEAN, SettleThrows(c, landed) PROVE HeldInv'
  <2>1. /\ pc[c] = "settle" /\ Return(c) /\ UNCHANGED ledger
        /\ paid \subseteq paid' /\ abandoned \subseteq abandoned' /\ entry[c] \in paid' \cup abandoned'
    BY <1>9 DEF SettleThrows
  <2>2. Outside(c) BY <2>1 DEF Return
  <2> QED BY <1>1, <2>2
<1>10. ASSUME NEW c \in Callers, Undo(c) PROVE HeldInv'
  <2>1. CASE Own(c) # {}
    BY <1>10, <2>1, WriteKeepsHeld
  <2>2. CASE Own(c) = {}
    <3>1. pc[c] = "undo" /\ Return(c) /\ UNCHANGED <<ledger, paid, abandoned>>
      BY <1>10, <2>2 DEF Undo
    <3>2. Writers = {}
      BY <3>1 DEF Exclusion, SpendHeld
    <3>3. entry[c] \notin Ledger
      BY <2>2, <3>2, LedgerOfWriter DEF Own
    <3>4. Outside(c) BY <3>1, <3>3 DEF Return
    <3> QED BY <1>1, <3>4
  <2> QED BY <2>1, <2>2
<1>11. ASSUME NEW c \in Callers, Delivered(c) \/ NotDelivered(c) PROVE HeldInv'
  <2>1. Outside(c) BY <1>11 DEF Delivered, NotDelivered, Return
  <2> QED BY <1>1, <2>1
<1>12. ASSUME NEW c \in Callers, Record(c) \/ RecordWrite(c) PROVE HeldInv'
  <2>1. Outside(c) BY <1>12 DEF Record, WriteReceipt, RecordWrite, Return
  <2> QED BY <1>1, <2>1
<1>13. ASSUME NEW c \in Callers, LockTimeout(c) PROVE HeldInv'
  <2>1. Outside(c) BY <1>13 DEF LockTimeout, WaitsFor, Return
  <2> QED BY <1>1, <2>1
<1>14. ASSUME NEW c \in Callers, Crash(c) PROVE HeldInv'
  <2>1. CASE c \in Writers
    BY <1>14, <2>1, WriteKeepsHeld
  <2>2. CASE c \notin Writers
    <3>1. Outside(c) BY <1>14, <2>2 DEF Crash, Return
    <3> QED BY <1>1, <3>1
  <2> QED BY <2>1, <2>2
<1>15. ASSUME NEW c \in Callers, NEW k \in Keys, Start(c, k) PROVE HeldInv'
  <2>1. Outside(c) BY <1>15 DEF Start
  <2> QED BY <1>1, <2>1
<1>16. ASSUME NEW f \in Files, BreakStale(f) PROVE HeldInv'
  <2>1. UNCHANGED <<ledger, pc, entry, buf, paid, abandoned>>
    BY <1>16 DEF BreakStale, callvars
  <2>2. Writers' = Writers /\ Ledger' = Ledger
    BY <2>1, SameLedger
  <2> QED BY <2>1, <2>2 DEF HeldInv
<1>17. CASE Tick \/ UNCHANGED vars
  <2>1. UNCHANGED <<lock, ledger, pc, entry, buf, paid, abandoned>>
    BY <1>17 DEF Tick, vars, callvars
  <2>2. Writers' = Writers /\ Ledger' = Ledger
    BY <2>1 DEF Ledger
  <2> QED BY <2>1, <2>2 DEF HeldInv
<1> QED
  BY <1>2, <1>3, <1>4, <1>5, <1>6, <1>7, <1>8, <1>9, <1>10, <1>11, <1>12, <1>13, <1>14, <1>15,
     <1>16, <1>17 DEF Next, Step, Replay

----------------------------------------------------------------------------
\* Receipts: with whole writes, the file, or the write under way, has every
\* receipt in retention, so no call that is let through was paid before.
ReceiptsKept ==
    \/ /\ \A c \in Callers : pc[c] # "recordWrite"
       /\ InRetention(recorded, now) \subseteq receipts
    \/ \E c \in Callers : pc[c] = "recordWrite" /\ InRetention(recorded, now) \subseteq rbuf[c]

NeverKnown == \A c \in Callers : ~known[c]

ReceiptInv == ReceiptsKept /\ NeverKnown

\* The step of a caller that neither writes a receipt nor begins to.
Unrecording(c) ==
    /\ pc[c] # "recordWrite"
    /\ \E l \in PCs \ {"recordWrite"} : Goto(c, l)
    /\ UNCHANGED <<now, receipts, recorded>>
    /\ \A d \in Callers \ {c} : rbuf'[d] = rbuf[d]
    /\ known' = known \/ known' = [known EXCEPT ![c] = FALSE]

LEMMA UnrecordingKeeps ==
    ASSUME TInv, ReceiptInv, NEW c \in Callers, Unrecording(c)
    PROVE  ReceiptInv'
<1>1. pc'[c] # "recordWrite" /\ \A d \in Callers \ {c} : pc'[d] = pc[d] /\ rbuf'[d] = rbuf[d]
  BY DEF Unrecording, Goto, TInv, TypeOK
<1>2. InRetention(recorded, now)' = InRetention(recorded, now)
  BY DEF Unrecording, InRetention
<1>3. ReceiptsKept'
  BY <1>1, <1>2 DEF ReceiptInv, ReceiptsKept, Unrecording
<1>4. NeverKnown'
  BY DEF ReceiptInv, NeverKnown, Unrecording, TInv, TypeOK
<1> QED
  BY <1>3, <1>4 DEF ReceiptInv

\* Who holds no lock of the receipts file finds nobody writing it.
LEMMA NobodyRecords ==
    ASSUME TInv, ReceiptsKept,
           lock["receipts"] = NoOne \/ \E c \in Callers : pc[c] = "record"
    PROVE  /\ \A c \in Callers : pc[c] # "recordWrite"
           /\ InRetention(recorded, now) \subseteq InRetention(receipts, now)
<1>1. \A c \in Callers : pc[c] # "recordWrite"
  BY PayAssumption DEF TInv, Exclusion, ReceiptsHeld
<1> QED
  BY <1>1 DEF ReceiptsKept, InRetention

LEMMA ReceiptInvStep ==
    ASSUME WholeWrites, TInv, ReceiptInv, [Next]_vars
    PROVE  ReceiptInv'
<1> USE DEF filevars, callvars, Goto, PCs
<1>1. ASSUME NEW c \in Callers, Unrecording(c) PROVE ReceiptInv'
  BY <1>1, UnrecordingKeeps
<1>2. ASSUME NEW c \in Callers, NoPayment(c) PROVE ReceiptInv'
  <2>1. Unrecording(c) BY <1>2 DEF NoPayment, Return, Unrecording, TInv, TypeOK
  <2> QED BY <1>1, <2>1
<1>3. ASSUME NEW c \in Callers, NEW a \in Amounts, Demand(c, a) PROVE ReceiptInv'
  <2>1. Unrecording(c) BY <1>3 DEF Demand, Return, Unrecording, TInv, TypeOK
  <2> QED BY <1>1, <2>1
<1>4. ASSUME NEW c \in Callers, LockSpend(c) \/ LockUndo(c) \/ LockReceipt(c) PROVE ReceiptInv'
  <2>1. Unrecording(c) BY <1>4 DEF LockSpend, LockUndo, LockReceipt, Unrecording, TInv, TypeOK
  <2> QED BY <1>1, <2>1
<1>5. ASSUME NEW c \in Callers, Reserve(c) PROVE ReceiptInv'
  <2>1. /\ pc[c] = "reserve" /\ UNCHANGED <<now, receipts, recorded>>
        /\ Return(c) \/ WriteReservation(c, Live(ledger, now))
    BY <1>5 DEF Reserve
  <2>2. CASE Return(c)
    <3>1. Unrecording(c) BY <2>1, <2>2 DEF Return, Unrecording, TInv, TypeOK
    <3> QED BY <1>1, <3>1
  <2>3. CASE WriteReservation(c, Live(ledger, now))
    <3>1. /\ Goto(c, "reserveWrite") /\ UNCHANGED <<rbuf, known>>
      BY <2>3 DEF WriteReservation
    <3>2. Unrecording(c) BY <2>1, <3>1 DEF Unrecording
    <3> QED BY <1>1, <3>2
  <2> QED BY <2>1, <2>2, <2>3
<1>6. ASSUME NEW c \in Callers, ReserveWrite(c) \/ UndoWrite(c) PROVE ReceiptInv'
  <2>1. Unrecording(c) BY <1>6 DEF ReserveWrite, UndoWrite, Return, Unrecording, TInv, TypeOK
  <2> QED BY <1>1, <2>1
<1>7. ASSUME NEW c \in Callers, Settled(c) \/ Refused(c) PROVE ReceiptInv'
  <2>1. Unrecording(c) BY <1>7 DEF Settled, Refused, Unrecording
  <2> QED BY <1>1, <2>1
<1>8. ASSUME NEW c \in Callers, NEW landed \in BOOLEAN, SettleThrows(c, landed) PROVE ReceiptInv'
  <2>1. pc[c] = "settle" /\ Return(c) /\ UNCHANGED <<now, receipts, recorded>>
    BY <1>8 DEF SettleThrows
  <2>2. Unrecording(c) BY <2>1 DEF Return, Unrecording, TInv, TypeOK
  <2> QED BY <1>1, <2>2
<1>9. ASSUME NEW c \in Callers, Undo(c) PROVE ReceiptInv'
  <2>1. /\ pc[c] = "undo" /\ UNCHANGED <<now, receipts, recorded>>
        /\ Return(c) \/ (Goto(c, "undoWrite") /\ UNCHANGED <<rbuf, known>>)
    BY <1>9 DEF Undo
  <2>2. Unrecording(c) BY <2>1 DEF Return, Unrecording, TInv, TypeOK
  <2> QED BY <1>1, <2>2
<1>10. ASSUME NEW c \in Callers, Delivered(c) \/ NotDelivered(c) PROVE ReceiptInv'
  <2>1. Unrecording(c) BY <1>10 DEF Delivered, NotDelivered, Return, Unrecording, TInv, TypeOK
  <2> QED BY <1>1, <2>1
<1>11. ASSUME NEW c \in Callers, Record(c) PROVE ReceiptInv'
  <2>1. /\ pc[c] = "record" /\ pc' = [pc EXCEPT ![c] = "recordWrite"]
        /\ rbuf' = [rbuf EXCEPT ![c] = InRetention(receipts, now) \cup @]
        /\ UNCHANGED <<now, recorded, known>>
    BY <1>11 DEF Record, WriteReceipt
  <2>2. InRetention(recorded, now) \subseteq rbuf'[c] /\ pc'[c] = "recordWrite"
    BY <2>1, NobodyRecords DEF ReceiptInv, TInv, TypeOK
  <2> QED
    BY <2>1, <2>2 DEF ReceiptInv, ReceiptsKept, NeverKnown, InRetention
<1>12. ASSUME NEW c \in Callers, RecordWrite(c) PROVE ReceiptInv'
  <2>1. /\ pc[c] = "recordWrite" /\ pc' = [pc EXCEPT ![c] = "idle"] /\ receipts' = rbuf[c]
        /\ recorded' = recorded \cup rbuf[c] /\ known' = [known EXCEPT ![c] = FALSE] /\ now' = now
    BY <1>12 DEF RecordWrite, Return
  <2>2. \A d \in Callers \ {c} : pc[d] # "recordWrite"
    BY <2>1 DEF TInv, Exclusion, ReceiptsHeld
  <2>3. InRetention(recorded, now) \subseteq rbuf[c]
    BY <2>1, <2>2 DEF ReceiptInv, ReceiptsKept
  <2>4. ReceiptsKept'
    BY <2>1, <2>2, <2>3 DEF ReceiptsKept, InRetention, TInv, TypeOK
  <2> QED
    BY <2>1, <2>4 DEF ReceiptInv, NeverKnown, TInv, TypeOK
<1>13. ASSUME NEW c \in Callers, LockTimeout(c) PROVE ReceiptInv'
  <2>1. Unrecording(c) BY <1>13 DEF LockTimeout, WaitsFor, Return, Unrecording, TInv, TypeOK
  <2> QED BY <1>1, <2>1
<1>14. ASSUME NEW c \in Callers, Crash(c) PROVE ReceiptInv'
  <2>1. Unrecording(c) BY <1>14 DEF Crash, WholeWrites, Return, Unrecording, TInv, TypeOK
  <2> QED BY <1>1, <2>1
<1>15. ASSUME NEW c \in Callers, NEW k \in Keys, Start(c, k) PROVE ReceiptInv'
  <2>1. InRetention(recorded, now) \subseteq receipts /\ \A r \in receipts : r.key # k
    BY <1>15, NobodyRecords DEF Start, ReceiptInv, InRetention
  <2>2. known' = [known EXCEPT ![c] = FALSE]
    BY <1>15, <2>1 DEF Start
  <2>3. Unrecording(c) BY <1>15, <2>2 DEF Start, Unrecording, TInv, TypeOK
  <2> QED BY <1>1, <2>3
<1>16. CASE Tick
  <2>1. now' = now + 1 /\ UNCHANGED <<receipts, recorded, pc, rbuf, known>>
    BY <1>16 DEF Tick
  <2>2. InRetention(recorded, now)' \subseteq InRetention(recorded, now)
    BY <2>1, PayAssumption DEF InRetention, TInv, TypeOK, Receipt
  <2> QED
    BY <2>1, <2>2 DEF ReceiptInv, ReceiptsKept, NeverKnown
<1>17. CASE UNCHANGED vars \/ \E f \in Files : BreakStale(f)
  <2>1. UNCHANGED <<now, receipts, recorded, pc, rbuf, known>>
    BY <1>17 DEF BreakStale, vars
  <2> QED
    BY <2>1 DEF ReceiptInv, ReceiptsKept, NeverKnown, InRetention
<1> QED
  BY <1>2, <1>3, <1>4, <1>5, <1>6, <1>7, <1>8, <1>9, <1>10, <1>11, <1>12, <1>13, <1>14, <1>15,
     <1>16, <1>17 DEF Next, Step, Replay

----------------------------------------------------------------------------
\* The refinement of SpendBudget.

\* The calls that will take a reservation id, if the cap lets them; with the
\* bound on reservations there is an id for each.
Reserving == {c \in Callers : pc[c] \in {"lockSpend", "reserve"}}

BoundInv ==
    /\ nextId \in Nat \ {0} /\ IsFiniteSet(Reserving)
    /\ nextId + Cardinality(Reserving) <= MaxReservations + 1

\* What rollback() finds by its id is the reservation of the call.
IdsUnique ==
    \A e \in Ledger, c \in Callers : pc[c] \in OpenAt /\ e.id = entry[c].id => e = entry[c]

OpenEntries == {entry[c] : c \in {d \in Callers : pc[d] \in OpenAt}}

\* A step after which no more calls wait for an id leaves one for each.
LEMMA FewerReserving ==
    ASSUME BoundInv, nextId' = nextId, Reserving' \subseteq Reserving
    PROVE  BoundInv'
<1>1. IsFiniteSet(Reserving') /\ Cardinality(Reserving') <= Cardinality(Reserving)
  BY FS_Subset DEF BoundInv
<1>2. Cardinality(Reserving') \in Nat /\ Cardinality(Reserving) \in Nat
  BY <1>1, FS_CardinalityType DEF BoundInv
<1> QED
  BY <1>1, <1>2, PayAssumption DEF BoundInv

LEMMA BoundInvStep ==
    ASSUME TInv, BoundInv, [Next]_vars
    PROVE  BoundInv'
<1> USE DEF Goto, filevars, callvars
<1>0. pc \in [Callers -> PCs]
  BY DEF TInv, TypeOK
<1>1. ASSUME NEW c \in Callers, NEW l, Goto(c, l), l \notin {"lockSpend", "reserve"}, nextId' = nextId
      PROVE  BoundInv'
  <2>1. Reserving' \subseteq Reserving
    BY <1>0, <1>1 DEF Reserving
  <2> QED
    BY <1>1, <2>1, FewerReserving
<1>2. ASSUME NEW c \in Callers, NEW a \in Amounts, Demand(c, a) PROVE BoundInv'
  <2>1. CASE Goto(c, "idle")
    BY <1>1, <1>2, <2>1 DEF Demand
  <2>2. CASE ~Goto(c, "idle")
    <3>1. /\ pc[c] = "fetch" /\ pc' = [pc EXCEPT ![c] = "lockSpend"] /\ nextId' = nextId
          /\ nextId + Cardinality(Reserving) <= MaxReservations
      BY <1>2, <2>2 DEF Demand, Return, Reserving
    <3>2. Reserving' = Reserving \cup {c} /\ c \notin Reserving
      BY <1>0, <3>1 DEF Reserving
    <3>3. IsFiniteSet(Reserving') /\ Cardinality(Reserving') = Cardinality(Reserving) + 1
      BY <3>2, FS_AddElement DEF BoundInv
    <3>4. Cardinality(Reserving) \in Nat
      BY FS_CardinalityType DEF BoundInv
    <3> QED
      BY <3>1, <3>3, <3>4, PayAssumption DEF BoundInv
  <2> QED
    BY <2>1, <2>2
<1>3. ASSUME NEW c \in Callers, LockSpend(c) PROVE BoundInv'
  <2>1. Reserving' \subseteq Reserving
    BY <1>0, <1>3 DEF LockSpend, Reserving
  <2> QED
    BY <1>3, <2>1, FewerReserving DEF LockSpend
<1>4. ASSUME NEW c \in Callers, Reserve(c) PROVE BoundInv'
  <2>1. CASE Spent(Live(ledger, now)) + entry[c].amount > Cap
    BY <1>1, <1>4, <2>1 DEF Reserve, Return
  <2>2. CASE ~(Spent(Live(ledger, now)) + entry[c].amount > Cap)
    <3>1. pc[c] = "reserve" /\ pc' = [pc EXCEPT ![c] = "reserveWrite"] /\ nextId' = nextId + 1
      BY <1>4, <2>2 DEF Reserve, WriteReservation
    <3>2. Reserving' = Reserving \ {c} /\ c \in Reserving
      BY <1>0, <3>1 DEF Reserving
    <3>3. IsFiniteSet(Reserving') /\ Cardinality(Reserving') = Cardinality(Reserving) - 1
      BY <3>2, FS_RemoveElement DEF BoundInv
    <3>4. Cardinality(Reserving) \in Nat
      BY FS_CardinalityType DEF BoundInv
    <3> QED
      BY <3>1, <3>3, <3>4, PayAssumption DEF BoundInv
  <2> QED
    BY <2>1, <2>2
<1>5. ASSUME NEW c \in Callers, Undo(c) PROVE BoundInv'
  <2>1. (Goto(c, "undoWrite") \/ Goto(c, "idle")) /\ nextId' = nextId
    BY <1>5 DEF Undo, Return
  <2> QED
    BY <1>1, <2>1
<1>6. ASSUME NEW c \in Callers,
             \/ NoPayment(c) \/ ReserveWrite(c) \/ Settled(c) \/ Refused(c)
             \/ (\E landed \in BOOLEAN : SettleThrows(c, landed))
             \/ LockUndo(c) \/ UndoWrite(c) \/ Delivered(c) \/ NotDelivered(c)
             \/ LockReceipt(c) \/ Record(c) \/ RecordWrite(c) \/ LockTimeout(c) \/ Crash(c)
             \/ (\E k \in Keys : Start(c, k))
      PROVE  BoundInv'
  <2>1. nextId' = nextId
    BY <1>6 DEF NoPayment, ReserveWrite, Settled, Refused, SettleThrows, LockUndo, UndoWrite, Delivered,
                NotDelivered, LockReceipt, Record, WriteReceipt, RecordWrite, LockTimeout, Crash, Start
  <2>2. \E l \in PCs \ {"lockSpend", "reserve"} : Goto(c, l)
    BY <1>6 DEF NoPayment, ReserveWrite, Settled, Refused, SettleThrows, LockUndo, UndoWrite, Delivered,
                NotDelivered, LockReceipt, Record, WriteReceipt, RecordWrite, LockTimeout, Crash, Start,
                Return, PCs
  <2> QED
    BY <1>1, <2>1, <2>2
<1>7. CASE Tick \/ UNCHANGED vars \/ \E f \in Files : BreakStale(f)
  <2>1. UNCHANGED <<pc, nextId>>
    BY <1>7 DEF Tick, vars, BreakStale
  <2> QED
    BY <2>1, FewerReserving DEF Reserving
<1> QED
  BY <1>2, <1>3, <1>4, <1>5, <1>6, <1>7 DEF Next, Step, Replay

\* The caller that decides its reservation takes it from the open ones, and no
\* other; a caller that keeps its reservation leaves them as they are.
LEMMA OpenLeaves ==
    ASSUME FreshIds, NEW c \in Callers, pc[c] \in OpenAt, pc'[c] \notin OpenAt,
           \A d \in Callers \ {c} : pc'[d] = pc[d] /\ entry'[d] = entry[d]
    PROVE  entry[c] \in OpenEntries /\ OpenEntries' = OpenEntries \ {entry[c]}
BY DEF FreshIds, OpenEntries

LEMMA OpenStays ==
    ASSUME \A d \in Callers : pc'[d] \in OpenAt => pc[d] \in OpenAt /\ entry'[d] = entry[d],
           \A d \in Callers : pc[d] \in OpenAt => pc'[d] \in OpenAt
    PROVE  OpenEntries' = OpenEntries
BY DEF OpenEntries

\* SpendBudget's state, step kinds and sums in terms of Pay's.
LEMMA BudgetState ==
    /\ Budget!bvars = <<now, Ledger, OpenEntries, paid>>
    /\ \A S, t : Budget!Spent(Budget!Live(S, t)) = Spent(Live(S, t))
<1>1. Budget!bvars = <<now, Ledger, OpenEntries, paid>>
  BY DEF Budget!bvars, OpenEntries, OpenAt
<1>2. \A S, t : Budget!Spent(Budget!Live(S, t)) = Spent(Live(S, t))
  <2>1. ASSUME NEW S, NEW t PROVE Budget!Units(Budget!Live(S, t)) = Units(Live(S, t))
    BY DEF Budget!Live, Budget!Units, Live, Units
  <2>2. \A T : Budget!Cardinality(T) = Cardinality(T)
    BY DEF Budget!Cardinality, Cardinality
  <2> QED
    BY <2>1, <2>2 DEF Budget!Spent, Spent
<1> QED
  BY <1>1, <1>2

LEMMA GrantRefines ==
    ASSUME TInv, TInv', SInv, BoundInv, NEW c \in Callers, Grants(c)
    PROVE  Budget!Next
<1> DEFINE e == [entry[c] EXCEPT !.id = nextId, !.at = now]
<1>1. /\ e.id = nextId /\ e.at = now /\ e.amount = entry[c].amount
      /\ e = [id |-> nextId, at |-> now, amount |-> entry[c].amount, key |-> entry[c].key]
      /\ entry[c].amount \in 1..MaxPerCall /\ entry[c].key \in Keys
  <2>1. entry[c] \in [id : Nat, at : Nat, amount : 0..MaxSpend, key : Keys \cup {"none"}]
    BY DEF TInv, TypeOK
  <2>2. entry[c].amount \in 1..MaxSpend /\ entry[c].key \in Keys
    BY DEF TInv, CallsFormed, Grants
  <2>3. e.id = nextId
    BY <2>1
  <2>4. e.at = now
    BY <2>1
  <2>5. e.amount = entry[c].amount
    BY <2>1
  <2>6. e.key = entry[c].key
    BY <2>1
  <2>7. e \in [id : Nat, at : Nat, amount : 0..MaxSpend, key : Keys \cup {"none"}]
    BY <2>1 DEF TInv, TypeOK
  <2> HIDE DEF e
  <2>8. e = [id |-> nextId, at |-> now, amount |-> entry[c].amount, key |-> entry[c].key]
    BY <2>3, <2>4, <2>5, <2>6, <2>7
  <2>9. entry[c].amount \in 1..MaxPerCall
    BY <2>2, PayAssumption
  <2> QED
    BY <2>2, <2>3, <2>4, <2>5, <2>8, <2>9
<1> HIDE DEF e
<1>2. /\ entry' = [entry EXCEPT ![c] = e] /\ buf' = [buf EXCEPT ![c] = Live(ledger, now) \cup {e}]
      /\ pc' = [pc EXCEPT ![c] = "reserveWrite"] /\ pc[c] = "reserve" /\ lock' = lock
      /\ UNCHANGED <<now, paid>>
  BY DEF Grants, WriteReservation, Goto, e
<1>3. Writers = {} /\ Ledger = ledger
  BY <1>2, LedgerOfWriter DEF TInv, Exclusion, SpendHeld, Writers
<1>4. Ledger' = Live(Ledger, now) \cup {e}
  <2>1. c \in Writers' /\ lock'["spend"] = c
    BY <1>2 DEF TInv, TypeOK, Writers, Exclusion, SpendHeld
  <2> QED
    BY <1>2, <1>3, <2>1 DEF Ledger, TInv, TypeOK
<1>5. OpenEntries' = OpenEntries \cup {e}
  <2>1. pc'[c] \in OpenAt /\ entry'[c] = e /\ pc[c] \notin OpenAt
    BY <1>2 DEF TInv, TypeOK, OpenAt
  <2>2. \A d \in Callers \ {c} : pc'[d] = pc[d] /\ entry'[d] = entry[d]
    BY <1>2 DEF TInv, TypeOK
  <2> QED
    BY <2>1, <2>2 DEF OpenEntries
<1>6. \A f \in Ledger \cup OpenEntries \cup paid : f.id # e.id
  <2>1. \A f \in Ledger \cup OpenEntries \cup paid : f.id < nextId
    BY DEF SInv, FreshIds, OpenEntries
  <2> QED
    BY <1>1, <2>1 DEF TInv, TypeOK
<1>7. nextId \in 1..MaxReservations
  <2>1. c \in Reserving
    BY <1>2 DEF Reserving
  <2>2. Cardinality(Reserving) \in Nat /\ Cardinality(Reserving) # 0
    BY <2>1, FS_CardinalityType, FS_EmptySet DEF BoundInv
  <2> QED
    BY <2>2, PayAssumption DEF BoundInv
<1>8. Spent(Live(Ledger, now)) + e.amount <= Cap
  BY <1>1, <1>3 DEF Grants
<1>9. \E i \in 1..MaxReservations, a \in 1..MaxPerCall, k \in Keys :
        Budget!Reserve([id |-> i, at |-> now, amount |-> a, key |-> k])
  <2>1. PICK i, a, k : i = nextId /\ a = entry[c].amount /\ k = entry[c].key
    OBVIOUS
  <2> DEFINE f == [id |-> i, at |-> now, amount |-> a, key |-> k]
  <2>2. f = e /\ f.amount = e.amount /\ f.id = e.id
    BY <1>1, <2>1
  <2> HIDE DEF f
  <2>3. /\ \A g \in Ledger \cup OpenEntries \cup paid : g.id # f.id
        /\ Budget!Spent(Budget!Live(Ledger, now)) + f.amount <= Cap
        /\ Ledger' = Budget!Live(Ledger, now) \cup {f} /\ OpenEntries' = OpenEntries \cup {f}
        /\ UNCHANGED <<now, paid>>
    BY <1>2, <1>4, <1>5, <1>6, <1>8, <2>2, BudgetState DEF Budget!Live, Live
  <2> QED
    BY <1>1, <1>7, <2>1, <2>3 DEF Budget!Reserve, OpenEntries, OpenAt, f
<1> QED
  BY <1>9 DEF Budget!Next, Budget!Reserve

\* An open reservation that is decided: cancelled, paid or abandoned.
LEMMA DecidedRefines ==
    ASSUME NEW e \in OpenEntries, OpenEntries' = OpenEntries \ {e}, now' = now,
           \/ Ledger' = Ledger \ {e} /\ paid' = paid
           \/ Ledger' = Ledger /\ paid' = paid \cup {e}
           \/ Ledger' = Ledger /\ paid' = paid
    PROVE  Budget!Next
<1>1. Budget!Cancel(e) \/ Budget!Settle(e) \/ Budget!Abandon(e)
  BY DEF Budget!Cancel, Budget!Settle, Budget!Abandon, OpenEntries, OpenAt
<1> QED
  BY <1>1 DEF Budget!Next, OpenEntries, OpenAt

LEMMA KindRefines ==
    ASSUME TInv, TInv', SInv, BoundInv, IdsUnique, OneKind
    PROVE  [Budget!Next]_(Budget!bvars) /\ IdsUnique'
<1>0. FreshIds
  BY DEF SInv
<1>1. ASSUME UNCHANGED <<now, paid>>, Ledger' = Ledger, OpenEntries' = OpenEntries
      PROVE  [Budget!Next]_(Budget!bvars)
  BY <1>1, BudgetState DEF Budget!bvars, OpenEntries, OpenAt
<1>2. ASSUME Ledger' \subseteq Ledger,
             \A d \in Callers : pc'[d] \in OpenAt => pc[d] \in OpenAt /\ entry'[d] = entry[d]
      PROVE  IdsUnique'
  BY <1>2 DEF IdsUnique
<1>3. ASSUME NEW c \in Callers, NEW l \in PCs, QuietFor(c, l)
      PROVE  [Budget!Next]_(Budget!bvars) /\ IdsUnique'
  <2>1. KeepsMoney
    BY <1>3, QuietKeepsMoney
  <2>2. \A d \in Callers \ {c} : pc'[d] = pc[d] /\ entry'[d] = entry[d]
    BY <1>3 DEF QuietFor, Goto, TInv, TypeOK
  <2>3. CASE pc[c] \in OpenAt => pc'[c] \in OpenAt
    <3>1. OpenEntries' = OpenEntries
      BY <2>1, <2>2, <2>3, OpenStays DEF KeepsMoney
    <3> QED
      BY <1>1, <1>2, <2>1, <3>1 DEF KeepsMoney
  <2>4. CASE pc[c] \in OpenAt /\ pc'[c] \notin OpenAt
    <3>1. entry[c] \in OpenEntries /\ OpenEntries' = OpenEntries \ {entry[c]}
      BY <1>0, <2>2, <2>4, OpenLeaves
    <3>2. PICK e : e = entry[c]
      OBVIOUS
    <3>3. Budget!Next
      BY <2>1, <3>1, <3>2, DecidedRefines DEF KeepsMoney
    <3> QED
      BY <1>2, <2>1, <3>3 DEF KeepsMoney
  <2> QED
    BY <2>3, <2>4
<1>4. ASSUME NEW c \in Callers, Grants(c)
      PROVE  [Budget!Next]_(Budget!bvars) /\ IdsUnique'
  <2>1. Budget!Next
    BY <1>4, GrantRefines
  <2>2. IdsUnique'
    <3> DEFINE e == [entry[c] EXCEPT !.id = nextId, !.at = now]
    <3>1. e.id = nextId
      BY DEF TInv, TypeOK
    <3> HIDE DEF e
    <3>2. /\ entry' = [entry EXCEPT ![c] = e] /\ buf' = [buf EXCEPT ![c] = Live(ledger, now) \cup {e}]
          /\ pc' = [pc EXCEPT ![c] = "reserveWrite"] /\ pc[c] = "reserve" /\ lock' = lock
      BY <1>4 DEF Grants, WriteReservation, Goto, e
    <3>3. Writers = {} /\ Ledger = ledger
      BY <3>2, LedgerOfWriter DEF TInv, Exclusion, SpendHeld, Writers
    <3>4. Ledger' \subseteq Ledger \cup {e}
      <4>1. c \in Writers' /\ lock'["spend"] = c
        BY <3>2 DEF TInv, TypeOK, Writers, Exclusion, SpendHeld
      <4> QED
        BY <3>2, <3>3, <4>1 DEF Ledger, Live, TInv, TypeOK
    <3>5. entry'[c] = e /\ \A d \in Callers \ {c} : pc'[d] = pc[d] /\ entry'[d] = entry[d]
      BY <3>2 DEF TInv, TypeOK
    <3>6. /\ \A f \in Ledger : f.id < nextId
          /\ \A d \in Callers : pc[d] \in OpenAt => entry[d].id < nextId
      BY <1>0 DEF FreshIds
    <3>7. nextId \in Nat
      BY DEF TInv, TypeOK
    <3> QED
      BY <3>1, <3>4, <3>5, <3>6, <3>7 DEF IdsUnique
  <2> QED
    BY <2>1, <2>2
<1>5. ASSUME NEW c \in Callers, RollsBack(c)
      PROVE  [Budget!Next]_(Budget!bvars) /\ IdsUnique'
  <2>1. /\ pc[c] = "undo" /\ buf' = [buf EXCEPT ![c] = ledger \ Own(c)] /\ lock' = lock
        /\ pc' = [pc EXCEPT ![c] = "undoWrite"] /\ UNCHANGED <<entry, now, paid>>
    BY <1>5 DEF RollsBack, Undo, Goto
  <2>2. Writers = {} /\ Ledger = ledger
    BY <2>1, LedgerOfWriter DEF TInv, Exclusion, SpendHeld, Writers
  <2>3. Ledger' = Ledger \ Own(c)
    <3>1. c \in Writers' /\ lock'["spend"] = c
      BY <2>1 DEF TInv, TypeOK, Writers, Exclusion, SpendHeld
    <3> QED
      BY <2>1, <2>2, <3>1 DEF Ledger, TInv, TypeOK
  <2>4. Own(c) = {entry[c]}
    BY <1>5, <2>1, <2>2 DEF RollsBack, Own, IdsUnique, OpenAt
  <2>5. pc[c] \in OpenAt /\ pc'[c] \notin OpenAt /\ \A d \in Callers \ {c} : pc'[d] = pc[d]
    BY <2>1 DEF OpenAt, TInv, TypeOK
  <2>6. entry[c] \in OpenEntries /\ OpenEntries' = OpenEntries \ {entry[c]}
    BY <1>0, <2>1, <2>5, OpenLeaves
  <2>7. PICK e : e = entry[c]
    OBVIOUS
  <2>8. Budget!Next
    BY <2>1, <2>3, <2>4, <2>6, <2>7, DecidedRefines
  <2> QED
    BY <1>2, <2>1, <2>3, <2>5, <2>8
<1>6. ASSUME NEW c \in Callers, Pays(c)
      PROVE  [Budget!Next]_(Budget!bvars) /\ IdsUnique'
  <2>1. Writers' = Writers /\ \A w \in Writers : buf'[w] = buf[w]
    BY <1>6 DEF Pays, Writers, Goto, TInv, TypeOK
  <2>2. Ledger' = Ledger
    BY <1>6, <2>1, SameLedger DEF Pays
  <2>3. /\ pc[c] \in OpenAt /\ pc'[c] \notin OpenAt
        /\ \A d \in Callers \ {c} : pc'[d] = pc[d] /\ entry'[d] = entry[d]
    BY <1>6 DEF Pays, OpenAt, Goto, TInv, TypeOK
  <2>4. entry[c] \in OpenEntries /\ OpenEntries' = OpenEntries \ {entry[c]}
    BY <1>0, <2>3, OpenLeaves
  <2>5. PICK e : e = entry[c]
    OBVIOUS
  <2>6. Budget!Next
    BY <1>6, <2>2, <2>4, <2>5, DecidedRefines DEF Pays
  <2> QED
    BY <1>2, <2>2, <2>3, <2>6
<1>7. CASE Rests
  <2>1. OpenEntries' = OpenEntries
    BY <1>7, OpenStays DEF Rests, KeepsMoney
  <2> QED
    BY <1>1, <1>2, <1>7, <2>1 DEF Rests, KeepsMoney
<1>8. CASE Tick
  <2>1. now' = now + 1 /\ UNCHANGED <<lock, ledger, buf, pc, entry, paid>>
    BY <1>8 DEF Tick, filevars, callvars
  <2>2. Ledger' = Ledger
    BY <2>1 DEF Ledger, Writers
  <2>3. OpenEntries' = OpenEntries
    BY <2>1 DEF OpenEntries
  <2>4. Budget!Tick
    BY <2>1, <2>2, <2>3 DEF Budget!Tick, OpenEntries, OpenAt
  <2> QED
    BY <1>2, <2>1, <2>2, <2>4 DEF Budget!Next
<1> QED
  BY <1>3, <1>4, <1>5, <1>6, <1>7, <1>8 DEF OneKind
----------------------------------------------------------------------------
\* The theorems.

\* Pay is type correct for every value of its constants; in particular no call
\* asks the guards for more than its maxSpend (pay.ts:153).
THEOREM PayTypeOK == Spec => []TypeOK
<1>1. TInv => TypeOK
  BY DEF TInv
<1> QED
  BY <1>1, TInvInit, TInvStep, PTL DEF Spec

\* The lock files exclude: only the call between lock() and unlock() of a state
\* file touches it, whatever crashes and stale locks there were.
THEOREM PayExclusion == Spec => []Exclusion
<1>1. TInv => Exclusion
  BY DEF TInv
<1> QED
  BY <1>1, TInvInit, TInvStep, PTL DEF Spec

\* The strengthening: TInv and SInv hold always when file writes are whole.
THEOREM PayInvariant == ASSUME WholeWrites PROVE Spec => [](TInv /\ SInv)
<1>1. Init => TInv /\ SInv
  BY TInvInit, SInvInit
<1>2. TInv /\ SInv /\ [Next]_vars => TInv' /\ SInv'
  BY TInvStep, SInvStep
<1> QED
  BY <1>1, <1>2, PTL DEF Spec

\* No payment the window sees is ever missing from the ledger (lost updates,
\* foreign rollbacks, early pruning).
THEOREM PayPaymentsCovered == ASSUME WholeWrites PROVE Spec => []PaymentsCovered
<1>1. TInv /\ SInv => PaymentsCovered
  BY DEF SInv
<1> QED
  BY <1>1, PayInvariant, PTL

\* The rolling cap: payments reserved within one window never exceed the cap.
THEOREM PayCapRespected == ASSUME WholeWrites PROVE Spec => []CapRespected
<1>1. ASSUME TInv, SInv PROVE CapRespected
  <2>1. Ledger \in SUBSET Entry /\ IsFiniteSet(Ledger)
    BY <1>1, LedgerType DEF SInv
  <2>2. Live(paid, now) \in SUBSET Live(Ledger, now)
    BY <1>1 DEF SInv, PaymentsCovered, Live
  <2>3. IsFiniteSet(Live(Ledger, now))
    BY <2>1, FS_Subset, Live(Ledger, now) \in SUBSET Ledger DEF Live
  <2>4. Spent(Live(paid, now)) <= Spent(Live(Ledger, now))
    BY <2>2, <2>3, SpentMonotone
  <2>5. /\ Spent(Live(paid, now)) \in Nat /\ Spent(Live(Ledger, now)) \in Nat /\ Cap \in Nat
    BY <2>2, <2>3, SpentType, FS_Subset, PayAssumption
  <2> QED
    BY <1>1, <2>4, <2>5 DEF SInv, LedgerFits, CapRespected
<1>2. TInv /\ SInv => CapRespected
  BY <1>1
<1> QED
  BY <1>2, PayInvariant, PTL

\* Money the ledger holds is a payment, a call still under way, or one whose
\* outcome was lost; also when processes die inside file writes.
THEOREM PayHeldMoneyAccounted == Spec => []HeldMoneyAccounted
<1>1. Init => HeldInv
  BY DEF Init, HeldInv, Ledger, Writers
<1>2. TInv /\ TInv' /\ HeldInv /\ [Next]_vars => HeldInv'
  BY HeldInvStep
<1>3. HeldInv => HeldMoneyAccounted
  BY DEF HeldInv, HeldMoneyAccounted
<1> QED
  BY <1>1, <1>2, <1>3, TInvInit, TInvStep, PTL DEF Spec

\* The receipt log (pay-receipt-log.ts): a call that starts within the retention
\* of a receipt for its request never pays for it again, with whole writes.
THEOREM PayNoRepayAfterReceipt == ASSUME WholeWrites PROVE Spec => NoRepayAfterReceipt
<1>1. Init => TInv /\ ReceiptInv
  BY TInvInit DEF Init, ReceiptInv, ReceiptsKept, NeverKnown, InRetention
<1>2. TInv /\ ReceiptInv /\ [Next]_vars => TInv' /\ ReceiptInv'
  BY TInvStep, ReceiptInvStep
<1>3. ReceiptInv => \A c \in Callers : entry[c] \in paid' \ paid => ~known[c]
  BY DEF ReceiptInv, NeverKnown
<1> QED
  BY <1>1, <1>2, <1>3, PTL DEF Spec, NoRepayAfterReceipt

\* The cap guard implements the abstract budget: every reservation fits the cap
\* when it is made, and a rollback takes back the call's own reservation only.
THEOREM PayImplementsBudget == ASSUME WholeWrites PROVE Spec => BudgetSpec
<1>1. Init => TInv /\ SInv /\ BoundInv /\ IdsUnique
  <2> SUFFICES ASSUME Init PROVE BoundInv /\ IdsUnique
    BY TInvInit, SInvInit
  <2>1. Reserving = {} /\ nextId = 1
    BY DEF Init, Reserving
  <2>2. BoundInv
    BY <2>1, FS_EmptySet, PayAssumption DEF BoundInv
  <2>3. IdsUnique
    BY DEF Init, IdsUnique, OpenAt
  <2> QED
    BY <2>2, <2>3
<1>2. TInv /\ SInv /\ BoundInv /\ IdsUnique /\ [Next]_vars
        => /\ TInv' /\ SInv' /\ BoundInv' /\ IdsUnique'
           /\ [Budget!Next]_(Budget!bvars)
  <2> SUFFICES ASSUME TInv, SInv, BoundInv, IdsUnique, [Next]_vars
               PROVE  /\ TInv' /\ SInv' /\ BoundInv' /\ IdsUnique'
                      /\ [Budget!Next]_(Budget!bvars)
    OBVIOUS
  <2>1. TInv'
    BY TInvStep
  <2>2. OneKind
    BY <2>1, StepKinds
  <2> QED
    BY <2>1, <2>2, SInvStep, BoundInvStep, KindRefines
<1>3. Init => Budget!Init
  <2> SUFFICES ASSUME Init PROVE Budget!Init
    OBVIOUS
  <2>1. Ledger = {} /\ OpenEntries = {}
    BY PayAssumption DEF Init, Ledger, Writers, OpenEntries, OpenAt
  <2> QED
    BY <2>1 DEF Init, Budget!Init, OpenEntries, OpenAt
<1> QED
  BY <1>1, <1>2, <1>3, PTL DEF Spec, BudgetSpec, Budget!Spec
============================================================================
