-------------------------------- MODULE Pay --------------------------------
(***************************************************************************)
(* pay() (tools/pay.ts) with its two guards, the rolling spend cap          *)
(* (guards/pay-spend-cap.ts) and the receipt log (guards/pay-receipt-log.ts)*)
(* over the file store (state-store.ts), for several callers: processes or  *)
(* concurrent calls of one wallet that share the two state files.           *)
(*                                                                         *)
(* A call is a sequence of steps separated by the awaits of the code; a     *)
(* caller's pc names the await it is at.  FileStateStore.set is writeFile,  *)
(* which truncates the file and then writes it: the file reads as its       *)
(* default (loadState: missing, empty or corrupt JSON) between the two.     *)
(***************************************************************************)
EXTENDS Integers, FiniteSets

CONSTANTS
    Callers,         \* concurrent calls of pay() by one wallet
    Keys,            \* idempotency keys (makeIdempotencyKey: url, method, body)
    NoOne, Stale,    \* lock states beside a caller: free, held by a dead process
    Cap, MaxPerCall, \* session.payPolicy: rolling24hCap, maxPerCall
    MaxSpend,        \* opts.maxSpend of every call (above MaxPerCall it is refused)
    Amounts,         \* what a server may ask for in its 402 answer
    Window,          \* 24h in model time units
    Retention,       \* RECEIPT_RETENTION_DAYS in model time units
    Faults,          \* which of the faults below may happen
    MaxTime,         \* bound: the clock stops here
    MaxReservations  \* bound: reservations made in a behaviour

FaultKinds == {
    "crash",    \* a caller's process dies between two steps
    "torn",     \* ... even between the truncation and the write of a file
    "throw",    \* bridge.payD402 throws, the payment may or may not have landed
    "refuse",   \* settlement.success = false: no funds committed
    "delivery"} \* the paid retry of the request fails or is not 2xx

ASSUME PayAssumption ==
    /\ NoOne \notin Callers /\ Stale \notin Callers /\ NoOne # Stale
    /\ Cap \in Nat /\ MaxPerCall \in Nat /\ MaxSpend \in 1..MaxPerCall
    /\ Amounts \subseteq Nat \ {0}
    /\ Window \in Nat \ {0} /\ Retention \in Nat \ {0}
    /\ MaxTime \in Nat /\ MaxReservations \in Nat
    /\ Faults \subseteq FaultKinds

VARIABLES
    now,        \* Date.now(), monotone
    lock,       \* proper-lockfile's lock of each state file
    ledger,     \* what loadState of the pay-spend file returns: its entries
    receipts,   \* what loadState of the pay-receipts file returns
    pc,         \* where each caller is in pay()
    entry,      \* the call's request: its key, then the amount asked, then the
                \* reservation made for it (resId, timestamp)
    buf,        \* the entries a caller is writing to the pay-spend file
    rbuf,       \* the receipt a caller will add, then all those it writes
    nextId,     \* randomUUID(): the next reservation id
    paid,       \* the network: reservations settled there (external)
    recorded,   \* history: every receipt ever written
    known,      \* history: a receipt in retention existed when the call checked
    abandoned   \* history: reservations no call will decide any more

filevars == <<lock, ledger, receipts>>
callvars == <<pc, entry, buf, rbuf, known>>
vars == <<now, filevars, callvars, nextId, paid, recorded, abandoned>>

Files == {"spend", "receipts"}
PCs == {"idle", "fetch", "lockSpend", "reserve", "reserveWrite", "settle",
        "lockUndo", "undo", "undoWrite", "deliver", "lockReceipt", "record", "recordWrite"}

Entry == [id : Nat, at : Nat, amount : 1..MaxSpend, key : Keys]
Receipt == [key : Keys, at : Nat, id : Nat]

\* What a caller knows of its call before it asks for k, and once it did.
NoCall == [id |-> 0, at |-> 0, amount |-> 0, key |-> "none"]
CallFor(k) == [NoCall EXCEPT !.key = k]

Live(S, t) == {e \in S : e.at > t - Window}
InRetention(S, t) == {r \in S : r.at > t - Retention}

\* entries.reduce((sum, e) => sum + e.amount, 0), counted unit by unit.
Units(S) == {u \in S \X (1..MaxPerCall) : u[2] <= u[1].amount}
Spent(S) == Cardinality(Units(S))

Init ==
    /\ now = 0
    /\ lock = [f \in Files |-> NoOne]
    /\ ledger = {} /\ receipts = {}
    /\ pc = [c \in Callers |-> "idle"]
    /\ entry = [c \in Callers |-> NoCall]
    /\ buf = [c \in Callers |-> {}] /\ rbuf = [c \in Callers |-> {}]
    /\ nextId = 1
    /\ paid = {} /\ recorded = {} /\ abandoned = {}
    /\ known = [c \in Callers |-> FALSE]

----------------------------------------------------------------------------
\* The file store and its locks.

Goto(c, l) == pc' = [pc EXCEPT ![c] = l]

\* The call returns, or throws into withToolWrapper: its locals are gone.
Return(c) ==
    /\ Goto(c, "idle")
    /\ entry' = [entry EXCEPT ![c] = NoCall]
    /\ buf' = [buf EXCEPT ![c] = {}]
    /\ rbuf' = [rbuf EXCEPT ![c] = {}]
    /\ known' = [known EXCEPT ![c] = FALSE]

AcquireUnlocked(f, c) == lock' = [lock EXCEPT ![f] = c]
Acquire(f, c) == lock[f] = NoOne /\ lock' = [lock EXCEPT ![f] = c]
Release(f) == lock' = [lock EXCEPT ![f] = NoOne]

\* The file whose lock a caller waits for at each label that waits for one.
WaitsFor == [l \in {"lockSpend", "lockUndo", "lockReceipt"} |->
               IF l = "lockReceipt" THEN "receipts" ELSE "spend"]

\* lockfile.lock gives up after its ten retries: the call throws.  A throw out
\* of rollback() leaves a reservation nobody will undo.
LockTimeout(c) ==
    /\ pc[c] \in DOMAIN WaitsFor
    /\ lock[WaitsFor[pc[c]]] # NoOne
    /\ abandoned' = IF pc[c] = "lockUndo" THEN abandoned \cup {entry[c]} ELSE abandoned
    /\ Return(c)
    /\ UNCHANGED <<now, filevars, nextId, paid, recorded>>

\* A lock whose holder is dead is taken over after GUARD_LOCK_TTL_MS.
BreakStale(f) ==
    /\ lock[f] = Stale
    /\ Release(f)
    /\ UNCHANGED <<now, ledger, receipts, callvars, nextId, paid, recorded, abandoned>>

----------------------------------------------------------------------------
\* pay(), up to the reservation.

\* pay() begins with checkPayReceipt: lock, load, find, unlock.  A receipt for
\* the same request ends the call at once ...
Replay(c, k) ==
    /\ pc[c] = "idle"
    /\ lock["receipts"] = NoOne
    /\ \E r \in receipts : r.key = k
    /\ UNCHANGED vars

\* ... and without one the request is sent.
Start(c, k) ==
    /\ pc[c] = "idle"
    /\ lock["receipts"] = NoOne
    /\ \A r \in receipts : r.key # k
    /\ Goto(c, "fetch")
    /\ entry' = [entry EXCEPT ![c] = CallFor(k)]
    /\ known' = [known EXCEPT ![c] = \E r \in InRetention(recorded, now) : r.key = k]
    /\ UNCHANGED <<now, filevars, buf, rbuf, nextId, paid, recorded, abandoned>>

\* Everything between the check and the reservation that ends the call without
\* money: allowlist, URL check, expired session, network error, an answer that
\* is not 402, an invalid requirement, an unapproved payee.
NoPayment(c) ==
    /\ pc[c] = "fetch"
    /\ Return(c)
    /\ UNCHANGED <<now, filevars, nextId, paid, recorded, abandoned>>

DemandUnchecked(c, a) ==
    /\ pc[c] = "fetch"
    /\ Goto(c, "lockSpend")
    /\ entry' = [entry EXCEPT ![c].amount = a]
    /\ UNCHANGED <<now, filevars, buf, rbuf, known, nextId, paid, recorded, abandoned>>

\* The server asks a: above maxSpend the call is refused, else it reserves.
Demand(c, a) ==
    /\ pc[c] = "fetch"
    /\ nextId + Cardinality({d \in Callers : pc[d] \in {"lockSpend", "reserve"}})
          <= MaxReservations
    /\ IF a > MaxSpend
       THEN Return(c)
       ELSE /\ Goto(c, "lockSpend")
            /\ entry' = [entry EXCEPT ![c].amount = a]
            /\ UNCHANGED <<buf, rbuf, known>>
    /\ UNCHANGED <<now, filevars, nextId, paid, recorded, abandoned>>

----------------------------------------------------------------------------
\* reservePaySpend and its rollback.

LockSpend(c) ==
    /\ pc[c] = "lockSpend"
    /\ Acquire("spend", c)
    /\ Goto(c, "reserve")
    /\ UNCHANGED <<now, ledger, receipts, entry, buf, rbuf, known, nextId, paid,
                   recorded, abandoned>>

\* The reservation e is appended to the entries kept and the file is truncated.
WriteReservation(c, kept) ==
    LET e == [entry[c] EXCEPT !.id = nextId, !.at = now] IN
    /\ entry' = [entry EXCEPT ![c] = e]
    /\ buf' = [buf EXCEPT ![c] = kept \cup {e}]
    /\ ledger' = {}
    /\ nextId' = nextId + 1
    /\ Goto(c, "reserveWrite")
    /\ UNCHANGED <<lock, rbuf, known>>

ReserveIgnoringAmount(c) ==
    LET kept == Live(ledger, now) IN
    /\ pc[c] = "reserve"
    /\ IF Spent(kept) > Cap
       THEN Return(c) /\ Release("spend") /\ UNCHANGED <<ledger, nextId>>
       ELSE WriteReservation(c, kept)
    /\ UNCHANGED <<now, receipts, paid, recorded, abandoned>>

ReserveKeepingLock(c) ==
    LET kept == Live(ledger, now) IN
    /\ pc[c] = "reserve"
    /\ IF Spent(kept) + entry[c].amount > Cap
       THEN Return(c) /\ UNCHANGED <<lock, ledger, nextId>>
       ELSE WriteReservation(c, kept)
    /\ UNCHANGED <<now, receipts, paid, recorded, abandoned>>

\* Load, prune, check the cap; refused: unlock and return SPEND_LIMIT.
Reserve(c) ==
    LET kept == Live(ledger, now) IN
    /\ pc[c] = "reserve"
    /\ IF Spent(kept) + entry[c].amount > Cap
       THEN Return(c) /\ Release("spend") /\ UNCHANGED <<ledger, nextId>>
       ELSE WriteReservation(c, kept)
    /\ UNCHANGED <<now, receipts, paid, recorded, abandoned>>

\* The write completes; unlock; the reservation is made.
ReserveWrite(c) ==
    /\ pc[c] = "reserveWrite"
    /\ ledger' = buf[c]
    /\ buf' = [buf EXCEPT ![c] = {}]
    /\ Release("spend")
    /\ Goto(c, "settle")
    /\ UNCHANGED <<now, receipts, entry, rbuf, known, nextId, paid, recorded, abandoned>>

LockUndo(c) ==
    /\ pc[c] = "lockUndo"
    /\ Acquire("spend", c)
    /\ Goto(c, "undo")
    /\ UNCHANGED <<now, ledger, receipts, entry, buf, rbuf, known, nextId, paid,
                   recorded, abandoned>>

\* The entries of the ledger that rollback() takes for this call's own.
SameRequest(c) == {e \in ledger : e.key = entry[c].key /\ e.amount = entry[c].amount}
Own(c) == {e \in ledger : e.id = entry[c].id}

\* rollback(): load, find the entry by its reservationId and drop it; an entry
\* already pruned by another call needs no write.
Undo(c) ==
    /\ pc[c] = "undo"
    /\ IF Own(c) # {}
       THEN /\ buf' = [buf EXCEPT ![c] = ledger \ Own(c)]
            /\ ledger' = {}
            /\ Goto(c, "undoWrite")
            /\ UNCHANGED <<lock, entry, rbuf, known>>
       ELSE Return(c) /\ Release("spend") /\ UNCHANGED ledger
    /\ UNCHANGED <<now, receipts, nextId, paid, recorded, abandoned>>

UndoWrite(c) ==
    /\ pc[c] = "undoWrite"
    /\ ledger' = buf[c]
    /\ Release("spend")
    /\ Return(c)
    /\ UNCHANGED <<now, receipts, nextId, paid, recorded, abandoned>>

----------------------------------------------------------------------------
\* Settlement and delivery.

Settled(c) ==
    /\ pc[c] = "settle"
    /\ paid' = paid \cup {entry[c]}
    /\ Goto(c, "deliver")
    /\ UNCHANGED <<now, filevars, entry, buf, rbuf, known, nextId, recorded, abandoned>>

RefusedWithoutRollback(c) ==
    /\ pc[c] = "settle" /\ "refuse" \in Faults
    /\ Return(c)
    /\ UNCHANGED <<now, filevars, nextId, paid, recorded, abandoned>>

\* settlement.success = false: roll the reservation back.
Refused(c) ==
    /\ pc[c] = "settle" /\ "refuse" \in Faults
    /\ Goto(c, "lockUndo")
    /\ UNCHANGED <<now, filevars, entry, buf, rbuf, known, nextId, paid, recorded, abandoned>>

\* payD402 throws: pay() keeps the reservation, whether the money moved or not.
SettleThrows(c, landed) ==
    /\ pc[c] = "settle" /\ "throw" \in Faults
    /\ IF landed
       THEN paid' = paid \cup {entry[c]} /\ UNCHANGED abandoned
       ELSE abandoned' = abandoned \cup {entry[c]} /\ UNCHANGED paid
    /\ Return(c)
    /\ UNCHANGED <<now, filevars, nextId, recorded>>

\* The request repeated with X-Payment-Proof answers 2xx: the receipt is made,
\* with its timestamp, and handed to recordPayReceipt.
Delivered(c) ==
    /\ pc[c] = "deliver"
    /\ Goto(c, "lockReceipt")
    /\ rbuf' = [rbuf EXCEPT ![c] = {[key |-> entry[c].key, at |-> now, id |-> entry[c].id]}]
    /\ UNCHANGED <<now, filevars, entry, buf, known, nextId, paid, recorded, abandoned>>

\* It fails or answers anything else: an error, and no receipt.
NotDelivered(c) ==
    /\ pc[c] = "deliver" /\ "delivery" \in Faults
    /\ Return(c)
    /\ UNCHANGED <<now, filevars, nextId, paid, recorded, abandoned>>

LockReceipt(c) ==
    /\ pc[c] = "lockReceipt"
    /\ Acquire("receipts", c)
    /\ Goto(c, "record")
    /\ UNCHANGED <<now, ledger, receipts, entry, buf, rbuf, known, nextId, paid,
                   recorded, abandoned>>

\* recordPayReceipt: load, prune, push the receipt; the file is truncated.
WriteReceipt(c, kept) ==
    /\ pc[c] = "record"
    /\ rbuf' = [rbuf EXCEPT ![c] = kept \cup @]
    /\ receipts' = {}
    /\ Goto(c, "recordWrite")
    /\ UNCHANGED <<now, lock, ledger, entry, buf, known, nextId, paid, recorded, abandoned>>

RecordPruningADay(c) == WriteReceipt(c, Live(receipts, now))
Record(c) == WriteReceipt(c, InRetention(receipts, now))

\* The write completes, unlock, and the call returns its receipt.
RecordWrite(c) ==
    /\ pc[c] = "recordWrite"
    /\ receipts' = rbuf[c]
    /\ recorded' = recorded \cup rbuf[c]
    /\ Release("receipts")
    /\ Return(c)
    /\ UNCHANGED <<now, ledger, nextId, paid, abandoned>>

----------------------------------------------------------------------------
\* The environment.

\* A caller's process dies; its locks become stale.
Crash(c) ==
    /\ "crash" \in Faults
    /\ pc[c] # "idle"
    /\ pc[c] \in {"reserveWrite", "undoWrite", "recordWrite"} => "torn" \in Faults
    /\ lock' = [f \in Files |-> IF lock[f] = c THEN Stale ELSE lock[f]]
    /\ abandoned' = IF pc[c] \in {"reserveWrite", "settle", "lockUndo", "undo"}
                    THEN abandoned \cup {entry[c]} ELSE abandoned
    /\ Return(c)
    /\ UNCHANGED <<now, ledger, receipts, nextId, paid, recorded>>

Tick ==
    /\ now < MaxTime
    /\ now' = now + 1
    /\ UNCHANGED <<filevars, callvars, nextId, paid, recorded, abandoned>>

\* The steps a running call takes by itself.
Step(c) ==
    \/ NoPayment(c) \/ (\E a \in Amounts : Demand(c, a))
    \/ LockSpend(c) \/ Reserve(c) \/ ReserveWrite(c)
    \/ Settled(c) \/ Refused(c) \/ (\E landed \in BOOLEAN : SettleThrows(c, landed))
    \/ LockUndo(c) \/ Undo(c) \/ UndoWrite(c)
    \/ Delivered(c) \/ NotDelivered(c)
    \/ LockReceipt(c) \/ Record(c) \/ RecordWrite(c)
    \/ LockTimeout(c)

Next ==
    \/ \E c \in Callers : Step(c) \/ Crash(c)
    \/ \E c \in Callers, k \in Keys : Replay(c, k) \/ Start(c, k)
    \/ \E f \in Files : BreakStale(f)
    \/ Tick

Spec == Init /\ [][Next]_vars
\* Every pending promise of a running process is eventually run, network calls
\* answer or fail, and a dead holder's lock expires.
Fairness ==
    /\ \A c \in Callers : WF_vars(Step(c))
    /\ \A f \in Files : WF_vars(BreakStale(f))

FairSpec == Spec /\ Fairness
----------------------------------------------------------------------------
\* Properties.

\* The state is well typed; in particular no call ever holds an amount above
\* its own maxSpend (pay.ts:153).
TypeOK ==
    /\ now \in Nat
    /\ lock \in [Files -> Callers \cup {NoOne, Stale}]
    /\ ledger \in SUBSET Entry
    /\ receipts \in SUBSET Receipt
    /\ pc \in [Callers -> PCs]
    /\ entry \in [Callers -> [id : Nat, at : Nat, amount : 0..MaxSpend,
                             key : Keys \cup {"none"}]]
    /\ buf \in [Callers -> SUBSET Entry]
    /\ rbuf \in [Callers -> SUBSET Receipt]
    /\ nextId \in Nat
    /\ paid \in SUBSET Entry
    /\ recorded \in SUBSET Receipt
    /\ known \in [Callers -> BOOLEAN]
    /\ abandoned \in SUBSET Entry

\* What the pay-spend file says, or will say once the write under way is done.
Writers == {c \in Callers : pc[c] \in {"reserveWrite", "undoWrite"}}
Ledger == IF lock["spend"] \in Writers THEN buf[lock["spend"]] ELSE ledger

\* Money that moved is never forgotten by the cap: every payment whose
\* reservation is younger than the window is in the ledger, whatever other
\* calls reserved, rolled back or pruned meanwhile (pay-spend-cap.ts).
PaymentsCovered == Live(paid, now) \subseteq Ledger

\* The rolling cap: the payments reserved within any window never add up to
\* more than rolling24hCap.
CapRespected == Spent(Live(paid, now)) <= Cap

\* A reservation that stays in the ledger is a payment, a call still under way,
\* or one whose outcome was lost (crash, throw, lock timeout in the rollback):
\* a settlement refused by the network never eats into the cap.
HeldMoneyAccounted ==
    \A e \in Ledger :
        \/ e \in paid \cup abandoned
        \/ \E c \in Callers : entry[c] = e

\* A call that starts after a receipt for its request was written, and within
\* the receipt's retention, never settles a second payment for it.
NoRepayAfterReceipt ==
    [][\A c \in Callers :
         entry[c] \in paid' \ paid => ~known[c]]_vars

\* No path through the guards leaks a lock: each file's lock comes free again
\* and again, also after the death of a holder.
LocksComeFree == \A f \in Files : []<>(lock[f] = NoOne)

\* The cap guard implements the abstract budget: a reservation takes effect when
\* its write starts, a rollback when its write starts.
Budget == INSTANCE SpendBudget WITH
    Ids <- 1..MaxReservations,
    held <- Ledger,
    open <- {entry[c] : c \in {d \in Callers :
               pc[d] \in {"reserveWrite", "settle", "lockUndo", "undo"}}}
BudgetSpec == Budget!Spec
============================================================================
