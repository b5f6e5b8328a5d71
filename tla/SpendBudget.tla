---------------------------- MODULE SpendBudget ----------------------------
(***************************************************************************)
(* What the rolling pay cap promises, with no files, locks or processes: a  *)
(* wallet reserves money before it pays, cancels the reservations whose     *)
(* settlement was refused, and never has more than Cap reserved in the last *)
(* Window time units.  Pay.tla implements this specification.               *)
(***************************************************************************)
EXTENDS Integers, FiniteSets

CONSTANTS
    Ids,         \* reservation ids
    Keys,        \* idempotency keys, one per distinct request
    Cap,         \* rolling24hCap of the session's payPolicy
    MaxPerCall,  \* maxPerCall of the session's payPolicy
    Window       \* the length of the rolling window (24h) in model time units

VARIABLES
    now,    \* the wall clock
    held,   \* the reservations the wallet's ledger remembers
    open,   \* the reservations whose settlement is still undecided
    paid    \* the reservations that were settled on the network

bvars == <<now, held, open, paid>>

\* A reservation: an id nobody else has, the time it was made, the amount.
Entry == [id : Ids, at : Nat, amount : 1..MaxPerCall, key : Keys]

\* The entries of S that the window ending at time t still sees.
Live(S, t) == {e \in S : e.at > t - Window}

\* The sum of the amounts of S, counted unit by unit: the amount of an entry is
\* the number of units u with u <= amount.  (Stated through Cardinality, so
\* that it can be proved about as well as evaluated.)
Units(S) == {u \in S \X (1..MaxPerCall) : u[2] <= u[1].amount}
Spent(S) == Cardinality(Units(S))

Init ==
    /\ now = 0
    /\ held = {}
    /\ open = {}
    /\ paid = {}

\* Forget what the window no longer sees and reserve e, if the cap allows it.
Reserve(e) ==
    /\ \A f \in held \cup open \cup paid : f.id # e.id
    /\ Spent(Live(held, now)) + e.amount <= Cap
    /\ held' = Live(held, now) \cup {e}
    /\ open' = open \cup {e}
    /\ UNCHANGED <<now, paid>>

\* The settlement of e was refused: its money is available again.
Cancel(e) ==
    /\ e \in open
    /\ held' = held \ {e}
    /\ open' = open \ {e}
    /\ UNCHANGED <<now, paid>>

\* The settlement of e reached the network.
Settle(e) ==
    /\ e \in open
    /\ open' = open \ {e}
    /\ paid' = paid \cup {e}
    /\ UNCHANGED <<now, held>>

\* Nobody will decide e any more (crash, unknown outcome): it stays reserved.
Abandon(e) ==
    /\ e \in open
    /\ open' = open \ {e}
    /\ UNCHANGED <<now, held, paid>>

Tick ==
    /\ now' = now + 1
    /\ UNCHANGED <<held, open, paid>>

Next ==
    \/ \E id \in Ids, a \in 1..MaxPerCall, k \in Keys :
         Reserve([id |-> id, at |-> now, amount |-> a, key |-> k])
    \/ \E e \in open : Cancel(e) \/ Settle(e) \/ Abandon(e)
    \/ Tick

Spec == Init /\ [][Next]_bvars
============================================================================
