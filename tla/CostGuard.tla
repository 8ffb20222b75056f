------------------------------ MODULE CostGuard ------------------------------
(***************************************************************************)
(* The run-scoped cost ledger (cost_guard.py).  One object is shared by    *)
(* every scenario of a run; each provider attempt is authorized before it  *)
(* is sent and settled after.  Amounts are whole units (the code adds      *)
(* floats).  A zero_cost ledger is the instance whose estimates are 0.     *)
(***************************************************************************)
EXTENDS Integers, Sequences

CONSTANT HardCap   \* hard_cap_usd

ASSUME HardCapIsNat == HardCap \in Nat

VARIABLES spent,       \* spent_usd
          reserved,    \* reserved_usd
          open,        \* _open_reservations, a stack
          authorized,  \* attempts_authorized
          committed    \* attempts_committed

ledger == <<spent, reserved, open, authorized, committed>>

LedgerInit ==
    /\ spent = 0
    /\ reserved = 0
    /\ open = <<>>
    /\ authorized = 0
    /\ committed = 0

AtLeastZero(n) == IF n < 0 THEN 0 ELSE n

\* authorize raises BUDGET_REJECTED unless the projection fits the cap
Fits(estimate) == spent + reserved + estimate <= HardCap

Authorize(estimate) ==
    /\ Fits(estimate)
    /\ reserved' = reserved + estimate
    /\ open' = Append(open, estimate)
    /\ authorized' = authorized + 1
    /\ UNCHANGED <<spent, committed>>

\* The reservation a commit settles: the latest, or 0.0 when none is open
Latest == IF open = <<>> THEN 0 ELSE open[Len(open)]

\* Mutant: no cap at commit
NeverOvercharges(charge) == FALSE

\* commit raises BUDGET_REJECTED when the charge does not fit, after it has
\* released the reservation
Overcharges(charge) == spent + charge > HardCap

Release ==
    /\ open' = IF open = <<>> THEN open ELSE SubSeq(open, 1, Len(open) - 1)
    /\ reserved' = AtLeastZero(reserved - Latest)

Commit(charge) ==
    /\ Release
    /\ IF Overcharges(charge)
       THEN UNCHANGED <<spent, committed>>
       ELSE spent' = spent + charge /\ committed' = committed + 1
    /\ UNCHANGED authorized

\* Mutants: a failed attempt is not settled, or settled for nothing
LeaveOpen == UNCHANGED ledger
ReleaseWithoutCharge == Commit(0)

\* release_reservation_keep_charge: commit with actual_usd = None
KeepCharge == Commit(Latest)

cumulative == spent + reserved   \* cumulative_run_cost_usd
==============================================================================
