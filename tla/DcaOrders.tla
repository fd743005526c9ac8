----------------------------- MODULE DcaOrders ------------------------------
(***************************************************************************)
(* DCA orders of a trading fund: create_dca_order, execute_dca_order (one  *)
(* slice per call) and cancel_dca_order.                                   *)
(*                                                                         *)
(* As in LimitOrders an order and its vaults are one record.  Unlike a     *)
(* limit order a DCA order always owns a SOL vault, and its order account  *)
(* is never closed.                                                        *)
(***************************************************************************)
EXTENDS FundAccounts

CONSTANTS
    Intervals,       \* interval_secs values a manager may name
    MaxActiveDca     \* MAX_ACTIVE_DCA

ASSUME DcaOrdersAssumption ==
    Intervals \subseteq Nat /\ MaxActiveDca \in Nat

VARIABLES
    dca,             \* dca[i]: the accounts of DCA order i
    activeDca,       \* fund_state.active_dca_count
    times            \* history: times[i], when i was created and then when each
                     \* of its slices was executed

dcaVars == <<dca, activeDca, times>>

NoDca ==
    [status |-> "none", side |-> "BUY", mint |-> CHOOSE m \in Mints : TRUE,
     total |-> 0, slice |-> 0, remaining |-> 0, interval |-> 0, nextExec |-> 0,
     minOut |-> 0, feed |-> NoFeed, expiry |-> 0, sol |-> 0, ata |-> FALSE, held |-> 0]

DcaTypeOK ==
    /\ dca \in [OrderIds ->
          [status : {"none", "open", "executed", "cancelled"}, side : {"BUY", "SELL"},
           mint : Mints, total : Nat, slice : Nat, remaining : Nat, interval : Nat,
           nextExec : Nat, minOut : Nat, feed : Feeds \cup {NoFeed}, expiry : Nat,
           sol : Nat, ata : BOOLEAN, held : Nat]]
    /\ activeDca \in Nat
    /\ times \in [OrderIds -> Seq(Nat)]

OpenDcas == {i \in OrderIds : dca[i].status = "open"}

DcaInit ==
    /\ dca = [i \in OrderIds |-> NoDca]
    /\ activeDca = 0
    /\ times = [i \in OrderIds |-> <<>>]

-----------------------------------------------------------------------------
\* The order account that create_dca_order writes, before the escrow moves in.
\* The manager pays the SOL vault's rent for both sides.
NewDca(side, m, total, slice, interval, minOut, expiry) ==
    [status |-> "open", side |-> side, mint |-> m, total |-> total, slice |-> slice,
     remaining |-> total, interval |-> interval, nextExec |-> now + interval,
     minOut |-> minOut, feed |-> listed[m], expiry |-> expiry,
     sol |-> SolVaultRent, ata |-> TRUE, held |-> 0]

\* Mistake (for the mutation runs): one order too many.
OneSlotMore == activeDca <= MaxActiveDca

SlotFree == activeDca < MaxActiveDca

\* What create_dca_order does for both sides; `order` is the new account with
\* its escrow.
RegisterDca(order) ==
    /\ VaultAlive
    /\ order.total > 0
    /\ order.slice > 0 /\ order.slice <= order.total
    /\ order.interval > 0
    /\ order.minOut > 0
    /\ SlotFree
    /\ listed[order.mint] # NoFeed
    /\ nextOrderId \in OrderIds
    /\ nextOrderId' = nextOrderId + 1
    /\ activeDca' = activeDca + 1
    /\ dca' = [dca EXCEPT ![nextOrderId] = order]
    /\ times' = [times EXCEPT ![nextOrderId] = <<now>>]
    /\ UNCHANGED <<now, whitelists, oracle>>

CreateBuyDca(order) ==
    /\ RegisterDca([order EXCEPT !.sol = @ + order.total])
    /\ vault >= order.total
    /\ RentExempt(vault - order.total)
    /\ vault' = vault - order.total
    /\ UNCHANGED tokens

CreateSellDca(order) ==
    /\ RegisterDca([order EXCEPT !.held = order.total])
    /\ tokens[order.mint] >= order.total
    /\ tokens' = [tokens EXCEPT ![order.mint] = @ - order.total]
    /\ UNCHANGED vault

CreateDcaOrder(side, m, total, slice, interval, minOut, expiry) ==
    LET order == NewDca(side, m, total, slice, interval, minOut, expiry)
    IN  \/ side = "BUY" /\ CreateBuyDca(order)
        \/ side = "SELL" /\ CreateSellDca(order)

\* Mistake: the last slice is a full one too.
AlwaysFullSlice(order) == order.slice

\* What one call of execute_dca_order swaps: a slice, or the smaller rest.
SliceOf(order) ==
    IF order.remaining >= order.slice THEN order.slice ELSE order.remaining

\* The checks of execute_dca_order before it moves anything.
DcaExecutable(order) ==
    /\ VaultAlive
    /\ order.status = "open"
    /\ order.expiry # 0 => now <= order.expiry
    /\ now >= order.nextExec
    /\ listed[order.mint] # NoFeed
    /\ listed[order.mint] = order.feed
    /\ SliceOf(order) > 0

\* min_out is per call, for the smaller last slice too.
SliceOutOK(order, out) ==
    LET amount == SliceOf(order)
        expected == IF order.side = "BUY" THEN TokensFor(amount, order.feed)
                                          ELSE LamportsFor(amount, order.feed)
    IN  out >= order.minOut /\ out >= ApplyMaxSlippage(expected, MaxSlippageBps)

\* Mistake: the next slice is due at once.
SameDueTime(order) == [order EXCEPT !.remaining = @ - SliceOf(order)]

\* Mistake: a late slice delays all that follow.
DueAfterNow(order) ==
    [order EXCEPT !.remaining = @ - SliceOf(order), !.nextExec = now + order.interval]

\* The bookkeeping after a slice: the next one is due one interval after this
\* one was due, not after it was executed, so a late keeper catches up.
AfterSlice(order) ==
    [order EXCEPT !.remaining = @ - SliceOf(order), !.nextExec = @ + order.interval]

\* Mistake: done when no full slice is left.
LessThanASlice(order) == order.remaining < order.slice

\* When nothing remains the order is executed: the token account is closed if
\* it is empty and the SOL vault is swept, both to the fund vault.  `order` has
\* been through AfterSlice.
Finished(order) == order.remaining = 0
Settled(order) ==
    IF Finished(order)
    THEN [order EXCEPT !.status = "executed", !.sol = 0, !.ata = (order.held # 0)]
    ELSE order
Swept(order) ==
    IF Finished(order)
    THEN order.sol + (IF order.held = 0 THEN TokenAccountRent ELSE 0)
    ELSE 0

ExecuteBuyDca(i, out) ==
    LET order == dca[i]
        after == [AfterSlice(order) EXCEPT !.sol = @ - SliceOf(order)]
    IN  /\ order.side = "BUY"
        /\ order.sol >= SliceOf(order)
        /\ order.held = 0
        /\ tokens' = [tokens EXCEPT ![order.mint] = @ + out]
        /\ vault' = vault + Swept(after)
        /\ dca' = [dca EXCEPT ![i] = Settled(after)]

ExecuteSellDca(i, out) ==
    LET order == dca[i]
        after == [AfterSlice(order) EXCEPT !.held = @ - SliceOf(order)]
    IN  /\ order.side = "SELL"
        /\ order.held >= SliceOf(order)
        /\ vault' = vault + out + Swept(after)
        /\ dca' = [dca EXCEPT ![i] = Settled(after)]
        /\ UNCHANGED tokens

\* execute_dca_order (keeper).
ExecuteDcaOrder(i, out) ==
    /\ DcaExecutable(dca[i])
    /\ SliceOutOK(dca[i], out)
    /\ ExecuteBuyDca(i, out) \/ ExecuteSellDca(i, out)
    /\ activeDca' = IF Finished(AfterSlice(dca[i])) THEN activeDca - 1 ELSE activeDca
    /\ times' = [times EXCEPT ![i] = Append(@, now)]
    /\ UNCHANGED <<now, whitelists, nextOrderId, oracle>>

\* cancel_dca_order (manager), BUY: as for a limit order, but the order account
\* keeps its own rent.
CancelBuyDca(i) ==
    /\ dca[i].side = "BUY"
    /\ dca[i].held = 0
    /\ vault' = vault + dca[i].sol + TokenAccountRent
    /\ dca' = [dca EXCEPT ![i].status = "cancelled", ![i].sol = 0, ![i].ata = FALSE]
    /\ UNCHANGED tokens

\* cancel_dca_order (manager), SELL: the SOL vault is left alone.
CancelSellDca(i) ==
    /\ dca[i].side = "SELL"
    /\ tokens' = [tokens EXCEPT ![dca[i].mint] = @ + dca[i].held]
    /\ vault' = vault + TokenAccountRent
    /\ dca' = [dca EXCEPT ![i].status = "cancelled", ![i].held = 0, ![i].ata = FALSE]

\* Mistake: a finished order can be cancelled.
CancellableAgain(order) == order.status # "none"

DcaCancellable(order) == order.status = "open"

CancelDcaOrder(i) ==
    /\ VaultAlive
    /\ DcaCancellable(dca[i])
    /\ CancelBuyDca(i) \/ CancelSellDca(i)
    /\ activeDca' = activeDca - 1
    /\ UNCHANGED <<now, whitelists, nextOrderId, oracle, times>>

DcaNext ==
    \/ \E side \in {"BUY", "SELL"}, m \in Mints, total \in Amounts, slice \in Amounts,
          interval \in Intervals, minOut \in MinOuts, expiry \in Expiries :
            CreateDcaOrder(side, m, total, slice, interval, minOut, expiry)
    \/ \E i \in OrderIds, out \in Outs : ExecuteDcaOrder(i, out)
    \/ \E i \in OrderIds : CancelDcaOrder(i)

DcaFundVars == <<fundVars, dcaVars>>

DcaFundInit == FundInit /\ DcaInit

DcaFundNext ==
    \/ FundNext /\ UNCHANGED dcaVars
    \/ DcaNext

DcaSpec == DcaFundInit /\ [][DcaFundNext]_DcaFundVars

\* Time passes, and a keeper that finds an order due, with an output it can get on
\* the market, executes it in the end.  It may be late by any time.
DcaFairness ==
    /\ WF_DcaFundVars(Tick /\ UNCHANGED dcaVars)
    /\ \A i \in OrderIds : WF_DcaFundVars(\E out \in Outs : ExecuteDcaOrder(i, out))

DcaFairSpec == DcaSpec /\ DcaFairness

-----------------------------------------------------------------------------
(* Properties.                                                             *)

DcaFundTypeOK == FundTypeOK /\ DcaTypeOK

\* active_dca_count, which fixes how many order triplets a NAV computation must
\* be given and which MAX_ACTIVE_DCA bounds, counts the open DCA orders.
DcaCountExact == activeDca = Cardinality(OpenDcas) /\ activeDca <= MaxActiveDca

\* Between two calls an open order's vaults hold exactly what remains to be
\* swapped (and the SOL vault its rent), after any number of slices; a closed
\* order has given every token and all its escrow back.
DcaEscrowExact ==
    \A i \in OrderIds :
        IF i \in OpenDcas
        THEN /\ dca[i].ata /\ dca[i].remaining > 0
             /\ IF dca[i].side = "BUY"
                THEN dca[i].sol = SolVaultRent + dca[i].remaining /\ dca[i].held = 0
                ELSE dca[i].sol = SolVaultRent /\ dca[i].held = dca[i].remaining
        ELSE ~dca[i].ata /\ dca[i].held = 0 /\ dca[i].sol <= SolVaultRent

\* However late the keeper is and however many slices it then executes at once,
\* slice k is never executed before k intervals have passed since the order was
\* created: the pace the manager asked for is an upper bound.
DcaPace ==
    \A i \in OrderIds : \A k \in 2 .. Len(times[i]) :
        times[i][k] >= times[i][1] + (k - 1) * dca[i].interval

\* Every slice but the last is a full one: an order is done after
\* ceiling(total / slice) slices, and what it has swapped is what is gone.
DcaSlicesExact ==
    \A i \in OrderIds : dca[i].status # "none" =>
        LET done == (Len(times[i]) - 1) * dca[i].slice
        IN  dca[i].remaining = IF done >= dca[i].total THEN 0 ELSE dca[i].total - done

\* Order i is open and all its slices fall due before the clock of this instance
\* stops.
DueInTime(i) ==
    LET order == dca[i]
        slicesLeft == (order.remaining + order.slice - 1) \div order.slice
    IN  /\ order.status = "open"
        /\ order.nextExec + (slicesLeft - 1) * order.interval <= MaxTime

\* What the keeper cannot help: the fund vault is gone, the order has expired, its
\* token is listed no more or with another feed, or no output on offer is enough.
Blocked(i) ==
    LET order == dca[i]
    IN  \/ ~VaultAlive
        \/ order.expiry # 0 /\ now > order.expiry
        \/ listed[order.mint] # order.feed
        \/ \A out \in Outs : ~SliceOutOK(order, out)

\* With a fair keeper, however late with each slice, an order swaps all its slices
\* by the end of the schedule it was created with, unless it is cancelled or
\* blocked: slices that were missed are caught up, none is lost.
DcaCompletes ==
    \A i \in OrderIds : DueInTime(i) ~> (dca[i].status # "open" \/ Blocked(i))
=============================================================================
