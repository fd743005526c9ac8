------------------------------- MODULE SwapTx -------------------------------
(***************************************************************************)
(* borrow_for_swap and settle_swap, opened up to the instructions of one    *)
(* Solana transaction.  A transaction is a sequence of instructions fixed   *)
(* before the first one runs; borrow_for_swap reads the instructions after  *)
(* itself through the sysvar and lends only if the next settle_swap is its  *)
(* own.  A transaction that fails anywhere leaves no trace.                 *)
(*                                                                         *)
(* Any other instruction that touches a fund's vaults (the swap's delivery, *)
(* deposit, execute_withdraw, the creation of an order, ...) is a Move: none *)
(* of them looks at Trading.is_locked.                                      *)
(***************************************************************************)
EXTENDS Integers, SequencesExt

CONSTANTS
    Funds,         \* trading funds, each with its own accounts
    Mints,         \* tokens all of them have whitelisted
    NoMint,        \* the output_mint of a cleared Trading account
    VaultRent,     \* rent-exempt minimum of a fund vault
    \* bounds of the instance that TLC explores
    InitialSol,    \* lamports over rent in each fund vault
    InitialTokens, \* balance of each token vault
    Amounts,       \* amount_in values
    MinOuts,       \* min_amount_out values
    SolMoves,      \* lamports a Move takes from or gives to a fund vault
    TokenMoves,    \* tokens a Move takes from or gives to a token vault
    MaxLength,     \* instructions in a transaction
    MaxTransactions

ASSUME SwapTxAssumption ==
    /\ NoMint \notin Mints
    /\ VaultRent \in Nat \ {0} /\ InitialSol \in Nat /\ InitialTokens \in Nat
    /\ Amounts \subseteq Nat /\ MinOuts \subseteq Nat
    /\ SolMoves \subseteq Nat /\ TokenMoves \subseteq Nat
    /\ MaxLength \in Nat /\ MaxTransactions \in Nat

VARIABLES
    trading,   \* trading[f]: the fund's Trading account
    vault,     \* vault[f]: lamports of the fund vault
    tokens,    \* tokens[f][m]: balance of the fund's token vault for m
    tx,        \* the running transaction, <<>> between transactions
    pc,        \* the instruction to run next
    begun,     \* transactions begun so far
    saved,     \* the accounts before the transaction
    lent,      \* history: lent[f], lamports f lent in this transaction
    due,       \* history: due[f][m], the min_out's f was promised for them
    outside    \* history: what Moves changed but for an open loan's two vaults

accounts == <<trading, vault, tokens>>
history == <<lent, due, outside>>
vars == <<accounts, tx, pc, begun, saved, history>>

BothWays(amounts) == amounts \cup {-n : n \in amounts}

Instructions ==
    [op : {"borrow"}, fund : Funds, mint : Mints, amount : Amounts, minOut : MinOuts]
        \cup [op : {"settle"}, fund : Funds, mint : Mints]
        \cup [op : {"sol"}, fund : Funds, by : BothWays(SolMoves)]
        \cup [op : {"token"}, fund : Funds, mint : Mints, by : BothWays(TokenMoves)]

\* A Trading account that settle_swap or initialize_fund has cleared.
Unlocked ==
    [locked |-> FALSE, amount |-> 0, minOut |-> 0, sol |-> 0, output |-> 0, mint |-> NoMint]

NoLoans == [f \in Funds |-> 0]
NothingDue == [f \in Funds |-> [m \in Mints |-> 0]]
NoMoves == [f \in Funds |-> [sol |-> 0, token |-> [m \in Mints |-> 0]]]

Accounts == [trading |-> trading, vault |-> vault, tokens |-> tokens]

TradingAccounts ==
    [locked : BOOLEAN, amount : Nat, minOut : Nat, sol : Nat, output : Nat,
     mint : Mints \cup {NoMint}]

TypeOK ==
    /\ trading \in [Funds -> TradingAccounts]
    /\ vault \in [Funds -> Nat]
    /\ tokens \in [Funds -> [Mints -> Nat]]
    /\ tx \in Seq(Instructions) /\ pc \in 0 .. Len(tx) + 1
    /\ begun \in Nat
    /\ saved \in [trading : [Funds -> TradingAccounts], vault : [Funds -> Nat],
                  tokens : [Funds -> [Mints -> Nat]]]
    /\ lent \in [Funds -> Nat]
    /\ due \in [Funds -> [Mints -> Nat]]
    /\ outside \in [Funds -> [sol : Int, token : [Mints -> Int]]]

Init ==
    /\ trading = [f \in Funds |-> Unlocked]
    /\ vault = [f \in Funds |-> VaultRent + InitialSol]
    /\ tokens = [f \in Funds |-> [m \in Mints |-> InitialTokens]]
    /\ tx = <<>> /\ pc = 0 /\ begun = 0
    /\ saved = Accounts
    /\ lent = NoLoans /\ due = NothingDue /\ outside = NoMoves

-----------------------------------------------------------------------------
Running(op) == pc \in DOMAIN tx /\ tx[pc].op = op

\* Mistake (for the mutation runs): the scan starts at the first instruction.
SettleAnywhere(f, m) ==
    \E k \in DOMAIN tx : tx[k].op = "settle" /\ tx[k].fund = f /\ tx[k].mint = m

\* The instructions sysvar scan of borrow_for_swap: among the instructions after
\* this one the first settle_swap, of whatever fund, must name this fund's
\* accounts and this output mint.
SettleFollows(f, m) ==
    \E k \in pc + 1 .. Len(tx) :
        /\ tx[k].op = "settle" /\ tx[k].fund = f /\ tx[k].mint = m
        /\ \A j \in pc + 1 .. k - 1 : tx[j].op # "settle"

\* Mistake: the balance is not looked at.
PositiveAmount(f, amount) == amount > 0

CanLend(f, amount) == amount > 0 /\ vault[f] >= amount

BorrowForSwap(f, m, amount, minOut) ==
    /\ Running("borrow")
    /\ tx[pc] = [op |-> "borrow", fund |-> f, mint |-> m, amount |-> amount, minOut |-> minOut]
    /\ ~trading[f].locked
    /\ CanLend(f, amount) /\ minOut > 0
    /\ SettleFollows(f, m)
    /\ trading' = [trading EXCEPT ![f] =
            [locked |-> TRUE, amount |-> amount, minOut |-> minOut,
             sol |-> vault[f], output |-> tokens[f][m], mint |-> m]]
    /\ vault' = [vault EXCEPT ![f] = @ - amount]
    /\ pc' = pc + 1
    /\ lent' = [lent EXCEPT ![f] = @ + amount]
    /\ due' = [due EXCEPT ![f][m] = @ + minOut]
    /\ UNCHANGED <<tokens, tx, begun, saved, outside>>

\* Mistake: what the token vault held before counts as output.
BalanceNotDelta(f, m) ==
    /\ vault[f] = trading[f].sol - trading[f].amount
    /\ tokens[f][m] >= trading[f].minOut

\* The fund vault must hold the snapshot less the loan, to the lamport.
LoanReturned(f, m) ==
    /\ vault[f] = trading[f].sol - trading[f].amount
    /\ tokens[f][m] - trading[f].output >= trading[f].minOut

SettleSwap(f, m) ==
    /\ Running("settle")
    /\ tx[pc] = [op |-> "settle", fund |-> f, mint |-> m]
    /\ trading[f].locked
    /\ trading[f].mint = m
    /\ LoanReturned(f, m)
    /\ trading' = [trading EXCEPT ![f] = Unlocked]
    /\ pc' = pc + 1
    /\ UNCHANGED <<vault, tokens, tx, begun, saved, history>>

\* Another instruction of the transaction that changes a fund vault, or a token
\* vault.
MoveSol(f, n) ==
    /\ Running("sol")
    /\ tx[pc] = [op |-> "sol", fund |-> f, by |-> n]
    /\ vault[f] + n >= 0
    /\ vault' = [vault EXCEPT ![f] = @ + n]
    /\ pc' = pc + 1
    /\ outside' = IF trading[f].locked THEN outside
                                       ELSE [outside EXCEPT ![f].sol = @ + n]
    /\ UNCHANGED <<trading, tokens, tx, begun, saved, lent, due>>

MoveTokens(f, m, n) ==
    /\ Running("token")
    /\ tx[pc] = [op |-> "token", fund |-> f, mint |-> m, by |-> n]
    /\ tokens[f][m] + n >= 0
    /\ tokens' = [tokens EXCEPT ![f][m] = @ + n]
    /\ pc' = pc + 1
    /\ outside' = IF trading[f].mint = m THEN outside
                                         ELSE [outside EXCEPT ![f].token[m] = @ + n]
    /\ UNCHANGED <<trading, vault, tx, begun, saved, lent, due>>

-----------------------------------------------------------------------------
\* The runtime: one transaction at a time holds the accounts.

Begin ==
    /\ pc = 0
    /\ begun < MaxTransactions
    /\ begun' = begun + 1
    /\ tx' \in SeqOf(Instructions, MaxLength) \ {<<>>}
    /\ pc' = 1
    /\ saved' = Accounts
    /\ UNCHANGED <<accounts, history>>

\* Between transactions the model forgets the previous one.
Finish ==
    /\ tx' = <<>> /\ pc' = 0
    /\ UNCHANGED begun
    /\ saved' = Accounts'
    /\ lent' = NoLoans /\ due' = NothingDue /\ outside' = NoMoves

Commit ==
    /\ tx # <<>> /\ pc = Len(tx) + 1
    /\ \A f \in Funds : vault[f] = 0 \/ vault[f] >= VaultRent
    /\ UNCHANGED accounts
    /\ Finish

\* An instruction failed, or the transaction ran out of compute.
Abort ==
    /\ pc > 0
    /\ trading' = saved.trading /\ vault' = saved.vault /\ tokens' = saved.tokens
    /\ Finish

Next ==
    \/ Begin
    \/ \E f \in Funds, m \in Mints, amount \in Amounts, minOut \in MinOuts :
            BorrowForSwap(f, m, amount, minOut)
    \/ \E f \in Funds, m \in Mints : SettleSwap(f, m)
    \/ \E f \in Funds, n \in BothWays(SolMoves) : MoveSol(f, n)
    \/ \E f \in Funds, m \in Mints, n \in BothWays(TokenMoves) : MoveTokens(f, m, n)
    \/ Commit
    \/ Abort

Spec == Init /\ [][Next]_vars

-----------------------------------------------------------------------------
(* Properties.                                                             *)

\* No transaction, however its instructions are arranged and wherever it stops,
\* leaves a fund locked: a locked fund could never be traded again, since only a
\* borrow can precede a settlement.
NoLockSurvives == pc = 0 => \A f \in Funds : ~trading[f].locked

\* While a fund is out on loan no other fund of the same transaction can be: the
\* scan stops at the first settle_swap it meets, of any fund.
OneLoanAtATime ==
    \A f, g \in Funds : trading[f].locked /\ trading[g].locked => f = g

\* Whenever a fund is not locked, however many loans the transaction has made,
\* the fund vault is short of exactly what was lent, and the token vaults have
\* got at least all the promised outputs: no delivery pays for two loans.  (settle
\* compares two balances, so it is the net of what happens under the lock that is
\* seen: a deposit and an order's escrow of the same size pass together.)
LoansPaid ==
    \A f \in Funds : ~trading[f].locked =>
        /\ vault[f] = saved.vault[f] - lent[f] + outside[f].sol
        /\ \A m \in Mints :
              tokens[f][m] >= saved.tokens[f][m] + due[f][m] + outside[f].token[m]
=============================================================================
