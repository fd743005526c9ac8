------------------------------ MODULE MCShares ------------------------------
(***************************************************************************)
(* The instance of Shares that TLC explores, and the properties that sum    *)
(* over all wallets.                                                        *)
(***************************************************************************)
EXTENDS Shares, Functions

\* Every lamport the share ledger touches: wallets, treasury, vault and the
\* rent of the open withdraw requests.
Lamports ==
    SumFunction(wallet) + treasury + vault
        + RequestRent * Cardinality({i \in Investors : Requested(i)})

\* No instruction of the share ledger creates or loses a lamport, fee, rent
\* and rounding included; only trades (which leave the share count and the
\* requests alone) change the sum.
LamportsConserved ==
    [][totalShares' # totalShares \/ request' # request => Lamports' = Lamports]_vars

\* The share tokens in the wallets add up to the mint's supply, and the fund's
\* own count covers it.
SharesAddUp == SumFunction(held) = supply /\ SupplyCovered
=============================================================================
