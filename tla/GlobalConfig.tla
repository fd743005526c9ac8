---------------------------- MODULE GlobalConfig ----------------------------
(***************************************************************************)
(* The platform's configuration account and what becomes of a fund when    *)
(* its admin changes the oracle or the keeper under it.                    *)
(*                                                                         *)
(* Three places name an oracle: the configuration (the Pyth program and    *)
(* the SOL feed), a whitelist entry (the token's feed) and an order (feed  *)
(* and program, pinned at its creation).  They are written at different    *)
(* times by different people.  The fund is reduced to one token that it    *)
(* may list and one order at a time; amounts and prices are those of       *)
(* LimitOrders, and the fees and bounds the configuration also holds are   *)
(* constants there and in Shares.                                          *)
(***************************************************************************)
EXTENDS Naturals

CONSTANTS
    Programs,      \* oracle programs
    FeedIds,       \* a feed account is a program that owns it and an id
    NoFeed,        \* the feed of a whitelist entry that does not exist
    Keys,          \* keys that can sign
    NoKey,         \* Pubkey::default(), which cannot
    \* bounds of the instance that TLC explores
    MaxUpdates,    \* calls of update_global_config
    MaxTokens      \* swaps and fills that bring tokens

ASSUME GlobalConfigAssumption ==
    /\ NoFeed \notin Programs \X FeedIds
    /\ NoKey \notin Keys
    /\ MaxUpdates \in Nat /\ MaxTokens \in Nat

VARIABLES
    config,      \* the GlobalConfig account
    global,      \* the feed of the token's GlobalWhitelist entry
    listed,      \* the feed of its FundWhitelist entry
    count,       \* fund_state.enabled_token_count
    tokens,      \* balance of the fund's token vault
    order,       \* the fund's limit or DCA order
    updates,     \* history: calls of update_global_config
    appointed,   \* history: the key the admin appointed last, NoKey if revoked
    executor     \* history: who signed the last fill

configVars == <<config, global, listed, count, tokens, order, updates, appointed, executor>>

Feeds == Programs \X FeedIds
OwnerOf(f) == f[1]

\* No GlobalConfig account.
NoConfig == [keeper |-> NoKey, solFeed |-> NoFeed, program |-> NoFeed]
ConfigExists == config # NoConfig

NoOrder == [status |-> "none", side |-> "BUY", feed |-> NoFeed, program |-> NoFeed, born |-> 0]
Open == order.status = "open"

ConfigInit ==
    /\ config = NoConfig
    /\ global = NoFeed /\ listed = NoFeed /\ count = 0
    /\ tokens = 0
    /\ order = NoOrder
    /\ updates = 0
    /\ appointed = NoKey /\ executor = NoKey

-----------------------------------------------------------------------------
(* The admin.                                                              *)

\* initialize_global_config: whoever calls it becomes the admin; any keeper will
\* do, the default key included.
InitializeGlobalConfig(keeper, solFeed, program) ==
    /\ ~ConfigExists
    /\ config' = [keeper |-> keeper, solFeed |-> solFeed, program |-> program]
    /\ appointed' = keeper
    /\ UNCHANGED <<global, listed, count, tokens, order, updates, executor>>

\* Mistake (for the mutation runs): an update writes every field, the keeper too.
UpdateKeeperToo(solFeed, program) ==
    /\ ConfigExists
    /\ updates < MaxUpdates
    /\ \E keeper \in Keys :
            config' = [keeper |-> keeper, solFeed |-> solFeed, program |-> program]
    /\ updates' = updates + 1
    /\ UNCHANGED <<global, listed, count, tokens, order, appointed, executor>>

\* update_global_config: everything but the admin and the keeper.  That the feed
\* belongs to the program is not checked.
UpdateGlobalConfig(solFeed, program) ==
    /\ ConfigExists
    /\ updates < MaxUpdates
    /\ config' = [config EXCEPT !.solFeed = solFeed, !.program = program]
    /\ updates' = updates + 1
    /\ UNCHANGED <<global, listed, count, tokens, order, appointed, executor>>

\* set_keeper, and revoke_keeper, which sets the default key.
AppointKeeper(keeper) ==
    /\ ConfigExists
    /\ config' = [config EXCEPT !.keeper = keeper]
    /\ appointed' = keeper
    /\ UNCHANGED <<global, listed, count, tokens, order, updates, executor>>

SetKeeper(keeper) == keeper # NoKey /\ AppointKeeper(keeper)
RevokeKeeper == AppointKeeper(NoKey)

\* add_token and remove_token, global scope: the feed may be anybody's account.
SetGlobal(f) ==
    /\ ConfigExists
    /\ IF global = NoFeed THEN f # NoFeed ELSE f = NoFeed
    /\ global' = f
    /\ UNCHANGED <<config, listed, count, tokens, order, updates, appointed, executor>>

-----------------------------------------------------------------------------
(* The manager.                                                            *)

\* add_token, fund scope: the entry is a copy.
AddFund ==
    /\ global # NoFeed /\ listed = NoFeed
    /\ listed' = global
    /\ count' = count + 1
    /\ UNCHANGED <<config, global, tokens, order, updates, appointed, executor>>

\* remove_token, fund scope: asks for an empty token vault and a positive count, not
\* for an entry.
RemoveFund ==
    /\ tokens = 0 /\ count > 0
    /\ listed' = NoFeed
    /\ count' = count - 1
    /\ UNCHANGED <<config, global, tokens, order, updates, appointed, executor>>

\* The same of another mint, which the fund has never listed.
RemoveOther ==
    /\ count > 0
    /\ count' = count - 1
    /\ UNCHANGED <<config, global, listed, tokens, order, updates, appointed, executor>>

\* borrow_for_swap .. settle_swap: reads no oracle.
Swap ==
    /\ listed # NoFeed
    /\ tokens < MaxTokens
    /\ tokens' = tokens + 1
    /\ UNCHANGED <<config, global, listed, count, order, updates, appointed, executor>>

\* Mistake: the whitelist entry is not looked at.
CreateUnlisted(side) ==
    /\ ConfigExists /\ ~Open
    /\ order' = [status |-> "open", side |-> side, feed |-> global,
                 program |-> config.program, born |-> updates]
    /\ IF side = "SELL" THEN tokens > 0 /\ tokens' = tokens - 1 ELSE UNCHANGED tokens
    /\ UNCHANGED <<config, global, listed, count, updates, appointed, executor>>

\* create_limit_order, create_dca_order: no price is read, the oracle is pinned: the
\* feed of the whitelist entry, the program of the configuration.
CreateOrder(side) ==
    /\ listed # NoFeed /\ ~Open
    /\ order' = [status |-> "open", side |-> side, feed |-> listed,
                 program |-> config.program, born |-> updates]
    /\ IF side = "SELL" THEN tokens > 0 /\ tokens' = tokens - 1 ELSE UNCHANGED tokens
    /\ UNCHANGED <<config, global, listed, count, updates, appointed, executor>>

\* cancel_limit_order, cancel_dca_order: neither oracle nor listing matters.
CancelOrder ==
    /\ Open
    /\ order' = NoOrder
    /\ tokens' = IF order.side = "SELL" THEN tokens + 1 ELSE tokens
    /\ UNCHANGED <<config, global, listed, count, updates, appointed, executor>>

-----------------------------------------------------------------------------
(* The keeper.                                                             *)

\* Mistake: the owner of the token's feed is not checked.
OnlyFeedPinned == listed # NoFeed /\ listed = order.feed

\* The token's price must come from the pinned feed, which must still be the fund's
\* and belong to the pinned program.
TokenOraclePinned ==
    listed # NoFeed /\ listed = order.feed /\ OwnerOf(order.feed) = order.program

\* The SOL price comes from the configuration of now.
SolOracleSound == OwnerOf(config.solFeed) = config.program

\* execute_limit_order, and the last slice of execute_dca_order.
ExecuteOrder(key) ==
    /\ Open
    /\ key = config.keeper
    /\ TokenOraclePinned /\ SolOracleSound
    /\ order' = [order EXCEPT !.status = "executed"]
    /\ IF order.side = "BUY" THEN tokens < MaxTokens /\ tokens' = tokens + 1
                             ELSE UNCHANGED tokens
    /\ executor' = key
    /\ UNCHANGED <<config, global, listed, count, updates, appointed>>

ConfigNext ==
    \/ \E keeper \in Keys \cup {NoKey}, f \in Feeds, p \in Programs :
            InitializeGlobalConfig(keeper, f, p)
    \/ \E f \in Feeds, p \in Programs : UpdateGlobalConfig(f, p)
    \/ \E keeper \in Keys \cup {NoKey} : SetKeeper(keeper)
    \/ RevokeKeeper
    \/ \E f \in Feeds \cup {NoFeed} : SetGlobal(f)
    \/ AddFund
    \/ RemoveFund
    \/ RemoveOther
    \/ Swap
    \/ \E side \in {"BUY", "SELL"} : CreateOrder(side)
    \/ CancelOrder
    \/ \E key \in Keys : ExecuteOrder(key)

ConfigSpec == ConfigInit /\ [][ConfigNext]_configVars

-----------------------------------------------------------------------------
\* A NAV computation accepts the token's feed and that of SOL: each is the one named
\* by the entry, or by the configuration, and belongs to the program of now.
OracleAccepted ==
    SolOracleSound /\ listed # NoFeed /\ OwnerOf(listed) = config.program

\* compute_nav_lamports accepts what it is given.  At a count of 0 it reads no feed,
\* and refuses open orders, whatever is listed.
NavReadable ==
    /\ ConfigExists
    /\ IF count = 0 THEN ~Open ELSE OracleAccepted

(* Properties.                                                             *)

Filled == Open /\ order'.status = "executed"

\* Every fill is signed by the key the admin appointed last, and none happens between
\* a revocation and the next appointment, whatever else the admin updates meanwhile.
RevocationHolds ==
    [][Filled => executor' = appointed /\ appointed # NoKey]_configVars

\* The admin's changes of the global whitelist never reach a fund that has already
\* copied an entry.  A NAV that could be read cannot be read any more only after an
\* oracle update, after the manager has listed a first token while its feed or that
\* of SOL is a foreign program's, after a remove_token (of that token or of another)
\* under an open order, or after an order was created for a listed token that the
\* count, lowered by such a removal, leaves out.
NavLostWithCause ==
    [][NavReadable /\ ~NavReadable' =>
        \/ updates' > updates
        \/ /\ listed = NoFeed /\ listed' # NoFeed
           /\ OwnerOf(listed') # config.program \/ ~SolOracleSound
        \/ count' < count /\ Open
        \/ count = 0 /\ listed # NoFeed /\ ~Open /\ Open']_configVars

\* An order is filled at feeds that deposits and withdrawals would refuse only when
\* it was created before an update of the oracle that has not reached the fund's
\* whitelist yet: an order created afterwards waits for the new listing.
OldOrdersOnlyAtOldOracle ==
    [][Filled /\ ~OracleAccepted => updates > order.born]_configVars
=============================================================================
