------------------------- MODULE GlobalConfigProofs -------------------------
(***************************************************************************)
(* Proofs about GlobalConfig for any programs, feeds, keys and number of   *)
(* updates.                                                                *)
(***************************************************************************)
EXTENDS GlobalConfig, TLAPS

USE DEF configVars

\* A configuration that exists names a feed and a program.
ConfigTyped ==
    config = NoConfig \/ config \in [keeper : Keys \cup {NoKey}, solFeed : Feeds, program : Programs]

\* A configuration with a feed is not the missing one.
LEMMA ConfigWithFeed ==
    ASSUME NEW c \in [keeper : Keys \cup {NoKey}, solFeed : Feeds, program : Programs]
    PROVE  c # NoConfig
<1>1. c.solFeed \in Feeds /\ NoFeed \notin Feeds
  BY GlobalConfigAssumption DEF Feeds
<1>2. NoConfig.solFeed = NoFeed
  BY DEF NoConfig
<1> QED
  BY <1>1, <1>2

\* The keeper of the configuration is the one appointed last; an open order pins the
\* program that was configured when it was created, so that a difference from the
\* program of now means that the configuration was updated since.  A count that is
\* not 0 counts the token's listing.
Inv ==
    /\ ConfigTyped
    /\ updates \in Nat /\ order.born \in Nat
    /\ count \in {0, 1} /\ (count # 0 => listed # NoFeed)
    /\ config.keeper = appointed
    /\ Open => ConfigExists /\ order.born <= updates
    /\ Open /\ order.born = updates => order.program = config.program
    /\ listed # NoFeed \/ global # NoFeed => ConfigExists

\* The initial state satisfies the invariant.
LEMMA InitInv == ConfigInit => Inv
  BY DEF ConfigInit, Inv, ConfigTyped, NoConfig, NoOrder, Open

\* Every instruction keeps the invariant.
LEMMA NextInv == Inv /\ [ConfigNext]_configVars => Inv'
<1> SUFFICES ASSUME Inv, [ConfigNext]_configVars PROVE Inv'
  OBVIOUS
<1> USE DEF Inv
<1>1. ASSUME NEW keeper \in Keys \cup {NoKey}, NEW f \in Feeds, NEW p \in Programs,
             InitializeGlobalConfig(keeper, f, p)
      PROVE  Inv'
  <2>1. config' \in [keeper : Keys \cup {NoKey}, solFeed : Feeds, program : Programs]
    BY <1>1 DEF InitializeGlobalConfig
  <2>2. config'.keeper = keeper /\ ConfigTyped'
    BY <1>1, <2>1 DEF InitializeGlobalConfig, ConfigTyped
  <2>3. ~Open /\ ConfigExists' /\ UNCHANGED <<global, listed, count, order, updates>>
    BY <1>1, <2>1, ConfigWithFeed DEF InitializeGlobalConfig, ConfigExists
  <2> QED
    BY <1>1, <2>2, <2>3 DEF InitializeGlobalConfig, Open
<1>2. ASSUME NEW f \in Feeds, NEW p \in Programs, UpdateGlobalConfig(f, p) PROVE Inv'
  <2>1. config' \in [keeper : Keys \cup {NoKey}, solFeed : Feeds, program : Programs]
    BY <1>2 DEF UpdateGlobalConfig, ConfigExists, ConfigTyped
  <2>2. config'.keeper = config.keeper /\ ConfigTyped'
    BY <1>2, <2>1 DEF UpdateGlobalConfig, ConfigExists, ConfigTyped
  <2>3. ConfigExists' /\ UNCHANGED <<global, listed, count, order, appointed>> /\ updates' = updates + 1
    BY <1>2, <2>1, ConfigWithFeed DEF UpdateGlobalConfig, ConfigExists
  <2> QED
    BY <2>2, <2>3 DEF Open
<1>3. ASSUME NEW keeper \in Keys \cup {NoKey}, AppointKeeper(keeper) PROVE Inv'
  <2>1. config' \in [keeper : Keys \cup {NoKey}, solFeed : Feeds, program : Programs]
    BY <1>3 DEF AppointKeeper, ConfigExists, ConfigTyped
  <2>2. config'.keeper = keeper /\ config'.program = config.program /\ ConfigTyped'
    BY <1>3, <2>1 DEF AppointKeeper, ConfigExists, ConfigTyped
  <2>3. ConfigExists' /\ UNCHANGED <<global, listed, count, order, updates>> /\ appointed' = keeper
    BY <1>3, <2>1, ConfigWithFeed DEF AppointKeeper, ConfigExists
  <2> QED
    BY <2>2, <2>3 DEF Open
<1>4. ASSUME NEW f \in Feeds \cup {NoFeed}, SetGlobal(f) PROVE Inv'
  BY <1>4 DEF SetGlobal, Open, ConfigExists, ConfigTyped
<1>5. CASE AddFund
  BY <1>5 DEF AddFund, Open, ConfigExists, ConfigTyped
<1>6. CASE RemoveFund
  BY <1>6 DEF RemoveFund, Open, ConfigExists, ConfigTyped
<1>7. CASE Swap
  BY <1>7 DEF Swap, Open, ConfigExists, ConfigTyped
<1>8. ASSUME NEW side \in {"BUY", "SELL"}, CreateOrder(side) PROVE Inv'
  BY <1>8 DEF CreateOrder, Open, ConfigExists, ConfigTyped
<1>9. CASE CancelOrder
  BY <1>9 DEF CancelOrder, NoOrder, Open, ConfigExists, ConfigTyped
<1>10. ASSUME NEW key \in Keys, ExecuteOrder(key) PROVE Inv'
  BY <1>10 DEF ExecuteOrder, Open, ConfigExists, ConfigTyped
<1>11. CASE RemoveOther
  BY <1>11 DEF RemoveOther, Open, ConfigExists, ConfigTyped
<1>12. CASE UNCHANGED configVars
  BY <1>12 DEF Open, ConfigExists, ConfigTyped
<1> QED
  BY <1>1, <1>2, <1>3, <1>4, <1>5, <1>6, <1>7, <1>8, <1>9, <1>10, <1>11, <1>12
  DEF ConfigNext, SetKeeper, RevokeKeeper

\* The invariant holds in every reachable state.
LEMMA InvHolds == ConfigSpec => []Inv
  BY InitInv, NextInv, PTL DEF ConfigSpec

\* Only the execution of an order fills it.
LEMMA FilledByExecution ==
    ASSUME [ConfigNext]_configVars, Filled
    PROVE  \E key \in Keys : ExecuteOrder(key)
<1>1. order' # order /\ order'.status = "executed" /\ Open
  BY DEF Filled, Open
<1>2. ~UNCHANGED configVars /\ ~AddFund /\ ~RemoveFund /\ ~RemoveOther /\ ~Swap
  BY <1>1 DEF AddFund, RemoveFund, RemoveOther, Swap
<1>3. \A f \in Feeds, p \in Programs : ~UpdateGlobalConfig(f, p)
  BY <1>1 DEF UpdateGlobalConfig
<1>4. \A keeper \in Keys \cup {NoKey} : ~AppointKeeper(keeper)
  BY <1>1 DEF AppointKeeper
<1>5. \A keeper \in Keys \cup {NoKey}, f \in Feeds, p \in Programs :
          ~InitializeGlobalConfig(keeper, f, p)
  BY <1>1 DEF InitializeGlobalConfig
<1>6. \A f \in Feeds \cup {NoFeed} : ~SetGlobal(f)
  BY <1>1 DEF SetGlobal
<1>7. (\A side \in {"BUY", "SELL"} : ~CreateOrder(side)) /\ ~CancelOrder
  BY <1>1 DEF CreateOrder, CancelOrder, NoOrder
<1> QED
  BY <1>2, <1>3, <1>4, <1>5, <1>6, <1>7 DEF ConfigNext, SetKeeper, RevokeKeeper

\* Whatever the admin updates in between, a fill is signed by the keeper appointed
\* last, and after a revocation there is none until the next appointment.
THEOREM RevocationHoldsAlways == ConfigSpec => RevocationHolds
<1>1. ASSUME Inv, [ConfigNext]_configVars, Filled
      PROVE  executor' = appointed /\ appointed # NoKey
  <2>1. PICK key \in Keys : ExecuteOrder(key)
    BY <1>1, FilledByExecution
  <2> QED
    BY <1>1, <2>1, GlobalConfigAssumption DEF ExecuteOrder, Inv
<1> QED
  BY <1>1, InvHolds, PTL DEF ConfigSpec, RevocationHolds

\* A fill at a feed that the NAV would refuse concerns an order from before the last
\* update of the oracle.
THEOREM OldOrdersOnly == ConfigSpec => OldOrdersOnlyAtOldOracle
<1>1. ASSUME Inv, [ConfigNext]_configVars, Filled, ~OracleAccepted
      PROVE  updates > order.born
  <2>1. PICK key \in Keys : ExecuteOrder(key)
    BY <1>1, FilledByExecution
  <2>2. /\ Open /\ ConfigExists /\ SolOracleSound
        /\ listed # NoFeed /\ OwnerOf(listed) = order.program
    BY <1>1, <2>1 DEF ExecuteOrder, TokenOraclePinned, Inv
  <2>3. OwnerOf(listed) # config.program
    BY <1>1, <2>2 DEF OracleAccepted
  <2> QED
    BY <1>1, <2>2, <2>3 DEF Inv
<1> QED
  BY <1>1, InvHolds, PTL DEF ConfigSpec, OldOrdersOnlyAtOldOracle

\* A NAV that can be read is lost only by an update of the oracle, by listing a token
\* while a feed is foreign, by a remove_token of any mint under an open order, or by
\* an order for a listed token that such removals have left out of the count.
THEOREM NavLostWithCauseHolds == ConfigSpec => NavLostWithCause
<1> DEFINE Caused ==
        \/ updates' > updates
        \/ /\ listed = NoFeed /\ listed' # NoFeed
           /\ OwnerOf(listed') # config.program \/ ~SolOracleSound
        \/ count' < count /\ Open
        \/ count = 0 /\ listed # NoFeed /\ ~Open /\ Open'
<1>1. ASSUME Inv, [ConfigNext]_configVars, NavReadable, ~NavReadable' PROVE Caused
  <2> USE DEF NavReadable, OracleAccepted, SolOracleSound, ConfigExists, Open
  <2>1. ASSUME NEW keeper \in Keys \cup {NoKey}, NEW f \in Feeds, NEW p \in Programs,
               InitializeGlobalConfig(keeper, f, p)
        PROVE  Caused
    BY <1>1, <2>1 DEF InitializeGlobalConfig
  <2>2. ASSUME NEW f \in Feeds, NEW p \in Programs, UpdateGlobalConfig(f, p) PROVE Caused
    BY <1>1, <2>2 DEF UpdateGlobalConfig, Inv
  <2>3. ASSUME NEW keeper \in Keys \cup {NoKey}, AppointKeeper(keeper) PROVE Caused
    <3>1. /\ config'.solFeed = config.solFeed /\ config'.program = config.program
          /\ UNCHANGED <<listed, count, order>>
      BY <2>3 DEF AppointKeeper
    <3>2. config' \in [keeper : Keys \cup {NoKey}, solFeed : Feeds, program : Programs]
      BY <2>3, <1>1 DEF AppointKeeper, Inv, ConfigTyped
    <3>3. config' # NoConfig
      BY <3>2, ConfigWithFeed
    <3> QED
      BY <1>1, <3>1, <3>3
  <2>4. ASSUME NEW f \in Feeds \cup {NoFeed}, SetGlobal(f) PROVE Caused
    BY <1>1, <2>4 DEF SetGlobal
  <2>5. CASE AddFund
    BY <1>1, <2>5 DEF AddFund, Inv
  <2>6. CASE RemoveFund
    BY <1>1, <2>6 DEF RemoveFund, Inv
  <2>7. CASE Swap
    BY <1>1, <2>7 DEF Swap
  <2>8. ASSUME NEW side \in {"BUY", "SELL"}, CreateOrder(side) PROVE Caused
    BY <1>1, <2>8 DEF CreateOrder
  <2>9. CASE CancelOrder
    BY <1>1, <2>9 DEF CancelOrder, NoOrder
  <2>10. ASSUME NEW key \in Keys, ExecuteOrder(key) PROVE Caused
    BY <1>1, <2>10 DEF ExecuteOrder
  <2>11. CASE RemoveOther
    BY <1>1, <2>11 DEF RemoveOther, Inv
  <2>12. CASE UNCHANGED configVars
    BY <1>1, <2>12
  <2> QED
    BY <1>1, <2>1, <2>2, <2>3, <2>4, <2>5, <2>6, <2>7, <2>8, <2>9, <2>10, <2>11, <2>12
    DEF ConfigNext, SetKeeper, RevokeKeeper
<1> QED
  BY <1>1, InvHolds, PTL DEF ConfigSpec, NavLostWithCause
=============================================================================
