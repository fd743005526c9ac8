---------------------------- MODULE SwapTxProofs ----------------------------
(***************************************************************************)
(* Proofs about SwapTx: for any funds, mints, amounts and transactions of   *)
(* any length, no lock survives a transaction and every loan is paid.       *)
(***************************************************************************)
EXTENDS SwapTx, TLAPS

\* The next settle_swap of the running transaction is f's.
SettlesNext(f) ==
    \E k \in pc .. Len(tx) :
        /\ tx[k].op = "settle" /\ tx[k].fund = f
        /\ \A j \in pc .. k - 1 : tx[j].op # "settle"

\* A locked fund is inside a transaction that has its settlement ahead.
LoanPending == \A f \in Funds : trading[f].locked => pc > 0 /\ SettlesNext(f)

\* A loan records an output mint, a cleared account none.
MintRecorded == \A f \in Funds : trading[f].locked <=> trading[f].mint # NoMint

\* The accounts a failed transaction falls back to hold no lock.
SavedUnlocked ==
    \A f \in Funds : ~saved.trading[f].locked /\ saved.trading[f].mint = NoMint

\* What the fund vault is, or must be again when the loan is settled.
SolBooked ==
    \A f \in Funds :
        (IF trading[f].locked THEN trading[f].sol - trading[f].amount ELSE vault[f])
            = saved.vault[f] - lent[f] + outside[f].sol

\* What each token vault has at least, or must have when the loan is settled.
TokensBooked ==
    \A f \in Funds, m \in Mints :
        (IF trading[f].mint = m THEN trading[f].output + trading[f].minOut ELSE tokens[f][m])
            >= saved.tokens[f][m] + due[f][m] + outside[f].token[m]

\* Between transactions the books are empty.
BooksClear == pc = 0 => lent = NoLoans /\ due = NothingDue /\ outside = NoMoves

Inv ==
    /\ TypeOK
    /\ LoanPending
    /\ MintRecorded
    /\ SavedUnlocked
    /\ BooksClear
    /\ SolBooked
    /\ TokensBooked

USE SwapTxAssumption DEF SwapTxAssumption

-----------------------------------------------------------------------------
\* Amounts taken and given are integers.
LEMMA DeltasAreInts ==
    ASSUME NEW S \in SUBSET Nat, NEW n \in BothWays(S)
    PROVE  n \in Int
BY DEF BothWays

\* Instructions are numbered from 1.
LEMMA IndicesAreNats ==
    ASSUME NEW S, NEW s \in Seq(S), NEW i \in DOMAIN s
    PROVE  i \in Nat \ {0} /\ Len(s) \in Nat
OBVIOUS

\* The initial state is of the right type.
LEMMA InitTypeOK == Init => TypeOK
<1> SUFFICES ASSUME Init PROVE TypeOK
    OBVIOUS
<1>1. trading \in [Funds -> TradingAccounts]
    BY DEF Init, Unlocked, TradingAccounts
<1>2. vault \in [Funds -> Nat] /\ tokens \in [Funds -> [Mints -> Nat]]
    BY DEF Init
<1>3. tx \in Seq(Instructions) /\ pc \in 0 .. Len(tx) + 1 /\ begun \in Nat
    BY DEF Init
<1>4. saved \in [trading : [Funds -> TradingAccounts], vault : [Funds -> Nat],
                 tokens : [Funds -> [Mints -> Nat]]]
    BY <1>1, <1>2 DEF Init, Accounts
<1>5. lent \in [Funds -> Nat] /\ due \in [Funds -> [Mints -> Nat]]
    BY DEF Init, NoLoans, NothingDue
<1>6. outside \in [Funds -> [sol : Int, token : [Mints -> Int]]]
    BY DEF Init, NoMoves
<1> QED
    BY <1>1, <1>2, <1>3, <1>4, <1>5, <1>6 DEF TypeOK

\* Every step keeps the types.
LEMMA NextTypeOK == TypeOK /\ [Next]_vars => TypeOK'
<1> SUFFICES ASSUME TypeOK, [Next]_vars PROVE TypeOK'
    OBVIOUS
<1>a. trading \in [Funds -> TradingAccounts] /\ vault \in [Funds -> Nat]
    BY DEF TypeOK
<1>b. tokens \in [Funds -> [Mints -> Nat]] /\ due \in [Funds -> [Mints -> Nat]]
    BY DEF TypeOK
<1>c. lent \in [Funds -> Nat]
    BY DEF TypeOK
<1>d. outside \in [Funds -> [sol : Int, token : [Mints -> Int]]]
    BY DEF TypeOK
<1>e. tx \in Seq(Instructions) /\ pc \in 0 .. Len(tx) + 1 /\ begun \in Nat
    BY DEF TypeOK
<1>1. CASE Begin
    <2>1. tx' \in Seq(Instructions) /\ Len(tx') \in Nat
        BY <1>1, MaxLength \in Nat DEF Begin, SeqOf
    <2>2. pc' \in 0 .. Len(tx') + 1
        BY <2>1, <1>1 DEF Begin
    <2>3. saved' \in [trading : [Funds -> TradingAccounts], vault : [Funds -> Nat],
                      tokens : [Funds -> [Mints -> Nat]]]
        BY <1>a, <1>b, <1>1 DEF Begin, Accounts
    <2> QED
        BY <2>1, <2>2, <2>3, <1>1 DEF Begin, accounts, history, TypeOK
<1>2. ASSUME NEW f \in Funds, NEW m \in Mints, NEW amount \in Amounts,
             NEW minOut \in MinOuts, BorrowForSwap(f, m, amount, minOut)
      PROVE  TypeOK'
    <2>1. amount \in Nat /\ minOut \in Nat
        OBVIOUS
    <2>2. vault[f] \in Nat /\ vault[f] >= amount /\ vault[f] - amount \in Nat
        BY <2>1, <1>a, <1>2 DEF BorrowForSwap, CanLend
    <2>3. tokens[f][m] \in Nat
        BY <1>b
    <2>4. [locked |-> TRUE, amount |-> amount, minOut |-> minOut, sol |-> vault[f],
           output |-> tokens[f][m], mint |-> m] \in TradingAccounts
        BY <2>1, <2>2, <2>3 DEF TradingAccounts
    <2>5. trading' \in [Funds -> TradingAccounts]
        BY <2>4, <1>a, <1>2 DEF BorrowForSwap
    <2>6. pc' \in 0 .. Len(tx') + 1
        BY <1>e, <1>2 DEF BorrowForSwap, Running
    <2>7. vault' \in [Funds -> Nat] /\ lent' \in [Funds -> Nat]
        <3>1. vault' = [vault EXCEPT ![f] = @ - amount] /\ lent' = [lent EXCEPT ![f] = @ + amount]
            BY <1>2 DEF BorrowForSwap
        <3> QED
            BY <3>1, <2>1, <2>2, <1>a, <1>c
    <2>8. due' \in [Funds -> [Mints -> Nat]]
        <3>1. due' = [due EXCEPT ![f][m] = @ + minOut]
            BY <1>2 DEF BorrowForSwap
        <3> QED
            BY <3>1, <2>1, <1>b
    <2> QED
        BY <2>5, <2>6, <2>7, <2>8, <1>2 DEF BorrowForSwap, TypeOK
<1>3. ASSUME NEW f \in Funds, NEW m \in Mints, SettleSwap(f, m)
      PROVE  TypeOK'
    <2>1. trading' \in [Funds -> TradingAccounts]
        BY <1>a, <1>3 DEF SettleSwap, Unlocked, TradingAccounts
    <2>2. pc' \in 0 .. Len(tx') + 1
        BY <1>e, <1>3 DEF SettleSwap, Running
    <2> QED
        BY <2>1, <2>2, <1>3 DEF SettleSwap, history, TypeOK
<1>4. ASSUME NEW f \in Funds, NEW n \in BothWays(SolMoves), MoveSol(f, n)
      PROVE  TypeOK'
    <2>1. n \in Int
        BY DeltasAreInts
    <2>2. vault' \in [Funds -> Nat]
        <3>1. vault' = [vault EXCEPT ![f] = @ + n] /\ vault[f] + n >= 0
            BY <1>4 DEF MoveSol
        <3> QED
            BY <3>1, <2>1, <1>a
    <2>3. outside' \in [Funds -> [sol : Int, token : [Mints -> Int]]]
        <3>1. outside' = outside \/ outside' = [outside EXCEPT ![f].sol = @ + n]
            BY <1>4 DEF MoveSol
        <3>2. outside[f].sol + n \in Int
            BY <2>1, <1>d
        <3> QED
            BY <3>1, <3>2, <1>d
    <2>4. pc' \in 0 .. Len(tx') + 1
        BY <1>e, <1>4 DEF MoveSol, Running
    <2> QED
        BY <2>2, <2>3, <2>4, <1>4 DEF MoveSol, TypeOK
<1>5. ASSUME NEW f \in Funds, NEW m \in Mints, NEW n \in BothWays(TokenMoves),
             MoveTokens(f, m, n)
      PROVE  TypeOK'
    <2>1. n \in Int
        BY DeltasAreInts
    <2>2. tokens' \in [Funds -> [Mints -> Nat]]
        <3>1. tokens' = [tokens EXCEPT ![f][m] = @ + n] /\ tokens[f][m] + n >= 0
            BY <1>5 DEF MoveTokens
        <3>2. tokens[f][m] + n \in Nat
            BY <3>1, <2>1, <1>b
        <3> QED
            BY <3>1, <3>2, <1>b
    <2>3. outside' \in [Funds -> [sol : Int, token : [Mints -> Int]]]
        <3>1. outside' = outside \/ outside' = [outside EXCEPT ![f].token[m] = @ + n]
            BY <1>5 DEF MoveTokens
        <3>2. outside[f].token[m] + n \in Int
            BY <2>1, <1>d
        <3> QED
            BY <3>1, <3>2, <1>d
    <2>4. pc' \in 0 .. Len(tx') + 1
        BY <1>e, <1>5 DEF MoveTokens, Running
    <2> QED
        BY <2>2, <2>3, <2>4, <1>5 DEF MoveTokens, TypeOK
<1>6. ASSUME Finish,
             trading' \in [Funds -> TradingAccounts], vault' \in [Funds -> Nat],
             tokens' \in [Funds -> [Mints -> Nat]]
      PROVE  TypeOK'
    <2>1. tx' \in Seq(Instructions) /\ pc' \in 0 .. Len(tx') + 1 /\ begun' \in Nat
        BY <1>6, <1>e DEF Finish
    <2>2. lent' \in [Funds -> Nat] /\ due' \in [Funds -> [Mints -> Nat]]
        BY <1>6 DEF Finish, NoLoans, NothingDue
    <2>3. outside' \in [Funds -> [sol : Int, token : [Mints -> Int]]]
        BY <1>6 DEF Finish, NoMoves
    <2> QED
        BY <2>1, <2>2, <2>3, <1>6 DEF Finish, Accounts, TypeOK
<1>7. CASE Commit
    BY <1>6, <1>7, <1>a, <1>b DEF Commit, accounts
<1>8. CASE Abort
    BY <1>6, <1>8 DEF Abort, TypeOK
<1>9. CASE UNCHANGED vars
    BY <1>9 DEF vars, accounts, history, TypeOK
<1> QED
    BY <1>1, <1>2, <1>3, <1>4, <1>5, <1>7, <1>8, <1>9 DEF Next

\* Type correctness of the accounts, the running transaction and the books.
THEOREM TypeCorrect == Spec => []TypeOK
    BY InitTypeOK, NextTypeOK, PTL DEF Spec
-----------------------------------------------------------------------------
\* What TypeOK says of single entries.
LEMMA EntryTypes ==
    ASSUME TypeOK, NEW f \in Funds
    PROVE  /\ trading[f].sol \in Int /\ trading[f].amount \in Int /\ vault[f] \in Int
           /\ trading[f].output \in Int /\ trading[f].minOut \in Int
           /\ saved.vault[f] \in Int /\ lent[f] \in Int /\ outside[f].sol \in Int
           /\ \A m \in Mints : /\ tokens[f][m] \in Int /\ saved.tokens[f][m] \in Int
                               /\ due[f][m] \in Int /\ outside[f].token[m] \in Int
<1>1. trading[f] \in TradingAccounts /\ vault[f] \in Nat /\ lent[f] \in Nat
    BY DEF TypeOK
<1>2. saved.vault[f] \in Nat /\ saved.tokens[f] \in [Mints -> Nat]
    BY DEF TypeOK
<1>3. tokens[f] \in [Mints -> Nat] /\ due[f] \in [Mints -> Nat]
    BY DEF TypeOK
<1>4. outside[f] \in [sol : Int, token : [Mints -> Int]]
    BY DEF TypeOK
<1> QED
    BY <1>1, <1>2, <1>3, <1>4 DEF TradingAccounts

\* An instruction that is not a settlement leaves the next settlement ahead.
LEMMA PendingShifts ==
    ASSUME TypeOK, NEW f \in Funds, SettlesNext(f), pc \in DOMAIN tx,
           tx[pc].op # "settle", pc' = pc + 1, tx' = tx
    PROVE  SettlesNext(f)'
<1>1. PICK k \in pc .. Len(tx) :
            /\ tx[k].op = "settle" /\ tx[k].fund = f
            /\ \A j \in pc .. k - 1 : tx[j].op # "settle"
    BY DEF SettlesNext
<1>2. pc \in Nat /\ Len(tx) \in Nat
    BY DEF TypeOK
<1>3. k \in pc + 1 .. Len(tx)
    BY <1>1, <1>2
<1>4. \A j \in pc + 1 .. k - 1 : tx[j].op # "settle"
    BY <1>1, <1>2
<1> QED
    BY <1>1, <1>3, <1>4 DEF SettlesNext

\* The initial state satisfies the invariant.
LEMMA InitInv == Init => Inv
<1> SUFFICES ASSUME Init PROVE Inv
    OBVIOUS
<1>1. LoanPending /\ MintRecorded /\ SavedUnlocked
    BY DEF Init, Unlocked, Accounts, LoanPending, MintRecorded, SavedUnlocked
<1>2. BooksClear
    BY DEF Init, BooksClear
<1>3. SolBooked
    <2> SUFFICES ASSUME NEW f \in Funds
                 PROVE  ~trading[f].locked
                        /\ vault[f] = saved.vault[f] - lent[f] + outside[f].sol
        BY DEF SolBooked
    <2>1. ~trading[f].locked /\ saved.vault[f] = vault[f] /\ lent[f] = 0 /\ outside[f].sol = 0
        BY DEF Init, Unlocked, Accounts, NoLoans, NoMoves
    <2> QED
        BY <2>1, InitTypeOK, EntryTypes
<1>4. TokensBooked
    <2> SUFFICES ASSUME NEW f \in Funds, NEW m \in Mints
                 PROVE  trading[f].mint # m
                        /\ tokens[f][m] >= saved.tokens[f][m] + due[f][m] + outside[f].token[m]
        BY DEF TokensBooked
    <2>1. trading[f].mint # m /\ saved.tokens[f][m] = tokens[f][m]
        BY DEF Init, Unlocked, Accounts
    <2>2. due[f][m] = 0 /\ outside[f].token[m] = 0
        BY DEF Init, NothingDue, NoMoves
    <2> QED
        BY <2>1, <2>2, InitTypeOK, EntryTypes
<1> QED
    BY <1>1, <1>2, <1>3, <1>4, InitTypeOK DEF Inv

\* Lending: the scan has found the settlement, the snapshot is the books' value.
LEMMA BorrowInv ==
    ASSUME Inv, TypeOK', NEW f \in Funds, NEW m \in Mints, NEW amount \in Amounts,
           NEW minOut \in MinOuts, BorrowForSwap(f, m, amount, minOut)
    PROVE  Inv'
<1>1. TypeOK /\ pc \in DOMAIN tx /\ pc' = pc + 1 /\ tx' = tx /\ tx[pc].op # "settle"
    BY DEF Inv, BorrowForSwap, Running
<1>2. pc \in Nat \ {0} /\ amount \in Int /\ minOut \in Int
    <2>1. tx \in Seq(Instructions)
        BY <1>1 DEF TypeOK
    <2>2. amount \in Nat /\ minOut \in Nat
        OBVIOUS
    <2> QED
        BY <1>1, <2>1, <2>2, IndicesAreNats
<1>3. trading' = [trading EXCEPT ![f] =
            [locked |-> TRUE, amount |-> amount, minOut |-> minOut,
             sol |-> vault[f], output |-> tokens[f][m], mint |-> m]]
      /\ saved' = saved /\ outside' = outside /\ tokens' = tokens /\ ~trading[f].locked
      /\ vault' = [vault EXCEPT ![f] = @ - amount]
      /\ lent' = [lent EXCEPT ![f] = @ + amount]
      /\ due' = [due EXCEPT ![f][m] = @ + minOut]
    BY DEF BorrowForSwap
<1>4. LoanPending'
    <2> SUFFICES ASSUME NEW g \in Funds, trading'[g].locked PROVE pc' > 0 /\ SettlesNext(g)'
        BY DEF LoanPending
    <2>1. CASE g = f
        BY <2>1, <1>1, <1>2 DEF BorrowForSwap, SettleFollows, SettlesNext
    <2>2. CASE g # f
        <3>1. trading[g].locked
            BY <2>2, <1>1, <1>3 DEF TypeOK
        <3> QED
            BY <3>1, <1>1, <1>2, PendingShifts DEF Inv, LoanPending
    <2> QED
        BY <2>1, <2>2
<1>5. MintRecorded'
    BY <1>1, <1>3 DEF Inv, MintRecorded, TypeOK
<1>6. SavedUnlocked' /\ BooksClear'
    BY <1>1, <1>2, <1>3 DEF Inv, SavedUnlocked, BooksClear
<1>7. SolBooked'
    <2> SUFFICES ASSUME NEW g \in Funds
                 PROVE (IF trading'[g].locked THEN trading'[g].sol - trading'[g].amount
                                              ELSE vault'[g])
                        = saved.vault[g] - lent'[g] + outside[g].sol
        BY <1>3 DEF SolBooked
    <2>1. (IF trading[g].locked THEN trading[g].sol - trading[g].amount ELSE vault[g])
            = saved.vault[g] - lent[g] + outside[g].sol
        BY DEF Inv, SolBooked
    <2>2. CASE g = f
        <3>1. /\ trading'[f].locked /\ trading'[f].sol = vault[f]
              /\ trading'[f].amount = amount /\ lent'[f] = lent[f] + amount
            BY <1>1, <1>3 DEF TypeOK
        <3> QED
            BY <2>1, <2>2, <3>1, <1>1, <1>2, <1>3, EntryTypes
    <2>3. CASE g # f
        <3>1. trading'[g] = trading[g] /\ vault'[g] = vault[g] /\ lent'[g] = lent[g]
            BY <2>3, <1>1, <1>3 DEF TypeOK
        <3> QED
            BY <2>1, <3>1
    <2> QED
        BY <2>2, <2>3
<1>8. TokensBooked'
    <2> SUFFICES ASSUME NEW g \in Funds, NEW n \in Mints
                 PROVE (IF trading'[g].mint = n THEN trading'[g].output + trading'[g].minOut
                                                ELSE tokens[g][n])
                        >= saved.tokens[g][n] + due'[g][n] + outside[g].token[n]
        BY <1>3 DEF TokensBooked
    <2>1. (IF trading[g].mint = n THEN trading[g].output + trading[g].minOut ELSE tokens[g][n])
            >= saved.tokens[g][n] + due[g][n] + outside[g].token[n]
        BY DEF Inv, TokensBooked
    <2>2. CASE g = f /\ n = m
        <3>1. /\ trading'[f].mint = m /\ trading'[f].output = tokens[f][m]
              /\ trading'[f].minOut = minOut /\ due'[f][m] = due[f][m] + minOut
            <4>1. trading'[f].mint = m /\ trading'[f].output = tokens[f][m]
                  /\ trading'[f].minOut = minOut
                BY <1>1, <1>3 DEF TypeOK
            <4>2. due'[f][m] = due[f][m] + minOut
                BY <1>1, <1>3 DEF TypeOK
            <4> QED
                BY <4>1, <4>2
        <3>2. trading[f].mint # m
            BY <1>3 DEF Inv, MintRecorded
        <3>3. /\ tokens[f][m] \in Int /\ saved.tokens[f][m] \in Int
              /\ due[f][m] \in Int /\ outside[f].token[m] \in Int
            BY <1>1, EntryTypes
        <3> QED
            BY <2>1, <2>2, <3>1, <3>2, <3>3, <1>2
    <2>3. CASE g = f /\ n # m
        <3>1. trading'[f].mint # n /\ trading[f].mint # n /\ due'[f][n] = due[f][n]
            <4>1. trading'[f].mint # n
                BY <2>3, <1>1, <1>3 DEF TypeOK
            <4>2. trading[f].mint # n
                BY <1>3 DEF Inv, MintRecorded
            <4>3. due'[f][n] = due[f][n]
                BY <2>3, <1>1, <1>3 DEF TypeOK
            <4> QED
                BY <4>1, <4>2, <4>3
        <3> QED
            BY <2>1, <2>3, <3>1
    <2>4. CASE g # f
        <3>1. trading'[g] = trading[g] /\ due'[g] = due[g]
            BY <2>4, <1>1, <1>3 DEF TypeOK
        <3> QED
            BY <2>1, <3>1
    <2> QED
        BY <2>2, <2>3, <2>4
<1> QED
    BY <1>4, <1>5, <1>6, <1>7, <1>8 DEF Inv

\* Settling: the fund was the only one on loan, and both balances are back.
LEMMA SettleInv ==
    ASSUME Inv, TypeOK', NEW f \in Funds, NEW m \in Mints, SettleSwap(f, m)
    PROVE  Inv'
<1>1. /\ TypeOK /\ pc \in DOMAIN tx /\ pc' = pc + 1 /\ tx' = tx
      /\ tx[pc].op = "settle" /\ tx[pc].fund = f
    BY DEF Inv, SettleSwap, Running
<1>2. pc \in Nat \ {0} /\ Len(tx) \in Nat
    <2>1. tx \in Seq(Instructions)
        BY <1>1 DEF TypeOK
    <2> QED
        BY <1>1, <2>1, IndicesAreNats
<1>3. /\ trading' = [trading EXCEPT ![f] = Unlocked]
      /\ vault[f] = trading[f].sol - trading[f].amount
      /\ tokens[f][m] - trading[f].output >= trading[f].minOut
      /\ trading[f].locked /\ trading[f].mint = m
      /\ vault' = vault /\ tokens' = tokens /\ saved' = saved
      /\ lent' = lent /\ due' = due /\ outside' = outside
    BY DEF SettleSwap, LoanReturned, history
<1>4. ~trading'[f].locked /\ trading'[f].mint = NoMint
      /\ \A g \in Funds \ {f} : trading'[g] = trading[g]
    BY <1>1, <1>3 DEF TypeOK, Unlocked
<1>5. LoanPending'
    <2> SUFFICES ASSUME NEW g \in Funds, trading'[g].locked PROVE FALSE
        BY DEF LoanPending
    <2>1. g # f /\ trading[g].locked
        BY <1>4
    <2>2. PICK k \in pc .. Len(tx) :
                /\ tx[k].op = "settle" /\ tx[k].fund = g
                /\ \A j \in pc .. k - 1 : tx[j].op # "settle"
        BY <2>1 DEF Inv, LoanPending, SettlesNext
    <2>3. k = pc
        BY <2>2, <1>1, <1>2
    <2> QED
        BY <2>1, <2>2, <2>3, <1>1
<1>6. MintRecorded'
    BY <1>4 DEF Inv, MintRecorded
<1>7. SavedUnlocked' /\ BooksClear'
    BY <1>1, <1>2, <1>3 DEF Inv, SavedUnlocked, BooksClear
<1>8. SolBooked'
    <2> SUFFICES ASSUME NEW g \in Funds
                 PROVE (IF trading'[g].locked THEN trading'[g].sol - trading'[g].amount
                                              ELSE vault[g])
                        = saved.vault[g] - lent[g] + outside[g].sol
        BY <1>3 DEF SolBooked
    <2>1. (IF trading[g].locked THEN trading[g].sol - trading[g].amount ELSE vault[g])
            = saved.vault[g] - lent[g] + outside[g].sol
        BY DEF Inv, SolBooked
    <2> QED
        BY <2>1, <1>3, <1>4
<1>9. TokensBooked'
    <2> SUFFICES ASSUME NEW g \in Funds, NEW n \in Mints
                 PROVE (IF trading'[g].mint = n THEN trading'[g].output + trading'[g].minOut
                                                ELSE tokens[g][n])
                        >= saved.tokens[g][n] + due[g][n] + outside[g].token[n]
        BY <1>3 DEF TokensBooked
    <2>1. (IF trading[g].mint = n THEN trading[g].output + trading[g].minOut ELSE tokens[g][n])
            >= saved.tokens[g][n] + due[g][n] + outside[g].token[n]
        BY DEF Inv, TokensBooked
    <2>2. CASE g = f /\ n = m
        <3>1. trading'[f].mint # m
            BY <1>4
        <3>2. /\ tokens[f][m] \in Int /\ saved.tokens[f][m] \in Int
              /\ due[f][m] \in Int /\ outside[f].token[m] \in Int
              /\ trading[f].output \in Int /\ trading[f].minOut \in Int
            BY <1>1, EntryTypes
        <3> QED
            BY <2>1, <2>2, <3>1, <3>2, <1>3
    <2>3. CASE g = f /\ n # m
        BY <2>1, <2>3, <1>3, <1>4
    <2>4. CASE g # f
        BY <2>1, <2>4, <1>4
    <2> QED
        BY <2>2, <2>3, <2>4
<1> QED
    BY <1>5, <1>6, <1>7, <1>8, <1>9 DEF Inv

\* Moves: booked, unless they touch an account a loan has a snapshot of.
LEMMA MoveSolInv ==
    ASSUME Inv, TypeOK', NEW f \in Funds, NEW n \in BothWays(SolMoves), MoveSol(f, n)
    PROVE  Inv'
<1>1. /\ TypeOK /\ pc \in DOMAIN tx /\ pc' = pc + 1 /\ tx' = tx /\ tx[pc].op # "settle"
    BY DEF Inv, MoveSol, Running
<1>2. pc \in Nat \ {0} /\ n \in Int
    <2>1. tx \in Seq(Instructions)
        BY <1>1 DEF TypeOK
    <2> QED
        BY <1>1, <2>1, IndicesAreNats, DeltasAreInts
<1>3. /\ vault' = [vault EXCEPT ![f] = @ + n]
      /\ outside' = IF trading[f].locked THEN outside ELSE [outside EXCEPT ![f].sol = @ + n]
      /\ trading' = trading /\ tokens' = tokens /\ saved' = saved
      /\ lent' = lent /\ due' = due
    BY DEF MoveSol
<1>4. LoanPending'
    BY <1>1, <1>2, <1>3, PendingShifts DEF Inv, LoanPending
<1>5. MintRecorded' /\ SavedUnlocked' /\ BooksClear'
    BY <1>1, <1>2, <1>3 DEF Inv, MintRecorded, SavedUnlocked, BooksClear
<1>6. SolBooked'
    <2> SUFFICES ASSUME NEW g \in Funds
                 PROVE (IF trading[g].locked THEN trading[g].sol - trading[g].amount
                                             ELSE vault'[g])
                        = saved.vault[g] - lent[g] + outside'[g].sol
        BY <1>3 DEF SolBooked
    <2>1. (IF trading[g].locked THEN trading[g].sol - trading[g].amount ELSE vault[g])
            = saved.vault[g] - lent[g] + outside[g].sol
        BY DEF Inv, SolBooked
    <2>2. CASE g = f /\ ~trading[f].locked
        <3>1. vault'[f] = vault[f] + n /\ outside'[f].sol = outside[f].sol + n
            BY <2>2, <1>1, <1>3 DEF TypeOK
        <3> QED
            BY <2>1, <2>2, <3>1, <1>1, <1>2, EntryTypes
    <2>3. CASE g = f /\ trading[f].locked
        BY <2>1, <2>3, <1>3
    <2>4. CASE g # f
        <3>1. vault'[g] = vault[g] /\ outside'[g] = outside[g]
            BY <2>4, <1>1, <1>3 DEF TypeOK
        <3> QED
            BY <2>1, <3>1
    <2> QED
        BY <2>2, <2>3, <2>4
<1>7. TokensBooked'
    <2>1. \A g \in Funds : outside'[g].token = outside[g].token
        BY <1>1, <1>3 DEF TypeOK
    <2> QED
        BY <2>1, <1>3 DEF Inv, TokensBooked
<1> QED
    BY <1>4, <1>5, <1>6, <1>7 DEF Inv

\* The same for token vaults.
LEMMA MoveTokensInv ==
    ASSUME Inv, TypeOK', NEW f \in Funds, NEW m \in Mints, NEW n \in BothWays(TokenMoves),
           MoveTokens(f, m, n)
    PROVE  Inv'
<1>1. /\ TypeOK /\ pc \in DOMAIN tx /\ pc' = pc + 1 /\ tx' = tx /\ tx[pc].op # "settle"
    BY DEF Inv, MoveTokens, Running
<1>2. pc \in Nat \ {0} /\ n \in Int
    <2>1. tx \in Seq(Instructions)
        BY <1>1 DEF TypeOK
    <2> QED
        BY <1>1, <2>1, IndicesAreNats, DeltasAreInts
<1>3. /\ tokens' = [tokens EXCEPT ![f][m] = @ + n]
      /\ outside' = IF trading[f].mint = m THEN outside
                                           ELSE [outside EXCEPT ![f].token[m] = @ + n]
      /\ trading' = trading /\ vault' = vault /\ saved' = saved
      /\ lent' = lent /\ due' = due
    BY DEF MoveTokens
<1>4. LoanPending'
    BY <1>1, <1>2, <1>3, PendingShifts DEF Inv, LoanPending
<1>5. MintRecorded' /\ SavedUnlocked' /\ BooksClear'
    BY <1>1, <1>2, <1>3 DEF Inv, MintRecorded, SavedUnlocked, BooksClear
<1>6. SolBooked'
    <2>1. \A g \in Funds : outside'[g].sol = outside[g].sol
        BY <1>1, <1>3 DEF TypeOK
    <2> QED
        BY <2>1, <1>3 DEF Inv, SolBooked
<1>7. TokensBooked'
    <2> SUFFICES ASSUME NEW g \in Funds, NEW k \in Mints
                 PROVE (IF trading[g].mint = k THEN trading[g].output + trading[g].minOut
                                               ELSE tokens'[g][k])
                        >= saved.tokens[g][k] + due[g][k] + outside'[g].token[k]
        BY <1>3 DEF TokensBooked
    <2>1. (IF trading[g].mint = k THEN trading[g].output + trading[g].minOut ELSE tokens[g][k])
            >= saved.tokens[g][k] + due[g][k] + outside[g].token[k]
        BY DEF Inv, TokensBooked
    <2>2. CASE g = f /\ k = m /\ trading[f].mint # m
        <3>1. tokens'[f][m] = tokens[f][m] + n /\ outside'[f].token[m] = outside[f].token[m] + n
            BY <2>2, <1>1, <1>3 DEF TypeOK
        <3>2. /\ tokens[f][m] \in Int /\ saved.tokens[f][m] \in Int
              /\ due[f][m] \in Int /\ outside[f].token[m] \in Int
            BY <1>1, EntryTypes
        <3> QED
            BY <2>1, <2>2, <3>1, <3>2, <1>2
    <2>3. CASE g = f /\ k = m /\ trading[f].mint = m
        BY <2>1, <2>3, <1>3
    <2>4. CASE g # f
        <3>1. tokens'[g] = tokens[g] /\ outside'[g] = outside[g]
            BY <2>4, <1>1, <1>3 DEF TypeOK
        <3> QED
            BY <2>1, <3>1
    <2>5. CASE g = f /\ k # m
        <3>1. tokens'[f][k] = tokens[f][k]
            BY <2>5, <1>1, <1>3 DEF TypeOK
        <3>2. outside'[f].token[k] = outside[f].token[k]
            BY <2>5, <1>1, <1>3 DEF TypeOK
        <3> QED
            BY <2>1, <2>5, <3>1, <3>2
    <2> QED
        BY <2>2, <2>3, <2>4, <2>5
<1> QED
    BY <1>4, <1>5, <1>6, <1>7 DEF Inv

\* When no fund is locked and the books are opened, they agree with the accounts.
LEMMA NewBooksInv ==
    ASSUME Inv, TypeOK',
           \A f \in Funds : ~trading'[f].locked /\ trading'[f].mint = NoMint,
           saved' = Accounts',
           lent' = NoLoans, due' = NothingDue, outside' = NoMoves
    PROVE  Inv'
<1>1. /\ saved'.trading = trading' /\ saved'.vault = vault' /\ saved'.tokens = tokens'
    BY DEF Accounts
<1>2. LoanPending' /\ MintRecorded' /\ SavedUnlocked' /\ BooksClear'
    BY <1>1 DEF LoanPending, MintRecorded, SavedUnlocked, BooksClear
<1>3. SolBooked'
    <2> SUFFICES ASSUME NEW f \in Funds
                 PROVE  vault'[f] = saved'.vault[f] - lent'[f] + outside'[f].sol
        BY DEF SolBooked
    <2>1. vault'[f] \in Nat /\ lent'[f] = 0 /\ outside'[f].sol = 0
        BY DEF TypeOK, NoLoans, NoMoves
    <2> QED
        BY <2>1, <1>1
<1>4. TokensBooked'
    <2> SUFFICES ASSUME NEW f \in Funds, NEW m \in Mints
                 PROVE  tokens'[f][m] >= saved'.tokens[f][m] + due'[f][m] + outside'[f].token[m]
        BY DEF TokensBooked
    <2>1. tokens'[f][m] \in Nat /\ due'[f][m] = 0 /\ outside'[f].token[m] = 0
        BY DEF TypeOK, NothingDue, NoMoves
    <2> QED
        BY <2>1, <1>1
<1> QED
    BY <1>2, <1>3, <1>4 DEF Inv

\* A new transaction: the books start from the accounts as they are.
LEMMA BeginInv ==
    ASSUME Inv, TypeOK', Begin
    PROVE  Inv'
<1>1. /\ pc = 0 /\ saved' = Accounts /\ trading' = trading /\ vault' = vault
      /\ tokens' = tokens /\ pc' = 1
      /\ lent' = NoLoans /\ due' = NothingDue /\ outside' = NoMoves
    BY DEF Inv, Begin, BooksClear, accounts, history
<1>2. \A f \in Funds : ~trading[f].locked /\ trading[f].mint = NoMint
    BY <1>1 DEF Inv, LoanPending, MintRecorded
<1>3. saved' = Accounts'
    BY <1>1 DEF Accounts
<1>4. \A f \in Funds : ~trading'[f].locked /\ trading'[f].mint = NoMint
    BY <1>1, <1>2
<1>5. lent' = NoLoans /\ due' = NothingDue /\ outside' = NoMoves
    BY <1>1
<1> QED
    BY <1>3, <1>4, <1>5, NewBooksInv

\* A transaction that ends, committed or rolled back.
LEMMA FinishInv ==
    ASSUME Inv, TypeOK', Finish,
           \A f \in Funds : ~trading'[f].locked /\ trading'[f].mint = NoMint
    PROVE  Inv'
BY NewBooksInv DEF Finish, Accounts

\* The invariant is inductive.
LEMMA NextInv == Inv /\ [Next]_vars => Inv'
<1> SUFFICES ASSUME Inv, [Next]_vars PROVE Inv'
    OBVIOUS
<1>1. TypeOK'
    BY NextTypeOK DEF Inv
<1>2. CASE Begin
    BY <1>1, <1>2, BeginInv
<1>3. ASSUME NEW f \in Funds, NEW m \in Mints, NEW amount \in Amounts,
             NEW minOut \in MinOuts, BorrowForSwap(f, m, amount, minOut)
      PROVE  Inv'
    BY <1>1, <1>3, BorrowInv
<1>4. ASSUME NEW f \in Funds, NEW m \in Mints, SettleSwap(f, m)
      PROVE  Inv'
    BY <1>1, <1>4, SettleInv
<1>5. ASSUME NEW f \in Funds, NEW n \in BothWays(SolMoves), MoveSol(f, n)
      PROVE  Inv'
    BY <1>1, <1>5, MoveSolInv
<1>6. ASSUME NEW f \in Funds, NEW m \in Mints, NEW n \in BothWays(TokenMoves),
             MoveTokens(f, m, n)
      PROVE  Inv'
    BY <1>1, <1>6, MoveTokensInv
<1>7. CASE Commit
    <2>1. Finish /\ trading' = trading /\ pc = Len(tx) + 1
        BY <1>7 DEF Commit, accounts
    <2>2. ~ \E k \in pc .. Len(tx) : TRUE
        BY <2>1 DEF Inv, TypeOK
    <2>3. \A f \in Funds : ~trading[f].locked /\ trading[f].mint = NoMint
        BY <2>2 DEF Inv, LoanPending, SettlesNext, MintRecorded
    <2> QED
        BY <1>1, <2>1, <2>3, FinishInv
<1>8. CASE Abort
    <2>1. Finish /\ trading' = saved.trading
        BY <1>8 DEF Abort
    <2>2. \A f \in Funds : ~trading'[f].locked /\ trading'[f].mint = NoMint
        BY <2>1 DEF Inv, SavedUnlocked
    <2> QED
        BY <1>1, <2>1, <2>2, FinishInv
<1>9. CASE UNCHANGED vars
    BY <1>9 DEF vars, accounts, history, Inv, TypeOK, LoanPending, SettlesNext, MintRecorded,
                SavedUnlocked, BooksClear, SolBooked, TokensBooked
<1> QED
    BY <1>2, <1>3, <1>4, <1>5, <1>6, <1>7, <1>8, <1>9 DEF Next

\* The invariant holds in every reachable state.
LEMMA InvHolds == Spec => []Inv
    BY InitInv, NextInv, PTL DEF Spec

\* No transaction leaves a fund locked, however its instructions are arranged.
THEOREM NoLockSurvivesHolds == Spec => []NoLockSurvives
<1>1. Inv => NoLockSurvives
    BY DEF Inv, LoanPending, NoLockSurvives
<1> QED
    BY <1>1, InvHolds, PTL

\* Two funds are never on loan at once: both would need the next settle_swap.
THEOREM OneLoanAtATimeHolds == Spec => []OneLoanAtATime
<1>1. Inv => OneLoanAtATime
    <2> SUFFICES ASSUME Inv, NEW f \in Funds, NEW g \in Funds,
                        trading[f].locked, trading[g].locked
                 PROVE  f = g
        BY DEF OneLoanAtATime
    <2>1. PICK k \in pc .. Len(tx) :
                /\ tx[k].op = "settle" /\ tx[k].fund = f
                /\ \A i \in pc .. k - 1 : tx[i].op # "settle"
        BY DEF Inv, LoanPending, SettlesNext
    <2>2. PICK j \in pc .. Len(tx) :
                /\ tx[j].op = "settle" /\ tx[j].fund = g
                /\ \A i \in pc .. j - 1 : tx[i].op # "settle"
        BY DEF Inv, LoanPending, SettlesNext
    <2>3. pc \in Nat /\ Len(tx) \in Nat
        BY DEF Inv, TypeOK
    <2>4. j = k
        BY <2>1, <2>2, <2>3
    <2> QED
        BY <2>1, <2>2, <2>4
<1> QED
    BY <1>1, InvHolds, PTL

\* Every loan is paid: to the lamport on the SOL side, at least the promised
\* output on the token side, each delivery counted once.
THEOREM LoansPaidHolds == Spec => []LoansPaid
<1>1. Inv => LoansPaid
    <2> SUFFICES ASSUME Inv, NEW f \in Funds, ~trading[f].locked
                 PROVE  /\ vault[f] = saved.vault[f] - lent[f] + outside[f].sol
                        /\ \A m \in Mints :
                              tokens[f][m] >= saved.tokens[f][m] + due[f][m] + outside[f].token[m]
        BY DEF LoansPaid
    <2>1. trading[f].mint = NoMint
        BY DEF Inv, MintRecorded
    <2> QED
        BY <2>1 DEF Inv, SolBooked, TokensBooked
<1> QED
    BY <1>1, InvHolds, PTL
=============================================================================
