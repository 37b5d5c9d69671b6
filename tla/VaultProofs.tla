---------------------------- MODULE VaultProofs ------------------------------
(***************************************************************************)
(* Proofs about VaultAmm, for any balances, amounts, lapses and bounds.    *)
(* What every step keeps is IInv: the types, the conservation of every     *)
(* token between the user and the vault, caps that equal the vault while   *)
(* the last refresh is current, and the shape of a built route: its first  *)
(* leg names a positive amount, its second one the balance held when it    *)
(* was built.                                                              *)
(***************************************************************************)
EXTENDS VaultAmm, TLAPS

Conserved ==
  \A m \in Mints : ledger.user[m] + ledger.vault[m] = InitUser[m] + InitVault[m]

CapIsCurrent ==
  \A d \in Directions : outcome[d] = "ok" => cap[d] = ledger.vault[Output(d)]

ExactLeg(ix) == ix \in Instructions /\ ix.amountIn > 0

DeltaLeg(ix, balance) ==
  /\ ix \in Instructions /\ Input(ix.dir) = PROFIT_MINT
  /\ ix.amountIn = 0 /\ ix.preBalance = balance

RouteIsBuilt ==
  route # NoRoute =>
    \/ Len(route) = 1 /\ ExactLeg(route[1])
    \/ /\ Len(route) = 2 /\ ExactLeg(route[1]) /\ DeltaLeg(route[2], held)
       /\ Output(route[1].dir) = PROFIT_MINT

IInv == TypeOK /\ Conserved /\ CapIsCurrent /\ RouteIsBuilt

Ledgers == [user : Balances, vault : Balances]

(* Mints, amounts and legs *)

LEMMA Widths == U64Max \in Nat /\ U64 \subseteq Nat /\ \A x \in U64 : x <= U64Max
  BY U64MaxAssumption DEF U64

LEMMA DirectionsTyped ==
  ASSUME NEW d \in Directions
  PROVE  /\ Input(d) \in Mints /\ Output(d) \in Mints /\ Input(d) # Output(d)
         /\ d = <<Input(d), Output(d)>>
         /\ \/ Input(d) \in FactionMints /\ Output(d) = PROFIT_MINT
            \/ Input(d) = PROFIT_MINT /\ Output(d) \in FactionMints
         /\ PROFIT_MINT \notin FactionMints
  BY DEF Directions, Input, Output, Mints, FactionMints, CRIME_MINT, FRAUD_MINT, PROFIT_MINT

\* Only a positive amount has an output, and an output is a u64.
LEMMA OutputOfPositive ==
  ASSUME NEW d \in Directions, NEW liquidity \in U64, NEW input, NEW output,
         NEW amount \in U64,
         QuoteConversion(d, liquidity, input, output, amount) # None
  PROVE  /\ amount > 0
         /\ QuoteConversion(d, liquidity, input, output, amount) \in U64
  <1>1. amount \in Nat /\ amount <= U64Max /\ U64Max \in Nat
    BY Widths
  <1> DEFINE out == ComputeVaultOutput(Input(d), Output(d), amount)
  <1>2. QuoteConversion(d, liquidity, input, output, amount) = out /\ out # None
    BY DEF QuoteConversion
  <1>3. amount > 0
    BY <1>1, <1>2 DEF ComputeVaultOutput
  <1>4. amount \div CONVERSION_RATE \in 0 .. amount
    BY <1>1, Z3 DEF CONVERSION_RATE
  <1>5. amount \div CONVERSION_RATE \in U64
    BY <1>1, <1>4 DEF U64
  <1>6. CheckedU64(amount * CONVERSION_RATE) \in U64 \cup {None}
    BY DEF CheckedU64, U64
  <1>7. out \in U64
    BY <1>2, <1>5, <1>6 DEF ComputeVaultOutput
  <1> QED BY <1>2, <1>3, <1>7

\* A leg moves what it spends to the vault and what it pays to the user, and
\* nothing of the other mints.
LEMMA LegMoves ==
  ASSUME NEW l \in Ledgers, NEW ix \in Instructions, Accepts(l, ix),
         \A m \in Mints : l.user[m] + l.vault[m] <= U64Max
  PROVE  LET d     == ix.dir
             spent == AmountSpent(ix, l.user[Input(d)])
             paid  == OnChainOutput(d, spent)
             after == AfterLeg(l, ix)
         IN  /\ after \in Ledgers
             /\ spent \in 1 .. l.user[Input(d)] /\ paid \in 1 .. l.vault[Output(d)]
             /\ after.user[Input(d)] = l.user[Input(d)] - spent
             /\ after.user[Output(d)] = l.user[Output(d)] + paid
             /\ after.vault[Input(d)] = l.vault[Input(d)] + spent
             /\ after.vault[Output(d)] = l.vault[Output(d)] - paid
             /\ \A m \in Mints :
                  after.user[m] + after.vault[m] = l.user[m] + l.vault[m]
  <1> DEFINE d     == ix.dir
             i     == Input(d)
             o     == Output(d)
             spent == AmountSpent(ix, l.user[i])
             paid  == OnChainOutput(d, spent)
             u     == [l.user EXCEPT ![i] = @ - spent, ![o] = @ + paid]
             v     == [l.vault EXCEPT ![i] = @ + spent, ![o] = @ - paid]
  <1>1. d \in Directions
    BY DEF Instructions
  <1>2. i \in Mints /\ o \in Mints /\ i # o
    BY <1>1, DirectionsTyped
  <1>3. spent \in 1 .. l.user[i] /\ paid \in 1 .. l.vault[o]
    BY DEF Accepts, Converts
  <1>4. AfterLeg(l, ix) = [user |-> u, vault |-> v]
    BY DEF AfterLeg
  <1> HIDE DEF d, spent, paid
  <1> HIDE DEF i, o
  <1>5. l.user \in [Mints -> U64] /\ l.vault \in [Mints -> U64]
    BY DEF Ledgers, Balances
  <1>6. /\ u[i] = l.user[i] - spent /\ u[o] = l.user[o] + paid
        /\ v[i] = l.vault[i] + spent /\ v[o] = l.vault[o] - paid
        /\ \A m \in Mints \ {i, o} : u[m] = l.user[m] /\ v[m] = l.vault[m]
        /\ DOMAIN u = Mints /\ DOMAIN v = Mints
        /\ u = [m \in Mints |-> u[m]] /\ v = [m \in Mints |-> v[m]]
    BY <1>2, <1>5
  <1>7. \A m \in Mints : l.user[m] \in Nat /\ l.vault[m] \in Nat
    BY <1>5, Widths
  <1>8. \A m \in Mints : /\ u[m] \in Nat /\ v[m] \in Nat
                         /\ u[m] + v[m] = l.user[m] + l.vault[m]
    <2> TAKE m \in Mints
    <2>1. CASE m = i
      BY <1>2, <1>3, <1>6, <1>7, <2>1
    <2>2. CASE m = o
      BY <1>2, <1>3, <1>6, <1>7, <2>2
    <2>3. CASE m \notin {i, o}
      BY <1>6, <1>7, <2>3
    <2> QED BY <2>1, <2>2, <2>3
  <1>9. \A m \in Mints : u[m] \in U64 /\ v[m] \in U64
    BY <1>7, <1>8, Widths DEF U64
  <1>10. u \in Balances /\ v \in Balances
    BY <1>6, <1>9 DEF Balances
  <1> HIDE DEF u, v
  <1> QED BY <1>3, <1>4, <1>6, <1>8, <1>10 DEF Ledgers, d, i, o, spent, paid

-----------------------------------------------------------------------------
(* A route's legs *)

\* The balances of a state that satisfies the invariant fit a leg.
LEMMA LedgerFits ==
  ASSUME IInv
  PROVE  /\ ledger \in Ledgers
         /\ \A m \in Mints : ledger.user[m] + ledger.vault[m] <= U64Max
  BY VaultAssumption DEF IInv, TypeOK, Ledgers, Conserved

\* What executing a route does to the ledger: it stays typed and conserved, a
\* single exact leg spends its amount, and a delta leg leaves at least the
\* balance it names.
LEMMA RouteSettles ==
  ASSUME IInv, ExecuteRoute
  PROVE  /\ Settle(ledger') /\ ledger' \in Ledgers
         /\ \A m \in Mints :
              ledger'.user[m] + ledger'.vault[m] = ledger.user[m] + ledger.vault[m]
         /\ Len(route) = 1 =>
              ledger.user[Input(route[1].dir)] - ledger'.user[Input(route[1].dir)]
                = route[1].amountIn
         /\ Len(route) = 2 => ledger'.user[PROFIT_MINT] >= held
  <1> DEFINE r1 == route[1]
             r2 == route[2]
             l1 == AfterLeg(ledger, r1)
             l2 == AfterLeg(l1, r2)
  <1>1. ExactLeg(r1) /\ Accepts(ledger, r1)
    BY DEF ExecuteRoute, IInv, RouteIsBuilt
  <1>2. r1 \in Instructions /\ r1.amountIn > 0 /\ r1.amountIn \in U64
    BY <1>1 DEF ExactLeg, Instructions
  <1> DEFINE s1 == AmountSpent(r1, ledger.user[Input(r1.dir)])
  <1>3. s1 = r1.amountIn
    BY <1>2 DEF AmountSpent
  <1>4. /\ l1 \in Ledgers
        /\ s1 \in 1 .. ledger.user[Input(r1.dir)]
        /\ OnChainOutput(r1.dir, s1) \in 1 .. ledger.vault[Output(r1.dir)]
        /\ l1.user[Input(r1.dir)] = ledger.user[Input(r1.dir)] - s1
        /\ \A m \in Mints : l1.user[m] + l1.vault[m] = ledger.user[m] + ledger.vault[m]
    BY <1>1, <1>2, LedgerFits, LegMoves
  <1> HIDE DEF r1, l1, s1
  <1>5. CASE Len(route) = 1
    <2>1. Settle(l1)
      BY <1>5 DEF ExecuteRoute, l1, r1
    <2>2. ledger' = l1
      BY <2>1 DEF Settle
    <2>3. ledger.user[Input(r1.dir)] \in Nat /\ s1 \in Nat
      <3>1. Input(r1.dir) \in Mints
        BY <1>2, DirectionsTyped DEF Instructions
      <3>2. ledger.user[Input(r1.dir)] \in Nat
        BY <3>1, LedgerFits, Widths DEF Ledgers, Balances
      <3> QED BY <3>2, <1>4
    <2>4. ledger.user[Input(r1.dir)] - l1.user[Input(r1.dir)] = r1.amountIn
      BY <1>3, <1>4, <2>3
    <2>5. Settle(ledger')
      BY <2>1, <2>2
    <2> QED BY <1>4, <1>5, <2>2, <2>4, <2>5 DEF r1
  <1>6. CASE Len(route) # 1
    <2>1. /\ Len(route) = 2 /\ DeltaLeg(r2, held)
          /\ Accepts(l1, r2) /\ Settle(l2)
      BY <1>6 DEF ExecuteRoute, IInv, RouteIsBuilt, r1, l1
    <2>2. r2 \in Instructions /\ Input(r2.dir) = PROFIT_MINT
          /\ r2.amountIn = 0 /\ r2.preBalance = held
      BY <2>1 DEF DeltaLeg
    <2>3. \A m \in Mints : l1.user[m] + l1.vault[m] <= U64Max
      BY <1>4, LedgerFits
    <2> DEFINE b  == l1.user[PROFIT_MINT]
               s2 == AmountSpent(r2, b)
    <2>4. /\ l2 \in Ledgers /\ s2 \in 1 .. b
          /\ l2.user[PROFIT_MINT] = b - s2
          /\ \A m \in Mints : l2.user[m] + l2.vault[m] = l1.user[m] + l1.vault[m]
      BY <1>4, <2>1, <2>2, <2>3, LegMoves
    <2>5. b \in Nat
      BY <1>4, Widths DEF Ledgers, Balances, Mints
    <2>6. held \in Nat
      BY Widths DEF IInv, TypeOK
    <2>7. (held = 0 /\ s2 = b) \/ s2 = None \/ s2 = b - held
      BY <2>2 DEF AmountSpent
    <2> HIDE DEF b, s2, l2
    <2>8. l2.user[PROFIT_MINT] >= held
      BY <2>4, <2>5, <2>6, <2>7 DEF None
    <2>9. ledger' = l2
      BY <2>1 DEF Settle
    <2>10. \A m \in Mints : l2.user[m] + l2.vault[m] = ledger.user[m] + ledger.vault[m]
      BY <1>4, <2>4
    <2>11. Settle(ledger')
      BY <2>1, <2>9
    <2> QED BY <1>6, <2>4, <2>8, <2>9, <2>10, <2>11
  <1> QED BY <1>5, <1>6

\* Settling a typed, conserving ledger keeps what the invariant says of it.
LEMMA SettleKeeps ==
  ASSUME IInv, Settle(ledger'), ledger' \in Ledgers, cap' = cap,
         \A m \in Mints :
           ledger'.user[m] + ledger'.vault[m] = ledger.user[m] + ledger.vault[m]
  PROVE  /\ Conserved' /\ CapIsCurrent'
         /\ outcome' \in [Directions -> {"none", "ok", "stale", "failed"}]
  <1>1. Conserved'
    BY DEF Conserved, IInv
  <1>2. \A d \in Directions :
          outcome'[d] = IF ledger'.vault[Output(d)] # ledger.vault[Output(d)]
                        THEN "none" ELSE outcome[d]
    BY DEF Settle
  <1>3. CapIsCurrent'
    BY <1>2 DEF CapIsCurrent, IInv
  <1>4. outcome' \in [Directions -> {"none", "ok", "stale", "failed"}]
    BY DEF Settle, IInv, TypeOK
  <1> QED BY <1>1, <1>3, <1>4

-----------------------------------------------------------------------------
(* The inductive invariant *)

\* An update stores a balance of the vault, or only that it failed.
LEMMA UpdateKeeps ==
  ASSUME IInv, NEW d \in Directions, NEW map, Update(d, map),
         UpdateAccepts(d, map) => map.tokens[OutputVault(d)].amount \in U64,
         UNCHANGED <<ledger, route, held>>
  PROVE  /\ cap' \in [Directions -> U64]
         /\ outcome' \in [Directions -> {"none", "ok", "stale", "failed"}]
         /\ CapIsCurrent'
  <1>1. /\ cap \in [Directions -> U64]
        /\ outcome \in [Directions -> {"none", "ok", "stale", "failed"}]
        /\ CapIsCurrent
    BY DEF IInv, TypeOK
  <1>2. CASE UpdateAccepts(d, map)
    <2> DEFINE read == map.tokens[OutputVault(d)].amount
    <2>1. /\ read \in U64 /\ cap' = [cap EXCEPT ![d] = read]
          /\ outcome' = [outcome EXCEPT ![d] =
                           IF read = ledger.vault[Output(d)] THEN "ok" ELSE "stale"]
      BY <1>2 DEF Update
    <2> HIDE DEF read
    <2> QED BY <1>1, <2>1 DEF CapIsCurrent
  <1>3. CASE ~UpdateAccepts(d, map)
    <2>1. cap' = cap /\ outcome' = [outcome EXCEPT ![d] = "failed"]
      BY <1>3 DEF Update
    <2> QED BY <1>1, <2>1 DEF CapIsCurrent
  <1> QED BY <1>2, <1>3

LEMMA InitIInv == Init => IInv
  <1> SUFFICES ASSUME Init PROVE IInv
    OBVIOUS
  <1>1. TypeOK
    BY VaultAssumption, U64MaxAssumption DEF Init, TypeOK, U64
  <1>2. Conserved /\ CapIsCurrent /\ RouteIsBuilt
    BY DEF Init, Conserved, CapIsCurrent, RouteIsBuilt
  <1> QED BY <1>1, <1>2 DEF IInv

LEMMA FromKeyedAccountKeeps ==
  ASSUME IInv, NEW d \in Directions, FromKeyedAccount(d)
  PROVE  IInv'
  <1>1. U64Max \in U64
    BY U64MaxAssumption DEF U64
  <1>2. TypeOK'
    BY <1>1, VaultAssumption DEF FromKeyedAccount, IInv, TypeOK
  <1>3. CapIsCurrent'
    BY DEF FromKeyedAccount, IInv, TypeOK, CapIsCurrent
  <1> QED BY <1>2, <1>3 DEF FromKeyedAccount, IInv, Conserved, RouteIsBuilt

LEMMA RefreshKeeps ==
  ASSUME IInv, NEW d \in Directions, Refresh(d)
  PROVE  IInv'
  <1> DEFINE cell == CurrentMap(d).tokens[OutputVault(d)]
             v    == OutputVault(d)
             m0   == CHOOSE m \in Mints : VaultForMint(m) = v
  <1>1. Output(d) \in Mints /\ v = VaultForMint(Output(d))
    BY DirectionsTyped DEF OutputVault
  <1>2. m0 \in Mints
    BY <1>1
  <1>3. cell = [mint |-> m0, amount |-> ledger.vault[m0]]
    BY <1>1 DEF CurrentMap, GetAccountsToUpdate
  <1>4. cell.amount \in U64
    BY <1>2, <1>3, LedgerFits DEF Ledgers, Balances
  <1>5. Update(d, CurrentMap(d)) /\ UNCHANGED <<ledger, route, held, lapses>>
    BY DEF Refresh
  <1>6. /\ cap' \in [Directions -> U64] /\ CapIsCurrent'
        /\ outcome' \in [Directions -> {"none", "ok", "stale", "failed"}]
    BY <1>4, <1>5, UpdateKeeps
  <1> QED BY <1>5, <1>6 DEF IInv, TypeOK, Conserved, RouteIsBuilt

LEMMA LapsedRefreshKeeps ==
  ASSUME IInv, NEW d \in Directions, LapsedRefresh(d)
  PROVE  IInv'
  <1>1. PICK config \in {Absent, "empty", "config"}, cell \in LapsedCells :
          Update(d, [config |-> config, tokens |-> [v \in {OutputVault(d)} |-> cell]])
    BY DEF LapsedRefresh
  <1> DEFINE map == [config |-> config, tokens |-> [v \in {OutputVault(d)} |-> cell]]
  <1>2. map.tokens[OutputVault(d)] = cell
    OBVIOUS
  <1>3. UpdateAccepts(d, map) => cell \in [mint : Mints, amount : StaleAmounts]
    BY <1>2 DEF UpdateAccepts, LapsedCells
  <1>4. UpdateAccepts(d, map) => map.tokens[OutputVault(d)].amount \in U64
    BY <1>2, <1>3, VaultAssumption
  <1>5. UNCHANGED <<ledger, route, held>> /\ lapses' = lapses + 1 /\ lapses < MaxLapses
    BY DEF LapsedRefresh
  <1>6. Update(d, map)
    BY <1>1
  <1> HIDE DEF map
  <1>7. /\ cap' \in [Directions -> U64] /\ CapIsCurrent'
        /\ outcome' \in [Directions -> {"none", "ok", "stale", "failed"}]
    BY <1>4, <1>5, <1>6, UpdateKeeps
  <1>8. lapses' \in 0 .. MaxLapses
    BY <1>5, VaultAssumption DEF IInv, TypeOK
  <1> QED BY <1>5, <1>7, <1>8 DEF IInv, TypeOK, Conserved, RouteIsBuilt

\* The exact leg of a quote that was answered.
LEMMA QuotedLeg ==
  ASSUME IInv, NEW d \in Directions, NEW amount \in U64,
         Quote(d, Input(d), Output(d), amount) # None
  PROVE  /\ Quote(d, Input(d), Output(d), amount) \in U64
         /\ ExactLeg(EncodeExact(d, amount, Quote(d, Input(d), Output(d), amount)))
  <1> DEFINE out == Quote(d, Input(d), Output(d), amount)
  <1>1. cap[d] \in U64
    BY DEF IInv, TypeOK
  <1>2. amount > 0 /\ out \in U64
    BY <1>1, OutputOfPositive DEF Quote
  <1>3. 0 \in U64
    BY U64MaxAssumption DEF U64
  <1> HIDE DEF out
  <1>4. ExactLeg(EncodeExact(d, amount, out))
    BY <1>2, <1>3 DEF ExactLeg, EncodeExact, Encode, Instructions
  <1> QED BY <1>2, <1>4 DEF out

LEMMA BuildDirectKeeps ==
  ASSUME IInv, NEW d \in Directions, NEW amount \in Amounts, BuildDirect(d, amount)
  PROVE  IInv'
  <1> DEFINE leg == EncodeExact(d, amount, Quote(d, Input(d), Output(d), amount))
  <1>1. ExactLeg(leg)
    BY QuotedLeg, VaultAssumption DEF BuildDirect
  <1>2. route' = <<leg>> /\ UNCHANGED <<ledger, cap, outcome, held, lapses>>
    BY DEF BuildDirect
  <1> HIDE DEF leg
  <1>3. Len(route') = 1 /\ route'[1] = leg /\ route' \in Seq(Instructions)
    BY <1>1, <1>2 DEF ExactLeg
  <1>4. RouteIsBuilt'
    BY <1>1, <1>3 DEF RouteIsBuilt
  <1>5. TypeOK'
    BY <1>2, <1>3 DEF IInv, TypeOK
  <1> QED BY <1>2, <1>4, <1>5 DEF IInv, Conserved, CapIsCurrent

LEMMA BuildThroughProfitKeeps ==
  ASSUME IInv, NEW d1 \in Directions, NEW d2 \in Directions, NEW amount \in Amounts,
         BuildThroughProfit(d1, d2, amount)
  PROVE  IInv'
  <1> DEFINE out1 == Quote(d1, Input(d1), Output(d1), amount)
             out2 == Quote(d2, Input(d2), Output(d2), out1)
             l1   == EncodeExact(d1, amount, out1)
             pre  == ledger.user[PROFIT_MINT]
             l2   == EncodeDelta(d2, out2, pre)
  <1>1. /\ Output(d1) = PROFIT_MINT /\ Input(d2) = PROFIT_MINT
        /\ out1 # None /\ out2 # None
        /\ route' = <<l1, l2>> /\ held' = pre
        /\ UNCHANGED <<ledger, cap, outcome, lapses>>
    BY DEF BuildThroughProfit
  <1>2. ExactLeg(l1) /\ l1.dir = d1 /\ out1 \in U64
    BY <1>1, QuotedLeg, VaultAssumption DEF EncodeExact, Encode
  <1>3. out2 \in U64
    <2> HIDE DEF out1
    <2> QED BY <1>1, <1>2, QuotedLeg
  <1>4. pre \in U64 /\ 0 \in U64
    BY LedgerFits, U64MaxAssumption DEF Ledgers, Balances, Mints, U64
  <1> HIDE DEF out1, out2, pre
  <1>5. DeltaLeg(l2, pre)
    BY <1>1, <1>3, <1>4 DEF DeltaLeg, EncodeDelta, Encode, Instructions
  <1> HIDE DEF l1, l2
  <1>6. /\ Len(route') = 2 /\ route'[1] = l1 /\ route'[2] = l2
        /\ route' \in Seq(Instructions)
    BY <1>1, <1>2, <1>5 DEF ExactLeg, DeltaLeg
  <1>7. RouteIsBuilt'
    BY <1>1, <1>2, <1>5, <1>6 DEF RouteIsBuilt
  <1>8. TypeOK'
    BY <1>1, <1>4, <1>6 DEF IInv, TypeOK
  <1> QED BY <1>1, <1>7, <1>8 DEF IInv, Conserved, CapIsCurrent

LEMMA ExecuteRouteKeeps ==
  ASSUME IInv, ExecuteRoute
  PROVE  IInv'
  <1>1. route' = NoRoute /\ held' = 0 /\ UNCHANGED <<cap, lapses>>
    BY DEF ExecuteRoute
  <1>2. Conserved' /\ CapIsCurrent' /\ ledger' \in Ledgers
        /\ outcome' \in [Directions -> {"none", "ok", "stale", "failed"}]
    BY <1>1, RouteSettles, SettleKeeps
  <1>3. 0 \in U64
    BY U64MaxAssumption DEF U64
  <1> QED BY <1>1, <1>2, <1>3 DEF IInv, TypeOK, RouteIsBuilt, Ledgers

LEMMA OtherConversionKeeps ==
  ASSUME IInv, NEW d \in Directions, NEW amount \in Amounts, OtherConversion(d, amount)
  PROVE  IInv'
  <1> DEFINE leg   == EncodeExact(d, amount, 1)
             after == AfterLeg(ledger, leg)
  <1>1. /\ Converts(ledger, d, amount, 1) /\ Settle(after)
        /\ UNCHANGED <<cap, route, held, lapses>>
    BY DEF OtherConversion
  <1>2. amount > 0 /\ amount \in U64
    BY <1>1, VaultAssumption DEF Converts
  <1>3. 1 \in U64 /\ 0 \in U64
    <2>1. ledger.user[Input(d)] \in Nat /\ ledger.user[Input(d)] <= U64Max
      BY DirectionsTyped, LedgerFits, Widths DEF Ledgers, Balances
    <2> QED BY <1>1, <2>1, Widths DEF Converts, U64
  <1>4. leg \in Instructions
    BY <1>2, <1>3 DEF EncodeExact, Encode, Instructions
  <1>5. Accepts(ledger, leg)
    BY <1>1, <1>2 DEF Accepts, AmountSpent, EncodeExact, Encode
  <1> HIDE DEF leg
  <1>6. /\ after \in Ledgers
        /\ \A m \in Mints : after.user[m] + after.vault[m] = ledger.user[m] + ledger.vault[m]
    BY <1>4, <1>5, LedgerFits, LegMoves
  <1>7. ledger' = after
    BY <1>1 DEF Settle
  <1> HIDE DEF after
  <1>8. /\ Settle(ledger') /\ ledger' \in Ledgers
        /\ \A m \in Mints :
             ledger'.user[m] + ledger'.vault[m] = ledger.user[m] + ledger.vault[m]
    BY <1>1, <1>6, <1>7
  <1>9. Conserved' /\ CapIsCurrent'
        /\ outcome' \in [Directions -> {"none", "ok", "stale", "failed"}]
    BY <1>1, <1>8, SettleKeeps
  <1> QED BY <1>1, <1>8, <1>9 DEF IInv, TypeOK, RouteIsBuilt, Ledgers

LEMMA NextIInv ==
  ASSUME IInv, [Next]_vars
  PROVE  IInv'
  <1>1. CASE DropRoute
    <2>1. 0 \in U64
      BY U64MaxAssumption DEF U64
    <2> QED BY <1>1, <2>1 DEF DropRoute, IInv, TypeOK, Conserved, CapIsCurrent, RouteIsBuilt
  <1>2. CASE UNCHANGED vars
    BY <1>2 DEF vars, IInv, TypeOK, Conserved, CapIsCurrent, RouteIsBuilt
  <1> QED BY <1>1, <1>2, FromKeyedAccountKeeps, RefreshKeeps, LapsedRefreshKeeps,
             BuildDirectKeeps, BuildThroughProfitKeeps, ExecuteRouteKeeps,
             OtherConversionKeeps DEF Next

\* Every reachable state satisfies the invariant the results below rest on.
THEOREM VaultInvariant == Spec => []IInv
  <1>1. Init => IInv
    BY InitIInv
  <1>2. IInv /\ [Next]_vars => IInv'
    BY NextIInv
  <1> QED BY <1>1, <1>2, PTL DEF Spec

-----------------------------------------------------------------------------
(* What follows *)

\* Balances, caps and routes keep their types.
THEOREM VaultTypesHold == Spec => []TypeOK
  <1>1. IInv => TypeOK
    BY DEF IInv
  <1> QED BY <1>1, VaultInvariant, PTL

\* Only executing a route takes it away and moves tokens at once.
LEMMA OnlyExecution ==
  ASSUME [Next]_vars, route # NoRoute, route' = NoRoute, ledger' # ledger
  PROVE  ExecuteRoute
  BY DEF Next, vars, FromKeyedAccount, Refresh, LapsedRefresh, BuildDirect,
         BuildThroughProfit, DropRoute, OtherConversion

\* No delta leg reaches below the balance the user held when it was built.
THEOREM HeldProfitIsSpared == Spec => DeltaSparesSnapshot
  <1>1. IInv /\ [Next]_vars =>
          [route # NoRoute /\ Len(route) = 2 /\ route' = NoRoute /\ ledger' # ledger
             => ledger'.user[PROFIT_MINT] >= held]_vars
    BY OnlyExecution, RouteSettles
  <1> QED BY <1>1, VaultInvariant, PTL DEF Spec, DeltaSparesSnapshot

\* No exact leg is ever read as "convert everything".
THEOREM ExactIsExact == Spec => ExactSpendsExact
  <1>1. IInv /\ [Next]_vars =>
          [\A d \in Directions :
             route # NoRoute /\ Len(route) = 1 /\ route[1].dir = d
               /\ route' = NoRoute /\ ledger' # ledger =>
             ledger.user[Input(d)] - ledger'.user[Input(d)] = route[1].amountIn]_vars
    BY OnlyExecution, RouteSettles
  <1> QED BY <1>1, VaultInvariant, PTL DEF Spec, ExactSpendsExact

\* A one-leg route takes liquidity from the vault of its own output only.
LEMMA DirectTakesItsOutput ==
  ASSUME IInv, ExecuteRoute, Len(route) = 1,
         NEW m \in Mints, ledger'.vault[m] < ledger.vault[m]
  PROVE  route[1].dir \in Directions /\ m = Output(route[1].dir)
  <1> DEFINE ix    == route[1]
             d     == ix.dir
             spent == AmountSpent(ix, ledger.user[Input(d)])
  <1>1. ix \in Instructions /\ Accepts(ledger, ix)
    BY DEF ExecuteRoute, IInv, RouteIsBuilt, ExactLeg
  <1>2. d \in Directions /\ Input(d) \in Mints /\ Output(d) \in Mints /\ Input(d) # Output(d)
    BY <1>1, DirectionsTyped DEF Instructions
  <1>3. /\ ledger' = AfterLeg(ledger, ix)
        /\ spent \in 1 .. ledger.user[Input(d)]
        /\ ledger'.vault[Input(d)] = ledger.vault[Input(d)] + spent
    <2>1. ledger' = AfterLeg(ledger, ix)
      BY DEF ExecuteRoute, Settle
    <2> QED BY <1>1, <2>1, LedgerFits, LegMoves
  <1>4. ledger.vault \in Balances /\ ledger.vault[m] \in Nat /\ ledger.vault[Input(d)] \in Nat
        /\ ledger.user[Input(d)] \in Nat
    BY <1>2, LedgerFits, Widths DEF Ledgers, Balances
  <1>5. \A n \in Mints \ {Input(d), Output(d)} : ledger'.vault[n] = ledger.vault[n]
    BY <1>2, <1>3, <1>4 DEF AfterLeg, Balances
  <1> HIDE DEF spent, d
  <1>6. m # Input(d)
    BY <1>3, <1>4
  <1>7. m = Output(d)
    BY <1>4, <1>5, <1>6
  <1> QED BY <1>2, <1>7 DEF d

\* Of the steps that take a route away, only executing it changes the ledger.
LEMMA RouteEnds ==
  ASSUME [Next]_vars, route # NoRoute, route' = NoRoute
  PROVE  ExecuteRoute \/ ledger' = ledger
  BY DEF Next, vars, FromKeyedAccount, Refresh, LapsedRefresh, BuildDirect,
         BuildThroughProfit, DropRoute, OtherConversion

\* Two directions never compete for a vault account without both declaring it.
THEOREM OverlapsAreDeclared == Spec => OverlapIsDeclared
  <1>1. ASSUME IInv, [Next]_vars, route # NoRoute, Len(route) = 1, route' = NoRoute,
               NEW d \in Directions, ledger'.vault[Output(d)] < ledger.vault[Output(d)]
        PROVE  UnderlyingLiquidities(d) \cap UnderlyingLiquidities(route[1].dir) # {}
    <2>1. Output(d) \in Mints
      BY DirectionsTyped
    <2>2. ledger.vault[Output(d)] \in Nat
      BY <1>1, <2>1, LedgerFits, Widths DEF Ledgers, Balances
    <2>3. ExecuteRoute
      BY <1>1, <2>2, RouteEnds
    <2>4. Output(d) = Output(route[1].dir)
      BY <1>1, <2>1, <2>3, DirectTakesItsOutput
    <2> QED BY <2>4 DEF UnderlyingLiquidities, OutputVault
  <1>2. IInv /\ [Next]_vars =>
          [route # NoRoute /\ Len(route) = 1 /\ route' = NoRoute =>
             \A d \in Directions :
               ledger'.vault[Output(d)] < ledger.vault[Output(d)] =>
                 UnderlyingLiquidities(d) \cap UnderlyingLiquidities(route[1].dir) # {}]_vars
    BY <1>1
  <1> QED BY <1>2, VaultInvariant, PTL DEF Spec, OverlapIsDeclared

\* What the adapter computes for a direction and what the program pays agree
\* wherever the program pays at all: the width is no limit below the liquidity.
LEMMA OutputsAgree ==
  ASSUME NEW d \in Directions, NEW amount \in U64, NEW liquidity \in U64
  PROVE  LET out == ComputeVaultOutput(Input(d), Output(d), amount)
             pays == amount > 0 /\ OnChainOutput(d, amount) \in 1 .. liquidity
         IN  IF pays THEN out = OnChainOutput(d, amount) /\ out <= liquidity
                     ELSE out = None \/ out > liquidity
  <1>1. amount \in Nat /\ liquidity \in Nat /\ liquidity <= U64Max /\ U64Max \in Nat
    BY Widths
  <1>2. amount \div 100 \in Nat /\ amount * 100 \in Nat
    BY <1>1, Z3
  <1>3. CASE Input(d) \in FactionMints /\ Output(d) = PROFIT_MINT
    <2>1. Input(d) # Output(d)
      BY DirectionsTyped
    <2>2. /\ ComputeVaultOutput(Input(d), Output(d), amount)
               = IF amount = 0 \/ amount \div 100 = 0 THEN None ELSE amount \div 100
          /\ OnChainOutput(d, amount) = amount \div 100
      BY <1>3, <2>1 DEF ComputeVaultOutput, OnChainOutput, CONVERSION_RATE
    <2> DEFINE a == amount \div 100
    <2> HIDE DEF a
    <2>3. a \in Nat
      BY <1>2 DEF a
    <2>4. /\ ComputeVaultOutput(Input(d), Output(d), amount)
               = IF amount = 0 \/ a = 0 THEN None ELSE a
          /\ OnChainOutput(d, amount) = a
      BY <2>2 DEF a
    <2> QED BY <1>1, <2>3, <2>4 DEF None
  <1>4. CASE Input(d) = PROFIT_MINT /\ Output(d) \in FactionMints
    <2>1. Input(d) # Output(d) /\ PROFIT_MINT \notin FactionMints
      BY DirectionsTyped
    <2>2. Output(d) # PROFIT_MINT
      BY <1>4, <2>1
    <2> DEFINE a == amount * 100
    <2>3. /\ ComputeVaultOutput(Input(d), Output(d), amount)
               = IF amount = 0 THEN None ELSE CheckedU64(a)
          /\ OnChainOutput(d, amount) = a
      BY <1>4, <2>1, <2>2 DEF ComputeVaultOutput, OnChainOutput, CONVERSION_RATE
    <2>4. a \in Nat /\ (amount > 0 => a > 0)
      BY <1>1, <1>2
    <2> HIDE DEF a
    <2> QED BY <1>1, <2>3, <2>4 DEF None, CheckedU64
  <1> QED BY <1>3, <1>4, DirectionsTyped

\* A synced instance quotes what a user can convert, and nothing else, for every
\* amount and every state of the vault.
THEOREM SyncedQuotesArePayable == Spec => []SyncedQuoteIsPayable
  <1>1. ASSUME IInv, NEW d \in Directions, outcome[d] = "ok",
               NEW input \in Mints, NEW output \in Mints, NEW amount \in Amounts
        PROVE  LET rich    == [ledger EXCEPT !.user = [m \in Mints |-> U64Max]]
                   payable == <<input, output>> = d /\ Converts(rich, d, amount, 0)
               IN  Quote(d, input, output, amount) =
                     IF payable THEN OnChainOutput(d, amount) ELSE None
    <2> DEFINE rich == [ledger EXCEPT !.user = [m \in Mints |-> U64Max]]
               liquidity == ledger.vault[Output(d)]
               pays == amount > 0 /\ OnChainOutput(d, amount) \in 1 .. liquidity
               out  == ComputeVaultOutput(Input(d), Output(d), amount)
    <2>1. /\ Input(d) \in Mints /\ Output(d) \in Mints /\ amount \in U64
          /\ amount \in Nat /\ amount <= U64Max
      BY DirectionsTyped, VaultAssumption, Widths
    <2>2. liquidity \in U64 /\ cap[d] = liquidity
      BY <1>1, <2>1, LedgerFits DEF IInv, CapIsCurrent, Ledgers, Balances
    <2>3. rich.user[Input(d)] = U64Max /\ rich.vault = ledger.vault
      BY <1>1, <2>1, LedgerFits DEF Ledgers
    <2> HIDE DEF rich
    <2>4. Converts(rich, d, amount, 0) <=> pays
      BY <2>1, <2>2, <2>3, Widths DEF Converts
    <2>5. IF pays THEN out = OnChainOutput(d, amount) /\ out <= liquidity
                  ELSE out = None \/ out > liquidity
      BY <2>1, <2>2, OutputsAgree
    <2>6. pays => out \in Int /\ out # None
      <3>1. liquidity \in Nat
        BY <2>2, Widths
      <3> DEFINE x == OnChainOutput(d, amount)
      <3> HIDE DEF x, out, liquidity
      <3>2. pays => x \in 1 .. liquidity /\ out = x
        BY <2>5 DEF x
      <3> HIDE DEF pays
      <3> QED BY <3>1, <3>2 DEF None
    <2>7. Quote(d, input, output, amount)
            = IF <<input, output>> # d \/ out = None \/ out > liquidity THEN None ELSE out
      BY <2>2 DEF Quote, QuoteConversion
    <2> HIDE DEF out, liquidity
    <2>8. pays => ~(out > liquidity)
      <3>1. liquidity \in Int
        BY <2>2, Widths
      <3> QED BY <2>5, <2>6, <3>1
    <2> HIDE DEF pays
    <2>9. Quote(d, input, output, amount)
            = IF <<input, output>> = d /\ pays THEN OnChainOutput(d, amount) ELSE None
      BY <2>5, <2>6, <2>7, <2>8
    <2> QED BY <2>4, <2>9 DEF rich
  <1>2. IInv => SyncedQuoteIsPayable
    BY <1>1 DEF SyncedQuoteIsPayable
  <1> QED BY <1>2, VaultInvariant, PTL
=============================================================================
