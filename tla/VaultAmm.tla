------------------------------ MODULE VaultAmm -------------------------------
(***************************************************************************)
(* The four one-way conversion instances of src/src/vault_amm.rs over the  *)
(* three token accounts of the conversion vault, the routes an engine      *)
(* builds from their quotes (src/src/instruction.rs) and their atomic      *)
(* execution on chain.                                                     *)
(*                                                                         *)
(* CRIME -> PROFIT and FRAUD -> PROFIT draw on the same vault account, and *)
(* between the quote of a route and its execution other conversions change *)
(* the vault and the user's own balances.                                  *)
(***************************************************************************)
EXTENDS VaultConvert, Sequences

CONSTANTS
  InitUser, InitVault,   \* opening balances, functions from mint to u64
  Amounts,               \* amounts quotes are asked for
  StaleAmounts,          \* vault balances a lapsed fetch may still report
  MaxLapses,             \* bound on lapsed fetches and on reconstructions
  Absent, Malformed, NoRoute

VARIABLES
  ledger,    \* [user, vault]: token balances on chain, by mint
  cap,       \* output_vault_balance of the instance of every direction
  outcome,   \* history: what update() last did since the output vault changed
  route,     \* the instructions of a built, not yet executed route
  held,      \* history: the user's PROFIT when a route through it was built
  lapses

vars == <<ledger, cap, outcome, route, held, lapses>>

Balances == [Mints -> U64]

ASSUME VaultAssumption ==
  /\ InitUser \in Balances /\ InitVault \in Balances
  /\ \A m \in Mints : InitUser[m] + InitVault[m] <= U64Max
  /\ Amounts \subseteq U64 /\ StaleAmounts \subseteq U64
  /\ MaxLapses \in Nat

-----------------------------------------------------------------------------
(* The instances *)

\* Plausible bugs: the input side's account is refreshed, or declared.
AccountsOfInput(d) == {"config", VaultForMint(Input(d))}
LiquidityOfInput(d) == {VaultForMint(Input(d))}

GetAccountsToUpdate(d) == {"config", OutputVault(d)}

UnderlyingLiquidities(d) == {OutputVault(d)}

\* A plausible bug: the last unit of the vault is never quoted.
QuoteBelowCap(d, input, output, amount) ==
  LET out == ComputeVaultOutput(Input(d), Output(d), amount)
  IN  IF <<input, output>> # d \/ out = None \/ out >= cap[d] THEN None ELSE out

Quote(d, input, output, amount) == QuoteConversion(d, cap[d], input, output, amount)

\* An account map: the config account's cell and the token account cells, keyed
\* by address.  update() fails on a missing or empty config, then on a missing
\* or unparsable token account, then on one of another mint.
UpdateAccepts(d, map) ==
  /\ map.config \notin {Absent, "empty"}
  /\ map.tokens[OutputVault(d)] \notin {Absent, Malformed}
  /\ map.tokens[OutputVault(d)].mint = Output(d)

-----------------------------------------------------------------------------
(* Actions *)

Init ==
  /\ ledger = [user |-> InitUser, vault |-> InitVault]
  /\ cap = [d \in Directions |-> U64Max]
  /\ outcome = [d \in Directions |-> "none"]
  /\ route = NoRoute /\ held = 0
  /\ lapses = 0

\* Rebuilding an instance, from params or its known key, uncaps it.
FromKeyedAccount(d) ==
  /\ lapses < MaxLapses
  /\ cap' = [cap EXCEPT ![d] = U64Max]
  /\ outcome' = [outcome EXCEPT ![d] = "none"]
  /\ lapses' = lapses + 1
  /\ UNCHANGED <<ledger, route, held>>

Update(d, map) ==
  \/ /\ UpdateAccepts(d, map)
     /\ LET read == map.tokens[OutputVault(d)].amount IN
        /\ cap' = [cap EXCEPT ![d] = read]
        /\ outcome' = [outcome EXCEPT ![d] =
                         IF read = ledger.vault[Output(d)] THEN "ok" ELSE "stale"]
  \/ /\ ~UpdateAccepts(d, map)
     /\ outcome' = [outcome EXCEPT ![d] = "failed"]
     /\ UNCHANGED cap

\* The accounts the instance declared, as they are on chain.
CurrentMap(d) ==
  [config |-> IF "config" \in GetAccountsToUpdate(d) THEN "config" ELSE Absent,
   tokens |-> [v \in {VaultForMint(m) : m \in Mints} |->
                 IF v \in GetAccountsToUpdate(d)
                 THEN LET m == CHOOSE m \in Mints : VaultForMint(m) = v
                      IN  [mint |-> m, amount |-> ledger.vault[m]]
                 ELSE Absent]]

Refresh(d) ==
  /\ Update(d, CurrentMap(d))
  /\ UNCHANGED <<ledger, route, held, lapses>>

LapsedCells == {Absent, Malformed} \cup [mint : Mints, amount : StaleAmounts]

LapsedRefresh(d) ==
  /\ lapses < MaxLapses
  /\ \E config \in {Absent, "empty", "config"}, cell \in LapsedCells :
       Update(d, [config |-> config, tokens |-> [v \in {OutputVault(d)} |-> cell]])
  /\ lapses' = lapses + 1
  /\ UNCHANGED <<ledger, route, held>>

\* The engine builds a one-leg route from a quote.
BuildDirect(d, amount) ==
  LET out == Quote(d, Input(d), Output(d), amount) IN
  /\ route = NoRoute
  /\ out # None
  /\ route' = <<EncodeExact(d, amount, out)>>
  /\ UNCHANGED <<ledger, cap, outcome, held, lapses>>

\* CRIME <-> FRAUD goes through PROFIT: the second leg spends what the first
\* one deposits, told apart from the user's own by the pre-route balance.
BuildThroughProfit(d1, d2, amount) ==
  LET out1 == Quote(d1, Input(d1), Output(d1), amount)
      out2 == Quote(d2, Input(d2), Output(d2), out1)
  IN  /\ route = NoRoute
      /\ Output(d1) = PROFIT_MINT /\ Input(d2) = PROFIT_MINT
      /\ Input(d1) # Output(d2)
      /\ out1 # None /\ out2 # None
      /\ route' = <<EncodeExact(d1, amount, out1),
                    EncodeDelta(d2, out2, ledger.user[PROFIT_MINT])>>
      /\ held' = ledger.user[PROFIT_MINT]
      /\ UNCHANGED <<ledger, cap, outcome, lapses>>

\* A transaction's legs run in order and commit together.
Settle(after) ==
  /\ ledger' = after
  /\ outcome' = [d \in Directions |->
                   IF after.vault[Output(d)] # ledger.vault[Output(d)]
                   THEN "none" ELSE outcome[d]]

ExecuteRoute ==
  /\ route # NoRoute
  /\ Accepts(ledger, route[1])
  /\ LET l1 == AfterLeg(ledger, route[1]) IN
     IF Len(route) = 1
     THEN Settle(l1)
     ELSE Accepts(l1, route[2]) /\ Settle(AfterLeg(l1, route[2]))
  /\ route' = NoRoute /\ held' = 0
  /\ UNCHANGED <<cap, lapses>>

\* A failed transaction, or one that was never sent.
DropRoute ==
  /\ route # NoRoute
  /\ route' = NoRoute /\ held' = 0
  /\ UNCHANGED <<ledger, cap, outcome, lapses>>

\* The same wallet converts outside the route.
OtherConversion(d, amount) ==
  /\ Converts(ledger, d, amount, 1)
  /\ Settle(AfterLeg(ledger, EncodeExact(d, amount, 1)))
  /\ UNCHANGED <<cap, route, held, lapses>>

Next ==
  \/ \E d \in Directions : FromKeyedAccount(d)
  \/ \E d \in Directions : Refresh(d)
  \/ \E d \in Directions : LapsedRefresh(d)
  \/ \E d \in Directions, a \in Amounts : BuildDirect(d, a)
  \/ \E d1, d2 \in Directions, a \in Amounts : BuildThroughProfit(d1, d2, a)
  \/ ExecuteRoute
  \/ DropRoute
  \/ \E d \in Directions, a \in Amounts : OtherConversion(d, a)

Spec == Init /\ [][Next]_vars

\* The engine keeps refreshing its instances.
FairSpec == Spec /\ \A d \in Directions : WF_vars(Refresh(d))

-----------------------------------------------------------------------------
(* Properties *)

Instructions == [dir : Directions, amountIn : U64,
                 minimumOutput : U64, preBalance : U64]

\* Balances and caps are u64; a route has one leg or two.
TypeOK ==
  /\ ledger \in [user : Balances, vault : Balances]
  /\ cap \in [Directions -> U64]
  /\ outcome \in [Directions -> {"none", "ok", "stale", "failed"}]
  /\ route = NoRoute \/ (route \in Seq(Instructions) /\ Len(route) \in 1 .. 2)
  /\ held \in U64
  /\ lapses \in 0 .. MaxLapses

\* While an instance's last refresh is still what the chain holds, it quotes an
\* amount exactly when a user who has it could convert it, and quotes what the
\* program pays: no dust, zero, overflow or uncovered amount is quoted, and
\* nothing payable is refused, for its own direction and no other pair.
SyncedQuoteIsPayable ==
  \A d \in Directions : outcome[d] = "ok" =>
    \A input, output \in Mints, amount \in Amounts :
      LET rich    == [ledger EXCEPT !.user = [m \in Mints |-> U64Max]]
          payable == <<input, output>> = d /\ Converts(rich, d, amount, 0)
      IN  Quote(d, input, output, amount) =
            IF payable THEN OnChainOutput(d, amount) ELSE None

\* A one-leg route spends exactly the amount it was quoted for: amount_in = 0,
\* which the program reads as "convert everything", is never built.
ExactSpendsExact ==
  [][\A d \in Directions :
       route # NoRoute /\ Len(route) = 1 /\ route[1].dir = d
         /\ route' = NoRoute /\ ledger' # ledger =>
       ledger.user[Input(d)] - ledger'.user[Input(d)] = route[1].amountIn
    ]_vars

\* Executing a route through PROFIT leaves the user at least the PROFIT held
\* when the route was built, whatever was converted in between.
DeltaSparesSnapshot ==
  [][route # NoRoute /\ Len(route) = 2 /\ route' = NoRoute /\ ledger' # ledger
       => ledger'.user[PROFIT_MINT] >= held]_vars

\* Whenever a conversion of one direction takes liquidity another direction's
\* quotes count on, the two declare a common underlying account, so an engine
\* that splits a trade over both can see the overlap.
OverlapIsDeclared ==
  [][route # NoRoute /\ Len(route) = 1 /\ route' = NoRoute =>
       \A d \in Directions :
         ledger'.vault[Output(d)] < ledger.vault[Output(d)] =>
           UnderlyingLiquidities(d) \cap UnderlyingLiquidities(route[1].dir) # {}]_vars

\* If the vault's balances settle, every instance's cap settles on them.
CapsCatchUp ==
  <>[][ledger' = ledger]_vars =>
    <>[](\A d \in Directions : cap[d] = ledger.vault[Output(d)])

\* vault_amm.rs:12-13: "update() tracks the output-side vault balance so quotes
\* never exceed the liquidity actually available".  Read as narrowly as it can
\* be: update() has been called and the vault has not changed since, so neither
\* an early nor a late quote is blamed.  It does not hold: an update() that
\* fails keeps the old cap, U64Max to begin with, and the instance serves on.
QuotesWithinLiquidity ==
  \A d \in Directions, amount \in Amounts :
    outcome[d] = "failed" =>
      Quote(d, Input(d), Output(d), amount) <= ledger.vault[Output(d)]
=============================================================================
