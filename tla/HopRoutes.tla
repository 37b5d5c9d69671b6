------------------------------ MODULE HopRoutes ------------------------------
(***************************************************************************)
(* Atomic routes over several instances: the two pools and the conversion  *)
(* vault composed by an engine that quotes every hop from one snapshot and *)
(* builds all the instructions before the first of them runs.              *)
(*                                                                         *)
(* A pool leg always spends the amount it was built for                    *)
(* (TaxSwapLane::encode); a vault leg behind another leg spends what that  *)
(* leg deposited, whatever it was (VaultConvertV2::encode_delta).  Between *)
(* build and execution the pools, the taxes, the vault and the user's own  *)
(* balances move.  Legs that a vault leg follows pass 0 as their minimum   *)
(* (src/README.md:129-131), the last one carries the slippage bound, and   *)
(* one that feeds a pool leg must yield what that leg will spend.          *)
(***************************************************************************)
EXTENDS TaxedSwap, VaultConvert, Sequences

CONSTANTS
  InitPools,      \* [quote, faction] reserves of the pool of every faction mint
  InitVault, InitUser,
  LpFeeBps,
  Taxes,          \* the [buy, sell] taxes by faction mint, epoch by epoch
  Paths,          \* sequences of mints the engine routes along
  Amounts, Slippages,
  OtherAmounts,   \* amounts of the trades in between
  MaxMoves,       \* bound on those and on executed routes
  NoRoute

VARIABLES
  market,     \* [pools, tax, vault] on chain
  user,       \* the user's balances
  snapshot,   \* the market the instances were last refreshed from
  route,      \* a route that is built and has not run
  moves

vars == <<market, user, snapshot, route, moves>>

Held == Mints \cup {NATIVE_MINT}

\* What an instance converts or trades: the directions of the vault, and either
\* way of a pool.
Hops == Directions \cup ({NATIVE_MINT} \X FactionMints) \cup (FactionMints \X {NATIVE_MINT})

\* The engine routes hop by hop and through no mint twice.
IsPath(p) ==
  /\ Len(p) >= 2
  /\ \A i \in 1 .. Len(p) - 1 : <<p[i], p[i + 1]>> \in Hops
  /\ \A i, j \in 1 .. Len(p) : p[i] = p[j] => i = j

\* The part of a mint's supply the accounts of a ledger hold.
InPlay(l, m) ==
  l.user[m] + (IF m \in Mints THEN l.vault[m] ELSE 0)
    + (IF m \in FactionMints THEN l.pools[m].faction
       ELSE IF m = NATIVE_MINT THEN l.pools[CRIME_MINT].quote + l.pools[FRAUD_MINT].quote
       ELSE 0)

\* A mint's supply is a u64, and so is whatever part of it is in play.
WithinSupply(l) == \A m \in Held : InPlay(l, m) <= U64Max

ASSUME HopAssumption ==
  /\ InitPools \in [FactionMints -> [quote : U64 \ {0}, faction : U64 \ {0}]]
  /\ InitVault \in [Mints -> U64] /\ InitUser \in [Held -> U64]
  /\ WithinSupply([pools |-> InitPools, vault |-> InitVault, user |-> InitUser])
  /\ LpFeeBps \in 0 .. BPS_DENOM
  /\ Taxes \subseteq [FactionMints -> [buy : 0 .. BPS_DENOM, sell : 0 .. BPS_DENOM]]
  /\ Paths \subseteq Seq(Held) /\ \A p \in Paths : IsPath(p)
  /\ (Amounts \cup Slippages \cup OtherAmounts) \subseteq U64 /\ MaxMoves \in Nat

-----------------------------------------------------------------------------
(* Quoting and building *)

IsConversion(a, b) == <<a, b>> \in Directions

\* The faction mint and the side of a pool leg.
PoolOf(a, b) == IF a = NATIVE_MINT THEN b ELSE a
SideOf(a)    == IF a = NATIVE_MINT THEN "buy" ELSE "sell"

PoolQuote(s, a, b, amount) ==
  LET f == PoolOf(a, b)
      r == s.pools[f]
      q == IF SideOf(a) = "buy"
           THEN QuoteBuy(r.quote, r.faction, LpFeeBps, s.tax[f].buy, amount)
           ELSE QuoteSell(r.quote, r.faction, LpFeeBps, s.tax[f].sell, amount)
  IN  IF q.ok /\ q.out > 0 THEN q.out ELSE None

HopQuote(s, a, b, amount) ==
  IF amount = None THEN None
  ELSE IF IsConversion(a, b) THEN QuoteConversion(<<a, b>>, s.vault[b], a, b, amount)
  ELSE PoolQuote(s, a, b, amount)

\* The amounts at every mint of a path, each hop quoted from the same snapshot.
AmountsAlong(s, path, amount) ==
  LET at[i \in 1 .. Len(path)] ==
        IF i = 1 THEN amount ELSE HopQuote(s, path[i - 1], path[i], at[i - 1])
  IN  at

MinimumOf(path, i, at, slippage) ==
  IF i + 1 = Len(path) THEN SaturatingSub(at[i + 1], slippage)
  ELSE IF IsConversion(path[i + 1], path[i + 2]) THEN 0 ELSE at[i + 1]

\* The legs of a path, built for a user with these balances: i is the hop from
\* its i-th mint to the next.
Legs(path, at, slippage, balances) ==
  [i \in 1 .. Len(path) - 1 |->
     LET a == path[i] b == path[i + 1] min == MinimumOf(path, i, at, slippage) IN
     IF ~IsConversion(a, b)
     THEN [hop |-> <<a, b>>, amountIn |-> at[i], minimumOutput |-> min]
     ELSE IF i = 1 THEN EncodeExact(<<a, b>>, at[1], min)
     ELSE EncodeDelta(<<a, b>>, min, balances[a])]

-----------------------------------------------------------------------------
(* Execution: a ledger is [pools, vault, user] *)

Ledger == [pools |-> market.pools, vault |-> market.vault, user |-> user]

PoolLeg(l, leg) ==
  LET a == leg.hop[1]
      f == PoolOf(a, leg.hop[2])
      s == SettledSwap(l.pools[f], LpFeeBps, market.tax[f], SideOf(a), leg.amountIn)
  IN  [ok |-> /\ leg.amountIn <= l.user[a]
              /\ s.eff > 0 /\ s.paid > 0 /\ s.paid >= leg.minimumOutput,
       ledger |-> [l EXCEPT
         !.pools[f] = ReservesAfter(@, SideOf(a), leg.amountIn, s),
         !.user[a] = @ - leg.amountIn,
         !.user[leg.hop[2]] = @ + s.paid]]

VaultLeg(l, ix) ==
  LET after == AfterLeg(l, ix)
  IN  [ok |-> Accepts(l, ix),
       ledger |-> [l EXCEPT !.user = after.user, !.vault = after.vault]]

\* The ledger after the legs, or what the first refused one leaves not ok.
Run(l, legs) ==
  LET after[i \in 0 .. Len(legs)] ==
        IF i = 0 THEN [ok |-> TRUE, ledger |-> l]
        ELSE IF ~after[i - 1].ok THEN after[i - 1]
        ELSE IF "hop" \in DOMAIN legs[i] THEN PoolLeg(after[i - 1].ledger, legs[i])
        ELSE VaultLeg(after[i - 1].ledger, legs[i])
  IN  after[Len(legs)]

Settle(l) ==
  /\ market' = [market EXCEPT !.pools = l.pools, !.vault = l.vault]
  /\ user' = l.user

-----------------------------------------------------------------------------
(* Actions *)

Init ==
  /\ \E tax \in Taxes :
       market = [pools |-> InitPools, tax |-> tax, vault |-> InitVault]
  /\ user = InitUser
  /\ snapshot = market
  /\ route = NoRoute
  /\ moves = 0

\* Every instance on the path is refreshed.
Refresh ==
  /\ snapshot' = market
  /\ UNCHANGED <<market, user, route, moves>>

BuildRoute(path, amount, slippage) ==
  LET at == AmountsAlong(snapshot, path, amount) IN
  /\ route = NoRoute
  /\ amount <= user[path[1]]
  /\ at[Len(path)] # None
  /\ route' = [path |-> path, legs |-> Legs(path, at, slippage, user),
               amount |-> amount, quoted |-> at[Len(path)],
               basis |-> snapshot, start |-> user]
  /\ UNCHANGED <<market, user, snapshot, moves>>

ExecuteRoute ==
  /\ route # NoRoute /\ moves < MaxMoves
  /\ LET end == Run(Ledger, route.legs) IN end.ok /\ Settle(end.ledger)
  /\ route' = NoRoute
  /\ moves' = moves + 1
  /\ UNCHANGED snapshot

DropRoute ==
  /\ route # NoRoute
  /\ route' = NoRoute
  /\ UNCHANGED <<market, user, snapshot, moves>>

EpochRolls ==
  /\ \E tax \in Taxes \ {market.tax} : market' = [market EXCEPT !.tax = tax]
  /\ UNCHANGED <<user, snapshot, route, moves>>

\* Somebody else trades with a pool, with tokens out of the rest of the supply.
OtherSwap(f, side, amount) ==
  LET s   == SettledSwap(market.pools[f], LpFeeBps, market.tax[f], side, amount)
      end == [Ledger EXCEPT !.pools[f] = ReservesAfter(@, side, amount, s)]
  IN
  /\ moves < MaxMoves
  /\ s.eff > 0 /\ s.paid > 0
  /\ WithinSupply(end)
  /\ market' = [market EXCEPT !.pools = end.pools]
  /\ moves' = moves + 1
  /\ UNCHANGED <<user, snapshot, route>>

\* The user converts outside the route.
OwnConversion(d, amount) ==
  LET end == VaultLeg(Ledger, EncodeExact(d, amount, 1)) IN
  /\ moves < MaxMoves
  /\ end.ok /\ Settle(end.ledger)
  /\ moves' = moves + 1
  /\ UNCHANGED <<snapshot, route>>

Next ==
  \/ Refresh
  \/ \E path \in Paths, amount \in Amounts, s \in Slippages : BuildRoute(path, amount, s)
  \/ ExecuteRoute
  \/ DropRoute
  \/ EpochRolls
  \/ \E f \in FactionMints, side \in {"buy", "sell"}, amount \in OtherAmounts :
       OtherSwap(f, side, amount)
  \/ \E d \in Directions, amount \in OtherAmounts : OwnConversion(d, amount)

Spec == Init /\ [][Next]_vars

-----------------------------------------------------------------------------
(* Properties *)

Markets == [pools : [FactionMints -> [quote : U64 \ {0}, faction : U64 \ {0}]],
            tax : Taxes, vault : [Mints -> U64]]

\* Balances stay u64 and no pool is ever drained.
TypeOK ==
  /\ market \in Markets /\ snapshot \in Markets
  /\ user \in [Held -> U64]
  /\ route # NoRoute => route.basis \in Markets /\ route.quoted \in U64
  /\ moves \in 0 .. MaxMoves

\* The mints between the ends of a route, and those a vault leg spends.
Intermediate(r) == {r.path[i] : i \in 2 .. Len(r.path) - 1}
Converted(r)    == {r.path[i] : i \in {i \in 2 .. Len(r.path) - 1 :
                                         IsConversion(r.path[i], r.path[i + 1])}}

\* A route in an unmoved market, for a user whose balances have not moved
\* either, is accepted leg by leg and pays at its end what its quotes composed
\* to, whichever pools and conversions it runs through.
UnmovedRoutePaysQuote ==
  route # NoRoute /\ route.basis = market /\ route.start = user =>
    LET end  == Run(Ledger, route.legs)
        last == route.path[Len(route.path)]
    IN  end.ok /\ end.ledger.user[last] = user[last] + route.quoted

Executes == route # NoRoute /\ route' = NoRoute /\ user' # user

\* A route spends exactly its amount of its first mint and leaves the user as
\* much of every mint in between as was held when it was built, or as much as is
\* left of it by then, however the hops before paid.
HeldTokensSpared ==
  [][Executes =>
       /\ user'[route.path[1]] = user[route.path[1]] - route.amount
       /\ \A m \in Intermediate(route) :
            user'[m] >= user[m] \/ user'[m] >= route.start[m]]_vars

\* Nothing a hop pays into a conversion is left behind: what the pool pays beyond
\* its quote is converted as well.
NothingLeftBehind ==
  [][Executes =>
       \A m \in Converted(route) :
         user'[m] <= user[m] \/ user'[m] <= route.start[m]]_vars
=============================================================================
