------------------------------ MODULE HopProofs ------------------------------
(***************************************************************************)
(* Proofs about HopRoutes, for any reserves, taxes, balances and amounts   *)
(* and for paths of any length.  The legs of a route are followed one by   *)
(* one: what a leg moves is stated once for both programs, and what the    *)
(* first k legs have done is shown for every k by induction along the      *)
(* path.                                                                   *)
(***************************************************************************)
EXTENDS HopRoutes, AmmMathProofs, WellFoundedInduction

LivePair == [quote : U64 \ {0}, faction : U64 \ {0}]

Ledgers == [pools : [FactionMints -> LivePair], vault : [Mints -> U64],
            user : [Held -> U64]]

(* Induction along a path *)

\* A set of numbers that holds 0 and, below n, every successor, holds all up to n.
LEMMA UpTo ==
  ASSUME NEW n \in Nat, NEW S, 0 \in S, \A k \in 0 .. n - 1 : k \in S => k + 1 \in S
  PROVE  \A k \in 0 .. n : k \in S
  <1> DEFINE T == {k \in 0 .. n : k \notin S}
  <1> SUFFICES ASSUME T # {} PROVE FALSE
    OBVIOUS
  <1>1. T \subseteq Nat
    OBVIOUS
  <1>2. PICK x \in T : \A y \in T : ~(<<y, x>> \in OpToRel(<, Nat))
    <2> HIDE DEF T
    <2> QED BY <1>1, NatLessThanWellFounded, WFMin
  <1>3. x \in Nat /\ x # 0 /\ x - 1 \in 0 .. n - 1
    OBVIOUS
  <1>4. x - 1 \in T
    BY <1>3
  <1>5. <<x - 1, x>> \in OpToRel(<, Nat)
    BY <1>3 DEF OpToRel
  <1> QED BY <1>2, <1>4, <1>5

(* Mints and hops *)

LEMMA Widths == U64Max \in Nat /\ U64 = 0 .. U64Max /\ U64 \subseteq Nat /\ 0 \in U64
  BY U64MaxAssumption DEF U64

LEMMA ParametersTyped ==
  LpFeeBps \in Rate /\ Taxes \subseteq [FactionMints -> TaxPair]
  BY HopAssumption DEF Rate, TaxPair

\* A hop joins two different mints: two of the vault's, or the native one and
\* that of a pool.
LEMMA HopKinds ==
  ASSUME NEW a, NEW b, <<a, b>> \in Hops
  PROVE  /\ a \in Held /\ b \in Held /\ a # b
         /\ IsConversion(a, b) => a \in Mints /\ b \in Mints
         /\ ~IsConversion(a, b) =>
              \/ a = NATIVE_MINT /\ b \in FactionMints
              \/ a \in FactionMints /\ b = NATIVE_MINT
  BY DEF Hops, IsConversion, Directions, Held, Mints, FactionMints, CRIME_MINT, FRAUD_MINT,
         PROFIT_MINT, NATIVE_MINT

LEMMA MintsApart ==
  /\ FactionMints \subseteq Mints /\ Mints \subseteq Held
  /\ NATIVE_MINT \in Held \ Mints /\ PROFIT_MINT \in Mints \ FactionMints
  /\ Mints = FactionMints \cup {PROFIT_MINT} /\ Held = Mints \cup {NATIVE_MINT}
  /\ FactionMints = {CRIME_MINT, FRAUD_MINT} /\ CRIME_MINT # FRAUD_MINT
  BY DEF Held, Mints, FactionMints, CRIME_MINT, FRAUD_MINT, PROFIT_MINT, NATIVE_MINT

\* The parts of a ledger.
LEMMA LedgerTyped ==
  ASSUME NEW l \in Ledgers
  PROVE  /\ l.pools \in [FactionMints -> LivePair]
         /\ l.vault \in [Mints -> U64] /\ l.user \in [Held -> U64]
         /\ \A m \in Held : l.user[m] \in U64 /\ l.user[m] \in Nat
         /\ \A m \in Mints : l.vault[m] \in U64 /\ l.vault[m] \in Nat
         /\ \A f \in FactionMints :
              /\ l.pools[f] \in LivePair /\ l.pools[f] \in ReservePair
              /\ l.pools[f].quote \in Nat /\ l.pools[f].faction \in Nat
              /\ l.pools[f].quote > 0 /\ l.pools[f].faction > 0
  BY Widths DEF Ledgers, LivePair, ReservePair

\* What is in play of the four mints.
LEMMA InPlayOf ==
  ASSUME NEW l, l.pools \in [FactionMints -> [quote : Nat, faction : Nat]],
         l.vault \in [Mints -> Nat], l.user \in [Held -> Nat]
  PROVE  /\ \A f \in FactionMints :
              InPlay(l, f) = l.user[f] + l.vault[f] + l.pools[f].faction
         /\ InPlay(l, PROFIT_MINT) = l.user[PROFIT_MINT] + l.vault[PROFIT_MINT]
         /\ InPlay(l, NATIVE_MINT)
              = l.user[NATIVE_MINT]
                  + (l.pools[CRIME_MINT].quote + l.pools[FRAUD_MINT].quote)
         /\ \A m \in Held : InPlay(l, m) \in Nat
  <1>1. /\ \A f \in FactionMints :
              /\ l.user[f] \in Nat /\ l.vault[f] \in Nat
              /\ l.pools[f].faction \in Nat /\ l.pools[f].quote \in Nat
        /\ l.user[PROFIT_MINT] \in Nat /\ l.vault[PROFIT_MINT] \in Nat
        /\ l.user[NATIVE_MINT] \in Nat
    BY MintsApart
  <1>2. \A f \in FactionMints : /\ InPlay(l, f) = l.user[f] + l.vault[f] + l.pools[f].faction
                               /\ InPlay(l, f) \in Nat
    BY <1>1, MintsApart DEF InPlay
  <1>3. /\ InPlay(l, PROFIT_MINT) = l.user[PROFIT_MINT] + l.vault[PROFIT_MINT]
        /\ InPlay(l, PROFIT_MINT) \in Nat
    <2>1. InPlay(l, PROFIT_MINT) = l.user[PROFIT_MINT] + l.vault[PROFIT_MINT] + 0
      BY MintsApart DEF InPlay
    <2> QED BY <1>1, <2>1
  <1>4. /\ InPlay(l, NATIVE_MINT)
             = l.user[NATIVE_MINT] + (l.pools[CRIME_MINT].quote + l.pools[FRAUD_MINT].quote)
        /\ InPlay(l, NATIVE_MINT) \in Nat
    <2>1. InPlay(l, NATIVE_MINT)
            = l.user[NATIVE_MINT] + 0
                + (l.pools[CRIME_MINT].quote + l.pools[FRAUD_MINT].quote)
      BY MintsApart DEF InPlay
    <2> QED BY <1>1, <2>1, MintsApart
  <1> QED BY <1>2, <1>3, <1>4, MintsApart

\* What is in play within u64 keeps every balance a u64.
LEMMA SupplyFits ==
  ASSUME NEW l, l = [pools |-> l.pools, vault |-> l.vault, user |-> l.user],
         l.pools \in [FactionMints -> [quote : Nat \ {0}, faction : Nat \ {0}]],
         l.vault \in [Mints -> Nat], l.user \in [Held -> Nat], WithinSupply(l)
  PROVE  l \in Ledgers
  <1> DEFINE pools == l.pools
             vault == l.vault
             balances == l.user
  <1>1. \A m \in Held : InPlay(l, m) <= U64Max
    BY DEF WithinSupply
  <1>2. /\ l = [pools |-> pools, vault |-> vault, user |-> balances]
        /\ l.pools = pools /\ l.vault = vault /\ l.user = balances
        /\ pools \in [FactionMints -> [quote : Nat \ {0}, faction : Nat \ {0}]]
        /\ pools \in [FactionMints -> [quote : Nat, faction : Nat]]
        /\ vault \in [Mints -> Nat] /\ balances \in [Held -> Nat]
    OBVIOUS
  <1> HIDE DEF pools, vault, balances
  <1>3. ASSUME NEW f \in FactionMints
        PROVE  /\ pools[f].faction \in U64 \ {0}
               /\ balances[f] \in U64 /\ vault[f] \in U64
    <2>1. InPlay(l, f) = balances[f] + vault[f] + pools[f].faction
      BY <1>2, InPlayOf
    <2>2. balances[f] \in Nat /\ vault[f] \in Nat /\ pools[f].faction \in Nat \ {0}
      BY <1>2, MintsApart
    <2>3. balances[f] + vault[f] + pools[f].faction <= U64Max
      BY <1>1, <2>1, MintsApart
    <2> QED BY <2>2, <2>3, Widths
  <1>4. balances[PROFIT_MINT] \in U64 /\ vault[PROFIT_MINT] \in U64
    <2>1. balances[PROFIT_MINT] \in Nat /\ vault[PROFIT_MINT] \in Nat /\ PROFIT_MINT \in Held
      BY <1>2, MintsApart
    <2> QED BY <1>1, <1>2, <2>1, InPlayOf, Widths
  <1>5. /\ balances[NATIVE_MINT] \in U64
        /\ \A f \in FactionMints : pools[f].quote \in U64 \ {0}
    <2>1. /\ balances[NATIVE_MINT] \in Nat /\ NATIVE_MINT \in Held
          /\ pools[CRIME_MINT].quote \in Nat \ {0} /\ pools[FRAUD_MINT].quote \in Nat \ {0}
      BY <1>2, MintsApart
    <2>2. balances[NATIVE_MINT] + (pools[CRIME_MINT].quote + pools[FRAUD_MINT].quote)
            <= U64Max
      BY <1>1, <1>2, <2>1, InPlayOf
    <2>3. /\ balances[NATIVE_MINT] \in U64
          /\ pools[CRIME_MINT].quote \in U64 \ {0} /\ pools[FRAUD_MINT].quote \in U64 \ {0}
      BY <2>1, <2>2, Widths
    <2> QED BY <2>3, MintsApart
  <1>6. pools \in [FactionMints -> LivePair]
    <2>1. \A f \in FactionMints :
            pools[f] = [quote |-> pools[f].quote, faction |-> pools[f].faction]
      BY <1>2
    <2> QED BY <1>2, <1>3, <1>5, <2>1 DEF LivePair
  <1>7. vault \in [Mints -> U64] /\ balances \in [Held -> U64]
    BY <1>2, <1>3, <1>4, <1>5, MintsApart
  <1> QED BY <1>2, <1>6, <1>7 DEF Ledgers

(* One leg *)

\* From ledger l to k, a leg from a to b takes spent and pays paid, touches no
\* other balance, no vault account but those of a and b and no pool but that of a
\* and b, and brings nothing into play.
Moves(l, k, a, b, spent, paid) ==
  /\ k \in Ledgers
  /\ spent \in 1 .. l.user[a] /\ paid \in Nat \ {0}
  /\ k.user[a] = l.user[a] - spent /\ k.user[b] = l.user[b] + paid
  /\ \A m \in Held \ {a, b} : k.user[m] = l.user[m]
  /\ \A m \in Mints \ {a, b} : k.vault[m] = l.vault[m]
  /\ \A f \in FactionMints : {a, b} # {f, NATIVE_MINT} => k.pools[f] = l.pools[f]
  /\ \A m \in Held : InPlay(k, m) <= InPlay(l, m)

\* The ledger after a trade that leaves the reserves r in the pool of f.
Traded(l, f, r, a, b, x, paid) ==
  [l EXCEPT !.pools[f] = r, !.user[a] = @ - x, !.user[b] = @ + paid]

\* A trade with a pool moves nothing else, if what it leaves in the pool and with
\* the user is no more than both had of either token.
LEMMA TradeMoves ==
  ASSUME NEW l \in Ledgers, WithinSupply(l), NEW f \in FactionMints, NEW a, NEW b,
         a # b, (a = f /\ b = NATIVE_MINT) \/ (a = NATIVE_MINT /\ b = f),
         NEW x \in 1 .. l.user[a], NEW paid \in Nat \ {0},
         NEW r \in [quote : Nat \ {0}, faction : Nat \ {0}],
         a = f => /\ r.faction = l.pools[f].faction + x
                  /\ r.quote + paid <= l.pools[f].quote,
         b = f => /\ r.faction + paid = l.pools[f].faction
                  /\ r.quote <= l.pools[f].quote + x
  PROVE  Moves(l, Traded(l, f, r, a, b, x, paid), a, b, x, paid)
  <1> DEFINE k == Traded(l, f, r, a, b, x, paid)
             P == [l.pools EXCEPT ![f] = r]
             U == [l.user EXCEPT ![a] = @ - x, ![b] = @ + paid]
  <1>1. /\ l.pools \in [FactionMints -> LivePair] /\ l.vault \in [Mints -> U64]
        /\ l.user \in [Held -> U64]
        /\ a \in Held /\ b \in Held /\ f \in Held
        /\ \A m \in Held : l.user[m] \in Nat
        /\ \A m \in Mints : l.vault[m] \in Nat
        /\ \A m \in FactionMints : l.pools[m].quote \in Nat /\ l.pools[m].faction \in Nat
    BY LedgerTyped, MintsApart
  <1>2. k = [pools |-> P, vault |-> l.vault, user |-> U]
    <2>1. PICK p \in [FactionMints -> LivePair], v \in [Mints -> U64], u \in [Held -> U64] :
            l = [pools |-> p, vault |-> v, user |-> u]
      BY DEF Ledgers
    <2>2. l.pools = p /\ l.vault = v /\ l.user = u
      BY <2>1
    <2>3. k = [[l EXCEPT !.pools = P] EXCEPT !.user = U]
      BY <2>1, <2>2 DEF Traded
    <2> QED BY <2>1, <2>2, <2>3
  <1> HIDE DEF k
  <1>3. /\ k.pools = P /\ k.vault = l.vault /\ k.user = U
    BY <1>2
  <1>4. /\ U \in [Held -> Nat] /\ U[a] = l.user[a] - x /\ U[b] = l.user[b] + paid
        /\ \A m \in Held \ {a, b} : U[m] = l.user[m]
    BY <1>1
  <1>5. P[f] = r /\ \A m \in FactionMints \ {f} : P[m] = l.pools[m]
    BY <1>1
  <1>6. P \in [FactionMints -> [quote : Nat \ {0}, faction : Nat \ {0}]]
    <2>1. LivePair \subseteq [quote : Nat \ {0}, faction : Nat \ {0}]
      BY Widths DEF LivePair
    <2> QED BY <1>1, <2>1
  <1> HIDE DEF P, U
  <1>7. /\ k.pools \in [FactionMints -> [quote : Nat, faction : Nat]]
        /\ l.pools \in [FactionMints -> [quote : Nat, faction : Nat]]
        /\ k.vault \in [Mints -> Nat] /\ l.vault \in [Mints -> Nat]
        /\ k.user \in [Held -> Nat] /\ l.user \in [Held -> Nat]
    <2>1. LivePair \subseteq [quote : Nat, faction : Nat]
      BY Widths DEF LivePair
    <2> QED BY <1>1, <1>3, <1>4, <1>6, <2>1
  <1>8. ASSUME NEW m \in FactionMints PROVE InPlay(k, m) <= InPlay(l, m)
    <2>1. /\ InPlay(k, m) = U[m] + l.vault[m] + P[m].faction
          /\ InPlay(l, m) = l.user[m] + l.vault[m] + l.pools[m].faction
      BY <1>3, <1>7, InPlayOf
    <2>2. /\ m \in Held /\ m \in Mints /\ U[m] \in Nat /\ P[m].faction \in Nat
          /\ l.user[m] \in Nat /\ l.vault[m] \in Nat /\ l.pools[m].faction \in Nat
      BY <1>1, <1>4, <1>6, MintsApart
    <2>3. U[m] + P[m].faction <= l.user[m] + l.pools[m].faction
      <3>1. CASE m = f /\ a = f
        BY <1>4, <1>5, <2>2, <3>1
      <3>2. CASE m = f /\ b = f
        BY <1>4, <1>5, <2>2, <3>2
      <3>3. CASE m # f
        <4>1. m \notin {a, b}
          BY <3>3, MintsApart
        <4>2. U[m] = l.user[m] /\ P[m] = l.pools[m]
          BY <1>4, <1>5, <2>2, <3>3, <4>1
        <4> QED BY <2>2, <4>2
      <3> QED BY <3>1, <3>2, <3>3
    <2> QED BY <2>1, <2>2, <2>3
  <1>9. InPlay(k, PROFIT_MINT) <= InPlay(l, PROFIT_MINT)
    <2>1. U[PROFIT_MINT] = l.user[PROFIT_MINT]
      <3>1. PROFIT_MINT \in Held \ {a, b}
        BY MintsApart
      <3> QED BY <1>4, <3>1
    <2>2. /\ InPlay(k, PROFIT_MINT) = InPlay(l, PROFIT_MINT)
          /\ InPlay(l, PROFIT_MINT) \in Nat
      BY <1>3, <1>7, <2>1, MintsApart, InPlayOf
    <2> QED BY <2>2
  <1>10. InPlay(k, NATIVE_MINT) <= InPlay(l, NATIVE_MINT)
    <2>1. /\ InPlay(k, NATIVE_MINT)
               = U[NATIVE_MINT] + (P[CRIME_MINT].quote + P[FRAUD_MINT].quote)
          /\ InPlay(l, NATIVE_MINT)
               = l.user[NATIVE_MINT]
                   + (l.pools[CRIME_MINT].quote + l.pools[FRAUD_MINT].quote)
      BY <1>3, <1>7, InPlayOf
    <2>2. U[NATIVE_MINT] + r.quote <= l.user[NATIVE_MINT] + l.pools[f].quote
      BY <1>1, <1>4
    <2>3. /\ U[NATIVE_MINT] \in Nat /\ r.quote \in Nat /\ l.user[NATIVE_MINT] \in Nat
          /\ l.pools[f].quote \in Nat
      BY <1>1, <1>4, MintsApart
    <2> DEFINE g == IF f = CRIME_MINT THEN FRAUD_MINT ELSE CRIME_MINT
    <2>4. /\ g \in FactionMints /\ f # g
          /\ (f = CRIME_MINT /\ g = FRAUD_MINT) \/ (f = FRAUD_MINT /\ g = CRIME_MINT)
      <3>1. f = CRIME_MINT \/ f = FRAUD_MINT
        BY MintsApart
      <3> QED BY <3>1, MintsApart
    <2> HIDE DEF g
    <2>5. P[f].quote = r.quote /\ P[g].quote = l.pools[g].quote /\ l.pools[g].quote \in Nat
      BY <1>1, <1>5, <2>4, MintsApart
    <2>6. CASE f = CRIME_MINT /\ g = FRAUD_MINT
      BY <2>1, <2>2, <2>3, <2>5, <2>6
    <2>7. CASE f = FRAUD_MINT /\ g = CRIME_MINT
      BY <2>1, <2>2, <2>3, <2>5, <2>7
    <2> QED BY <2>4, <2>6, <2>7
  <1>11. \A m \in Held : InPlay(k, m) <= InPlay(l, m)
    BY <1>8, <1>9, <1>10, MintsApart
  <1>12. WithinSupply(k)
    <2>1. \A m \in Held : InPlay(k, m) \in Nat /\ InPlay(l, m) \in Nat
      BY <1>7, InPlayOf
    <2> QED BY <1>11, <2>1, Widths DEF WithinSupply
  <1>13. k \in Ledgers
    <2>1. k = [pools |-> k.pools, vault |-> k.vault, user |-> k.user]
      BY <1>2, <1>3
    <2>2. k.pools \in [FactionMints -> [quote : Nat \ {0}, faction : Nat \ {0}]]
      BY <1>3, <1>6
    <2> QED BY <1>7, <1>12, <2>1, <2>2, SupplyFits
  <1>14. \A m \in FactionMints : {a, b} # {m, NATIVE_MINT} => k.pools[m] = l.pools[m]
    BY <1>3, <1>5
  <1> QED BY <1>3, <1>4, <1>11, <1>13, <1>14 DEF Moves, k

\* The settlement of a pool leg.
PoolSettles(l, a, b, x) ==
  SettledSwap(l.pools[PoolOf(a, b)], LpFeeBps, market.tax[PoolOf(a, b)], SideOf(a), x)

\* An accepted pool leg takes what it was built for and pays at least its minimum.
LEMMA PoolLegMoves ==
  ASSUME market \in Markets, NEW l \in Ledgers, WithinSupply(l),
         NEW a, NEW b, <<a, b>> \in Hops, ~IsConversion(a, b),
         NEW x \in U64, NEW minimum,
         NEW leg, leg = [hop |-> <<a, b>>, amountIn |-> x, minimumOutput |-> minimum],
         PoolLeg(l, leg).ok
  PROVE  /\ Moves(l, PoolLeg(l, leg).ledger, a, b, x, PoolSettles(l, a, b, x).paid)
         /\ PoolSettles(l, a, b, x).paid >= minimum
  <1> DEFINE f == PoolOf(a, b)
             s == PoolSettles(l, a, b, x)
             p == l.pools[f]
             r == ReservesAfter(p, SideOf(a), x, s)
             k == PoolLeg(l, leg).ledger
  <1>1. leg.hop[1] = a /\ leg.hop[2] = b /\ leg.amountIn = x /\ leg.minimumOutput = minimum
    OBVIOUS
  <1>2. /\ x <= l.user[a] /\ s.eff > 0 /\ s.paid > 0 /\ s.paid >= minimum
        /\ k = Traded(l, f, r, a, b, x, s.paid)
    <2>1. PoolLeg(l, leg)
            = [ok |-> /\ x <= l.user[a] /\ s.eff > 0 /\ s.paid > 0 /\ s.paid >= minimum,
               ledger |-> Traded(l, f, r, a, b, x, s.paid)]
      BY <1>1 DEF PoolLeg, PoolSettles, Traded
    <2> HIDE DEF s, r
    <2> QED BY <2>1
  <1>3. /\ f \in FactionMints /\ a # b
        /\ (a = f /\ b = NATIVE_MINT) \/ (a = NATIVE_MINT /\ b = f)
        /\ SideOf(a) = IF a = NATIVE_MINT THEN "buy" ELSE "sell"
    BY HopKinds, MintsApart DEF PoolOf, SideOf
  <1> HIDE DEF f, k
  <1>4. /\ p \in ReservePair /\ p.quote \in Nat /\ p.faction \in Nat
        /\ p.quote > 0 /\ p.faction > 0
        /\ l.user[a] \in Nat /\ x \in Nat
    BY <1>3, LedgerTyped, HopKinds, Widths
  <1>5. market.tax[f] \in TaxPair /\ LpFeeBps \in Rate
    BY <1>3, ParametersTyped DEF Markets
  <1>6. CASE a = NATIVE_MINT
    <2>1. SideOf(a) = "buy" /\ b = f /\ a # f
      BY <1>3, <1>6
    <2>2. s = SettledSwap(p, LpFeeBps, market.tax[f], "buy", x)
      BY <2>1 DEF PoolSettles, f
    <2>3. /\ s.taxed \in 0 .. x /\ s.eff \in 0 .. x - s.taxed /\ s.paid \in 0 .. p.faction - 1
      BY <1>4, <1>5, <2>2, BuySettles
    <2>4. r = [quote |-> p.quote + x - s.taxed, faction |-> p.faction - s.paid]
      BY <2>1 DEF ReservesAfter
    <2> HIDE DEF s, p, r
    <2>5. /\ r \in [quote : Nat \ {0}, faction : Nat \ {0}]
          /\ r.faction + s.paid = p.faction /\ r.quote <= p.quote + x
          /\ x \in 1 .. l.user[a] /\ s.paid \in Nat \ {0}
      BY <1>2, <1>4, <2>3, <2>4
    <2>6. Moves(l, k, a, b, x, s.paid)
      BY <1>2, <1>3, <2>1, <2>5, TradeMoves DEF p
    <2> QED BY <1>2, <2>6 DEF s, k
  <1>7. CASE a # NATIVE_MINT
    <2>1. SideOf(a) = "sell" /\ a = f /\ b # f
      BY <1>3, <1>7
    <2>2. s = SettledSwap(p, LpFeeBps, market.tax[f], "sell", x)
      BY <2>1 DEF PoolSettles, f
    <2>3. /\ s.eff \in 0 .. x /\ s.taxed \in Nat /\ s.paid \in Nat
          /\ s.paid + s.taxed < p.quote
      BY <1>4, <1>5, <2>2, SellSettles
    <2>4. r = [quote |-> p.quote - s.paid - s.taxed, faction |-> p.faction + x]
      BY <2>1 DEF ReservesAfter
    <2> HIDE DEF s, p, r
    <2>5. /\ r \in [quote : Nat \ {0}, faction : Nat \ {0}]
          /\ r.faction = p.faction + x /\ r.quote + s.paid <= p.quote
          /\ x \in 1 .. l.user[a] /\ s.paid \in Nat \ {0}
      BY <1>2, <1>4, <2>3, <2>4
    <2>6. Moves(l, k, a, b, x, s.paid)
      BY <1>2, <1>3, <2>1, <2>5, TradeMoves DEF p
    <2> QED BY <1>2, <2>6 DEF s, k
  <1> QED BY <1>6, <1>7

\* An accepted vault leg takes what the program's mode makes of the balance and
\* pays at least its minimum.
LEMMA VaultLegMoves ==
  ASSUME NEW l \in Ledgers, WithinSupply(l), NEW a, NEW b, IsConversion(a, b),
         NEW ix, ix.dir = <<a, b>>, VaultLeg(l, ix).ok
  PROVE  LET spent == AmountSpent(ix, l.user[a])
             paid  == OnChainOutput(<<a, b>>, spent)
         IN  /\ Moves(l, VaultLeg(l, ix).ledger, a, b, spent, paid)
             /\ paid >= ix.minimumOutput
  <1> DEFINE spent == AmountSpent(ix, l.user[a])
             paid  == OnChainOutput(<<a, b>>, spent)
             k == VaultLeg(l, ix).ledger
             U == [l.user EXCEPT ![a] = @ - spent, ![b] = @ + paid]
             V == [l.vault EXCEPT ![a] = @ + spent, ![b] = @ - paid]
  <1>1. Input(ix.dir) = a /\ Output(ix.dir) = b /\ a \in Mints /\ b \in Mints /\ a # b
    BY HopKinds DEF IsConversion, Hops, Input, Output
  <1>2. spent \in 1 .. l.user[a] /\ paid \in 1 .. l.vault[b] /\ paid >= ix.minimumOutput
    BY <1>1 DEF VaultLeg, Accepts, Converts
  <1>3. k.pools = l.pools /\ k.vault = V /\ k.user = U
        /\ k = [pools |-> k.pools, vault |-> k.vault, user |-> k.user]
    <2>1. AfterLeg(l, ix) = [user |-> U, vault |-> V]
      BY <1>1 DEF AfterLeg
    <2>2. k = [l EXCEPT !.user = U, !.vault = V]
      BY <2>1 DEF VaultLeg
    <2> HIDE DEF k, U, V
    <2> QED BY <2>2 DEF Ledgers
  <1> HIDE DEF spent, paid, k
  <1>4. /\ l.pools \in [FactionMints -> LivePair] /\ l.vault \in [Mints -> U64]
        /\ l.user \in [Held -> U64] /\ a \in Held /\ b \in Held
        /\ \A m \in Held : l.user[m] \in Nat
        /\ \A m \in Mints : l.vault[m] \in Nat
        /\ \A m \in FactionMints : l.pools[m].faction \in Nat
    BY <1>1, LedgerTyped, MintsApart
  <1>5. spent \in Nat \ {0} /\ paid \in Nat \ {0}
        /\ spent <= l.user[a] /\ paid <= l.vault[b]
    BY <1>1, <1>2, <1>4
  <1>6. /\ U \in [Held -> Nat] /\ U[a] = l.user[a] - spent /\ U[b] = l.user[b] + paid
        /\ \A m \in Held \ {a, b} : U[m] = l.user[m]
    BY <1>1, <1>4, <1>5
  <1>7. /\ V \in [Mints -> Nat] /\ V[a] = l.vault[a] + spent /\ V[b] = l.vault[b] - paid
        /\ \A m \in Mints \ {a, b} : V[m] = l.vault[m]
    BY <1>1, <1>4, <1>5
  <1> HIDE DEF U, V
  <1>8. /\ l.pools \in [FactionMints -> [quote : Nat \ {0}, faction : Nat \ {0}]]
        /\ l.pools \in [FactionMints -> [quote : Nat, faction : Nat]]
        /\ l.vault \in [Mints -> Nat] /\ l.user \in [Held -> Nat]
    <2>1. LivePair \subseteq [quote : Nat \ {0}, faction : Nat \ {0}]
      BY Widths DEF LivePair
    <2>2. [quote : Nat \ {0}, faction : Nat \ {0}] \subseteq [quote : Nat, faction : Nat]
      OBVIOUS
    <2> QED BY <1>4, <2>1, <2>2
  <1>9. \A m \in Mints : U[m] + V[m] = l.user[m] + l.vault[m]
    <2>1. \A m \in Mints : m \in Held
      BY MintsApart
    <2> QED BY <1>1, <1>4, <1>5, <1>6, <1>7, <2>1
  <1>10. \A m \in Held : InPlay(k, m) = InPlay(l, m) /\ InPlay(l, m) \in Nat
    <2>1. ASSUME NEW m \in FactionMints PROVE InPlay(k, m) = InPlay(l, m)
      <3>1. /\ InPlay(k, m) = U[m] + V[m] + l.pools[m].faction
            /\ InPlay(l, m) = l.user[m] + l.vault[m] + l.pools[m].faction
        BY <1>3, <1>6, <1>7, <1>8, InPlayOf
      <3>2. m \in Mints
        BY MintsApart
      <3> QED BY <1>9, <3>1, <3>2
    <2>2. InPlay(k, PROFIT_MINT) = InPlay(l, PROFIT_MINT)
      <3>1. /\ InPlay(k, PROFIT_MINT) = U[PROFIT_MINT] + V[PROFIT_MINT]
            /\ InPlay(l, PROFIT_MINT) = l.user[PROFIT_MINT] + l.vault[PROFIT_MINT]
        BY <1>3, <1>6, <1>7, <1>8, InPlayOf
      <3>2. PROFIT_MINT \in Mints
        BY MintsApart
      <3> QED BY <1>9, <3>1, <3>2
    <2>3. InPlay(k, NATIVE_MINT) = InPlay(l, NATIVE_MINT)
      <3>1. NATIVE_MINT \in Held \ {a, b}
        BY <1>1, MintsApart
      <3> QED BY <1>3, <1>6, <1>7, <1>8, <3>1, InPlayOf
    <2> QED BY <2>1, <2>2, <2>3, <1>8, MintsApart, InPlayOf
  <1>11. WithinSupply(k)
    BY <1>10 DEF WithinSupply
  <1>12. k \in Ledgers
    BY <1>3, <1>6, <1>7, <1>8, <1>11, SupplyFits
  <1>13. \A m \in Held : InPlay(k, m) <= InPlay(l, m)
    BY <1>10
  <1>14. Moves(l, k, a, b, spent, paid)
    BY <1>2, <1>3, <1>5, <1>6, <1>7, <1>12, <1>13 DEF Moves
  <1> QED BY <1>2, <1>14 DEF spent, paid, k

(* Quotes of one hop *)

\* A conversion that is quoted pays the quote, and the vault had it.
LEMMA ConversionQuoteIsPaid ==
  ASSUME NEW a, NEW b, IsConversion(a, b), NEW liquidity \in U64, NEW x \in U64,
         NEW q, q = QuoteConversion(<<a, b>>, liquidity, a, b, x), q # None
  PROVE  x > 0 /\ q = OnChainOutput(<<a, b>>, x) /\ q \in 1 .. liquidity
  <1> DEFINE out == ComputeVaultOutput(a, b, x)
  <1>1. q = out /\ out # None /\ ~(out > liquidity)
    BY DEF QuoteConversion, Input, Output
  <1>2. x \in Nat /\ liquidity \in Nat /\ liquidity <= U64Max
    BY Widths
  <1>3. x # 0
    BY <1>1 DEF ComputeVaultOutput
  <1>4. CASE a \in FactionMints /\ b = PROFIT_MINT
    <2> DEFINE y == x \div 100
    <2>1. a # b /\ Output(<<a, b>>) = PROFIT_MINT
      BY <1>4, MintsApart DEF Output
    <2>2. y \in Nat
      BY <1>2, Z3
    <2>3. out = IF y = 0 THEN None ELSE y
      BY <1>3, <1>4, <2>1 DEF ComputeVaultOutput, CONVERSION_RATE
    <2>4. OnChainOutput(<<a, b>>, x) = y
      BY <2>1 DEF OnChainOutput
    <2> HIDE DEF y, out
    <2> QED BY <1>1, <1>2, <1>3, <2>2, <2>3, <2>4 DEF None
  <1>5. CASE a = PROFIT_MINT /\ b \in FactionMints
    <2> DEFINE y == x * 100
    <2>1. a # b /\ Output(<<a, b>>) # PROFIT_MINT /\ a \notin FactionMints
      BY <1>5, MintsApart DEF Output
    <2>2. y \in Nat /\ (x > 0 => y > 0)
      BY <1>2
    <2>3. out = CheckedU64(y)
      BY <1>3, <1>5, <2>1 DEF ComputeVaultOutput, CONVERSION_RATE
    <2>4. OnChainOutput(<<a, b>>, x) = y
      BY <2>1 DEF OnChainOutput
    <2> HIDE DEF y, out
    <2> QED BY <1>1, <1>2, <1>3, <2>2, <2>3, <2>4 DEF None, CheckedU64
  <1> QED BY <1>4, <1>5 DEF IsConversion, Directions

\* A trade that is quoted pays the quote on the reserves and taxes it was quoted on.
LEMMA PoolQuoteIsPaid ==
  ASSUME NEW s \in Markets, NEW a, NEW b, <<a, b>> \in Hops, ~IsConversion(a, b),
         NEW x \in U64, NEW q, q = PoolQuote(s, a, b, x), q # None
  PROVE  LET f == PoolOf(a, b)
             e == SettledSwap(s.pools[f], LpFeeBps, s.tax[f], SideOf(a), x)
         IN  x > 0 /\ e.eff > 0 /\ e.paid = q /\ q \in 1 .. U64Max
  <1> DEFINE f == PoolOf(a, b)
             p == s.pools[f]
             t == s.tax[f]
             e == SettledSwap(p, LpFeeBps, t, SideOf(a), x)
  <1>1. f \in FactionMints
    BY HopKinds, MintsApart DEF PoolOf
  <1>2. /\ p \in ReservePair /\ p.quote > 0 /\ p.faction > 0
        /\ p.quote \in 0 .. U64Max /\ p.faction \in 0 .. U64Max
        /\ t \in TaxPair /\ LpFeeBps \in Rate /\ x \in Nat /\ U64Max \in Nat
    BY <1>1, ParametersTyped, Widths DEF Markets, ReservePair
  <1>3. CASE a = NATIVE_MINT
    <2> DEFINE z == QuoteBuy(p.quote, p.faction, LpFeeBps, t.buy, x)
    <2>1. SideOf(a) = "buy"
      BY <1>3 DEF SideOf
    <2>2. q = z.out /\ z.ok /\ z.out > 0
      <3>1. q = IF z.ok /\ z.out > 0 THEN z.out ELSE None
        BY <2>1 DEF PoolQuote
      <3> HIDE DEF z
      <3> QED BY <3>1
    <2>3. e = SettledSwap(p, LpFeeBps, t, "buy", x)
      BY <2>1
    <2>4. /\ e.taxed \in 0 .. x /\ e.eff \in 0 .. x - e.taxed
          /\ e.paid \in 0 .. p.faction - 1
      BY <1>2, <2>3, BuySettles
    <2>5. z.out = e.paid /\ e.eff > 0
      <3> HIDE DEF p, t, e
      <3> QED BY <1>2, <2>2, <2>3, BuyQuoteIsPaid
    <2> HIDE DEF z, e, p, t
    <2>6. x > 0 /\ e.eff > 0 /\ e.paid = q /\ q \in 1 .. U64Max
      BY <1>2, <2>2, <2>4, <2>5
    <2> QED BY <2>6 DEF e, p, t
  <1>4. CASE a # NATIVE_MINT
    <2> DEFINE z == QuoteSell(p.quote, p.faction, LpFeeBps, t.sell, x)
    <2>1. SideOf(a) = "sell"
      BY <1>4 DEF SideOf
    <2>2. q = z.out /\ z.ok /\ z.out > 0
      <3>1. q = IF z.ok /\ z.out > 0 THEN z.out ELSE None
        BY <2>1 DEF PoolQuote
      <3> HIDE DEF z
      <3> QED BY <3>1
    <2>3. e = SettledSwap(p, LpFeeBps, t, "sell", x)
      BY <2>1
    <2>4. /\ e.eff \in 0 .. x /\ e.taxed \in Nat /\ e.paid \in Nat
          /\ e.paid + e.taxed < p.quote
      BY <1>2, <2>3, SellSettles
    <2>5. z.out = e.paid /\ e.eff > 0
      <3> HIDE DEF p, t, e
      <3> QED BY <1>2, <2>2, <2>3, SellQuoteIsPaid
    <2> HIDE DEF z, e, p, t
    <2>6. x > 0 /\ e.eff > 0 /\ e.paid = q /\ q \in 1 .. U64Max
      BY <1>2, <2>2, <2>4, <2>5
    <2> QED BY <2>6 DEF e, p, t
  <1> QED BY <1>3, <1>4

\* A hop is quoted for nothing but a u64 amount above zero, and then with one.
LEMMA HopQuoteIsSome ==
  ASSUME NEW s \in Markets, NEW a, NEW b, <<a, b>> \in Hops, NEW x \in U64 \cup {None},
         HopQuote(s, a, b, x) # None
  PROVE  x \in 1 .. U64Max /\ HopQuote(s, a, b, x) \in 1 .. U64Max
  <1>1. x \in U64 /\ x # None
    BY DEF HopQuote
  <1>2. CASE IsConversion(a, b)
    <2>1. HopQuote(s, a, b, x) = QuoteConversion(<<a, b>>, s.vault[b], a, b, x)
      BY <1>1, <1>2 DEF HopQuote
    <2>2. s.vault[b] \in U64
      BY <1>2, HopKinds DEF Markets
    <2>3. x > 0 /\ HopQuote(s, a, b, x) \in 1 .. s.vault[b]
      BY <1>1, <1>2, <2>1, <2>2, ConversionQuoteIsPaid
    <2> QED BY <1>1, <2>2, <2>3, Widths
  <1>3. CASE ~IsConversion(a, b)
    <2>1. HopQuote(s, a, b, x) = PoolQuote(s, a, b, x)
      BY <1>1, <1>3 DEF HopQuote
    <2>2. x > 0 /\ HopQuote(s, a, b, x) \in 1 .. U64Max
      BY <1>1, <1>3, <2>1, PoolQuoteIsPaid
    <2> QED BY <1>1, <2>2, Widths
  <1> QED BY <1>2, <1>3

(* The recursive functions of the model *)

\* AmountsAlong and Run are the functions that satisfy these equations on the
\* whole of a path and of its legs; n is how far along they are defined.
IsAlong(f, s, path, amount, n) ==
  f = [i \in 1 .. n |->
         IF i = 1 THEN amount ELSE HopQuote(s, path[i - 1], path[i], f[i - 1])]

OneLeg(l, leg) ==
  IF "hop" \in DOMAIN leg THEN PoolLeg(l, leg) ELSE VaultLeg(l, leg)

AfterOne(e, leg) == IF ~e.ok THEN e ELSE OneLeg(e.ledger, leg)

IsRun(f, l, legs, n) ==
  f = [i \in 0 .. n |-> IF i = 0 THEN [ok |-> TRUE, ledger |-> l]
                        ELSE AfterOne(f[i - 1], legs[i])]

LEMMA AmountsUnfold ==
  ASSUME NEW s, NEW path, NEW amount, Len(path) \in Nat
  PROVE  IsAlong(AmountsAlong(s, path, amount), s, path, amount, Len(path))
  <1> DEFINE n == Len(path)
             S == {k \in 0 .. n : \E f : IsAlong(f, s, path, amount, k)}
  <1>1. 0 \in S
    <2>1. IsAlong([i \in 1 .. 0 |-> 0], s, path, amount, 0)
      BY DEF IsAlong
    <2> QED BY <2>1
  <1>2. ASSUME NEW k \in 0 .. n - 1, k \in S PROVE k + 1 \in S
    <2>1. PICK f : IsAlong(f, s, path, amount, k)
      BY <1>2
    <2> DEFINE e == IF k = 0 THEN amount ELSE HopQuote(s, path[k], path[k + 1], f[k])
               g == [i \in 1 .. k + 1 |-> IF i <= k THEN f[i] ELSE e]
    <2>2. ASSUME NEW i \in 1 .. k + 1
          PROVE  g[i] = IF i = 1 THEN amount ELSE HopQuote(s, path[i - 1], path[i], g[i - 1])
      <3>1. CASE i <= k
        <4>1. f[i] = IF i = 1 THEN amount ELSE HopQuote(s, path[i - 1], path[i], f[i - 1])
          BY <2>1, <3>1 DEF IsAlong
        <4>2. g[i] = f[i] /\ (i # 1 => g[i - 1] = f[i - 1])
          BY <3>1
        <4> HIDE DEF g, e
        <4> QED BY <4>1, <4>2
      <3>2. CASE i = k + 1
        <4>1. g[i] = e /\ (k # 0 => g[k] = f[k]) /\ i - 1 = k
          BY <3>2
        <4> HIDE DEF g
        <4> QED BY <3>2, <4>1
      <3> QED BY <3>1, <3>2
    <2>3. IsAlong(g, s, path, amount, k + 1)
      <3>1. g = [i \in 1 .. k + 1 |-> g[i]]
        OBVIOUS
      <3> HIDE DEF g
      <3> QED BY <2>2, <3>1 DEF IsAlong
    <2> HIDE DEF g
    <2> QED BY <2>3
  <1> HIDE DEF S
  <1>3. n \in S
    <2>1. n \in Nat
      OBVIOUS
    <2> HIDE DEF n
    <2>2. \A k \in 0 .. n : k \in S
      BY <1>1, <1>2, <2>1, UpTo
    <2> QED BY <2>1, <2>2
  <1>4. \E f : IsAlong(f, s, path, amount, n)
    BY <1>3 DEF S
  <1>5. AmountsAlong(s, path, amount) = CHOOSE f : IsAlong(f, s, path, amount, n)
    BY DEF AmountsAlong, IsAlong
  <1> QED BY <1>4, <1>5

LEMMA RunUnfolds ==
  ASSUME NEW l, NEW legs, Len(legs) \in Nat
  PROVE  \E f : IsRun(f, l, legs, Len(legs)) /\ Run(l, legs) = f[Len(legs)]
  <1> DEFINE n == Len(legs)
             S == {k \in 0 .. n : \E f : IsRun(f, l, legs, k)}
             start == [ok |-> TRUE, ledger |-> l]
  <1>1. 0 \in S
    <2>1. IsRun([i \in 0 .. 0 |-> start], l, legs, 0)
      BY DEF IsRun
    <2> QED BY <2>1
  <1>2. ASSUME NEW k \in 0 .. n - 1, k \in S PROVE k + 1 \in S
    <2>1. PICK f : IsRun(f, l, legs, k)
      BY <1>2
    <2> DEFINE g == [i \in 0 .. k + 1 |-> IF i <= k THEN f[i] ELSE AfterOne(f[k], legs[k + 1])]
    <2>2. ASSUME NEW i \in 0 .. k + 1
          PROVE  g[i] = IF i = 0 THEN start ELSE AfterOne(g[i - 1], legs[i])
      <3>1. CASE i <= k
        <4>1. f[i] = IF i = 0 THEN start ELSE AfterOne(f[i - 1], legs[i])
          <5>1. f = [j \in 0 .. k |-> IF j = 0 THEN start ELSE AfterOne(f[j - 1], legs[j])]
            BY <2>1 DEF IsRun
          <5>2. i \in 0 .. k
            BY <3>1
          <5> HIDE DEF start, g
          <5> QED BY <5>1, <5>2
        <4>2. g[i] = f[i] /\ (i # 0 => g[i - 1] = f[i - 1])
          BY <3>1
        <4> HIDE DEF g
        <4> QED BY <4>1, <4>2
      <3>2. CASE i = k + 1
        <4>1. g[i] = AfterOne(f[k], legs[k + 1]) /\ g[k] = f[k] /\ i - 1 = k /\ i # 0
          BY <3>2
        <4> HIDE DEF g
        <4> QED BY <3>2, <4>1
      <3> QED BY <3>1, <3>2
    <2>3. IsRun(g, l, legs, k + 1)
      <3>1. g = [i \in 0 .. k + 1 |-> g[i]]
        OBVIOUS
      <3> HIDE DEF g
      <3> QED BY <2>2, <3>1 DEF IsRun
    <2> HIDE DEF g
    <2> QED BY <2>3
  <1> HIDE DEF S
  <1>3. n \in S
    <2>1. n \in Nat
      OBVIOUS
    <2> HIDE DEF n
    <2>2. \A k \in 0 .. n : k \in S
      BY <1>1, <1>2, <2>1, UpTo
    <2> QED BY <2>1, <2>2
  <1>4. \E f : IsRun(f, l, legs, n)
    BY <1>3 DEF S
  <1>5. Run(l, legs) = (CHOOSE f : IsRun(f, l, legs, n))[n]
    BY DEF Run, IsRun, AfterOne, OneLeg
  <1> QED BY <1>4, <1>5

(* The route that waits *)

Path    == route.path
Last    == Len(route.path)
Amount(i) == AmountsAlong(route.basis, route.path, route.amount)[i]
IsVaultHop(i) == IsConversion(Path[i], Path[i + 1])

\* A waiting route is what the engine builds from the quotes of its basis, for a
\* user who then held its amount.
RouteIsBuilt ==
  route # NoRoute =>
    /\ route.path \in Paths /\ route.amount \in Amounts
    /\ route.basis \in Markets /\ route.start \in [Held -> U64]
    /\ route.amount <= route.start[route.path[1]]
    /\ LET at == AmountsAlong(route.basis, route.path, route.amount) IN
       /\ at[Len(route.path)] # None /\ route.quoted = at[Len(route.path)]
       /\ \E s \in Slippages :
            route.legs = Legs(route.path, at, s, route.start)

IInv == TypeOK /\ WithinSupply(Ledger) /\ RouteIsBuilt

LEMMA PathTyped ==
  ASSUME NEW p \in Paths
  PROVE  /\ Len(p) \in Nat /\ Len(p) >= 2 /\ p \in Seq(Held)
         /\ \A i \in 1 .. Len(p) : p[i] \in Held
         /\ \A i \in 1 .. Len(p) - 1 : <<p[i], p[i + 1]>> \in Hops
         /\ \A i, j \in 1 .. Len(p) : p[i] = p[j] => i = j
  BY HopAssumption DEF IsPath

\* Amounts that end in a quote are u64s above zero all along.
LEMMA AmountsTyped ==
  ASSUME NEW s \in Markets, NEW p \in Paths, NEW amount \in U64,
         NEW at, at = AmountsAlong(s, p, amount), at[Len(p)] # None
  PROVE  /\ at[1] = amount
         /\ \A i \in 1 .. Len(p) : at[i] \in 1 .. U64Max
         /\ \A i \in 1 .. Len(p) - 1 : at[i + 1] = HopQuote(s, p[i], p[i + 1], at[i])
  <1> DEFINE n == Len(p)
  <1>1. n \in Nat /\ n >= 2
    BY PathTyped
  <1>2. \A i \in 1 .. n :
          at[i] = IF i = 1 THEN amount ELSE HopQuote(s, p[i - 1], p[i], at[i - 1])
    BY <1>1, AmountsUnfold DEF IsAlong
  <1>3. at[1] = amount /\ \A i \in 1 .. n - 1 : at[i + 1] = HopQuote(s, p[i], p[i + 1], at[i])
    BY <1>1, <1>2
  <1>4. \A i \in 1 .. n - 1 : <<p[i], p[i + 1]>> \in Hops
    BY PathTyped
  <1>5. ASSUME NEW i \in 1 .. n - 1, at[i] \in U64 \cup {None}, at[i + 1] # None
        PROVE  at[i] \in 1 .. U64Max /\ at[i + 1] \in 1 .. U64Max
    BY <1>3, <1>4, <1>5, HopQuoteIsSome
  <1>6. at[1] \in U64 \cup {None}
    BY <1>3
  <1> HIDE DEF n
  <1>7. \A k \in 0 .. n - 1 : at[k + 1] \in U64 \cup {None}
    <2> DEFINE S == {k \in 0 .. n - 1 : at[k + 1] \in U64 \cup {None}}
    <2>1. 0 \in S
      BY <1>1, <1>6
    <2>2. ASSUME NEW k \in 0 .. (n - 1) - 1, k \in S PROVE k + 1 \in S
      <3>1. k + 1 \in 1 .. n - 1 /\ at[k + 1] \in U64 \cup {None} /\ k + 1 \in 0 .. n - 1
        BY <1>1, <2>2
      <3>2. at[(k + 1) + 1] \in U64 \cup {None}
        <4>1. CASE at[(k + 1) + 1] = None
          BY <4>1
        <4>2. CASE at[(k + 1) + 1] # None
          BY <1>5, <3>1, <4>2, Widths
        <4> QED BY <4>1, <4>2
      <3> QED BY <3>1, <3>2
    <2> HIDE DEF S
    <2>3. n - 1 \in Nat
      BY <1>1
    <2>4. \A k \in 0 .. n - 1 : k \in S
      BY <2>1, <2>2, <2>3, UpTo
    <2> QED BY <2>4 DEF S
  <1>8. \A i \in 1 .. n : at[i] \in U64 \cup {None}
    <2>1. ASSUME NEW i \in 1 .. n PROVE at[i] \in U64 \cup {None}
      <3>1. i - 1 \in 0 .. n - 1 /\ (i - 1) + 1 = i
        BY <1>1
      <3> QED BY <1>7, <3>1
    <2> QED BY <2>1
  <1>9. \A k \in 0 .. n - 1 : at[n - k] # None
    <2> DEFINE S == {k \in 0 .. n - 1 : at[n - k] # None}
    <2>1. 0 \in S
      <3>1. at[n] # None /\ n - 0 = n
        BY <1>1 DEF n
      <3> QED BY <1>1, <3>1
    <2>2. ASSUME NEW k \in 0 .. (n - 1) - 1, k \in S PROVE k + 1 \in S
      <3>1. n - (k + 1) \in 1 .. n - 1 /\ (n - (k + 1)) + 1 = n - k /\ at[n - k] # None
            /\ k + 1 \in 0 .. n - 1
        BY <1>1, <2>2
      <3>2. at[n - (k + 1)] \in U64 \cup {None}
        BY <1>1, <1>8, <3>1
      <3>3. at[n - (k + 1)] \in 1 .. U64Max
        BY <1>5, <3>1, <3>2
      <3> QED BY <3>1, <3>3, Widths DEF None
    <2> HIDE DEF S
    <2>3. n - 1 \in Nat
      BY <1>1
    <2>4. \A k \in 0 .. n - 1 : k \in S
      BY <2>1, <2>2, <2>3, UpTo
    <2> QED BY <2>4 DEF S
  <1>10. \A i \in 1 .. n : at[i] # None
    <2>1. ASSUME NEW i \in 1 .. n PROVE at[i] # None
      <3>1. n - i \in 0 .. n - 1 /\ n - (n - i) = i
        BY <1>1
      <3> QED BY <1>9, <3>1
    <2> QED BY <2>1
  <1>11. ASSUME NEW i \in 1 .. n PROVE at[i] \in 1 .. U64Max
    <2>1. CASE i < n
      <3>1. i \in 1 .. n - 1 /\ i + 1 \in 1 .. n
        BY <1>1, <2>1
      <3> QED BY <1>5, <1>8, <1>10, <3>1
    <2>2. CASE i = n
      <3>1. n - 1 \in 1 .. n - 1 /\ (n - 1) + 1 = n /\ n - 1 \in 1 .. n /\ n \in 1 .. n
        BY <1>1
      <3> QED BY <1>5, <1>8, <1>10, <2>2, <3>1
    <2> QED BY <1>1, <2>1, <2>2
  <1> QED BY <1>3, <1>11 DEF n

\* What the leg of the i-th hop is built as.
LegIsBuilt(i) ==
  LET leg == route.legs[i]
      hop == <<Path[i], Path[i + 1]>>
      minimum == leg.minimumOutput
  IN  /\ ~IsVaultHop(i) =>
           leg = [hop |-> hop, amountIn |-> Amount(i), minimumOutput |-> minimum]
      /\ IsVaultHop(i) /\ i = 1 => leg = Encode(hop, Amount(1), minimum, 0)
      /\ IsVaultHop(i) /\ i > 1 => leg = Encode(hop, 0, minimum, route.start[Path[i]])
      /\ minimum <= Amount(i + 1)
      /\ i + 1 < Last /\ ~IsVaultHop(i + 1) => minimum = Amount(i + 1)

\* The path, the amounts and the legs of a waiting route.
LEMMA RouteParts ==
  ASSUME IInv, route # NoRoute
  PROVE  /\ Last \in Nat /\ Last >= 2 /\ Len(route.legs) = Last - 1
         /\ \A i \in 1 .. Last : Path[i] \in Held
         /\ \A i \in 1 .. Last - 1 : <<Path[i], Path[i + 1]>> \in Hops
         /\ \A i, j \in 1 .. Last : Path[i] = Path[j] => i = j
         /\ Amount(1) = route.amount /\ Amount(Last) = route.quoted
         /\ \A i \in 1 .. Last : Amount(i) \in 1 .. U64Max
         /\ \A i \in 1 .. Last - 1 :
              Amount(i + 1) = HopQuote(route.basis, Path[i], Path[i + 1], Amount(i))
         /\ route.basis \in Markets /\ route.start \in [Held -> U64]
         /\ route.amount <= route.start[Path[1]]
         /\ \A i \in 1 .. Last - 1 : LegIsBuilt(i)
  <1> DEFINE at == AmountsAlong(route.basis, route.path, route.amount)
  <1>1. /\ route.path \in Paths /\ route.amount \in Amounts
        /\ route.basis \in Markets /\ route.start \in [Held -> U64]
        /\ route.amount <= route.start[route.path[1]]
        /\ at[Last] # None /\ route.quoted = at[Last]
        /\ \E s \in Slippages :
             route.legs = Legs(route.path, at, s, route.start)
    BY DEF IInv, RouteIsBuilt, Last
  <1>2. PICK slippage \in Slippages :
          route.legs = Legs(route.path, at, slippage, route.start)
    BY <1>1
  <1> HIDE DEF at
  <1>3. /\ Last \in Nat /\ Last >= 2
        /\ \A i \in 1 .. Last : Path[i] \in Held
        /\ \A i \in 1 .. Last - 1 : <<Path[i], Path[i + 1]>> \in Hops
        /\ \A i, j \in 1 .. Last : Path[i] = Path[j] => i = j
    BY <1>1, PathTyped DEF Path, Last
  <1>4. /\ at[1] = route.amount
        /\ \A i \in 1 .. Last : at[i] \in 1 .. U64Max
        /\ \A i \in 1 .. Last - 1 : at[i + 1] = HopQuote(route.basis, Path[i], Path[i + 1], at[i])
    <2>1. route.amount \in U64
      BY <1>1, HopAssumption
    <2> QED BY <1>1, <2>1, AmountsTyped DEF at, Path, Last
  <1>5. slippage \in Nat
    BY <1>2, HopAssumption, Widths
  <1>6. route.legs
          = [i \in 1 .. Last - 1 |->
               IF ~IsVaultHop(i)
               THEN [hop |-> <<Path[i], Path[i + 1]>>, amountIn |-> at[i],
                     minimumOutput |-> MinimumOf(Path, i, at, slippage)]
               ELSE IF i = 1
               THEN Encode(<<Path[i], Path[i + 1]>>, at[1],
                           MinimumOf(Path, i, at, slippage), 0)
               ELSE Encode(<<Path[i], Path[i + 1]>>, 0,
                           MinimumOf(Path, i, at, slippage), route.start[Path[i]])]
    BY <1>2 DEF Legs, Path, Last, IsVaultHop, EncodeExact, EncodeDelta
  <1>7. Len(route.legs) = Last - 1
    BY <1>3, <1>6
  <1>8. ASSUME NEW i \in 1 .. Last - 1
        PROVE  /\ MinimumOf(Path, i, at, slippage) <= at[i + 1]
               /\ i + 1 < Last /\ ~IsVaultHop(i + 1) =>
                    MinimumOf(Path, i, at, slippage) = at[i + 1]
    <2>1. i + 1 \in 1 .. Last /\ at[i + 1] \in Nat /\ Last = Len(Path)
      BY <1>3, <1>4, Widths DEF Last, Path
    <2>2. CASE i + 1 = Last
      BY <1>3, <1>5, <2>1, <2>2 DEF MinimumOf, SaturatingSub
    <2>3. CASE i + 1 # Last
      <3>1. (i + 1) + 1 = i + 2
        BY <1>3
      <3> QED BY <1>3, <2>1, <2>3, <3>1 DEF MinimumOf, IsVaultHop
    <2> QED BY <2>2, <2>3
  <1>9. ASSUME NEW i \in 1 .. Last - 1 PROVE LegIsBuilt(i)
    <2> DEFINE m == MinimumOf(Path, i, at, slippage)
               hop == <<Path[i], Path[i + 1]>>
    <2>1. route.legs[i] = IF ~IsVaultHop(i)
                          THEN [hop |-> hop, amountIn |-> at[i], minimumOutput |-> m]
                          ELSE IF i = 1 THEN Encode(hop, at[1], m, 0)
                          ELSE Encode(hop, 0, m, route.start[Path[i]])
      BY <1>6
    <2>2. m <= at[i + 1] /\ (i + 1 < Last /\ ~IsVaultHop(i + 1) => m = at[i + 1])
      BY <1>8
    <2>3. Amount(i) = at[i] /\ Amount(1) = at[1] /\ Amount(i + 1) = at[i + 1]
      BY DEF Amount, at
    <2> HIDE DEF m, hop
    <2>4. route.legs[i].minimumOutput = m
      BY <2>1 DEF Encode
    <2>5. i = 1 \/ i > 1
      BY <1>3
    <2> QED BY <2>1, <2>2, <2>3, <2>4, <2>5 DEF LegIsBuilt, hop
  <1>10. \A i \in 1 .. Last : Amount(i) = at[i]
    BY DEF Amount, at
  <1>11. 1 \in 1 .. Last /\ Last \in 1 .. Last /\ \A i \in 1 .. Last - 1 : i \in 1 .. Last /\ i + 1 \in 1 .. Last
    BY <1>3
  <1>12. Path = route.path
    BY DEF Path
  <1> QED BY <1>1, <1>3, <1>4, <1>7, <1>9, <1>10, <1>11, <1>12

(* Executing the route *)

\* An accepted leg of a waiting route, on any ledger.
LEMMA BuiltLegMoves ==
  ASSUME IInv, route # NoRoute, NEW i \in 1 .. Last - 1,
         NEW l \in Ledgers, WithinSupply(l), OneLeg(l, route.legs[i]).ok
  PROVE  \E spent, paid \in Nat :
           /\ Moves(l, OneLeg(l, route.legs[i]).ledger, Path[i], Path[i + 1], spent, paid)
           /\ paid >= route.legs[i].minimumOutput
           /\ ~IsVaultHop(i) \/ i = 1 => spent = Amount(i)
           /\ IsVaultHop(i) /\ i > 1 => spent = l.user[Path[i]] - route.start[Path[i]]
  <1> DEFINE a == Path[i]
             b == Path[i + 1]
             leg == route.legs[i]
             m == leg.minimumOutput
             k == OneLeg(l, leg).ledger
  <1>1. /\ <<a, b>> \in Hops /\ LegIsBuilt(i) /\ Last \in Nat
        /\ Amount(i) \in 1 .. U64Max /\ Amount(1) \in 1 .. U64Max
        /\ i \in 1 .. Last
    <2>1. Last \in Nat /\ Last >= 2
      BY RouteParts
    <2>2. i \in 1 .. Last /\ 1 \in 1 .. Last
      BY <2>1
    <2> QED BY <2>1, <2>2, RouteParts
  <1>2. market \in Markets
    BY DEF IInv, TypeOK
  <1>3. /\ l.user \in [Held -> U64] /\ a \in Held /\ l.user[a] \in Nat
        /\ route.start[a] \in Nat
    <2>1. route.start \in [Held -> U64] /\ a \in Held
      BY <1>1, RouteParts, HopKinds
    <2> QED BY <2>1, LedgerTyped, Widths
  <1>4. CASE ~IsVaultHop(i)
    <2>1. leg = [hop |-> <<a, b>>, amountIn |-> Amount(i), minimumOutput |-> m]
      BY <1>1, <1>4 DEF LegIsBuilt
    <2>2. ~IsConversion(a, b) /\ "hop" \in DOMAIN leg /\ Amount(i) \in U64
      BY <1>1, <1>4, <2>1, Widths DEF IsVaultHop
    <2>3. OneLeg(l, leg) = PoolLeg(l, leg)
      BY <2>2 DEF OneLeg
    <2> HIDE DEF leg, a, b, m
    <2>4. /\ Moves(l, k, a, b, Amount(i), PoolSettles(l, a, b, Amount(i)).paid)
          /\ PoolSettles(l, a, b, Amount(i)).paid >= m
      <3>1. PoolLeg(l, leg).ok
        BY <2>3 DEF leg
      <3> QED BY <1>1, <1>2, <2>1, <2>2, <2>3, <3>1, PoolLegMoves
    <2>5. Amount(i) \in Nat /\ PoolSettles(l, a, b, Amount(i)).paid \in Nat
      BY <1>1, <2>4, Widths DEF Moves
    <2> QED BY <1>4, <2>4, <2>5 DEF leg, a, b, m
  <1>5. CASE IsVaultHop(i)
    <2> DEFINE spent == AmountSpent(leg, l.user[a])
               paid  == OnChainOutput(<<a, b>>, spent)
               pre   == IF i = 1 THEN 0 ELSE route.start[a]
               x     == IF i = 1 THEN Amount(1) ELSE 0
    <2>1. leg = Encode(<<a, b>>, x, m, pre)
      <3>1. i = 1 \/ i > 1
        BY <1>1
      <3> QED BY <1>1, <1>5, <3>1 DEF LegIsBuilt
    <2>2. /\ IsConversion(a, b) /\ "hop" \notin DOMAIN leg /\ leg.dir = <<a, b>>
          /\ leg.amountIn = x /\ leg.preBalance = pre
      <3> HIDE DEF leg, a, b, m, x, pre
      <3>1. /\ DOMAIN leg = {"dir", "amountIn", "minimumOutput", "preBalance"}
            /\ leg.dir = <<a, b>> /\ leg.amountIn = x /\ leg.preBalance = pre
        BY <2>1 DEF Encode
      <3>2. IsConversion(a, b)
        BY <1>5 DEF IsVaultHop, a, b
      <3> QED BY <3>1, <3>2
    <2>3. OneLeg(l, leg) = VaultLeg(l, leg)
      BY <2>2 DEF OneLeg
    <2> HIDE DEF leg, a, b, m, x, pre
    <2>4. Moves(l, k, a, b, spent, paid) /\ paid >= m
      <3>1. VaultLeg(l, leg).ok
        BY <2>3 DEF leg
      <3> QED BY <2>2, <2>3, <3>1, VaultLegMoves DEF m
    <2>5. spent \in 1 .. l.user[a] /\ spent \in Nat /\ paid \in Nat
      <3>1. spent \in 1 .. l.user[a] /\ paid \in Nat \ {0}
        BY <2>4 DEF Moves
      <3> HIDE DEF spent, paid
      <3> QED BY <1>3, <3>1
    <2>6. spent = IF x > 0 THEN x ELSE IF pre = 0 THEN l.user[a]
                  ELSE IF pre > l.user[a] THEN None ELSE l.user[a] - pre
      BY <2>2 DEF AmountSpent
    <2> HIDE DEF spent, paid
    <2>7. CASE i = 1
      <3>1. spent = Amount(i)
        BY <1>1, <2>6, <2>7 DEF x
      <3> QED BY <1>5, <2>4, <2>5, <2>7, <3>1 DEF leg, a, b, m
    <2>8. CASE i > 1
      <3>1. spent = l.user[a] - route.start[a]
        <4>1. x = 0 /\ pre = route.start[a]
          BY <2>8 DEF x, pre
        <4> QED BY <1>3, <2>5, <2>6, <4>1 DEF None
      <3> QED BY <1>5, <2>4, <2>5, <2>8, <3>1 DEF leg, a, b, m
    <2> QED BY <1>1, <2>7, <2>8
  <1> QED BY <1>4, <1>5

\* What is in play of a typed ledger is a number.
LEMMA LedgerInPlay ==
  ASSUME NEW l \in Ledgers
  PROVE  \A m \in Held : InPlay(l, m) \in Nat
  <1>1. LivePair \subseteq [quote : Nat, faction : Nat] /\ U64 \subseteq Nat
    BY Widths DEF LivePair
  <1>2. /\ l.pools \in [FactionMints -> [quote : Nat, faction : Nat]]
        /\ l.vault \in [Mints -> Nat] /\ l.user \in [Held -> Nat]
    BY <1>1, LedgerTyped
  <1> QED BY <1>2, InPlayOf

\* A leg brings nothing into play.
LEMMA MovesWithinSupply ==
  ASSUME NEW l \in Ledgers, WithinSupply(l), NEW k, NEW a, NEW b, NEW spent, NEW paid,
         Moves(l, k, a, b, spent, paid)
  PROVE  WithinSupply(k)
  <1>1. \A m \in Held : InPlay(k, m) <= InPlay(l, m) /\ InPlay(l, m) <= U64Max
    BY DEF Moves, WithinSupply
  <1>2. \A m \in Held : InPlay(k, m) \in Nat /\ InPlay(l, m) \in Nat
    BY LedgerInPlay DEF Moves
  <1> QED BY <1>1, <1>2, Widths DEF WithinSupply

LEMMA LedgerOk ==
  ASSUME IInv
  PROVE  Ledger \in Ledgers /\ WithinSupply(Ledger) /\ Ledger.user = user
         /\ Ledger.pools = market.pools /\ Ledger.vault = market.vault
         /\ market \in Markets
  BY DEF IInv, TypeOK, Ledger, Ledgers, Markets, LivePair

\* What the first k legs leave a user: the mints further along untouched, the
\* first mint less by the route's amount, enough of the current one for a trade,
\* and of every mint behind it what the properties of a route say.
Spared(k, l) ==
  /\ l \in Ledgers /\ WithinSupply(l)
  /\ \A j \in k + 2 .. Last : l.user[Path[j]] = user[Path[j]]
  /\ k = 0 => l.user[Path[1]] = user[Path[1]]
  /\ k >= 1 => l.user[Path[1]] = user[Path[1]] - route.amount
  /\ k >= 1 /\ k + 1 < Last /\ ~IsVaultHop(k + 1) =>
       l.user[Path[k + 1]] >= user[Path[k + 1]] + Amount(k + 1)
  /\ \A j \in 2 .. k : IF IsVaultHop(j) THEN l.user[Path[j]] = route.start[Path[j]]
                       ELSE l.user[Path[j]] >= user[Path[j]]

LEMMA SparedStep ==
  ASSUME IInv, route # NoRoute, NEW k \in 0 .. Last - 2, NEW l, Spared(k, l),
         OneLeg(l, route.legs[k + 1]).ok
  PROVE  Spared(k + 1, OneLeg(l, route.legs[k + 1]).ledger)
  <1> DEFINE i == k + 1
             n == Last
             e == OneLeg(l, route.legs[i]).ledger
             a == Path[i]
             b == Path[i + 1]
  <1>1. /\ n \in Nat /\ n >= 2 /\ k \in Nat /\ i \in Nat /\ i >= 1 /\ i <= n - 1
        /\ i \in 1 .. n - 1 /\ i \in 1 .. n /\ i + 1 \in 1 .. n /\ 1 \in 1 .. n
    <2>1. n \in Nat /\ n >= 2
      BY RouteParts
    <2> QED BY <2>1
  <1>2. /\ \A j \in 1 .. n : Path[j] \in Held
        /\ \A j, h \in 1 .. n : Path[j] = Path[h] => j = h
        /\ \A j \in 1 .. n : Amount(j) \in Nat
        /\ Amount(1) = route.amount
        /\ LegIsBuilt(i) /\ a # b
    <2>1. /\ \A j \in 1 .. n : Path[j] \in Held
          /\ \A j, h \in 1 .. n : Path[j] = Path[h] => j = h
          /\ \A j \in 1 .. n : Amount(j) \in 1 .. U64Max
          /\ Amount(1) = route.amount
          /\ LegIsBuilt(i) /\ <<a, b>> \in Hops
      BY <1>1, RouteParts
    <2>2. a # b
      BY <2>1, HopKinds
    <2> HIDE DEF n, a, b
    <2> QED BY <2>1, <2>2, Widths
  <1>3. PICK spent \in Nat, paid \in Nat :
          /\ Moves(l, e, a, b, spent, paid)
          /\ paid >= route.legs[i].minimumOutput
          /\ ~IsVaultHop(i) \/ i = 1 => spent = Amount(i)
          /\ IsVaultHop(i) /\ i > 1 => spent = l.user[a] - route.start[a]
    BY <1>1, BuiltLegMoves DEF Spared
  <1> HIDE DEF e, a, b, n
  <1>4. /\ e \in Ledgers /\ l \in Ledgers
        /\ \A m \in Held : e.user[m] \in Nat /\ l.user[m] \in Nat /\ user[m] \in Nat
                           /\ route.start[m] \in Nat
    <2>1. e \in Ledgers /\ l \in Ledgers
      BY <1>3 DEF Moves, Spared
    <2>2. user \in [Held -> U64] /\ route.start \in [Held -> U64]
      BY RouteParts DEF IInv, TypeOK
    <2> QED BY <2>1, <2>2, LedgerTyped, Widths
  <1>5. WithinSupply(e)
    BY <1>3, <1>4, MovesWithinSupply DEF Spared
  <1>6. /\ e.user[a] = l.user[a] - spent /\ e.user[b] = l.user[b] + paid
        /\ \A m \in Held \ {a, b} : e.user[m] = l.user[m]
    BY <1>3 DEF Moves
  <1>7. \A j \in 1 .. n : j # i /\ j # i + 1 => e.user[Path[j]] = l.user[Path[j]]
    BY <1>1, <1>2, <1>6 DEF a, b
  <1>8. l.user[b] = user[b]
    <2>1. i + 1 \in k + 2 .. n
      BY <1>1
    <2> QED BY <2>1 DEF Spared, b, n
  <1>9. \A j \in i + 2 .. n : e.user[Path[j]] = user[Path[j]]
    <2>1. ASSUME NEW j \in i + 2 .. n PROVE e.user[Path[j]] = user[Path[j]]
      <3>1. j \in 1 .. n /\ j # i /\ j # i + 1 /\ j \in k + 2 .. n
        BY <1>1
      <3>2. l.user[Path[j]] = user[Path[j]]
        BY <3>1 DEF Spared, n
      <3> QED BY <1>7, <3>1, <3>2
    <2> QED BY <2>1
  <1>10. e.user[Path[1]] = user[Path[1]] - route.amount
    <2>1. CASE i = 1
      <3>1. a = Path[1] /\ spent = route.amount /\ l.user[Path[1]] = user[Path[1]]
        BY <1>1, <1>2, <1>3, <2>1 DEF a, Spared
      <3> QED BY <1>6, <3>1
    <2>2. CASE i # 1
      <3>1. l.user[Path[1]] = user[Path[1]] - route.amount
        BY <1>1, <2>2 DEF Spared
      <3>2. 1 # i /\ 1 # i + 1
        BY <1>1, <2>2
      <3> QED BY <1>1, <1>7, <3>1, <3>2
    <2> QED BY <2>1, <2>2
  <1>11. ASSUME i + 1 < n, ~IsVaultHop(i + 1)
         PROVE  e.user[Path[i + 1]] >= user[Path[i + 1]] + Amount(i + 1)
    <2>1. route.legs[i].minimumOutput = Amount(i + 1)
      BY <1>2, <1>11 DEF LegIsBuilt, n
    <2>2. b \in Held /\ user[b] \in Nat /\ Amount(i + 1) \in Nat
      BY <1>1, <1>2, <1>4 DEF b
    <2>3. e.user[b] >= user[b] + Amount(i + 1)
      BY <1>3, <1>6, <1>8, <2>1, <2>2
    <2> QED BY <2>3 DEF b
  <1>12. ASSUME NEW j \in 2 .. i
         PROVE  IF IsVaultHop(j) THEN e.user[Path[j]] = route.start[Path[j]]
                ELSE e.user[Path[j]] >= user[Path[j]]
    <2>1. CASE j < i
      <3>1. j \in 2 .. k /\ j \in 1 .. n /\ j # i /\ j # i + 1
        BY <1>1, <2>1
      <3>2. e.user[Path[j]] = l.user[Path[j]]
        BY <1>7, <3>1
      <3> QED BY <3>1, <3>2 DEF Spared
    <2>2. CASE j = i
      <3>1. a \in Held /\ l.user[a] \in Nat /\ user[a] \in Nat /\ route.start[a] \in Nat
        BY <1>1, <1>2, <1>4 DEF a
      <3>2. CASE IsVaultHop(i)
        <4>1. spent = l.user[a] - route.start[a]
          BY <1>1, <1>3, <2>2, <3>2
        <4>2. e.user[a] = route.start[a]
          BY <1>6, <3>1, <4>1
        <4> QED BY <2>2, <3>2, <4>2 DEF a
      <3>3. CASE ~IsVaultHop(i)
        <4>1. spent = Amount(i) /\ Amount(i) \in Nat
          BY <1>1, <1>2, <1>3, <3>3
        <4>2. l.user[a] >= user[a] + Amount(i)
          <5>1. k >= 1 /\ k + 1 < Last
            BY <1>1, <2>2 DEF n
          <5> QED BY <3>3, <5>1 DEF Spared, a
        <4>3. e.user[a] >= user[a]
          BY <1>6, <3>1, <4>1, <4>2
        <4> QED BY <2>2, <3>3, <4>3 DEF a
      <3> QED BY <3>2, <3>3
    <2> QED BY <1>1, <2>1, <2>2
  <1> QED BY <1>1, <1>4, <1>5, <1>9, <1>10, <1>11, <1>12 DEF Spared, n, e

\* A run is its legs, one after another.
LEMMA RunParts ==
  ASSUME IInv, route # NoRoute
  PROVE  \E f : /\ f[0] = [ok |-> TRUE, ledger |-> Ledger]
                /\ \A k \in 0 .. Last - 2 : f[k + 1] = AfterOne(f[k], route.legs[k + 1])
                /\ Run(Ledger, route.legs) = f[Last - 1]
  <1>1. Last \in Nat /\ Last >= 2 /\ Len(route.legs) = Last - 1 /\ Last - 1 \in Nat
    BY RouteParts
  <1>2. PICK f : IsRun(f, Ledger, route.legs, Last - 1)
                 /\ Run(Ledger, route.legs) = f[Last - 1]
    BY <1>1, RunUnfolds
  <1>3. \A i \in 0 .. Last - 1 : f[i] = IF i = 0 THEN [ok |-> TRUE, ledger |-> Ledger]
                                        ELSE AfterOne(f[i - 1], route.legs[i])
    BY <1>2 DEF IsRun
  <1>4. f[0] = [ok |-> TRUE, ledger |-> Ledger]
    <2>1. 0 \in 0 .. Last - 1
      BY <1>1
    <2>2. f[0] = IF 0 = 0 THEN [ok |-> TRUE, ledger |-> Ledger]
                 ELSE AfterOne(f[0 - 1], route.legs[0])
      BY <1>3, <2>1, Zenon
    <2> QED BY <2>2
  <1>5. ASSUME NEW k \in 0 .. Last - 2 PROVE f[k + 1] = AfterOne(f[k], route.legs[k + 1])
    <2>1. k + 1 \in 0 .. Last - 1 /\ k + 1 # 0 /\ (k + 1) - 1 = k
      BY <1>1
    <2> QED BY <1>3, <2>1
  <1> QED BY <1>2, <1>4, <1>5

\* An accepted route leaves what all its legs leave.
LEMMA RunSpares ==
  ASSUME IInv, route # NoRoute, Run(Ledger, route.legs).ok
  PROVE  Spared(Last - 1, Run(Ledger, route.legs).ledger)
  <1>1. Last \in Nat /\ Last >= 2 /\ Last - 1 \in Nat /\ (Last - 1) - 1 = Last - 2
    BY RouteParts
  <1>2. PICK f : /\ f[0] = [ok |-> TRUE, ledger |-> Ledger]
                 /\ \A k \in 0 .. Last - 2 : f[k + 1] = AfterOne(f[k], route.legs[k + 1])
                 /\ Run(Ledger, route.legs) = f[Last - 1]
    BY RunParts
  <1> DEFINE S == {k \in 0 .. Last - 1 : f[k].ok => Spared(k, f[k].ledger)}
  <1>3. 0 \in S
    <2>1. f[0].ledger = Ledger
      BY <1>2
    <2>2. Spared(0, Ledger)
      BY LedgerOk DEF Spared
    <2> QED BY <1>1, <2>1, <2>2
  <1>4. ASSUME NEW k \in 0 .. (Last - 1) - 1, k \in S PROVE k + 1 \in S
    <2>1. k \in 0 .. Last - 2 /\ k + 1 \in 0 .. Last - 1
      BY <1>1
    <2>2. f[k + 1] = AfterOne(f[k], route.legs[k + 1])
      BY <1>2, <2>1
    <2>3. ASSUME f[k + 1].ok PROVE Spared(k + 1, f[k + 1].ledger)
      <3>1. f[k].ok /\ f[k + 1] = OneLeg(f[k].ledger, route.legs[k + 1])
        BY <2>2, <2>3 DEF AfterOne
      <3>2. Spared(k, f[k].ledger)
        BY <1>4, <3>1
      <3> QED BY <2>1, <2>3, <3>1, <3>2, SparedStep
    <2> QED BY <2>1, <2>3
  <1> HIDE DEF S
  <1>5. Last - 1 \in S
    <2>1. \A k \in 0 .. Last - 1 : k \in S
      BY <1>1, <1>3, <1>4, UpTo
    <2> QED BY <1>1, <2>1
  <1> QED BY <1>2, <1>5 DEF S

(* The inductive invariant *)

LEMMA InitIInv == Init => IInv
  <1> SUFFICES ASSUME Init PROVE IInv
    OBVIOUS
  <1>1. PICK tax \in Taxes :
          market = [pools |-> InitPools, tax |-> tax, vault |-> InitVault]
    BY DEF Init
  <1>2. market \in Markets
    BY <1>1, HopAssumption DEF Markets
  <1>3. snapshot = market /\ user = InitUser /\ route = NoRoute /\ moves = 0
    BY DEF Init
  <1>4. TypeOK
    BY <1>2, <1>3, HopAssumption DEF TypeOK
  <1>5. WithinSupply(Ledger)
    <2>1. Ledger = [pools |-> InitPools, vault |-> InitVault, user |-> InitUser]
      BY <1>1, <1>3 DEF Ledger
    <2> QED BY <2>1, HopAssumption
  <1> QED BY <1>3, <1>4, <1>5 DEF IInv, RouteIsBuilt

\* Settling a typed ledger within the supply keeps the types and the supply.
LEMMA SettleKeeps ==
  ASSUME IInv, NEW l \in Ledgers, WithinSupply(l), Settle(l)
  PROVE  market' \in Markets /\ user' \in [Held -> U64] /\ WithinSupply(Ledger)'
  <1>1. /\ l.pools \in [FactionMints -> LivePair] /\ l.vault \in [Mints -> U64]
        /\ l.user \in [Held -> U64]
        /\ l = [pools |-> l.pools, vault |-> l.vault, user |-> l.user]
    BY LedgerTyped DEF Ledgers
  <1>2. /\ market' = [pools |-> l.pools, tax |-> market.tax, vault |-> l.vault]
        /\ market.tax \in Taxes
    BY DEF Settle, IInv, TypeOK, Markets
  <1>3. market' \in Markets
    BY <1>1, <1>2 DEF Markets, LivePair
  <1>4. Ledger' = l
    BY <1>1, <1>2 DEF Ledger, Settle
  <1>5. WithinSupply(Ledger)' <=> WithinSupply(l)
    BY <1>4 DEF WithinSupply, InPlay
  <1> QED BY <1>1, <1>3, <1>5 DEF Settle

\* A step that keeps or drops the waiting route need only keep the rest.
LEMMA RestKeeps ==
  ASSUME IInv, market' \in Markets, snapshot' \in Markets, user' \in [Held -> U64],
         WithinSupply(Ledger)', moves' \in 0 .. MaxMoves,
         route' = route \/ route' = NoRoute
  PROVE  IInv'
  <1>1. TypeOK'
    BY DEF IInv, TypeOK
  <1>2. RouteIsBuilt'
    BY DEF IInv, RouteIsBuilt
  <1> QED BY <1>1, <1>2 DEF IInv

LEMMA SameLedger ==
  ASSUME IInv, user' = user, market'.pools = market.pools, market'.vault = market.vault
  PROVE  WithinSupply(Ledger)'
  <1>1. Ledger' = Ledger
    BY DEF Ledger
  <1> QED BY <1>1 DEF IInv, WithinSupply, InPlay

LEMMA MovesOn ==
  ASSUME IInv, moves < MaxMoves, moves' = moves + 1
  PROVE  moves' \in 0 .. MaxMoves
  BY HopAssumption DEF IInv, TypeOK

LEMMA BuildRouteKeeps ==
  ASSUME IInv, NEW path \in Paths, NEW amount \in Amounts, NEW slippage \in Slippages,
         BuildRoute(path, amount, slippage)
  PROVE  IInv'
  <1> DEFINE at == AmountsAlong(snapshot, path, amount)
  <1>1. /\ amount <= user[path[1]] /\ at[Len(path)] # None
        /\ route' = [path |-> path, legs |-> Legs(path, at, slippage, user),
                     amount |-> amount, quoted |-> at[Len(path)],
                     basis |-> snapshot, start |-> user]
        /\ UNCHANGED <<market, user, snapshot, moves>>
    BY DEF BuildRoute
  <1>2. snapshot \in Markets /\ user \in [Held -> U64]
    BY DEF IInv, TypeOK
  <1>3. at[Len(path)] \in U64
    <2>1. amount \in U64 /\ Len(path) \in 1 .. Len(path)
      BY HopAssumption, PathTyped
    <2>2. at[Len(path)] \in 1 .. U64Max
      BY <1>1, <1>2, <2>1, AmountsTyped
    <2> HIDE DEF at
    <2> QED BY <2>2, Widths
  <1> HIDE DEF at
  <1>4. /\ route'.path = path /\ route'.legs = Legs(path, at, slippage, user)
        /\ route'.amount = amount /\ route'.quoted = at[Len(path)]
        /\ route'.basis = snapshot /\ route'.start = user
    BY <1>1
  <1>5. TypeOK'
    BY <1>1, <1>2, <1>3, <1>4 DEF IInv, TypeOK
  <1>6. RouteIsBuilt'
    <2>1. AmountsAlong(route'.basis, route'.path, route'.amount) = at
      BY <1>4 DEF at
    <2>2. \E s \in Slippages : route'.legs = Legs(route'.path, at, s, route'.start)
      BY <1>4
    <2> QED BY <1>1, <1>2, <1>4, <2>1, <2>2 DEF RouteIsBuilt
  <1>7. WithinSupply(Ledger)'
    BY <1>1, SameLedger
  <1> QED BY <1>5, <1>6, <1>7 DEF IInv

LEMMA ExecuteRouteKeeps ==
  ASSUME IInv, ExecuteRoute
  PROVE  IInv'
  <1> DEFINE end == Run(Ledger, route.legs)
  <1>1. /\ route # NoRoute /\ end.ok /\ Settle(end.ledger) /\ route' = NoRoute
        /\ moves < MaxMoves /\ moves' = moves + 1 /\ snapshot' = snapshot
    BY DEF ExecuteRoute
  <1>2. end.ledger \in Ledgers /\ WithinSupply(end.ledger)
    BY <1>1, RunSpares DEF Spared
  <1> HIDE DEF end
  <1>3. market' \in Markets /\ user' \in [Held -> U64] /\ WithinSupply(Ledger)'
    BY <1>1, <1>2, SettleKeeps
  <1>4. moves' \in 0 .. MaxMoves /\ snapshot' \in Markets
    BY <1>1, MovesOn DEF IInv, TypeOK
  <1> QED BY <1>1, <1>3, <1>4, RestKeeps

LEMMA OwnConversionKeeps ==
  ASSUME IInv, NEW d \in Directions, NEW amount \in OtherAmounts, OwnConversion(d, amount)
  PROVE  IInv'
  <1> DEFINE ix == EncodeExact(d, amount, 1)
             end == VaultLeg(Ledger, ix)
  <1>1. /\ end.ok /\ Settle(end.ledger) /\ route' = route
        /\ moves < MaxMoves /\ moves' = moves + 1 /\ snapshot' = snapshot
    BY DEF OwnConversion
  <1>2. PICK a, b : d = <<a, b>>
    BY DEF Directions
  <1>3. IsConversion(a, b) /\ ix.dir = <<a, b>>
    BY <1>2 DEF IsConversion, EncodeExact, Encode
  <1> HIDE DEF ix
  <1>4. Moves(Ledger, end.ledger, a, b, AmountSpent(ix, Ledger.user[a]),
              OnChainOutput(<<a, b>>, AmountSpent(ix, Ledger.user[a])))
    BY <1>1, <1>3, LedgerOk, VaultLegMoves
  <1> HIDE DEF end
  <1>5. end.ledger \in Ledgers /\ WithinSupply(end.ledger)
    <2>1. end.ledger \in Ledgers
      BY <1>4 DEF Moves
    <2>2. WithinSupply(end.ledger)
      BY <1>4, LedgerOk, MovesWithinSupply
    <2> QED BY <2>1, <2>2
  <1>6. market' \in Markets /\ user' \in [Held -> U64] /\ WithinSupply(Ledger)'
    BY <1>1, <1>5, SettleKeeps
  <1>7. moves' \in 0 .. MaxMoves /\ snapshot' \in Markets
    BY <1>1, MovesOn DEF IInv, TypeOK
  <1> QED BY <1>1, <1>6, <1>7, RestKeeps

\* A trade of somebody else's leaves a live pool, and what it brings into play is
\* bounded by the supply it comes from.
LEMMA OtherSwapKeeps ==
  ASSUME IInv, NEW f \in FactionMints, NEW side \in {"buy", "sell"},
         NEW amount \in OtherAmounts, OtherSwap(f, side, amount)
  PROVE  IInv'
  <1> DEFINE p == market.pools[f]
             t == market.tax[f]
             s == SettledSwap(p, LpFeeBps, t, side, amount)
             r == ReservesAfter(p, side, amount, s)
             P == [market.pools EXCEPT ![f] = r]
             end == [Ledger EXCEPT !.pools[f] = r]
  <1>1. end = [pools |-> P, vault |-> market.vault, user |-> user]
    BY DEF Ledger
  <1>2. /\ WithinSupply(end) /\ moves < MaxMoves /\ moves' = moves + 1
        /\ market' = [market EXCEPT !.pools = P]
        /\ UNCHANGED <<user, snapshot, route>>
    <2>1. end.pools = P
      BY <1>1
    <2>2. /\ WithinSupply(end) /\ moves < MaxMoves /\ moves' = moves + 1
          /\ market' = [market EXCEPT !.pools = end.pools]
          /\ UNCHANGED <<user, snapshot, route>>
      BY DEF OtherSwap, Ledger
    <2> HIDE DEF end, P
    <2> QED BY <2>1, <2>2
  <1>3. /\ market.pools \in [FactionMints -> LivePair] /\ market.vault \in [Mints -> U64]
        /\ user \in [Held -> U64] /\ market.tax \in Taxes
    BY DEF IInv, TypeOK, Markets, LivePair
  <1>4. /\ p \in ReservePair /\ p.quote \in Nat /\ p.faction \in Nat
        /\ p.quote > 0 /\ p.faction > 0 /\ t \in TaxPair /\ LpFeeBps \in Rate
        /\ amount \in U64 /\ amount \in Nat
    BY <1>3, ParametersTyped, HopAssumption, Widths DEF LivePair, ReservePair
  <1>5. r \in [quote : Nat \ {0}, faction : Nat \ {0}]
    <2> HIDE DEF p, t
    <2>1. CASE side = "buy"
      <3>1. /\ s.taxed \in 0 .. amount /\ s.paid \in 0 .. p.faction - 1
        BY <1>4, <2>1, BuySettles
      <3>2. r = [quote |-> p.quote + amount - s.taxed, faction |-> p.faction - s.paid]
        BY <2>1 DEF ReservesAfter
      <3> HIDE DEF s, r
      <3> QED BY <1>4, <3>1, <3>2
    <2>2. CASE side = "sell"
      <3>1. /\ s.taxed \in Nat /\ s.paid \in Nat /\ s.paid + s.taxed < p.quote
        BY <1>4, <2>2, SellSettles
      <3>2. r = [quote |-> p.quote - s.paid - s.taxed, faction |-> p.faction + amount]
        BY <2>2 DEF ReservesAfter
      <3> HIDE DEF s, r
      <3> QED BY <1>4, <3>1, <3>2
    <2> QED BY <2>1, <2>2
  <1> HIDE DEF r
  <1>6. /\ P \in [FactionMints -> [quote : Nat \ {0}, faction : Nat \ {0}]]
        /\ market.vault \in [Mints -> Nat] /\ user \in [Held -> Nat]
    <2>1. LivePair \subseteq [quote : Nat \ {0}, faction : Nat \ {0}]
      BY Widths DEF LivePair
    <2> QED BY <1>3, <1>5, <2>1, Widths
  <1> HIDE DEF P, end
  <1>7. end \in Ledgers
    <2>1. end.pools = P /\ end.vault = market.vault /\ end.user = user
      BY <1>1
    <2> QED BY <1>1, <1>2, <1>6, <2>1, SupplyFits
  <1>8. Settle(end)
    BY <1>1, <1>2, <1>3 DEF Settle, IInv, TypeOK, Markets
  <1>9. market' \in Markets /\ user' \in [Held -> U64] /\ WithinSupply(Ledger)'
    BY <1>2, <1>7, <1>8, SettleKeeps
  <1>10. moves' \in 0 .. MaxMoves /\ snapshot' \in Markets
    BY <1>2, MovesOn DEF IInv, TypeOK
  <1> QED BY <1>2, <1>9, <1>10, RestKeeps

LEMMA NextIInv ==
  ASSUME IInv, [Next]_vars
  PROVE  IInv'
  <1>1. /\ market \in Markets /\ snapshot \in Markets /\ user \in [Held -> U64]
        /\ moves \in 0 .. MaxMoves
    BY DEF IInv, TypeOK
  <1>2. CASE Refresh
    BY <1>1, <1>2, SameLedger, RestKeeps DEF Refresh
  <1>3. ASSUME NEW path \in Paths, NEW amount \in Amounts, NEW s \in Slippages,
               BuildRoute(path, amount, s)
        PROVE  IInv'
    BY <1>3, BuildRouteKeeps
  <1>4. CASE ExecuteRoute
    BY <1>4, ExecuteRouteKeeps
  <1>5. CASE DropRoute
    BY <1>1, <1>5, SameLedger, RestKeeps DEF DropRoute
  <1>6. CASE EpochRolls
    <2>1. PICK tax \in Taxes : market' = [market EXCEPT !.tax = tax]
      BY <1>6 DEF EpochRolls
    <2>2. /\ market' \in Markets
          /\ market'.pools = market.pools /\ market'.vault = market.vault
      BY <1>1, <2>1 DEF Markets
    <2> QED BY <1>1, <1>6, <2>2, SameLedger, RestKeeps DEF EpochRolls
  <1>7. ASSUME NEW f \in FactionMints, NEW side \in {"buy", "sell"},
               NEW amount \in OtherAmounts, OtherSwap(f, side, amount)
        PROVE  IInv'
    BY <1>7, OtherSwapKeeps
  <1>8. ASSUME NEW d \in Directions, NEW amount \in OtherAmounts, OwnConversion(d, amount)
        PROVE  IInv'
    BY <1>8, OwnConversionKeeps
  <1>9. CASE UNCHANGED vars
    BY <1>1, <1>9, SameLedger, RestKeeps DEF vars
  <1> QED BY <1>2, <1>3, <1>4, <1>5, <1>6, <1>7, <1>8, <1>9 DEF Next

\* Every reachable state satisfies the invariant the results below rest on: the
\* types, a supply that is never exceeded and a route as the engine builds it.
THEOREM RoutesAreBuilt == Spec => []IInv
  <1>1. Init => IInv
    BY InitIInv
  <1>2. IInv /\ [Next]_vars => IInv'
    BY NextIInv
  <1> QED BY <1>1, <1>2, PTL DEF Spec

\* No route, trade or conversion drives a balance out of u64 or drains a pool.
THEOREM HopTypesHold == Spec => []TypeOK
  <1>1. IInv => TypeOK
    BY DEF IInv
  <1> QED BY <1>1, RoutesAreBuilt, PTL

-----------------------------------------------------------------------------
(* What a route leaves its user *)

\* Of the steps that take a route away, only executing it changes a balance.
LEMMA OnlyExecution ==
  ASSUME [Next]_vars, Executes
  PROVE  ExecuteRoute
  BY DEF Next, vars, Executes, Refresh, BuildRoute, DropRoute, EpochRolls, OtherSwap,
         OwnConversion

LEMMA ExecutionSpares ==
  ASSUME IInv, [Next]_vars, Executes
  PROVE  /\ route # NoRoute /\ Last \in Nat /\ Last >= 2
         /\ user'[Path[1]] = user[Path[1]] - route.amount
         /\ \A j \in 2 .. Last - 1 :
              IF IsVaultHop(j) THEN user'[Path[j]] = route.start[Path[j]]
              ELSE user'[Path[j]] >= user[Path[j]]
         /\ \A j \in 2 .. Last - 1 : user'[Path[j]] \in Nat
  <1> DEFINE l == Run(Ledger, route.legs).ledger
  <1>1. route # NoRoute /\ Run(Ledger, route.legs).ok /\ user' = l.user
    BY OnlyExecution DEF ExecuteRoute, Settle
  <1>2. Spared(Last - 1, l)
    BY <1>1, RunSpares
  <1> HIDE DEF l
  <1>3. Last \in Nat /\ Last >= 2 /\ \A j \in 1 .. Last : Path[j] \in Held
    BY <1>1, RouteParts
  <1>4. \A m \in Held : l.user[m] \in Nat
    BY <1>2, LedgerTyped DEF Spared
  <1>5. \A j \in 2 .. Last - 1 : l.user[Path[j]] \in Nat
    BY <1>3, <1>4
  <1> QED BY <1>1, <1>2, <1>3, <1>5 DEF Spared

\* The user's own tokens are spared by every route, whatever the hops pay.
THEOREM HeldTokensAreSpared == Spec => HeldTokensSpared
  <1> DEFINE Spares == Executes =>
               /\ user'[route.path[1]] = user[route.path[1]] - route.amount
               /\ \A m \in Intermediate(route) :
                    user'[m] >= user[m] \/ user'[m] >= route.start[m]
  <1>1. ASSUME IInv, [Next]_vars, Executes
        PROVE  /\ user'[route.path[1]] = user[route.path[1]] - route.amount
               /\ \A m \in Intermediate(route) :
                    user'[m] >= user[m] \/ user'[m] >= route.start[m]
    <2>1. user'[route.path[1]] = user[route.path[1]] - route.amount
      BY <1>1, ExecutionSpares DEF Path
    <2>2. ASSUME NEW m \in Intermediate(route)
          PROVE  user'[m] >= user[m] \/ user'[m] >= route.start[m]
      <3>1. PICK j \in 2 .. Last - 1 : m = Path[j]
        BY DEF Intermediate, Path, Last
      <3>2. /\ IF IsVaultHop(j) THEN user'[Path[j]] = route.start[Path[j]]
               ELSE user'[Path[j]] >= user[Path[j]]
            /\ user'[Path[j]] \in Nat
        BY <1>1, ExecutionSpares
      <3> QED BY <3>1, <3>2
    <2> QED BY <2>1, <2>2
  <1>2. IInv /\ [Next]_vars => [Spares]_vars
    BY <1>1
  <1> QED BY <1>2, RoutesAreBuilt, PTL DEF Spec, HeldTokensSpared

\* What a hop pays into a conversion is converted to the last unit.
THEOREM NoDustIsLeft == Spec => NothingLeftBehind
  <1> DEFINE Clean == Executes =>
               \A m \in Converted(route) :
                 user'[m] <= user[m] \/ user'[m] <= route.start[m]
  <1>1. ASSUME IInv, [Next]_vars, Executes, NEW m \in Converted(route)
        PROVE  user'[m] <= user[m] \/ user'[m] <= route.start[m]
    <2>1. PICK j \in 2 .. Last - 1 : m = Path[j] /\ IsVaultHop(j)
      BY DEF Converted, Path, Last, IsVaultHop
    <2>2. user'[Path[j]] = route.start[Path[j]] /\ user'[Path[j]] \in Nat
      BY <1>1, <2>1, ExecutionSpares
    <2> QED BY <2>1, <2>2
  <1>2. IInv /\ [Next]_vars => [Clean]_vars
    BY <1>1
  <1> QED BY <1>2, RoutesAreBuilt, PTL DEF Spec, NothingLeftBehind

-----------------------------------------------------------------------------
(* An unmoved market pays what it quoted *)

\* After the first k legs of a route whose market and user have not moved since
\* it was quoted and built: the current mint holds what was quoted for it on top of what
\* the user had, and whatever the legs to come will touch is as it was quoted.
Unmoved(k, l) ==
  /\ l \in Ledgers /\ WithinSupply(l)
  /\ k = 0 => l.user[Path[1]] = user[Path[1]]
  /\ k >= 1 => l.user[Path[k + 1]] = user[Path[k + 1]] + Amount(k + 1)
  /\ \A j \in k + 2 .. Last :
       /\ l.user[Path[j]] = user[Path[j]]
       /\ Path[j] \in Mints => l.vault[Path[j]] = market.vault[Path[j]]
  /\ \A j \in k + 1 .. Last - 1 :
       ~IsVaultHop(j) =>
         LET f == PoolOf(Path[j], Path[j + 1]) IN l.pools[f] = market.pools[f]

\* The next leg is accepted, spends what was quoted for it and pays its quote.
LEMMA UnmovedLegPays ==
  ASSUME IInv, route # NoRoute, route.basis = market, route.start = user,
         NEW k \in 0 .. Last - 2, NEW l, Unmoved(k, l)
  PROVE  LET e == OneLeg(l, route.legs[k + 1])
         IN  e.ok /\ Moves(l, e.ledger, Path[k + 1], Path[k + 2], Amount(k + 1), Amount(k + 2))
  <1> DEFINE i == k + 1
             n == Last
             a == Path[i]
             b == Path[i + 1]
             x == Amount(i)
             q == Amount(i + 1)
             leg == route.legs[i]
             m == leg.minimumOutput
  <1>1. /\ n \in Nat /\ n >= 2 /\ k \in Nat /\ i \in Nat /\ i + 1 = k + 2
        /\ i \in 1 .. n - 1 /\ i \in 1 .. n /\ i + 1 \in 1 .. n /\ 1 \in 1 .. n
        /\ i + 1 \in k + 2 .. n /\ i \in k + 1 .. n - 1 /\ (k = 0 <=> i = 1)
    <2>1. n \in Nat /\ n >= 2
      BY RouteParts
    <2> QED BY <2>1
  <1>2. /\ x \in 1 .. U64Max /\ q \in 1 .. U64Max /\ x \in U64 /\ x \in Nat /\ q \in Nat
        /\ Amount(1) = route.amount /\ route.amount <= user[Path[1]]
        /\ q = HopQuote(market, a, b, x) /\ <<a, b>> \in Hops /\ LegIsBuilt(i)
        /\ market \in Markets /\ a \in Held
    <2>1. /\ x \in 1 .. U64Max /\ q \in 1 .. U64Max
          /\ Amount(1) = route.amount /\ route.amount <= user[Path[1]]
          /\ q = HopQuote(market, a, b, x) /\ <<a, b>> \in Hops /\ LegIsBuilt(i)
          /\ market \in Markets /\ a \in Held
      BY <1>1, RouteParts
    <2> HIDE DEF x, q, a, b
    <2> QED BY <2>1, Widths
  <1>3. /\ l \in Ledgers /\ WithinSupply(l) /\ l.user[a] \in Nat
        /\ user[a] \in Nat
    <2>1. l \in Ledgers /\ WithinSupply(l) /\ user \in [Held -> U64]
      BY DEF Unmoved, IInv, TypeOK
    <2>2. a \in Held
      BY <1>2
    <2> HIDE DEF a
    <2> QED BY <2>1, <2>2, LedgerTyped, Widths
  <1>4. l.user[a] = IF k = 0 THEN user[a] ELSE user[a] + x
    BY <1>1 DEF Unmoved
  <1>5. x <= l.user[a]
    <2>1. CASE k = 0
      BY <1>1, <1>2, <1>4, <2>1
    <2>2. CASE k # 0
      <3> HIDE DEF x, a
      <3> QED BY <1>2, <1>3, <1>4, <2>2
    <2> QED BY <2>1, <2>2
  <1>6. m <= q /\ x # None /\ q # None
    BY <1>1, <1>2, Widths DEF LegIsBuilt, None
  <1>7. CASE ~IsVaultHop(i)
    <2> DEFINE f == PoolOf(a, b)
               s == PoolSettles(l, a, b, x)
    <2>1. leg = [hop |-> <<a, b>>, amountIn |-> x, minimumOutput |-> m]
      BY <1>2, <1>7 DEF LegIsBuilt
    <2>2. ~IsConversion(a, b) /\ "hop" \in DOMAIN leg
      BY <1>7, <2>1 DEF IsVaultHop
    <2>3. OneLeg(l, leg) = PoolLeg(l, leg)
      BY <2>2 DEF OneLeg
    <2>4. q = PoolQuote(market, a, b, x)
      BY <1>2, <1>6, <2>2 DEF HopQuote
    <2>5. s = SettledSwap(market.pools[f], LpFeeBps, market.tax[f], SideOf(a), x)
      <3>1. l.pools[f] = market.pools[f]
        BY <1>1, <1>7 DEF Unmoved
      <3> QED BY <3>1 DEF PoolSettles
    <2>6. s.eff > 0 /\ s.paid = q
      <3> HIDE DEF a, b, x, q
      <3> QED BY <1>2, <1>6, <2>2, <2>4, <2>5, PoolQuoteIsPaid
    <2>7. leg.hop[1] = a /\ leg.hop[2] = b /\ leg.amountIn = x /\ leg.minimumOutput = m
      BY <2>1
    <2>8. PoolLeg(l, leg).ok
      <3>1. s.paid > 0 /\ s.paid >= m
        <4> HIDE DEF s, q, m
        <4>1. q > 0 /\ q >= m
          BY <1>2, <1>6
        <4> QED BY <2>6, <4>1
      <3>2. PoolLeg(l, leg).ok = (/\ x <= l.user[a] /\ s.eff > 0 /\ s.paid > 0 /\ s.paid >= m)
        <4> HIDE DEF leg, a, b, x, m
        <4> QED BY <2>7 DEF PoolLeg, PoolSettles
      <3> HIDE DEF s
      <3> QED BY <1>5, <2>6, <3>1, <3>2
    <2>9. Moves(l, PoolLeg(l, leg).ledger, a, b, x, s.paid)
      <3> HIDE DEF leg, a, b, x, m
      <3> QED BY <1>2, <1>3, <2>1, <2>2, <2>8, PoolLegMoves
    <2> HIDE DEF s, leg
    <2> QED BY <1>1, <2>3, <2>6, <2>8, <2>9 DEF leg
  <1>8. CASE IsVaultHop(i)
    <2> DEFINE pre == IF i = 1 THEN 0 ELSE user[a]
               z   == IF i = 1 THEN x ELSE 0
    <2>1. leg = Encode(<<a, b>>, z, m, pre)
      <3>1. i = 1 \/ i > 1
        BY <1>1
      <3> QED BY <1>2, <1>8, <3>1 DEF LegIsBuilt
    <2>2. /\ IsConversion(a, b) /\ "hop" \notin DOMAIN leg /\ leg.dir = <<a, b>>
          /\ leg.amountIn = z /\ leg.preBalance = pre
      <3>1. IsConversion(a, b)
        BY <1>8 DEF IsVaultHop
      <3> HIDE DEF leg, a, b, m, z, pre
      <3>2. /\ DOMAIN leg = {"dir", "amountIn", "minimumOutput", "preBalance"}
            /\ leg.dir = <<a, b>> /\ leg.amountIn = z /\ leg.preBalance = pre
        BY <2>1 DEF Encode
      <3> QED BY <3>1, <3>2
    <2>3. OneLeg(l, leg) = VaultLeg(l, leg)
      BY <2>2 DEF OneLeg
    <2>4. /\ a \in Mints /\ b \in Mints /\ a # b
          /\ Input(leg.dir) = a /\ Output(leg.dir) = b
      <3> HIDE DEF leg, a, b
      <3> QED BY <1>2, <2>2, HopKinds DEF Input, Output
    <2>5. l.vault[b] = market.vault[b] /\ market.vault[b] \in U64
      BY <1>1, <2>4 DEF Unmoved, IInv, TypeOK, Markets
    <2>6. q = QuoteConversion(<<a, b>>, market.vault[b], a, b, x)
      BY <1>2, <1>6, <2>2 DEF HopQuote
    <2>7. q = OnChainOutput(<<a, b>>, x) /\ q \in 1 .. market.vault[b]
      <3> DEFINE liquidity == market.vault[b]
      <3>1. /\ liquidity \in U64 /\ x \in U64 /\ q # None /\ IsConversion(a, b)
            /\ q = QuoteConversion(<<a, b>>, liquidity, a, b, x)
        BY <1>2, <1>6, <2>2, <2>5, <2>6
      <3> HIDE DEF a, b, x, q, liquidity
      <3>2. q = OnChainOutput(<<a, b>>, x) /\ q \in 1 .. liquidity
        BY <3>1, ConversionQuoteIsPaid
      <3> QED BY <3>2 DEF liquidity
    <2>8. AmountSpent(leg, l.user[a]) = x
      <3>1. AmountSpent(leg, l.user[a])
              = IF z > 0 THEN z ELSE IF pre = 0 THEN l.user[a]
                ELSE IF pre > l.user[a] THEN None ELSE l.user[a] - pre
        <4> HIDE DEF leg, z, pre
        <4> QED BY <2>2 DEF AmountSpent
      <3> HIDE DEF leg, x, a
      <3>2. CASE i = 1
        BY <1>2, <3>1, <3>2
      <3>3. CASE i # 1
        BY <1>1, <1>2, <1>3, <1>4, <3>1, <3>3
      <3> QED BY <3>2, <3>3
    <2> HIDE DEF leg, a, b, x, q, m, z, pre
    <2>9. VaultLeg(l, leg).ok
      <3>1. x \in 1 .. l.user[a]
        BY <1>2, <1>3, <1>5
      <3>2. q >= m /\ q \in 1 .. l.vault[b]
        BY <1>6, <2>5, <2>7
      <3>3. leg.dir = <<a, b>>
        BY <2>2
      <3>4. Converts(l, <<a, b>>, x, m)
        BY <2>2, <2>4, <2>7, <3>1, <3>2 DEF Converts
      <3>5. Accepts(l, leg)
        BY <2>4, <2>8, <3>3, <3>4 DEF Accepts, m
      <3> QED BY <3>5 DEF VaultLeg
    <2>10. Moves(l, VaultLeg(l, leg).ledger, a, b, x, q)
      BY <1>3, <2>2, <2>7, <2>8, <2>9, VaultLegMoves
    <2> QED BY <1>1, <2>3, <2>9, <2>10 DEF leg, a, b, x, q
  <1> QED BY <1>7, <1>8

LEMMA UnmovedStep ==
  ASSUME IInv, route # NoRoute, route.basis = market, route.start = user,
         NEW k \in 0 .. Last - 2, NEW l, Unmoved(k, l)
  PROVE  Unmoved(k + 1, OneLeg(l, route.legs[k + 1]).ledger)
  <1> DEFINE e == OneLeg(l, route.legs[k + 1]).ledger
             n == Last
             a == Path[k + 1]
             b == Path[k + 2]
  <1>1. /\ n \in Nat /\ n >= 2 /\ k \in Nat /\ (k + 1) + 1 = k + 2 /\ (k + 1) + 2 = k + 3
        /\ k + 1 \in 1 .. n - 1 /\ k + 1 \in 1 .. n /\ k + 2 \in 1 .. n /\ k + 2 \in k + 2 .. n
    <2>1. n \in Nat /\ n >= 2
      BY RouteParts
    <2> QED BY <2>1
  <1>2. /\ \A j \in 1 .. n : Path[j] \in Held
        /\ \A i, j \in 1 .. n : Path[i] = Path[j] => i = j
        /\ \A j \in 1 .. n - 1 : <<Path[j], Path[j + 1]>> \in Hops
    BY RouteParts
  <1>3. Moves(l, e, a, b, Amount(k + 1), Amount(k + 2))
    BY UnmovedLegPays
  <1> HIDE DEF e, a, b, n
  <1>4. /\ e \in Ledgers /\ WithinSupply(e)
        /\ e.user[b] = l.user[b] + Amount(k + 2)
        /\ \A m \in Held \ {a, b} : e.user[m] = l.user[m]
        /\ \A m \in Mints \ {a, b} : e.vault[m] = l.vault[m]
        /\ \A f \in FactionMints : {a, b} # {f, NATIVE_MINT} => e.pools[f] = l.pools[f]
    <2>1. WithinSupply(e)
      BY <1>3, MovesWithinSupply DEF Unmoved
    <2> QED BY <1>3, <2>1 DEF Moves
  <1>5. e.user[b] = user[b] + Amount(k + 2)
    BY <1>1, <1>4 DEF Unmoved, b, n
  <1>6. ASSUME NEW j \in k + 3 .. n
        PROVE  /\ Path[j] \in Held \ {a, b} /\ e.user[Path[j]] = user[Path[j]]
               /\ Path[j] \in Mints => e.vault[Path[j]] = market.vault[Path[j]]
    <2>1. j \in 1 .. n /\ j # k + 1 /\ j # k + 2 /\ j \in k + 2 .. n
      BY <1>1
    <2>2. Path[j] \in Held \ {a, b}
      BY <1>1, <1>2, <2>1 DEF a, b
    <2> QED BY <1>4, <2>1, <2>2 DEF Unmoved, n
  <1>7. ASSUME NEW j \in k + 2 .. n - 1, ~IsVaultHop(j)
        PROVE  e.pools[PoolOf(Path[j], Path[j + 1])] = market.pools[PoolOf(Path[j], Path[j + 1])]
    <2> DEFINE f == PoolOf(Path[j], Path[j + 1])
    <2>1. j \in 1 .. n - 1 /\ j + 1 \in k + 3 .. n /\ j \in k + 1 .. n - 1
      BY <1>1
    <2>2. <<Path[j], Path[j + 1]>> \in Hops /\ ~IsConversion(Path[j], Path[j + 1])
      BY <1>2, <1>7, <2>1 DEF IsVaultHop
    <2>3. f \in FactionMints /\ Path[j + 1] \in {f, NATIVE_MINT}
      BY <2>2, HopKinds, MintsApart DEF PoolOf
    <2>4. Path[j + 1] \notin {a, b}
      BY <1>6, <2>1
    <2>5. {a, b} # {f, NATIVE_MINT}
      BY <2>3, <2>4
    <2>6. l.pools[f] = market.pools[f]
      BY <1>7, <2>1 DEF Unmoved, n
    <2> HIDE DEF f
    <2>7. e.pools[f] = market.pools[f]
      BY <1>4, <2>3, <2>5, <2>6
    <2> QED BY <2>7 DEF f
  <1>8. ~(k + 1 = 0)
    BY <1>1
  <1> QED BY <1>1, <1>4, <1>5, <1>6, <1>7, <1>8 DEF Unmoved, b, n, e

\* Quotes compose: in an unmoved market every route that is built is accepted to
\* its last leg and pays the user what was quoted for it.
THEOREM UnmovedRoutesPay == Spec => []UnmovedRoutePaysQuote
  <1>1. ASSUME IInv, route # NoRoute, route.basis = market, route.start = user
        PROVE  LET end == Run(Ledger, route.legs)
               IN  end.ok /\ end.ledger.user[Path[Last]] = user[Path[Last]] + route.quoted
    <2>1. /\ Last \in Nat /\ Last >= 2 /\ Last - 1 \in Nat /\ (Last - 1) - 1 = Last - 2
          /\ (Last - 1) + 1 = Last /\ Last - 1 >= 1
      <3>1. Last \in Nat /\ Last >= 2
        BY <1>1, RouteParts
      <3> QED BY <3>1
    <2>2. PICK f : /\ f[0] = [ok |-> TRUE, ledger |-> Ledger]
                   /\ \A k \in 0 .. Last - 2 : f[k + 1] = AfterOne(f[k], route.legs[k + 1])
                   /\ Run(Ledger, route.legs) = f[Last - 1]
      BY <1>1, RunParts
    <2> DEFINE S == {k \in 0 .. Last - 1 : f[k].ok /\ Unmoved(k, f[k].ledger)}
    <2>3. 0 \in S
      <3>1. f[0].ok /\ f[0].ledger = Ledger
        BY <2>2
      <3>2. Unmoved(0, Ledger)
        <4>1. ~(0 >= 1)
          OBVIOUS
        <4> QED BY <1>1, <4>1, LedgerOk DEF Unmoved
      <3> QED BY <2>1, <3>1, <3>2
    <2>4. ASSUME NEW k \in 0 .. (Last - 1) - 1, k \in S PROVE k + 1 \in S
      <3>1. k \in 0 .. Last - 2 /\ k + 1 \in 0 .. Last - 1
        BY <2>1
      <3>2. f[k].ok /\ Unmoved(k, f[k].ledger)
        BY <2>4
      <3>3. f[k + 1] = OneLeg(f[k].ledger, route.legs[k + 1])
        BY <2>2, <3>1, <3>2 DEF AfterOne
      <3>4. f[k + 1].ok
        BY <1>1, <3>1, <3>2, <3>3, UnmovedLegPays
      <3>5. Unmoved(k + 1, f[k + 1].ledger)
        BY <1>1, <3>1, <3>2, <3>3, UnmovedStep
      <3> QED BY <3>1, <3>4, <3>5
    <2> HIDE DEF S
    <2>5. Last - 1 \in S
      <3>1. \A k \in 0 .. Last - 1 : k \in S
        BY <2>1, <2>3, <2>4, UpTo
      <3> QED BY <2>1, <3>1
    <2>6. f[Last - 1].ok /\ Unmoved(Last - 1, f[Last - 1].ledger)
      BY <2>5 DEF S
    <2>7. f[Last - 1].ledger.user[Path[Last]] = user[Path[Last]] + Amount(Last)
      BY <2>1, <2>6 DEF Unmoved
    <2>8. Amount(Last) = route.quoted
      BY <1>1, RouteParts
    <2> QED BY <2>2, <2>6, <2>7, <2>8
  <1>2. IInv => UnmovedRoutePaysQuote
    BY <1>1 DEF UnmovedRoutePaysQuote, Path, Last
  <1> QED BY <1>2, RoutesAreBuilt, PTL
=============================================================================
