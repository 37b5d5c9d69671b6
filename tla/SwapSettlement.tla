--------------------------- MODULE SwapSettlement ----------------------------
(***************************************************************************)
(* Instructions built by the instances of SwapAccounts, executed by        *)
(* programs that know of them only what the IDLs (src/idl/) say: which     *)
(* position holds which account, which of them are written, and what the   *)
(* entrypoint does with them.  Two signers, a trader and the engine's      *)
(* shared authority, have orders pending at once; either may be paid on    *)
(* behalf of the other.                                                    *)
(*                                                                         *)
(* The programs are external.  Here they serve to read the lists; when     *)
(* they refuse a swap for its epoch or pause is FactionPoolAmm's question, *)
(* and what repeated swaps do to the price is SwapExecution's.             *)
(***************************************************************************)
EXTENDS SwapAccounts, TaxedSwap

CONSTANTS
  Pools,            \* identities of the pools on chain
  Holders,          \* signers
  InitTrader,       \* opening balance of every trader's account, by mint
  InitReserve,      \* and of every vault
  Amounts, Slippage,
  LpFeeBps, BuyTaxBps, SellTaxBps,
  MaxSwaps,         \* bound on built instructions
  NoOrder

VARIABLES
  ledger,    \* balance of every token account, and lamports of every wallet
  orders,    \* the instruction a signer has built and not yet sent
  built      \* instructions built so far

vars == <<ledger, orders, built>>

Key(id)     == CanonicalKey(id.mintA, id.mintB)
PoolAmm(id) == [key |-> Key(id), id |-> id, quoteMint |-> QuoteMint(id),
                factionMint |-> FactionMint(id)]

\* The protocol's mints and those of the pools
Traded == FactionMints \cup {PROFIT_MINT, NATIVE_MINT}
          \cup UNION {{id.mintA, id.mintB} : id \in Pools}

Wallet(h)          == <<"wallet", h>>
TokenAccount(h, m) == <<"account", h, m>>
\* The tax program's own derivation of a pool's sweep account
CanonicalSweep(id) ==
  <<"ata", SWEEP_AUTHORITY, QuoteMint(id), TokenProgramOf(id, QuoteMint(id))>>
VaultOf(id, mint)  == At(IF id.mintA = mint THEN id.vaultA ELSE id.vaultB)

TraderAccounts  == {TokenAccount(h, m) : h \in Holders, m \in Traded}
PoolVaults      == {VaultOf(id, m) : id \in Pools, m \in Traded}
VaultAccounts   == {VaultTokenAccount(m) : m \in FactionMints \cup {PROFIT_MINT}}
SweepAccounts   == {CanonicalSweep(id) : id \in Pools}
TaxCollectors   == {ESCROW_VAULT_PDA, CARNAGE_SOL_VAULT_PDA, TREASURY}
Accounts        == TraderAccounts \cup PoolVaults \cup VaultAccounts \cup SweepAccounts
                   \cup TaxCollectors \cup {Wallet(h) : h \in Holders}

\* Mint and owner of the accounts a list may put in a user's place.
MintOf(account)  == IF account \in TraderAccounts \cup SweepAccounts
                    THEN account[3] ELSE "none"
OwnerOf(account) == IF account \in TraderAccounts THEN Wallet(account[2]) ELSE At("none")

\* An admitted pool's address determines it, and the native mint's key comes
\* before those of the faction mints.
ASSUME SettlementAssumption ==
  /\ \A id \in Pools : Admits(Key(id), [owner |-> AMM_PROGRAM_ID,
                                        data |-> [id |-> id, initialized |-> TRUE]])
  /\ \A p, q \in Pools : Key(p) = Key(q) => p = q
  /\ \A m \in FactionMints :
       MintRank[NATIVE_MINT] \in Nat /\ MintRank[m] \in Nat
         /\ MintRank[NATIVE_MINT] < MintRank[m]
  /\ InitTrader \in [Traded -> U64] /\ InitReserve \in U64 \ {0}
  /\ Amounts \subseteq U64 /\ Slippage \in U64 /\ MaxSwaps \in Nat
  /\ {LpFeeBps, BuyTaxBps, SellTaxBps} \subseteq 0 .. BPS_DENOM

-----------------------------------------------------------------------------
(* What the IDLs say of an account list *)

PoolNames == <<"pool", "vault_a", "vault_b", "mint_a", "mint_b", "user_a", "user_b">>
LastNames == <<"token_program_a", "token_program_b">>

SolNames(lane) ==
  <<"user", "epoch_state", "swap_authority", "tax_authority">> \o PoolNames
  \o <<"stake_pool", "staking_escrow", "carnage_vault", "treasury">>
  \o (IF lane = "SolBuy" THEN <<>> ELSE <<"wsol_intermediary">>)
  \o <<"amm_program">> \o LastNames \o <<"system_program", "staking_program">>

SplNames(lane) ==
  <<"user", "epoch_state">> \o PoolNames
  \o <<"swap_authority", "sweep_authority", "quote_mint", "sweep_ata">>
  \o (IF lane = "SplSell" THEN <<"user_quote">> ELSE <<>>)
  \o <<"quote_token_program">> \o LastNames \o <<"amm_program">>

ConvertNames ==
  <<"user", "vault_config", "user_input", "user_output", "input_mint",
    "output_mint", "vault_input", "vault_output", "token_program">>

SolLanes == {"SolBuy", "SolBuyWsol", "SolSell"}

Names(lane) == IF lane \in SolLanes THEN SolNames(lane)
               ELSE IF lane = "ConvertV2" THEN ConvertNames ELSE SplNames(lane)

NameSet(lane) == {Names(lane)[i] : i \in 1 .. Len(Names(lane))}

Writable(lane) ==
  NameSet(lane) \cap
  ({"pool", "vault_a", "vault_b", "user_a", "user_b", "stake_pool", "staking_escrow",
    "carnage_vault", "treasury", "wsol_intermediary", "sweep_ata", "user_quote",
    "user_input", "user_output", "vault_input", "vault_output"}
   \cup (IF lane = "SolBuy" THEN {"user"} ELSE {})
   \cup (IF lane \in {"SolBuyWsol", "SolSell"} THEN {"swap_authority"} ELSE {}))

\* The accounts every program pins.
Pinned ==
  [epoch_state |-> EPOCH_STATE_PDA, swap_authority |-> SWAP_AUTHORITY_PDA,
   tax_authority |-> TAX_AUTHORITY_PDA, stake_pool |-> STAKE_POOL_PDA,
   staking_escrow |-> ESCROW_VAULT_PDA, carnage_vault |-> CARNAGE_SOL_VAULT_PDA,
   treasury |-> TREASURY, wsol_intermediary |-> WSOL_INTERMEDIARY_PDA,
   amm_program |-> At(AMM_PROGRAM_ID), system_program |-> SYSTEM_PROGRAM,
   staking_program |-> STAKING_PROGRAM, sweep_authority |-> SWEEP_AUTHORITY,
   vault_config |-> VAULT_CONFIG_PDA, token_program |-> At(TOKEN_2022_PROGRAM_ID)]

\* The list by name.
Named(o) ==
  LET names == Names(o.ix.lane)
  IN  [n \in NameSet(o.ix.lane) |-> o.metas[CHOOSE i \in 1 .. Len(names) : names[i] = n]]
Keys(o) == [n \in NameSet(o.ix.lane) |-> Named(o)[n].key]

Hooks(o) == [i \in 1 .. Len(o.metas) - Len(Names(o.ix.lane)) |->
               o.metas[i + Len(Names(o.ix.lane))].key]

\* What Token-2022 resolves for a transfer of a hooked mint.
HookAccounts(mint, source, dest) ==
  <<HookMetaList(mint), Whitelist(source), Whitelist(dest), TRANSFER_HOOK_PROGRAM>>

-----------------------------------------------------------------------------
(* The Tax program *)

IsBuy(lane)   == lane \in {"SolBuy", "SolBuyWsol", "SplBuy"}
PoolAt(key)   == CHOOSE id \in Pools : Key(id) = key
UserOn(k, id, mint) == IF id.mintA = mint THEN k.user_a ELSE k.user_b

\* The accounts that pay into and are paid from a swap.
Payer(k, id, lane) == UserOn(k, id, IF IsBuy(lane) THEN QuoteMint(id) ELSE FactionMint(id))
Payee(k, id, lane) ==
  IF lane = "SplSell" THEN k.user_quote
  ELSE UserOn(k, id, IF IsBuy(lane) THEN FactionMint(id) ELSE QuoteMint(id))

TaxProgramAccepts(o) ==
  LET lane == o.ix.lane
      k    == Keys(o)
      id   == PoolAt(k.pool)
      f    == FactionMint(id)
      q    == QuoteMint(id)
  IN  /\ k.pool \in {Key(p) : p \in Pools}
      /\ lane \in SolLanes => id.mintA = NATIVE_MINT
      /\ lane \notin SolLanes => q # NATIVE_MINT
      /\ k.vault_a = At(id.vaultA) /\ k.vault_b = At(id.vaultB)
      /\ k.mint_a = At(id.mintA) /\ k.mint_b = At(id.mintB)
      /\ k.token_program_a = At(id.tokenProgramA)
      /\ k.token_program_b = At(id.tokenProgramB)
      /\ MintOf(k.user_a) = id.mintA /\ MintOf(k.user_b) = id.mintB
      /\ OwnerOf(Payer(k, id, lane)) = k.user
      /\ MintOf(Payee(k, id, lane)) = (IF IsBuy(lane) THEN f ELSE q)
      /\ lane \notin SolLanes =>
           /\ k.quote_mint = At(q)
           /\ k.quote_token_program = At(TokenProgramOf(id, q))
           /\ k.sweep_ata = CanonicalSweep(id)
      /\ lane = "SplSell" => UserOn(k, id, q) = k.sweep_ata
      /\ HasFactionWitness(lane) => o.ix.witness = {f = CRIME_MINT}
      /\ Hooks(o) = IF IsBuy(lane)
                    THEN HookAccounts(f, VaultOf(id, f), Payee(k, id, lane))
                    ELSE HookAccounts(f, Payer(k, id, lane), VaultOf(id, f))

Move(l, from, to, amount) ==
  [[l EXCEPT ![from] = @ - amount] EXCEPT ![to] = @ + amount]

\* WSOL tax goes out to the three destinations, any other rests in the sweep.
Collect(l, k, lane, from, tax) ==
  IF lane \notin SolLanes THEN Move(l, from, k.sweep_ata, tax)
  ELSE LET d == SplitDistribution(tax)
       IN  Move(Move(Move(l, from, k.staking_escrow, d.staking),
                     from, k.carnage_vault, d.carnage), from, k.treasury, d.treasury)

\* The output of a swap against the reserves as they are, None if it fails.
SwapOutput(id, lane, amount) ==
  LET q == ledger[VaultOf(id, QuoteMint(id))]
      f == ledger[VaultOf(id, FactionMint(id))]
      s == IF IsBuy(lane) THEN QuoteBuy(q, f, LpFeeBps, BuyTaxBps, amount)
                          ELSE QuoteSell(q, f, LpFeeBps, SellTaxBps, amount)
  IN  IF s.ok THEN s.out ELSE None

AfterTaxedSwap(o) ==
  LET lane   == o.ix.lane
      k      == Keys(o)
      id     == PoolAt(k.pool)
      payer  == Payer(k, id, lane)
      payee  == Payee(k, id, lane)
      out    == SwapOutput(id, lane, o.ix.amountIn)
      quotes == VaultOf(id, QuoteMint(id))
      tokens == VaultOf(id, FactionMint(id))
  IN  IF IsBuy(lane)
      THEN LET tax   == CalculateTax(o.ix.amountIn, BuyTaxBps)
               taxed == Collect(ledger, k, lane,
                                IF lane = "SolBuy" THEN k.user ELSE payer, tax)
           IN  Move(Move(taxed, payer, quotes, o.ix.amountIn - tax), tokens, payee, out)
      ELSE LET gross == CalculateSwapOutput(ledger[tokens], ledger[quotes],
                          CalculateEffectiveInput(o.ix.amountIn, LpFeeBps))
               paid  == Move(Move(ledger, payer, tokens, o.ix.amountIn), quotes, payee, out)
           IN  Collect(paid, k, lane, quotes, gross - out)

-----------------------------------------------------------------------------
(* The Conversion Vault *)

ConvertAccepts(o) ==
  LET k   == Keys(o)
      in  == k.input_mint[1]
      out == k.output_mint[1]
  IN  /\ ComputeVaultOutput(in, out, o.ix.amountIn) # None
      /\ k.vault_input = VaultTokenAccount(in) /\ k.vault_output = VaultTokenAccount(out)
      /\ MintOf(k.user_input) = in /\ MintOf(k.user_output) = out
      /\ OwnerOf(k.user_input) = k.user
      /\ Hooks(o) = HookAccounts(in, k.user_input, k.vault_input)
                    \o HookAccounts(out, k.vault_output, k.user_output)

AfterConversion(o) ==
  LET k   == Keys(o)
      out == ComputeVaultOutput(k.input_mint[1], k.output_mint[1], o.ix.amountIn)
  IN  Move(Move(ledger, k.user_input, k.vault_input, o.ix.amountIn),
           k.vault_output, k.user_output, out)

-----------------------------------------------------------------------------
(* Execution of an order *)

\* The runtime and the program take the accounts of the list as they are.
Accepts(o) ==
  LET named == Named(o) IN
  /\ Len(o.metas) >= Len(Names(o.ix.lane))
  /\ named["user"].signer
  /\ \A n \in Writable(o.ix.lane) : named[n].writable
  /\ \A n \in NameSet(o.ix.lane) \cap DOMAIN Pinned : named[n].key = Pinned[n]
  /\ IF o.ix.lane = "ConvertV2" THEN ConvertAccepts(o) ELSE TaxProgramAccepts(o)

After(o) == IF o.ix.lane = "ConvertV2" THEN AfterConversion(o) ELSE AfterTaxedSwap(o)

\* It also finds the funds, overflows no account and pays at least the minimum.
Succeeds(o) ==
  /\ Accepts(o)
  /\ o.ix.lane # "ConvertV2" =>
       SwapOutput(PoolAt(Keys(o).pool), o.ix.lane, o.ix.amountIn) >= o.ix.minimumOutput
  /\ \A a \in Accounts : After(o)[a] \in U64

-----------------------------------------------------------------------------
(* Actions *)

Init ==
  /\ ledger = [a \in Accounts |->
                 IF a \in TraderAccounts THEN InitTrader[a[3]]
                 ELSE IF a \in PoolVaults \cup VaultAccounts THEN InitReserve
                 ELSE IF a \in {Wallet(h) : h \in Holders} THEN InitTrader[NATIVE_MINT]
                 ELSE 0]
  /\ orders = [h \in Holders |-> NoOrder]
  /\ built = 0

Place(h, ix, metas, source, dest, amount, quoted, via) ==
  /\ built < MaxSwaps /\ orders[h] = NoOrder
  /\ quoted > 0
  /\ orders' = [orders EXCEPT ![h] =
       [ix |-> ix, metas |-> metas, source |-> source, dest |-> dest,
        amount |-> amount, quoted |-> quoted, via |-> via]]
  /\ built' = built + 1
  /\ UNCHANGED ledger

\* The engine quotes a pool instance, then asks it for the accounts; the empty
\* list of an instance that cannot build what it quoted is never accepted.
BuildPoolSwap(h, payee, id, isBuy, amount) ==
  LET a      == PoolAmm(id)
      input  == IF isBuy THEN a.quoteMint ELSE a.factionMint
      output == IF isBuy THEN a.factionMint ELSE a.quoteMint
      source == TokenAccount(h, input)
      dest   == TokenAccount(payee, output)
      lane   == ForMints(a.quoteMint, a.factionMint, input, output)
      quoted == SwapOutput(id, IF isBuy THEN "SplBuy" ELSE "SplSell", amount)
      metas  == PoolSwapMetas(a, input, output, Wallet(h), source, dest)
      ix     == Encode(lane, amount, SaturatingSub(quoted, Slippage),
                       a.factionMint = CRIME_MINT)
  IN  /\ ledger[source] >= amount
      /\ Place(h, ix, metas, source, dest, amount, quoted, "engine")

BuildConversion(h, payee, input, output, amount) ==
  LET source == TokenAccount(h, input)
      dest   == TokenAccount(payee, output)
      quoted == ComputeVaultOutput(input, output, amount)
      ix     == [lane |-> "ConvertV2", amountIn |-> amount, minimumOutput |-> quoted,
                 witness |-> {}]
  IN  /\ ledger[source] >= amount
      /\ quoted <= ledger[VaultTokenAccount(output)]
      /\ Place(h, ix, VaultSwapMetas(<<input, output>>, input, output, Wallet(h), source, dest),
               source, dest, amount, quoted, "engine")

\* A direct caller of the constant-based API uses the legacy buy.
BuildLegacyBuy(h, id, amount) ==
  LET source == TokenAccount(h, NATIVE_MINT)
      dest   == TokenAccount(h, FactionMint(id))
      quoted == SwapOutput(id, "SolBuy", amount)
  IN  /\ id.mintA = NATIVE_MINT
      /\ Place(h, Encode("SolBuy", amount, SaturatingSub(quoted, Slippage),
                         FactionMint(id) = CRIME_MINT),
               SolBuyMetas(Wallet(h), source, dest, Key(id), id),
               source, dest, amount, quoted, "direct")

Execute(h) ==
  /\ orders[h] # NoOrder /\ Succeeds(orders[h])
  /\ ledger' = After(orders[h])
  /\ orders' = [orders EXCEPT ![h] = NoOrder]
  /\ UNCHANGED built

\* A failed transaction changes nothing.
Fail(h) ==
  /\ orders[h] # NoOrder /\ ~Succeeds(orders[h])
  /\ orders' = [orders EXCEPT ![h] = NoOrder]
  /\ UNCHANGED <<ledger, built>>

Next ==
  \E h \in Holders :
    \/ \E payee \in Holders, id \in Pools, isBuy \in BOOLEAN, amount \in Amounts :
         BuildPoolSwap(h, payee, id, isBuy, amount)
    \/ \E payee \in Holders, m \in FactionMints, amount \in Amounts :
         \/ BuildConversion(h, payee, m, PROFIT_MINT, amount)
         \/ BuildConversion(h, payee, PROFIT_MINT, m, amount)
    \/ \E id \in Pools, amount \in Amounts : BuildLegacyBuy(h, id, amount)
    \/ Execute(h)
    \/ Fail(h)

Spec == Init /\ [][Next]_vars

-----------------------------------------------------------------------------
(* Properties *)

\* Every address a list may hold.
Known ==
  Accounts \cup {Pinned[n] : n \in DOMAIN Pinned} \cup {Key(id) : id \in Pools}
  \cup {At(m) : m \in Traded} \cup {At(SPL_TOKEN_PROGRAM_ID), At(TOKEN_2022_PROGRAM_ID)}
  \cup {HookMetaList(m) : m \in Traded} \cup {Whitelist(a) : a \in Accounts}
  \cup {TRANSFER_HOOK_PROGRAM}

\* Balances stay u64, and a pending list holds only addresses of the protocol,
\* of the pools and of the traders.
TypeOK ==
  /\ ledger \in [Accounts -> U64]
  /\ built \in 0 .. MaxSwaps
  /\ \A h \in Holders : orders[h] # NoOrder =>
       LET o == orders[h] IN
       /\ o.source \in TraderAccounts /\ o.dest \in TraderAccounts
       /\ \A i \in 1 .. Len(o.metas) : o.metas[i].key \in Known

\* Whatever the orientation of the pool, the token program of its quote, the
\* direction and the owners of the accounts, the program finds in every list an
\* instance builds the accounts it wants where it looks for them, with the
\* rights it needs and the hook accounts of the transfer it makes.
BuiltSwapsAreAccepted ==
  \A h \in Holders : orders[h] # NoOrder => Accepts(orders[h])

\* No list asks for more than its program does: every other account is read-only
\* and only the user signs, so that a shared authority can be passed on; and the
\* list fits the number of accounts the instance declares to the engine.
ListsAskForNoMore ==
  \A h \in Holders : orders[h] # NoOrder =>
    LET o == orders[h]
        n == Len(Names(o.ix.lane))
    IN  /\ \A i \in 1 .. Len(o.metas) :
             /\ o.metas[i].writable <=> (i <= n /\ Names(o.ix.lane)[i] \in Writable(o.ix.lane))
             /\ o.metas[i].signer <=> i = 1
        /\ IF o.ix.lane = "ConvertV2" THEN Len(o.metas) = VaultAccountsLen
           ELSE Len(o.metas) <= PoolAccountsLen(PoolAmm(PoolAt(Keys(o).pool)))

\* An executed order takes exactly its amount from the account the engine named
\* as the source, pays at least the quote less the slippage into the one it named
\* as the destination, and moves no other trader's tokens.
SettlesAsOrdered ==
  [][\A h \in Holders :
       LET o == orders[h] IN
       o # NoOrder /\ orders'[h] = NoOrder /\ ledger' # ledger =>
         /\ o.via = "engine" => ledger'[o.source] = ledger[o.source] - o.amount
         /\ ledger'[o.dest] - ledger[o.dest] >= SaturatingSub(o.quoted, Slippage)
         /\ \A a \in TraderAccounts \ {o.source, o.dest} : ledger'[a] = ledger[a]]_vars

\* A swap routed by the engine never spends the signer's own lamports
\* ("no native SOL is touched", src/README.md:111).
RoutedSwapsSpareLamports ==
  [][\A h \in Holders :
       orders[h] # NoOrder /\ orders'[h] = NoOrder /\ orders[h].via = "engine" =>
         ledger'[Wallet(h)] = ledger[Wallet(h)]]_vars
=============================================================================
