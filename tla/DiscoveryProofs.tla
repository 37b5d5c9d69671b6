--------------------------- MODULE DiscoveryProofs ---------------------------
(***************************************************************************)
(* Proofs about AmmDiscovery, for any accounts on chain, any order of the  *)
(* mints' keys and any listings.  What every step keeps is IInv: a held    *)
(* instance is one from_keyed_account made of an account that was on chain *)
(* at its key, or one of the vault's, and no two are held under one key.   *)
(***************************************************************************)
EXTENDS AmmDiscovery, TLAPS

(* Account lists: their lengths, and the addresses they draw on *)

MetasOver(K) == [key : K, signer : BOOLEAN, writable : BOOLEAN]

\* Lists of n accounts with keys from K
ListsOf(K, n) == {s \in Seq(MetasOver(K)) : Len(s) = n}

ProtocolKeys ==
  {EPOCH_STATE_PDA, SWAP_AUTHORITY_PDA, TAX_AUTHORITY_PDA, STAKE_POOL_PDA, ESCROW_VAULT_PDA,
   CARNAGE_SOL_VAULT_PDA, TREASURY, WSOL_INTERMEDIARY_PDA, SWEEP_AUTHORITY, SYSTEM_PROGRAM,
   STAKING_PROGRAM, TRANSFER_HOOK_PROGRAM, At(AMM_PROGRAM_ID)}

\* The addresses a pool's lists draw on.
PoolKeys(key, id) ==
  ProtocolKeys \cup {User, Source, Dest, SweepAccount(id), key}
    \cup {At(x) : x \in {id.vaultA, id.vaultB, id.mintA, id.mintB,
                         id.tokenProgramA, id.tokenProgramB}}
    \cup {HookMetaList(mint) : mint \in {id.mintA, id.mintB}}
    \cup {Whitelist(x) : x \in {Source, Dest, At(id.vaultA), At(id.vaultB)}}

LEMMA MetaTyped ==
  ASSUME NEW K, NEW x \in K, NEW signer \in BOOLEAN, NEW writable \in BOOLEAN
  PROVE  Meta(x, signer, writable) \in MetasOver(K) /\ Mut(x) \in MetasOver(K)
         /\ Ro(x) \in MetasOver(K)
  BY DEF Meta, Mut, Ro, MetasOver

LEMMA Joined ==
  ASSUME NEW K, NEW m \in Nat, NEW n \in Nat, NEW s \in ListsOf(K, m), NEW t \in ListsOf(K, n)
  PROVE  s \o t \in ListsOf(K, m + n)
  BY DEF ListsOf

\* Lists written out
LEMMA WrittenOut ==
  ASSUME NEW K, NEW a \in MetasOver(K)
  PROVE  /\ <<a>> \in ListsOf(K, 1)
         /\ \A b \in MetasOver(K) :
              /\ <<a, b>> \in ListsOf(K, 2)
              /\ \A c, d \in MetasOver(K) :
                   /\ <<a, b, c, d>> \in ListsOf(K, 4)
                   /\ \A e \in MetasOver(K) : <<a, b, c, d, e>> \in ListsOf(K, 5)
  <1>1. <<a>> \in ListsOf(K, 1)
    BY DEF ListsOf
  <1>2. ASSUME NEW b \in MetasOver(K)
        PROVE  <<a, b>> \in ListsOf(K, 2)
    BY DEF ListsOf
  <1>3. ASSUME NEW b \in MetasOver(K), NEW c \in MetasOver(K), NEW d \in MetasOver(K)
        PROVE  <<a, b, c, d>> \in ListsOf(K, 4)
    BY DEF ListsOf
  <1>4. ASSUME NEW b \in MetasOver(K), NEW c \in MetasOver(K), NEW d \in MetasOver(K),
               NEW e \in MetasOver(K)
        PROVE  <<a, b, c, d, e>> \in ListsOf(K, 5)
    BY DEF ListsOf
  <1> QED BY <1>1, <1>2, <1>3, <1>4

\* The extra accounts of a transfer hook are four, for a mint of the protocol.
LEMMA HookList ==
  ASSUME NEW K, NEW mint \in FactionMints \cup {PROFIT_MINT}, NEW source, NEW dest,
         {HookMetaList(mint), Whitelist(source), Whitelist(dest), TRANSFER_HOOK_PROGRAM}
           \subseteq K
  PROVE  HookMetasForMint(mint, source, dest) \in ListsOf(K, 4)
  BY MetaTyped, WrittenOut DEF HookMetasForMint

\* The pieces the lists of every lane are put together from
LEMMA PieceLists ==
  ASSUME NEW key, NEW id, NEW flag \in BOOLEAN,
         NEW x \in PoolKeys(key, id), NEW y \in PoolKeys(key, id)
  PROVE  /\ PoolMetas(key, id) \in ListsOf(PoolKeys(key, id), 5)
         /\ OnSides(flag, x, y) \in ListsOf(PoolKeys(key, id), 2)
         /\ TokenPrograms(id) \in ListsOf(PoolKeys(key, id), 2)
         /\ TaxDestinations \in ListsOf(PoolKeys(key, id), 4)
  <1> DEFINE K == PoolKeys(key, id)
  <1>1. \A k \in K : Mut(k) \in MetasOver(K) /\ Ro(k) \in MetasOver(K)
    BY MetaTyped
  <1>2. {key, At(id.vaultA), At(id.vaultB), At(id.mintA), At(id.mintB),
         At(id.tokenProgramA), At(id.tokenProgramB), STAKE_POOL_PDA, ESCROW_VAULT_PDA,
         CARNAGE_SOL_VAULT_PDA, TREASURY} \subseteq K
    BY DEF PoolKeys, ProtocolKeys
  <1>3. x \in K /\ y \in K
    OBVIOUS
  <1> HIDE DEF K
  <1>4. PoolMetas(key, id) \in ListsOf(K, 5)
    BY <1>1, <1>2, WrittenOut DEF PoolMetas
  <1>5. OnSides(flag, x, y) \in ListsOf(K, 2)
    BY <1>1, <1>3, WrittenOut DEF OnSides
  <1>6. TokenPrograms(id) \in ListsOf(K, 2)
    BY <1>1, <1>2, WrittenOut DEF TokenPrograms
  <1>7. TaxDestinations \in ListsOf(K, 4)
    BY <1>1, <1>2, WrittenOut DEF TaxDestinations
  <1> QED BY <1>4, <1>5, <1>6, <1>7 DEF K

\* The mint and the vault of a WSOL pool's other side
LEMMA SolSides ==
  ASSUME NEW id, HasOneFactionSide(id), QuoteMint(id) = NATIVE_MINT
  PROVE  LET s == ResolveSides(id) IN
         /\ IsSolPool(id) /\ s.tokenOnA \in BOOLEAN
         /\ s.mint = FactionMint(id) /\ s.mint \in {id.mintA, id.mintB}
         /\ s.vault \in {At(id.vaultA), At(id.vaultB)}
  BY DEF HasOneFactionSide, QuoteMint, FactionMint, ResolveSides, IsSolPool, FactionMints,
         NATIVE_MINT, CRIME_MINT, FRAUD_MINT

\* Both lists through the WSOL intermediary fill the announced bound exactly.
LEMMA WsolList ==
  ASSUME NEW key, NEW id, NEW isBuy \in BOOLEAN, NEW token \in {Source, Dest},
         NEW wsol \in {Source, Dest}, HasOneFactionSide(id), QuoteMint(id) = NATIVE_MINT
  PROVE  WsolIntermediaryMetas(User, token, wsol, key, id, isBuy)
           \in ListsOf(PoolKeys(key, id), 25)
  <1> DEFINE K == PoolKeys(key, id)
             s == ResolveSides(id)
             head == <<Meta(User, TRUE, FALSE), Ro(EPOCH_STATE_PDA), Mut(SWAP_AUTHORITY_PDA),
                       Ro(TAX_AUTHORITY_PDA)>>
             mid  == <<Mut(WSOL_INTERMEDIARY_PDA), Ro(At(AMM_PROGRAM_ID))>>
             tail == <<Ro(SYSTEM_PROGRAM), Ro(STAKING_PROGRAM)>>
             hook == IF isBuy THEN HookMetasForMint(s.mint, s.vault, token)
                              ELSE HookMetasForMint(s.mint, token, s.vault)
  <1>1. /\ IsSolPool(id) /\ s.tokenOnA \in BOOLEAN
        /\ s.mint \in FactionMints /\ s.mint \in {id.mintA, id.mintB}
        /\ s.vault \in {At(id.vaultA), At(id.vaultB)}
    BY SolSides DEF HasOneFactionSide, FactionMint
  <1>2. /\ {User, token, wsol, EPOCH_STATE_PDA, SWAP_AUTHORITY_PDA, TAX_AUTHORITY_PDA,
            WSOL_INTERMEDIARY_PDA, At(AMM_PROGRAM_ID), SYSTEM_PROGRAM, STAKING_PROGRAM,
            TRANSFER_HOOK_PROGRAM} \subseteq K
        /\ {HookMetaList(s.mint), Whitelist(s.vault), Whitelist(token)} \subseteq K
    BY <1>1 DEF PoolKeys, ProtocolKeys
  <1>3. \A k \in K : Mut(k) \in MetasOver(K) /\ Ro(k) \in MetasOver(K)
                     /\ Meta(k, TRUE, FALSE) \in MetasOver(K)
    BY MetaTyped
  <1>4. hook \in ListsOf(K, 4)
    <2> HIDE DEF K, s
    <2> QED BY <1>1, <1>2, HookList
  <1>5. /\ PoolMetas(key, id) \in ListsOf(K, 5) /\ TokenPrograms(id) \in ListsOf(K, 2)
        /\ OnSides(s.tokenOnA, token, wsol) \in ListsOf(K, 2)
        /\ TaxDestinations \in ListsOf(K, 4)
    BY <1>1, <1>2, PieceLists
  <1>6. WsolIntermediaryMetas(User, token, wsol, key, id, isBuy)
          = head \o PoolMetas(key, id) \o OnSides(s.tokenOnA, token, wsol)
              \o TaxDestinations \o mid \o TokenPrograms(id) \o tail \o hook
    BY <1>1 DEF WsolIntermediaryMetas
  <1> HIDE DEF K, s, hook
  <1>7. head \in ListsOf(K, 4)
    BY <1>2, <1>3, WrittenOut
  <1>8. mid \in ListsOf(K, 2) /\ tail \in ListsOf(K, 2)
    BY <1>2, <1>3, WrittenOut
  <1> HIDE DEF head, mid, tail
  <1>9. head \o PoolMetas(key, id) \in ListsOf(K, 9)
    BY <1>5, <1>7, Joined
  <1>10. head \o PoolMetas(key, id) \o OnSides(s.tokenOnA, token, wsol) \in ListsOf(K, 11)
    BY <1>5, <1>9, Joined
  <1>11. head \o PoolMetas(key, id) \o OnSides(s.tokenOnA, token, wsol)
           \o TaxDestinations \in ListsOf(K, 15)
    BY <1>5, <1>10, Joined
  <1>12. head \o PoolMetas(key, id) \o OnSides(s.tokenOnA, token, wsol)
           \o TaxDestinations \o mid \in ListsOf(K, 17)
    BY <1>8, <1>11, Joined
  <1>13. head \o PoolMetas(key, id) \o OnSides(s.tokenOnA, token, wsol)
           \o TaxDestinations \o mid \o TokenPrograms(id) \in ListsOf(K, 19)
    BY <1>5, <1>12, Joined
  <1>14. head \o PoolMetas(key, id) \o OnSides(s.tokenOnA, token, wsol)
           \o TaxDestinations \o mid \o TokenPrograms(id) \o tail \in ListsOf(K, 21)
    BY <1>8, <1>13, Joined
  <1>15. head \o PoolMetas(key, id) \o OnSides(s.tokenOnA, token, wsol)
           \o TaxDestinations \o mid \o TokenPrograms(id) \o tail \o hook
           \in ListsOf(K, 25)
    BY <1>4, <1>14, Joined
  <1> QED BY <1>6, <1>15 DEF K

\* The faction side and the quote side of a pool
LEMMA FactionSides ==
  ASSUME NEW id, HasOneFactionSide(id)
  PROVE  LET s == ResolveFactionSides(id) IN
         /\ s.factionIsA \in BOOLEAN
         /\ s.factionMint = FactionMint(id) /\ s.quoteMint = QuoteMint(id)
         /\ s.factionVault \in {At(id.vaultA), At(id.vaultB)}
         /\ s.quoteTokenProgram \in {id.tokenProgramA, id.tokenProgramB}
         /\ FactionMint(id) \in FactionMints /\ QuoteMint(id) \notin FactionMints
         /\ {FactionMint(id), QuoteMint(id)} = {id.mintA, id.mintB}
  BY DEF HasOneFactionSide, QuoteMint, FactionMint, ResolveFactionSides

\* Both SPL lists stay within the announced bound.
LEMMA SplLists ==
  ASSUME NEW key, NEW id, NEW user \in {Source, Dest}, NEW quote \in {Source, Dest},
         HasFactionSides(id)
  PROVE  /\ SplBuyMetas(User, quote, user, key, id) \in ListsOf(PoolKeys(key, id), 21)
         /\ SplSellMetas(User, user, quote, key, id) \in ListsOf(PoolKeys(key, id), 22)
  <1> DEFINE K == PoolKeys(key, id)
             s == ResolveFactionSides(id)
             front == <<Meta(User, TRUE, FALSE), Ro(EPOCH_STATE_PDA)>>
             back  == <<Ro(SWAP_AUTHORITY_PDA), Ro(SWEEP_AUTHORITY), Ro(At(s.quoteMint)),
                        Mut(SweepAccount(id))>>
             quoteProgram == <<Ro(At(s.quoteTokenProgram))>>
             amm   == <<Ro(At(AMM_PROGRAM_ID))>>
             paid  == <<Mut(quote)>>
             hookIn  == HookMetasForMint(s.factionMint, s.factionVault, user)
             hookOut == HookMetasForMint(s.factionMint, user, s.factionVault)
  <1>1. /\ s.factionIsA \in BOOLEAN /\ s.factionMint \in FactionMints
        /\ s.factionMint \in {id.mintA, id.mintB} /\ s.quoteMint \in {id.mintA, id.mintB}
        /\ s.factionVault \in {At(id.vaultA), At(id.vaultB)}
        /\ s.quoteTokenProgram \in {id.tokenProgramA, id.tokenProgramB}
    BY FactionSides DEF HasFactionSides
  <1>2. /\ {User, user, quote, EPOCH_STATE_PDA, SWAP_AUTHORITY_PDA, SWEEP_AUTHORITY,
            SweepAccount(id), At(AMM_PROGRAM_ID), TRANSFER_HOOK_PROGRAM} \subseteq K
        /\ {At(s.quoteMint), At(s.quoteTokenProgram), HookMetaList(s.factionMint),
            Whitelist(s.factionVault), Whitelist(user)} \subseteq K
    BY <1>1 DEF PoolKeys, ProtocolKeys
  <1>3. \A k \in K : Mut(k) \in MetasOver(K) /\ Ro(k) \in MetasOver(K)
                     /\ Meta(k, TRUE, FALSE) \in MetasOver(K)
    BY MetaTyped
  <1>4. hookIn \in ListsOf(K, 4) /\ hookOut \in ListsOf(K, 4)
    <2> HIDE DEF K, s
    <2> QED BY <1>1, <1>2, HookList
  <1>5. /\ PoolMetas(key, id) \in ListsOf(K, 5) /\ TokenPrograms(id) \in ListsOf(K, 2)
        /\ OnSides(s.factionIsA, user, quote) \in ListsOf(K, 2)
        /\ OnSides(s.factionIsA, user, SweepAccount(id)) \in ListsOf(K, 2)
    BY <1>1, <1>2, PieceLists
  <1>6. ASSUME NEW slot, OnSides(s.factionIsA, user, slot) \in ListsOf(K, 2)
        PROVE  SplHead(User, slot, user, key, id) \in ListsOf(K, 13)
    <2>1. SplHead(User, slot, user, key, id)
            = front \o PoolMetas(key, id) \o OnSides(s.factionIsA, user, slot) \o back
      BY DEF SplHead
    <2> HIDE DEF K, s
    <2>2. front \in ListsOf(K, 2)
      BY <1>2, <1>3, WrittenOut
    <2>3. back \in ListsOf(K, 4)
      BY <1>2, <1>3, WrittenOut
    <2> HIDE DEF front, back
    <2>4. front \o PoolMetas(key, id) \in ListsOf(K, 7)
      BY <1>5, <2>2, Joined
    <2>5. front \o PoolMetas(key, id) \o OnSides(s.factionIsA, user, slot) \in ListsOf(K, 9)
      BY <1>6, <2>4, Joined
    <2>6. front \o PoolMetas(key, id) \o OnSides(s.factionIsA, user, slot) \o back
            \in ListsOf(K, 13)
      BY <2>3, <2>5, Joined
    <2> QED BY <2>1, <2>6
  <1>7. SplTail(id) \in ListsOf(K, 4)
    <2>1. SplTail(id) = quoteProgram \o TokenPrograms(id) \o amm
      BY DEF SplTail
    <2> HIDE DEF K, s
    <2>2. quoteProgram \in ListsOf(K, 1) /\ amm \in ListsOf(K, 1)
      BY <1>2, <1>3, WrittenOut
    <2> HIDE DEF quoteProgram, amm
    <2>3. quoteProgram \o TokenPrograms(id) \in ListsOf(K, 3)
      BY <1>5, <2>2, Joined
    <2>4. quoteProgram \o TokenPrograms(id) \o amm \in ListsOf(K, 4)
      BY <2>2, <2>3, Joined
    <2> QED BY <2>1, <2>4
  <1>8. SplBuyMetas(User, quote, user, key, id) \in ListsOf(K, 21)
    <2> DEFINE head == SplHead(User, quote, user, key, id)
    <2>1. SplBuyMetas(User, quote, user, key, id) = head \o SplTail(id) \o hookIn
      BY DEF SplBuyMetas
    <2>2. head \in ListsOf(K, 13)
      BY <1>5, <1>6
    <2> HIDE DEF K, head, hookIn
    <2>3. head \o SplTail(id) \in ListsOf(K, 17)
      BY <1>7, <2>2, Joined
    <2>4. head \o SplTail(id) \o hookIn \in ListsOf(K, 21)
      BY <1>4, <2>3, Joined
    <2> QED BY <2>1, <2>4
  <1>9. SplSellMetas(User, user, quote, key, id) \in ListsOf(K, 22)
    <2> DEFINE head == SplHead(User, SweepAccount(id), user, key, id)
    <2>1. SplSellMetas(User, user, quote, key, id) = head \o paid \o SplTail(id) \o hookOut
      BY DEF SplSellMetas
    <2>2. head \in ListsOf(K, 13)
      BY <1>5, <1>6
    <2> HIDE DEF K
    <2>3. paid \in ListsOf(K, 1)
      BY <1>2, <1>3, WrittenOut
    <2> HIDE DEF head, paid, hookOut
    <2>4. head \o paid \in ListsOf(K, 14)
      BY <2>2, <2>3, Joined
    <2>5. head \o paid \o SplTail(id) \in ListsOf(K, 18)
      BY <1>7, <2>4, Joined
    <2>6. head \o paid \o SplTail(id) \o hookOut \in ListsOf(K, 22)
      BY <1>4, <2>5, Joined
    <2> QED BY <2>1, <2>6
  <1> QED BY <1>8, <1>9 DEF K

\* The addresses a conversion's list draws on
ConversionKeys ==
  {User, Source, Dest, VAULT_CONFIG_PDA, At(TOKEN_2022_PROGRAM_ID), TRANSFER_HOOK_PROGRAM}
    \cup {Whitelist(Source), Whitelist(Dest)}
    \cup UNION {{At(m), VaultTokenAccount(m), HookMetaList(m), Whitelist(VaultTokenAccount(m))} :
                  m \in FactionMints \cup {PROFIT_MINT}}

\* A conversion runs two transfer hooks and fills its announced bound exactly.
LEMMA VaultList ==
  ASSUME NEW input \in FactionMints \cup {PROFIT_MINT},
         NEW output \in FactionMints \cup {PROFIT_MINT}
  PROVE  VaultMetas(User, Source, Dest, input, output) \in ListsOf(ConversionKeys, 17)
  <1> DEFINE K == ConversionKeys
             a == Meta(User, TRUE, FALSE)
             b == Ro(VAULT_CONFIG_PDA)
             c == Mut(Source)
             d == Mut(Dest)
             e == Ro(At(input))
             f == Ro(At(output))
             g == Mut(VaultTokenAccount(input))
             h == Mut(VaultTokenAccount(output))
             i == Ro(At(TOKEN_2022_PROGRAM_ID))
             head    == <<a, b, c, d, e, f, g, h, i>>
             hookIn  == HookMetasForMint(input, Source, VaultTokenAccount(input))
             hookOut == HookMetasForMint(output, VaultTokenAccount(output), Dest)
  <1>1. /\ {User, Source, Dest, VAULT_CONFIG_PDA, At(TOKEN_2022_PROGRAM_ID),
            TRANSFER_HOOK_PROGRAM, Whitelist(Source), Whitelist(Dest)} \subseteq K
        /\ {At(input), At(output), VaultTokenAccount(input), VaultTokenAccount(output),
            HookMetaList(input), HookMetaList(output), Whitelist(VaultTokenAccount(input)),
            Whitelist(VaultTokenAccount(output))} \subseteq K
    BY DEF ConversionKeys
  <1>2. \A k \in K : Mut(k) \in MetasOver(K) /\ Ro(k) \in MetasOver(K)
                     /\ Meta(k, TRUE, FALSE) \in MetasOver(K)
    BY MetaTyped
  <1>3. VaultMetas(User, Source, Dest, input, output) = head \o hookIn \o hookOut
    BY DEF VaultMetas
  <1> HIDE DEF K
  <1>4. {a, b, c, d, e, f, g, h, i} \subseteq MetasOver(K)
    BY <1>1, <1>2
  <1>5. hookIn \in ListsOf(K, 4) /\ hookOut \in ListsOf(K, 4)
    BY <1>1, HookList
  <1> HIDE DEF a, b, c, d, e, f, g, h, i
  <1>6. head \in ListsOf(K, 9)
    BY <1>4 DEF ListsOf
  <1> HIDE DEF head, hookIn, hookOut
  <1>7. head \o hookIn \in ListsOf(K, 13)
    BY <1>5, <1>6, Joined
  <1>8. head \o hookIn \o hookOut \in ListsOf(K, 17)
    BY <1>5, <1>7, Joined
  <1> QED BY <1>3, <1>8 DEF K

-----------------------------------------------------------------------------
(* What is held *)

MadeOfAPool(r) ==
  \E k \in Keys : \E raw \in CellsAt[k] : Admits(k, Cell(raw)) /\ r = PoolRoute(k, raw.id)

MadeOfTheVault(r) == \E dir \in Directions : r = VaultRoute(r.key, dir)

OnePerKey == \A r, s \in listed : r.key = s.key => r = s

IInv ==
  /\ accounts \in [Keys -> UNION {CellsAt[k] : k \in Keys}]
  /\ \A k \in Keys : accounts[k] \in CellsAt[k]
  /\ fetched # Nothing => \A k \in DOMAIN fetched : k \in Keys /\ fetched[k] \in CellsAt[k]
  /\ \A r \in listed : MadeOfAPool(r) \/ MadeOfTheVault(r)
  /\ OnePerKey

\* What from_keyed_account has checked of an account it takes.
LEMMA Admitted ==
  ASSUME NEW k, NEW raw, Admits(k, Cell(raw))
  PROVE  LET id == raw.id IN
         /\ raw # Absent /\ raw.owner = AMM_PROGRAM_ID /\ IsCanonical(k, id)
         /\ {id.tokenProgramA, id.tokenProgramB}
              \subseteq {SPL_TOKEN_PROGRAM_ID, TOKEN_2022_PROGRAM_ID}
         /\ HasOneFactionSide(id) /\ HasFactionSides(id)
         /\ TokenProgramOf(id, FactionMint(id)) = TOKEN_2022_PROGRAM_ID
         /\ QuoteMint(id) = NATIVE_MINT =>
              TokenProgramOf(id, NATIVE_MINT) = SPL_TOKEN_PROGRAM_ID
  <1>1. raw # Absent
    BY DEF Admits, Parses, Cell
  <1>2. Cell(raw) = [owner |-> raw.owner, data |-> PoolStateFromBytes(raw)]
    BY <1>1 DEF Cell
  <1>3. Cell(raw).data.id = raw.id
    BY <1>2 DEF Admits, Parses, PoolStateFromBytes
  <1>4. raw.owner = AMM_PROGRAM_ID
    BY <1>2 DEF Admits
  <1> QED BY <1>1, <1>3, <1>4 DEF Admits, HasFactionSides, TokenProgramOf

\* The fields of an instance
LEMMA InstanceFields ==
  ASSUME NEW k, NEW id, NEW dir
  PROVE  /\ IsPool(PoolRoute(k, id)) /\ PoolRoute(k, id).key = k /\ PoolRoute(k, id).id = id
         /\ PoolRoute(k, id).quoteMint = QuoteMint(id)
         /\ PoolRoute(k, id).factionMint = FactionMint(id)
         /\ ~IsPool(VaultRoute(k, dir)) /\ VaultRoute(k, dir).key = k
         /\ VaultRoute(k, dir).dir = dir
         /\ VaultRoute(k, dir).outputVault = OutputVault(dir)
  BY DEF IsPool, PoolRoute, VaultRoute

\* A held pool and the account it was made of.
LEMMA HeldPool ==
  ASSUME IInv, NEW r \in listed, IsPool(r)
  PROVE  \E raw \in CellsAt[r.key] :
           /\ r.key \in Keys /\ Admits(r.key, Cell(raw)) /\ r = PoolRoute(r.key, raw.id)
  <1>1. ~MadeOfTheVault(r)
    BY InstanceFields DEF MadeOfTheVault
  <1> QED BY <1>1, InstanceFields DEF IInv, MadeOfAPool

LEMMA HeldConversion ==
  ASSUME IInv, NEW r \in listed, ~IsPool(r)
  PROVE  r.dir \in Directions /\ r = VaultRoute(r.key, r.dir)
  <1>1. ~MadeOfAPool(r)
    BY InstanceFields DEF MadeOfAPool
  <1> QED BY <1>1, InstanceFields DEF IInv, MadeOfTheVault

-----------------------------------------------------------------------------
(* The inductive invariant *)

\* What is added is new, of the instances offered, and one for a key.
LEMMA RegisterKeeps ==
  ASSUME IInv, NEW routes, listed' = listed \cup Unheld(routes),
         \A r \in routes : MadeOfAPool(r) \/ MadeOfTheVault(r)
  PROVE  /\ OnePerKey'
         /\ \A r \in listed' : MadeOfAPool(r) \/ MadeOfTheVault(r)
  <1>1. ASSUME NEW r \in Unheld(routes)
        PROVE  /\ r \in routes /\ \A held \in listed : held.key # r.key
               /\ r = CHOOSE x \in routes : x.key = r.key
    <2>1. PICK key \in {x.key : x \in routes} \ {held.key : held \in listed} :
            r = CHOOSE x \in routes : x.key = key
      BY DEF Unheld
    <2>2. r \in routes /\ r.key = key
      BY <2>1
    <2> QED BY <2>1, <2>2
  <1>2. ASSUME NEW r \in listed', NEW s \in listed', r.key = s.key
        PROVE  r = s
    <2>1. CASE r \in Unheld(routes) /\ s \in Unheld(routes)
      BY <1>1, <1>2, <2>1
    <2>2. CASE r \in listed /\ s \in listed
      BY <1>2, <2>2 DEF IInv, OnePerKey
    <2> QED BY <1>1, <1>2, <2>1, <2>2
  <1>3. \A r \in listed' : MadeOfAPool(r) \/ MadeOfTheVault(r)
    BY <1>1 DEF IInv
  <1> QED BY <1>2, <1>3 DEF OnePerKey

LEMMA KnownInstancesMade ==
  \A r \in KnownInstances : MadeOfTheVault(r)
  BY InstanceFields DEF KnownInstances, MadeOfTheVault

\* Whatever is listed, the vault's instances convert in a direction of the vault.
LEMMA ListingMade ==
  ASSUME NEW listing, NEW r \in VaultFromKeyedAccount(listing)
  PROVE  MadeOfTheVault(r)
  <1>1. CASE listing.params = NoParams
    BY <1>1, KnownInstancesMade DEF VaultFromKeyedAccount
  <1>2. CASE listing.params # NoParams
    <2>1. \E dir \in Directions : r = VaultRoute(listing.key, dir)
      BY <1>2 DEF VaultFromKeyedAccount
    <2> QED BY <2>1, InstanceFields DEF MadeOfTheVault
  <1> QED BY <1>1, <1>2

LEMMA InitIInv == Init => IInv
  BY DiscoveryAssumption DEF Init, IInv, OnePerKey

LEMMA ChainMovesKeeps ==
  ASSUME IInv, NEW k \in Keys, NEW raw \in CellsAt[k], ChainMoves(k, raw)
  PROVE  IInv'
  <1>1. accounts' = [accounts EXCEPT ![k] = raw] /\ UNCHANGED <<fetched, listed>>
    BY DEF ChainMoves
  <1>2. raw \in UNION {CellsAt[x] : x \in Keys}
    OBVIOUS
  <1>3. accounts' \in [Keys -> UNION {CellsAt[x] : x \in Keys}]
    BY <1>1, <1>2 DEF IInv
  <1>4. \A x \in Keys : accounts'[x] \in CellsAt[x]
    BY <1>1 DEF IInv
  <1> QED BY <1>1, <1>3, <1>4 DEF IInv, OnePerKey

LEMMA FetchKeeps ==
  ASSUME IInv, Scan \/ FetchKnown
  PROVE  IInv'
  <1>1. PICK keys \in SUBSET Keys :
          fetched' = [k \in keys |-> accounts[k]] /\ UNCHANGED <<accounts, listed>>
    BY DEF Scan, FetchKnown, Fetch
  <1>2. \A k \in DOMAIN fetched' : k \in Keys /\ fetched'[k] \in CellsAt[k]
    BY <1>1 DEF IInv
  <1> QED BY <1>1, <1>2 DEF IInv, OnePerKey

LEMMA RegisterFetchedKeeps ==
  ASSUME IInv, RegisterFetched
  PROVE  IInv'
  <1> DEFINE taken == {k \in DOMAIN fetched : Admits(k, Cell(fetched[k]))}
             routes == {PoolRoute(k, fetched[k].id) : k \in taken}
  <1>1. /\ fetched # Nothing /\ fetched' = Nothing /\ UNCHANGED accounts
        /\ listed' = listed \cup Unheld(routes)
    BY DEF RegisterFetched
  <1>2. \A r \in routes : MadeOfAPool(r)
    BY <1>1 DEF IInv, MadeOfAPool
  <1> HIDE DEF routes
  <1>3. OnePerKey' /\ \A r \in listed' : MadeOfAPool(r) \/ MadeOfTheVault(r)
    BY <1>1, <1>2, RegisterKeeps
  <1> QED BY <1>1, <1>3 DEF IInv

LEMMA RegisterVaultKeeps ==
  ASSUME IInv, RegisterKnownInstances \/ \E listing \in VaultListings : RegisterListing(listing)
  PROVE  IInv'
  <1>1. PICK routes : /\ listed' = listed \cup Unheld(routes)
                      /\ \A r \in routes : MadeOfTheVault(r)
    BY KnownInstancesMade, ListingMade DEF RegisterKnownInstances, RegisterListing
  <1>2. UNCHANGED <<accounts, fetched>>
    BY DEF RegisterKnownInstances, RegisterListing
  <1>3. OnePerKey' /\ \A r \in listed' : MadeOfAPool(r) \/ MadeOfTheVault(r)
    BY <1>1, RegisterKeeps
  <1> QED BY <1>2, <1>3 DEF IInv

\* Every held instance was made as from_keyed_account makes one, in every
\* reachable state.
THEOREM HeldInstancesAreMade == Spec => []IInv
  <1>1. Init => IInv
    BY InitIInv
  <1>2. IInv /\ [Next]_vars => IInv'
    <2>1. ASSUME IInv, UNCHANGED vars PROVE IInv'
      BY <2>1 DEF vars, IInv, OnePerKey
    <2> QED BY <2>1, ChainMovesKeeps, FetchKeeps, RegisterFetchedKeeps, RegisterVaultKeeps
            DEF Next
  <1> QED BY <1>1, <1>2, PTL DEF Spec

-----------------------------------------------------------------------------
(* What follows *)

\* The two roles of an admitted pool are its two mints, and the quote is no
\* faction mint.
THEOREM DiscoveryTypesHold == Spec => []TypeOK
  <1>1. ASSUME IInv, NEW r \in listed
        PROVE  IF IsPool(r) THEN r.factionMint \in FactionMints /\ r.quoteMint \notin FactionMints
               ELSE r.dir \in Directions /\ r.outputVault = VaultForMint(r.dir[2])
    <2>1. CASE IsPool(r)
      BY <1>1, <2>1, HeldPool, Admitted, FactionSides, InstanceFields
    <2>2. CASE ~IsPool(r)
      BY <1>1, <2>2, HeldConversion, InstanceFields DEF OutputVault, Output
    <2> QED BY <2>1, <2>2
  <1>2. IInv => TypeOK
    BY <1>1 DEF IInv, TypeOK
  <1> QED BY <1>2, HeldInstancesAreMade, PTL

\* The pairs a held pool advertises determine its key: the order of the mints'
\* keys leaves one address for two mints.
LEMMA PairGivesKey ==
  ASSUME IInv, NEW r \in listed, NEW s \in listed, IsPool(r), IsPool(s),
         Advertised(r) \cap Advertised(s) # {}
  PROVE  r.key = s.key
  <1>1. PICK x \in CellsAt[r.key] :
          r.key \in Keys /\ Admits(r.key, Cell(x)) /\ r = PoolRoute(r.key, x.id)
    BY HeldPool
  <1>2. PICK y \in CellsAt[s.key] :
          s.key \in Keys /\ Admits(s.key, Cell(y)) /\ s = PoolRoute(s.key, y.id)
    BY HeldPool
  <1>3. /\ r.quoteMint = QuoteMint(x.id) /\ r.factionMint = FactionMint(x.id)
        /\ s.quoteMint = QuoteMint(y.id) /\ s.factionMint = FactionMint(y.id)
    BY <1>1, <1>2, InstanceFields
  <1>4. {r.quoteMint, r.factionMint} = {s.quoteMint, s.factionMint}
    BY DEF Advertised, GetReserveMints, Unidirectional
  <1>5. {x.id.mintA, x.id.mintB} = {y.id.mintA, y.id.mintB}
    BY <1>1, <1>2, <1>3, <1>4, Admitted, FactionSides
  <1>6. /\ MintRank[x.id.mintA] \in Nat /\ MintRank[x.id.mintB] \in Nat
        /\ MintRank[y.id.mintA] \in Nat /\ MintRank[y.id.mintB] \in Nat
    BY <1>1, <1>2, Admitted, AccountsAssumption
  <1>7. /\ MintRank[x.id.mintA] < MintRank[x.id.mintB]
        /\ MintRank[y.id.mintA] < MintRank[y.id.mintB]
        /\ r.key = CanonicalKey(x.id.mintA, x.id.mintB)
        /\ s.key = CanonicalKey(y.id.mintA, y.id.mintB)
    BY <1>1, <1>2, Admitted DEF IsCanonical
  <1>8. x.id.mintA = y.id.mintA /\ x.id.mintB = y.id.mintB
    BY <1>5, <1>6, <1>7
  <1> QED BY <1>7, <1>8

\* Copies of a pool's data, pools with their sides the wrong way round and vault
\* listings under any key notwithstanding, a pair of mints has one pool.
THEOREM MarketsHaveOneRoute == Spec => []OneRoutePerMarket
  <1>1. IInv => OneRoutePerMarket
    BY PairGivesKey DEF IInv, OnePerKey, OneRoutePerMarket
  <1> QED BY <1>1, HeldInstancesAreMade, PTL

\* A held pool's lists: for the two pairs it advertises, and for no other.
LEMMA PoolLists ==
  ASSUME IInv, NEW r \in listed, IsPool(r), NEW input, NEW output
  PROVE  IF <<input, output>> \in Advertised(r)
         THEN \E n \in 1 .. 25 : SwapMetas(r, input, output) \in ListsOf(PoolKeys(r.key, r.id), n)
         ELSE SwapMetas(r, input, output) = <<>>
  <1>1. PICK raw \in CellsAt[r.key] :
          Admits(r.key, Cell(raw)) /\ r = PoolRoute(r.key, raw.id)
    BY HeldPool
  <1>2. /\ r.id = raw.id /\ r.quoteMint = QuoteMint(r.id) /\ r.factionMint = FactionMint(r.id)
        /\ HasOneFactionSide(r.id) /\ HasFactionSides(r.id) /\ r.quoteMint # r.factionMint
    BY <1>1, InstanceFields, Admitted, FactionSides
  <1>3. <<input, output>> \in Advertised(r) <=>
          \/ input = r.quoteMint /\ output = r.factionMint
          \/ input = r.factionMint /\ output = r.quoteMint
    BY DEF Advertised, GetReserveMints, Unidirectional
  <1>4. SwapMetas(r, input, output) = PoolSwapMetas(r, input, output, User, Source, Dest)
    BY DEF SwapMetas
  <1>5. CASE input = r.quoteMint /\ output = r.factionMint
    <2>1. CASE r.quoteMint = NATIVE_MINT
      <3>1. PoolSwapMetas(r, input, output, User, Source, Dest)
              = WsolIntermediaryMetas(User, Dest, Source, r.key, r.id, TRUE)
        BY <1>5, <2>1 DEF PoolSwapMetas, ForMints, ValidateMintPair, SolBuyWsolMetas
      <3>2. WsolIntermediaryMetas(User, Dest, Source, r.key, r.id, TRUE)
              \in ListsOf(PoolKeys(r.key, r.id), 25)
        BY <1>2, <2>1, WsolList
      <3>3. SwapMetas(r, input, output) \in ListsOf(PoolKeys(r.key, r.id), 25)
        BY <1>4, <3>1, <3>2
      <3> QED BY <1>3, <1>5, <3>3
    <2>2. CASE r.quoteMint # NATIVE_MINT
      <3>1. PoolSwapMetas(r, input, output, User, Source, Dest)
              = SplBuyMetas(User, Source, Dest, r.key, r.id)
        BY <1>5, <2>2 DEF PoolSwapMetas, ForMints, ValidateMintPair
      <3>2. SplBuyMetas(User, Source, Dest, r.key, r.id) \in ListsOf(PoolKeys(r.key, r.id), 21)
        BY <1>2, SplLists
      <3> QED BY <1>3, <1>4, <1>5, <3>1, <3>2
    <2> QED BY <2>1, <2>2
  <1>6. CASE input = r.factionMint /\ output = r.quoteMint
    <2>1. CASE r.quoteMint = NATIVE_MINT
      <3>1. PoolSwapMetas(r, input, output, User, Source, Dest)
              = WsolIntermediaryMetas(User, Source, Dest, r.key, r.id, FALSE)
        BY <1>2, <1>6, <2>1 DEF PoolSwapMetas, ForMints, ValidateMintPair, SolSellMetas
      <3>2. WsolIntermediaryMetas(User, Source, Dest, r.key, r.id, FALSE)
              \in ListsOf(PoolKeys(r.key, r.id), 25)
        BY <1>2, <2>1, WsolList
      <3>3. SwapMetas(r, input, output) \in ListsOf(PoolKeys(r.key, r.id), 25)
        BY <1>4, <3>1, <3>2
      <3> QED BY <1>3, <1>6, <3>3
    <2>2. CASE r.quoteMint # NATIVE_MINT
      <3>1. PoolSwapMetas(r, input, output, User, Source, Dest)
              = SplSellMetas(User, Source, Dest, r.key, r.id)
        BY <1>2, <1>6, <2>2 DEF PoolSwapMetas, ForMints, ValidateMintPair
      <3>2. SplSellMetas(User, Source, Dest, r.key, r.id) \in ListsOf(PoolKeys(r.key, r.id), 22)
        BY <1>2, SplLists
      <3> QED BY <1>3, <1>4, <1>6, <3>1, <3>2
    <2> QED BY <2>1, <2>2
  <1>7. CASE /\ ~(input = r.quoteMint /\ output = r.factionMint)
             /\ ~(input = r.factionMint /\ output = r.quoteMint)
    BY <1>3, <1>4, <1>7 DEF PoolSwapMetas, ValidateMintPair
  <1> QED BY <1>5, <1>6, <1>7

\* A held conversion's list: for its direction, and for no other pair.
LEMMA ConversionLists ==
  ASSUME IInv, NEW r \in listed, ~IsPool(r), NEW input, NEW output
  PROVE  IF <<input, output>> \in Advertised(r)
         THEN SwapMetas(r, input, output) \in ListsOf(ConversionKeys, 17)
         ELSE SwapMetas(r, input, output) = <<>>
  <1>1. r.dir \in Directions
    BY HeldConversion
  <1>2. Advertised(r) = {r.dir}
    BY <1>1 DEF Advertised, GetReserveMints, Unidirectional, Directions
  <1>3. SwapMetas(r, input, output)
          = IF <<input, output>> # r.dir THEN <<>>
            ELSE VaultMetas(User, Source, Dest, input, output)
    BY DEF SwapMetas, VaultSwapMetas
  <1>4. CASE <<input, output>> = r.dir
    <2>1. input \in FactionMints \cup {PROFIT_MINT} /\ output \in FactionMints \cup {PROFIT_MINT}
      BY <1>1, <1>4 DEF Directions
    <2> QED BY <1>2, <1>3, <1>4, <2>1, VaultList
  <1> QED BY <1>2, <1>3, <1>4

\* The builders refuse nothing an instance advertises, build nothing it does not,
\* and stay within the bound it announces.
THEOREM AdvertisedPairsAreBuildable == Spec => []AdvertisedIsBuildable
  <1>1. ASSUME NEW K, NEW n \in Nat \ {0}, NEW metas \in ListsOf(K, n)
        PROVE  metas # <<>> /\ Len(metas) = n
    BY DEF ListsOf
  <1>2. ASSUME IInv, NEW r \in listed, NEW input, NEW output
        PROVE  LET metas == SwapMetas(r, input, output)
               IN  /\ metas # <<>> <=> <<input, output>> \in Advertised(r)
                   /\ Len(metas) <= AccountsLen(r)
    <2> DEFINE metas == SwapMetas(r, input, output)
    <2>1. AccountsLen(r) = IF IsPool(r) THEN 25 ELSE 17
      BY DEF AccountsLen, PoolAccountsLen, VaultAccountsLen
    <2>2. CASE <<input, output>> \in Advertised(r)
      <3>1. \E K : \E n \in 1 .. AccountsLen(r) : metas \in ListsOf(K, n)
        BY <1>2, <2>1, <2>2, PoolLists, ConversionLists
      <3> QED BY <1>1, <2>1, <2>2, <3>1
    <2>3. CASE <<input, output>> \notin Advertised(r)
      <3>1. metas = <<>>
        BY <1>2, <2>3, PoolLists, ConversionLists
      <3> QED BY <2>1, <2>3, <3>1
    <2> QED BY <2>2, <2>3
  <1>3. IInv => AdvertisedIsBuildable
    BY <1>2 DEF AdvertisedIsBuildable
  <1> QED BY <1>3, HeldInstancesAreMade, PTL

\* No list of a pool names the conversion vault's program, and no list of a
\* conversion the programs of the pools.
LEMMA PoolKeysNameNoVault ==
  ASSUME NEW k \in Keys, NEW raw \in CellsAt[k], Admits(k, Cell(raw))
  PROVE  CONVERSION_VAULT_PROGRAM \notin PoolKeys(k, raw.id)
  <1>1. /\ "VAULT" \notin {raw.id.mintA, raw.id.mintB, raw.id.vaultA, raw.id.vaultB}
        /\ k = CanonicalKey(raw.id.mintA, raw.id.mintB)
        /\ {raw.id.tokenProgramA, raw.id.tokenProgramB} \subseteq {"SPL", "T22"}
    BY Admitted, AccountsAssumption
    DEF IsCanonical, SPL_TOKEN_PROGRAM_ID, TOKEN_2022_PROGRAM_ID
  <1>2. \A x : <<"VAULT">> = At(x) => x = "VAULT"
    BY DEF At
  <1>3. CONVERSION_VAULT_PROGRAM = <<"VAULT">>
    BY DEF CONVERSION_VAULT_PROGRAM, At
  <1>4. <<"VAULT">> \notin ProtocolKeys \cup {User, Source, Dest}
    BY DEF ProtocolKeys, User, Source, Dest, At, EPOCH_STATE_PDA, SWAP_AUTHORITY_PDA,
           TAX_AUTHORITY_PDA, STAKE_POOL_PDA, ESCROW_VAULT_PDA, CARNAGE_SOL_VAULT_PDA, TREASURY,
           WSOL_INTERMEDIARY_PDA, SWEEP_AUTHORITY, SYSTEM_PROGRAM, STAKING_PROGRAM,
           TRANSFER_HOOK_PROGRAM, AMM_PROGRAM_ID
  <1>5. <<"VAULT">> # SweepAccount(raw.id)
    BY DEF SweepAccount, SweepAta
  <1>6. <<"VAULT">> # k
    BY <1>1 DEF CanonicalKey
  <1>7. \A x : <<"VAULT">> # HookMetaList(x) /\ <<"VAULT">> # Whitelist(x)
    BY DEF HookMetaList, Whitelist
  <1>8. \A x \in {raw.id.vaultA, raw.id.vaultB, raw.id.mintA, raw.id.mintB,
                  raw.id.tokenProgramA, raw.id.tokenProgramB} : x # "VAULT"
    BY <1>1
  <1> QED BY <1>2, <1>3, <1>4, <1>5, <1>6, <1>7, <1>8 DEF PoolKeys

LEMMA ConversionKeysNamePrograms ==
  {At(AMM_PROGRAM_ID), STAKING_PROGRAM, TAX_PROGRAM} \cap ConversionKeys = {}
  <1>1. ASSUME NEW p \in {"AMM", "STAKING", "TAX"}
        PROVE  At(p) \notin ConversionKeys
    <2>1. At(p) \notin {User, Source, Dest, VAULT_CONFIG_PDA, At(TOKEN_2022_PROGRAM_ID),
                        TRANSFER_HOOK_PROGRAM}
      BY DEF At, User, Source, Dest, VAULT_CONFIG_PDA, TOKEN_2022_PROGRAM_ID,
             TRANSFER_HOOK_PROGRAM
    <2>2. \A x : At(p) # HookMetaList(x) /\ At(p) # Whitelist(x)
      BY DEF At, HookMetaList, Whitelist
    <2>3. \A m \in FactionMints \cup {PROFIT_MINT} :
            At(p) # At(m) /\ At(p) # VaultTokenAccount(m)
      BY DEF At, VaultTokenAccount, FactionMints, CRIME_MINT, FRAUD_MINT, PROFIT_MINT,
             VAULT_CRIME, VAULT_FRAUD, VAULT_PROFIT
    <2> QED BY <2>1, <2>2, <2>3 DEF ConversionKeys
  <1> QED BY <1>1 DEF AMM_PROGRAM_ID, STAKING_PROGRAM, TAX_PROGRAM

\* A harness that loads what an instance announces has loaded every program its
\* lists name, for any pool that is found and any conversion.
THEOREM DependenciesAreComplete == Spec => []DependenciesCoverLists
  <1>1. ASSUME NEW K, NEW n, NEW metas \in ListsOf(K, n)
        PROVE  {metas[i].key : i \in 1 .. Len(metas)} \subseteq K
    <2>1. \A i \in 1 .. Len(metas) : metas[i] \in MetasOver(K)
      BY DEF ListsOf
    <2>2. \A m \in MetasOver(K) : m.key \in K
      BY DEF MetasOver
    <2> QED BY <2>1, <2>2
  <1>2. ASSUME IInv, NEW r \in listed, NEW pair \in Advertised(r)
        PROVE  LET metas    == SwapMetas(r, pair[1], pair[2])
                   programs == {At(AMM_PROGRAM_ID), STAKING_PROGRAM, TRANSFER_HOOK_PROGRAM,
                                TAX_PROGRAM, CONVERSION_VAULT_PROGRAM}
               IN  {metas[i].key : i \in 1 .. Len(metas)} \cap programs
                     \subseteq {ProgramId(r)} \cup ProgramDependencies(r)
    <2> DEFINE metas == SwapMetas(r, pair[1], pair[2])
               keys  == {metas[i].key : i \in 1 .. Len(metas)}
    <2>1. CASE IsPool(r)
      <3>1. <<pair[1], pair[2]>> \in Advertised(r)
        BY <2>1 DEF Advertised, GetReserveMints, Unidirectional
      <3>2. \E n \in 1 .. 25 : metas \in ListsOf(PoolKeys(r.key, r.id), n)
        BY <1>2, <2>1, <3>1, PoolLists
      <3> HIDE DEF metas
      <3>3. keys \subseteq PoolKeys(r.key, r.id)
        BY <1>1, <3>2
      <3>4. CONVERSION_VAULT_PROGRAM \notin PoolKeys(r.key, r.id)
        <4>1. PICK raw \in CellsAt[r.key] :
                r.key \in Keys /\ Admits(r.key, Cell(raw)) /\ r = PoolRoute(r.key, raw.id)
          BY <1>2, <2>1, HeldPool
        <4> QED BY <4>1, PoolKeysNameNoVault, InstanceFields
      <3> HIDE DEF keys
      <3>5. ProgramId(r) = TAX_PROGRAM
            /\ ProgramDependencies(r)
                 = {At(AMM_PROGRAM_ID), STAKING_PROGRAM, TRANSFER_HOOK_PROGRAM}
        BY <2>1 DEF ProgramId, ProgramDependencies, PoolDependencies, VaultDependencies
      <3> QED BY <3>3, <3>4, <3>5 DEF keys, metas
    <2>2. CASE ~IsPool(r)
      <3>1. <<pair[1], pair[2]>> \in Advertised(r)
        BY <1>2, <2>2, HeldConversion DEF Advertised, GetReserveMints, Unidirectional, Directions
      <3>2. metas \in ListsOf(ConversionKeys, 17)
        BY <1>2, <2>2, <3>1, ConversionLists
      <3> HIDE DEF metas
      <3>3. keys \subseteq ConversionKeys
        BY <1>1, <3>2
      <3> HIDE DEF keys
      <3>4. ProgramId(r) = CONVERSION_VAULT_PROGRAM
            /\ ProgramDependencies(r) = {TRANSFER_HOOK_PROGRAM}
        BY <2>2 DEF ProgramId, ProgramDependencies, PoolDependencies, VaultDependencies
      <3> QED BY <3>3, <3>4, ConversionKeysNamePrograms DEF keys, metas
    <2> QED BY <2>1, <2>2
  <1>3. IInv => DependenciesCoverLists
    BY <1>2 DEF DependenciesCoverLists
  <1> QED BY <1>3, HeldInstancesAreMade, PTL

\* A list depends on a pool's address and the six fields of its identity only.
LEMMA ListsDependOnFields ==
  ASSUME NEW a, NEW b, NEW input, NEW output,
         a.key = b.key, a.quoteMint = b.quoteMint, a.factionMint = b.factionMint,
         a.id.mintA = b.id.mintA, a.id.mintB = b.id.mintB,
         a.id.vaultA = b.id.vaultA, a.id.vaultB = b.id.vaultB,
         a.id.tokenProgramA = b.id.tokenProgramA, a.id.tokenProgramB = b.id.tokenProgramB
  PROVE  PoolSwapMetas(a, input, output, User, Source, Dest)
           = PoolSwapMetas(b, input, output, User, Source, Dest)
  <1>1. ValidateMintPair(a, input, output) <=> ValidateMintPair(b, input, output)
    BY DEF ValidateMintPair
  <1>2. ResolveSides(a.id) = ResolveSides(b.id) /\ (IsSolPool(a.id) <=> IsSolPool(b.id))
    BY DEF ResolveSides, IsSolPool
  <1>3. PoolMetas(a.key, a.id) = PoolMetas(b.key, b.id) /\ TokenPrograms(a.id) = TokenPrograms(b.id)
    BY DEF PoolMetas, TokenPrograms
  <1>4. ResolveFactionSides(a.id) = ResolveFactionSides(b.id)
        /\ (HasFactionSides(a.id) <=> HasFactionSides(b.id))
    BY DEF ResolveFactionSides, HasFactionSides, HasOneFactionSide, FactionMint, QuoteMint,
           TokenProgramOf
  <1>5. SweepAccount(a.id) = SweepAccount(b.id)
    BY <1>4 DEF SweepAccount
  <1>6. ASSUME NEW x, NEW y, NEW isBuy \in BOOLEAN
        PROVE  WsolIntermediaryMetas(User, x, y, a.key, a.id, isBuy)
                 = WsolIntermediaryMetas(User, x, y, b.key, b.id, isBuy)
    BY <1>2, <1>3, Zenon DEF WsolIntermediaryMetas
  <1>7. ASSUME NEW x, NEW y
        PROVE  SolBuyMetas(User, x, y, a.key, a.id) = SolBuyMetas(User, x, y, b.key, b.id)
    BY <1>2, <1>3, Zenon DEF SolBuyMetas
  <1>8. \A slot, x : SplHead(User, slot, x, a.key, a.id) = SplHead(User, slot, x, b.key, b.id)
    BY <1>3, <1>4, <1>5, Zenon DEF SplHead
  <1>9. SplTail(a.id) = SplTail(b.id)
    BY <1>3, <1>4, Zenon DEF SplTail
  <1>10. ASSUME NEW x, NEW y
         PROVE  SplBuyMetas(User, x, y, a.key, a.id) = SplBuyMetas(User, x, y, b.key, b.id)
    BY <1>4, <1>8, <1>9, Zenon DEF SplBuyMetas
  <1>11. ASSUME NEW x, NEW y
         PROVE  SplSellMetas(User, x, y, a.key, a.id) = SplSellMetas(User, x, y, b.key, b.id)
    BY <1>4, <1>5, <1>8, <1>9, Zenon DEF SplSellMetas
  <1>12. ForMints(a.quoteMint, a.factionMint, input, output)
           = ForMints(b.quoteMint, b.factionMint, input, output)
    OBVIOUS
  <1> QED BY <1>1, <1>6, <1>7, <1>10, <1>11, <1>12 DEF PoolSwapMetas, SolBuyWsolMetas, SolSellMetas

\* The instance made of a bootstrap pool's account is the hand-made one, field by
\* field.
LEMMA BootstrapFields ==
  ASSUME IInv, NEW r \in listed, IsPool(r), NEW isCrime \in BOOLEAN,
         r.key = NewForTesting(isCrime).key
  PROVE  LET b == NewForTesting(isCrime) IN
         /\ IsPool(b) /\ b.id = KnownPoolState(isCrime)
         /\ r.quoteMint = b.quoteMint /\ r.factionMint = b.factionMint
         /\ b.quoteMint = NATIVE_MINT /\ b.factionMint \in FactionMints
         /\ r.id.mintA = b.id.mintA /\ r.id.mintB = b.id.mintB
         /\ r.id.vaultA = b.id.vaultA /\ r.id.vaultB = b.id.vaultB
         /\ r.id.tokenProgramA = b.id.tokenProgramA /\ r.id.tokenProgramB = b.id.tokenProgramB
  <1> DEFINE b == NewForTesting(isCrime)
             token == IF isCrime THEN CRIME_MINT ELSE FRAUD_MINT
  <1>1. PICK raw \in CellsAt[r.key] :
          r.key \in Keys /\ Admits(r.key, Cell(raw)) /\ r = PoolRoute(r.key, raw.id)
    BY HeldPool
  <1>2. /\ r.id = raw.id /\ r.quoteMint = QuoteMint(r.id) /\ r.factionMint = FactionMint(r.id)
        /\ IsPool(b) /\ b.id = KnownPoolState(isCrime)
        /\ b.quoteMint = QuoteMint(b.id) /\ b.factionMint = FactionMint(b.id)
        /\ b.key = IF isCrime THEN CRIME_SOL_POOL ELSE FRAUD_SOL_POOL
    BY <1>1, InstanceFields DEF NewForTesting
  <1>3. /\ b.id.mintA = NATIVE_MINT /\ b.id.mintB = token
        /\ b.id.vaultA = (IF isCrime THEN "crime_sol_vault_a" ELSE "fraud_sol_vault_a")
        /\ b.id.vaultB = (IF isCrime THEN "crime_sol_vault_b" ELSE "fraud_sol_vault_b")
        /\ b.id.tokenProgramA = SPL_TOKEN_PROGRAM_ID /\ b.id.tokenProgramB = TOKEN_2022_PROGRAM_ID
    BY <1>2 DEF KnownPoolState, PoolAddresses
  <1>4. b.key = CanonicalKey(NATIVE_MINT, token)
    BY <1>2 DEF CRIME_SOL_POOL, FRAUD_SOL_POOL
  <1> HIDE DEF b
  <1>5. r.key = CanonicalKey(r.id.mintA, r.id.mintB)
    BY <1>1, <1>2, Admitted DEF IsCanonical
  <1>6. r.id.mintA = NATIVE_MINT /\ r.id.mintB = token
    BY <1>4, <1>5 DEF CanonicalKey, b
  <1>7. r.id.vaultA = b.id.vaultA /\ r.id.vaultB = b.id.vaultB
    BY <1>1, <1>2, <1>3, BootstrapAssumption DEF b
  <1>8. token \in FactionMints /\ NATIVE_MINT \notin FactionMints /\ token # NATIVE_MINT
    BY DEF FactionMints, CRIME_MINT, FRAUD_MINT, NATIVE_MINT
  <1>9. FactionMint(r.id) = token /\ QuoteMint(r.id) = NATIVE_MINT
        /\ FactionMint(b.id) = token /\ QuoteMint(b.id) = NATIVE_MINT
    BY <1>3, <1>6, <1>8 DEF FactionMint, QuoteMint
  <1>10. r.id.tokenProgramA = SPL_TOKEN_PROGRAM_ID /\ r.id.tokenProgramB = TOKEN_2022_PROGRAM_ID
    BY <1>1, <1>2, <1>6, <1>8, <1>9, Admitted DEF TokenProgramOf
  <1> QED BY <1>2, <1>3, <1>6, <1>7, <1>8, <1>9, <1>10 DEF b

\* For the bootstrap pools, the constants of the adapter, the hand-made instance
\* and what is discovered on chain give one list of accounts.
THEOREM BootstrapListsAgree == Spec => []KnownPoolsAgree
  <1>1. ASSUME IInv, NEW r \in listed, NEW isCrime \in BOOLEAN,
               IsPool(r), r.key = NewForTesting(isCrime).key
        PROVE  LET f == r.factionMint IN
               /\ \A pair \in Advertised(r) :
                    SwapMetas(r, pair[1], pair[2])
                      = SwapMetas(NewForTesting(isCrime), pair[1], pair[2])
               /\ SwapMetas(r, NATIVE_MINT, f) = KnownBuyWsolMetas(User, Source, Dest, isCrime)
               /\ SwapMetas(r, f, NATIVE_MINT) = KnownSellMetas(User, Source, Dest, isCrime)
    <2> DEFINE b == NewForTesting(isCrime)
               f == b.factionMint
    <2>1. /\ IsPool(b) /\ b.id = KnownPoolState(isCrime) /\ r.factionMint = f
          /\ b.quoteMint = NATIVE_MINT /\ f # NATIVE_MINT
      BY <1>1, BootstrapFields DEF FactionMints, CRIME_MINT, FRAUD_MINT, NATIVE_MINT
    <2>2. \A input, output : SwapMetas(r, input, output) = SwapMetas(b, input, output)
      BY <1>1, <2>1, BootstrapFields, ListsDependOnFields DEF SwapMetas
    <2> HIDE DEF b
    <2>3. SwapMetas(b, NATIVE_MINT, f) = SolBuyWsolMetas(User, Source, Dest, b.key, b.id)
      BY <2>1 DEF SwapMetas, PoolSwapMetas, ForMints, ValidateMintPair
    <2>4. SwapMetas(b, f, NATIVE_MINT) = SolSellMetas(User, Source, Dest, b.key, b.id)
      BY <2>1 DEF SwapMetas, PoolSwapMetas, ForMints, ValidateMintPair
    <2> QED BY <2>1, <2>2, <2>3, <2>4 DEF b, KnownBuyWsolMetas, KnownSellMetas
  <1>2. IInv => KnownPoolsAgree
    BY <1>1 DEF KnownPoolsAgree
  <1> QED BY <1>2, HeldInstancesAreMade, PTL

=============================================================================
