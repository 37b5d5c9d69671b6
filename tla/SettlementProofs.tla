-------------------------- MODULE SettlementProofs ---------------------------
(***************************************************************************)
(* Proofs about SwapSettlement, for any set of admitted pools, signers,    *)
(* balances, amounts and rates.  A list is read off once: what the program *)
(* finds under each of its names is a record, the reading of the list, and *)
(* every fact about acceptance, rights and settlement follows from it.     *)
(***************************************************************************)
EXTENDS SwapSettlement, AmmMathProofs, SequenceTheorems

(* Readings *)

\* The names the programs' lists have for their accounts, but for the user.
Fields ==
  {"epoch_state", "swap_authority", "tax_authority", "pool", "vault_a", "vault_b",
   "mint_a", "mint_b", "user_a", "user_b", "stake_pool", "staking_escrow",
   "carnage_vault", "treasury", "wsol_intermediary", "amm_program", "token_program_a",
   "token_program_b", "system_program", "staking_program", "sweep_authority",
   "quote_mint", "sweep_ata", "user_quote", "quote_token_program", "vault_config",
   "user_input", "user_output", "input_mint", "output_mint", "vault_input",
   "vault_output", "token_program"}

\* What a list of this lane should hold under every name.
PoolReading(lane, user, key, id, userA, userB, userQuote) ==
  [user                |-> Meta(user, TRUE, lane = "SolBuy"),
   epoch_state         |-> Ro(EPOCH_STATE_PDA),
   swap_authority      |-> Meta(SWAP_AUTHORITY_PDA, FALSE, lane \in {"SolBuyWsol", "SolSell"}),
   tax_authority       |-> Ro(TAX_AUTHORITY_PDA),
   pool                |-> Mut(key),
   vault_a             |-> Mut(At(id.vaultA)),
   vault_b             |-> Mut(At(id.vaultB)),
   mint_a              |-> Ro(At(id.mintA)),
   mint_b              |-> Ro(At(id.mintB)),
   user_a              |-> Mut(userA),
   user_b              |-> Mut(userB),
   stake_pool          |-> Mut(STAKE_POOL_PDA),
   staking_escrow      |-> Mut(ESCROW_VAULT_PDA),
   carnage_vault       |-> Mut(CARNAGE_SOL_VAULT_PDA),
   treasury            |-> Mut(TREASURY),
   wsol_intermediary   |-> Mut(WSOL_INTERMEDIARY_PDA),
   amm_program         |-> Ro(At(AMM_PROGRAM_ID)),
   token_program_a     |-> Ro(At(id.tokenProgramA)),
   token_program_b     |-> Ro(At(id.tokenProgramB)),
   system_program      |-> Ro(SYSTEM_PROGRAM),
   staking_program     |-> Ro(STAKING_PROGRAM),
   sweep_authority     |-> Ro(SWEEP_AUTHORITY),
   quote_mint          |-> Ro(At(QuoteMint(id))),
   sweep_ata           |-> Mut(CanonicalSweep(id)),
   user_quote          |-> Mut(userQuote),
   quote_token_program |-> Ro(At(TokenProgramOf(id, QuoteMint(id))))]

\* A list that holds, position by position, what the reading has under the names.
Fits(metas, names, reading, fields) ==
  /\ metas \in Seq(UNION {{reading[n]} : n \in fields}) /\ names \in Seq(fields)
  /\ Len(metas) = Len(names)
  /\ \A i \in 1 .. Len(names) : metas[i] = reading[names[i]]

LEMMA FitsJoined ==
  ASSUME NEW R, NEW F, NEW m1, NEW n1, NEW m2, NEW n2,
         Fits(m1, n1, R, F), Fits(m2, n2, R, F)
  PROVE  Fits(m1 \o m2, n1 \o n2, R, F)
  <1> DEFINE S == UNION {{R[n]} : n \in F}
  <1>1. m1 \in Seq(S) /\ m2 \in Seq(S) /\ n1 \in Seq(F) /\ n2 \in Seq(F)
        /\ Len(m1) = Len(n1) /\ Len(m2) = Len(n2)
    BY DEF Fits
  <1> HIDE DEF S
  <1>2. m1 \o m2 \in Seq(S) /\ n1 \o n2 \in Seq(F)
        /\ Len(m1 \o m2) = Len(n1 \o n2) /\ Len(n1 \o n2) = Len(n1) + Len(n2)
    BY <1>1
  <1>3. ASSUME NEW i \in 1 .. Len(n1 \o n2)
        PROVE  (m1 \o m2)[i] = R[(n1 \o n2)[i]]
    <2>1. CASE i <= Len(n1)
      <3>1. i \in 1 .. Len(n1) /\ i \in 1 .. Len(m1)
        BY <1>1, <1>2, <2>1
      <3>2. (m1 \o m2)[i] = m1[i] /\ (n1 \o n2)[i] = n1[i]
        BY <1>1, <3>1
      <3> QED BY <3>1, <3>2 DEF Fits
    <2>2. CASE ~(i <= Len(n1))
      <3>1. i - Len(n1) \in 1 .. Len(n2) /\ i \in Len(n1) + 1 .. Len(n1) + Len(n2)
        BY <1>1, <1>2, <2>2
      <3>2. (m1 \o m2)[i] = m2[i - Len(m1)] /\ (n1 \o n2)[i] = n2[i - Len(n1)]
        BY <1>1, <3>1
      <3> QED BY <1>1, <3>1, <3>2 DEF Fits
    <2> QED BY <2>1, <2>2
  <1> QED BY <1>2, <1>3 DEF Fits, S

\* Short lists written out
LEMMA FitsWritten ==
  ASSUME NEW R, NEW F, NEW a \in F
  PROVE  /\ Fits(<<R[a]>>, <<a>>, R, F)
         /\ \A b \in F :
              /\ Fits(<<R[a], R[b]>>, <<a, b>>, R, F)
              /\ \A c \in F :
                   /\ Fits(<<R[a], R[b], R[c]>>, <<a, b, c>>, R, F)
                   /\ \A d \in F : Fits(<<R[a], R[b], R[c], R[d]>>, <<a, b, c, d>>, R, F)
  <1> DEFINE S == UNION {{R[n]} : n \in F}
  <1>1. \A n \in F : R[n] \in S
    OBVIOUS
  <1> HIDE DEF S
  <1>2. Fits(<<R[a]>>, <<a>>, R, F)
    BY <1>1 DEF Fits, S
  <1>3. ASSUME NEW b \in F PROVE Fits(<<R[a], R[b]>>, <<a, b>>, R, F)
    BY <1>1 DEF Fits, S
  <1>4. ASSUME NEW b \in F, NEW c \in F
        PROVE  Fits(<<R[a], R[b], R[c]>>, <<a, b, c>>, R, F)
    BY <1>1 DEF Fits, S
  <1>5. ASSUME NEW b \in F, NEW c \in F, NEW d \in F
        PROVE  Fits(<<R[a], R[b], R[c], R[d]>>, <<a, b, c, d>>, R, F)
    BY <1>1 DEF Fits, S
  <1> QED BY <1>2, <1>3, <1>4, <1>5

LEMMA FitsFive ==
  ASSUME NEW R, NEW F, NEW a \in F, NEW b \in F, NEW c \in F, NEW d \in F, NEW e \in F
  PROVE  Fits(<<R[a], R[b], R[c], R[d], R[e]>>, <<a, b, c, d, e>>, R, F)
  <1> DEFINE S == UNION {{R[n]} : n \in F}
  <1>1. \A n \in F : R[n] \in S
    OBVIOUS
  <1> HIDE DEF S
  <1> QED BY <1>1 DEF Fits, S

(* The names of a list begin with the user's, and it is nowhere else. *)

\* A whole list, read off against its names
Reads(metas, names, reading) ==
  /\ metas \in Seq(UNION {{reading[n]} : n \in Fields \cup {"user"}})
  /\ names \in Seq(Fields \cup {"user"})
  /\ Len(metas) = Len(names) /\ Len(names) > 0
  /\ \A i \in 1 .. Len(names) : metas[i] = reading[names[i]]
  /\ \A i \in 1 .. Len(names) : names[i] = "user" <=> i = 1

LEMMA ReadsOn ==
  ASSUME NEW R, NEW m1, NEW n1, NEW m2, NEW n2,
         Reads(m1, n1, R), Fits(m2, n2, R, Fields)
  PROVE  Reads(m1 \o m2, n1 \o n2, R)
  <1> DEFINE F == Fields \cup {"user"}
             S == UNION {{R[n]} : n \in F}
             T == UNION {{R[n]} : n \in Fields}
  <1>1. m1 \in Seq(S) /\ n1 \in Seq(F) /\ Len(m1) = Len(n1) /\ Len(n1) > 0
    BY DEF Reads
  <1>2. m2 \in Seq(T) /\ n2 \in Seq(Fields) /\ Len(m2) = Len(n2)
    BY DEF Fits
  <1>3. T \subseteq S /\ Fields \subseteq F
    OBVIOUS
  <1> HIDE DEF S, T, F
  <1>4. m2 \in Seq(S) /\ n2 \in Seq(F)
    BY <1>2, <1>3
  <1>5. m1 \o m2 \in Seq(S) /\ n1 \o n2 \in Seq(F)
        /\ Len(m1 \o m2) = Len(n1 \o n2) /\ Len(n1 \o n2) = Len(n1) + Len(n2)
    BY <1>1, <1>2, <1>4
  <1>6. ASSUME NEW i \in 1 .. Len(n1 \o n2)
        PROVE  /\ (m1 \o m2)[i] = R[(n1 \o n2)[i]]
               /\ (n1 \o n2)[i] = "user" <=> i = 1
    <2>1. CASE i <= Len(n1)
      <3>1. i \in 1 .. Len(n1) /\ i \in 1 .. Len(m1)
        BY <1>1, <1>5, <2>1
      <3>2. (m1 \o m2)[i] = m1[i] /\ (n1 \o n2)[i] = n1[i]
        BY <1>1, <1>4, <3>1
      <3> QED BY <3>1, <3>2 DEF Reads
    <2>2. CASE ~(i <= Len(n1))
      <3>1. i - Len(n1) \in 1 .. Len(n2) /\ i \in Len(n1) + 1 .. Len(n1) + Len(n2) /\ i # 1
        BY <1>1, <1>2, <1>5, <2>2
      <3>2. (m1 \o m2)[i] = m2[i - Len(m1)] /\ (n1 \o n2)[i] = n2[i - Len(n1)]
        BY <1>1, <1>2, <1>4, <3>1
      <3>3. n2[i - Len(n1)] \in Fields
        BY <1>2, <3>1
      <3>4. "user" \notin Fields
        BY DEF Fields
      <3> QED BY <1>1, <3>1, <3>2, <3>3, <3>4 DEF Fits
    <2> QED BY <2>1, <2>2
  <1>7. Len(n1 \o n2) > 0
    BY <1>1, <1>2, <1>5
  <1> QED BY <1>5, <1>6, <1>7 DEF Reads, S, F

LEMMA PoolNamesSplit ==
  ASSUME NEW n \in Seq(Fields \cup {"user"})
  PROVE  n \o PoolNames
           = (n \o <<"pool", "vault_a", "vault_b", "mint_a", "mint_b">>) \o <<"user_a", "user_b">>
  <1> DEFINE five == <<"pool", "vault_a", "vault_b", "mint_a", "mint_b">>
             two  == <<"user_a", "user_b">>
  <1>1. PoolNames = five \o two
    BY DEF PoolNames
  <1>2. five \in Seq(Fields \cup {"user"}) /\ two \in Seq(Fields \cup {"user"})
    BY DEF Fields
  <1> HIDE DEF five, two
  <1> QED BY <1>1, <1>2, ConcatAssociative DEF five, two

\* The pool of a list, and the user's accounts on its sides
LEMMA PoolPart ==
  ASSUME NEW lane, NEW user, NEW key, NEW id, NEW x, NEW y, NEW z, NEW firstIsA \in BOOLEAN,
         NEW first, NEW second, NEW m, NEW n,
         x = (IF firstIsA THEN first ELSE second), y = (IF firstIsA THEN second ELSE first),
         Reads(m, n, PoolReading(lane, user, key, id, x, y, z))
  PROVE  Reads(m \o PoolMetas(key, id) \o OnSides(firstIsA, first, second), n \o PoolNames,
               PoolReading(lane, user, key, id, x, y, z))
  <1> DEFINE R == PoolReading(lane, user, key, id, x, y, z)
             five == <<"pool", "vault_a", "vault_b", "mint_a", "mint_b">>
             two  == <<"user_a", "user_b">>
  <1>1. /\ R["pool"] = Mut(key) /\ R["vault_a"] = Mut(At(id.vaultA))
        /\ R["vault_b"] = Mut(At(id.vaultB)) /\ R["mint_a"] = Ro(At(id.mintA))
        /\ R["mint_b"] = Ro(At(id.mintB)) /\ R["user_a"] = Mut(x) /\ R["user_b"] = Mut(y)
    BY DEF PoolReading
  <1> HIDE DEF R
  <1>2. PoolMetas(key, id) = <<R["pool"], R["vault_a"], R["vault_b"], R["mint_a"], R["mint_b"]>>
    BY <1>1 DEF PoolMetas
  <1>3. OnSides(firstIsA, first, second) = <<R["user_a"], R["user_b"]>>
    BY <1>1 DEF OnSides
  <1>4. {"pool", "vault_a", "vault_b", "mint_a", "mint_b", "user_a", "user_b"} \subseteq Fields
    BY DEF Fields
  <1>5. Fits(PoolMetas(key, id), five, R, Fields)
    <2>1. Fits(<<R["pool"], R["vault_a"], R["vault_b"], R["mint_a"], R["mint_b"]>>,
               five, R, Fields)
      BY <1>4, FitsFive
    <2> QED BY <1>2, <2>1
  <1>6. Fits(OnSides(firstIsA, first, second), two, R, Fields)
    BY <1>3, <1>4, FitsWritten
  <1>7. Reads(m, n, R) /\ n \in Seq(Fields \cup {"user"})
    BY DEF R, Reads
  <1> HIDE DEF five, two
  <1>8. Reads(m \o PoolMetas(key, id) \o OnSides(firstIsA, first, second), n \o five \o two, R)
    BY <1>5, <1>6, <1>7, ReadsOn
  <1> QED BY <1>7, <1>8, PoolNamesSplit DEF R, five, two

LEMMA ReadsHead ==
  ASSUME NEW R, NEW b \in Fields
  PROVE  /\ Reads(<<R["user"], R[b]>>, <<"user", b>>, R)
         /\ \A c, d \in Fields :
              Reads(<<R["user"], R[b], R[c], R[d]>>, <<"user", b, c, d>>, R)
  <1> DEFINE F == Fields \cup {"user"}
             S == UNION {{R[n]} : n \in F}
  <1>1. \A n \in F : R[n] \in S
    OBVIOUS
  <1>2. "user" \notin Fields
    BY DEF Fields
  <1> HIDE DEF S
  <1>3. Reads(<<R["user"], R[b]>>, <<"user", b>>, R)
    BY <1>1, <1>2 DEF Reads, S
  <1>4. ASSUME NEW c \in Fields, NEW d \in Fields
        PROVE  Reads(<<R["user"], R[b], R[c], R[d]>>, <<"user", b, c, d>>, R)
    BY <1>1, <1>2 DEF Reads, S
  <1> QED BY <1>3, <1>4

-----------------------------------------------------------------------------
(* The lists of the five lanes *)

\* The list of a reading: what it has under each of the lane's names, in order.
ReadOut(lane, reading) == [i \in 1 .. Len(Names(lane)) |-> reading[Names(lane)[i]]]

HookMetas(mint, source, dest) ==
  <<Ro(HookMetaList(mint)), Ro(Whitelist(source)), Ro(Whitelist(dest)),
    Ro(TRANSFER_HOOK_PROGRAM)>>

LEMMA ReadsIsReadOut ==
  ASSUME NEW m, NEW lane, NEW R, Reads(m, Names(lane), R)
  PROVE  m = ReadOut(lane, R)
  <1> DEFINE S == UNION {{R[n]} : n \in Fields \cup {"user"}}
  <1>1. m \in Seq(S) /\ Len(m) = Len(Names(lane))
        /\ \A i \in 1 .. Len(Names(lane)) : m[i] = R[Names(lane)[i]]
    BY DEF Reads
  <1> HIDE DEF S
  <1>2. m = [i \in 1 .. Len(m) |-> m[i]]
    BY <1>1
  <1> QED BY <1>1, <1>2 DEF ReadOut

\* Everything a WSOL list has behind the signer's pinned accounts.
LEMMA SolTail ==
  ASSUME NEW lane \in SolLanes, NEW user, NEW key, NEW id, NEW x, NEW y, NEW z,
         NEW m, NEW n, Reads(m, n, PoolReading(lane, user, key, id, x, y, z))
  PROVE  LET R == PoolReading(lane, user, key, id, x, y, z) IN
         /\ Reads(m \o TaxDestinations,
                  n \o <<"stake_pool", "staking_escrow", "carnage_vault", "treasury">>, R)
         /\ Reads(m \o <<Ro(At(AMM_PROGRAM_ID))>>, n \o <<"amm_program">>, R)
         /\ Reads(m \o <<Mut(WSOL_INTERMEDIARY_PDA), Ro(At(AMM_PROGRAM_ID))>>,
                  n \o <<"wsol_intermediary", "amm_program">>, R)
         /\ Reads(m \o TokenPrograms(id), n \o LastNames, R)
         /\ Reads(m \o <<Ro(SYSTEM_PROGRAM), Ro(STAKING_PROGRAM)>>,
                  n \o <<"system_program", "staking_program">>, R)
  <1> DEFINE R == PoolReading(lane, user, key, id, x, y, z)
  <1>1. /\ TaxDestinations = <<R["stake_pool"], R["staking_escrow"], R["carnage_vault"],
                               R["treasury"]>>
        /\ <<Ro(At(AMM_PROGRAM_ID))>> = <<R["amm_program"]>>
        /\ <<Mut(WSOL_INTERMEDIARY_PDA), Ro(At(AMM_PROGRAM_ID))>>
             = <<R["wsol_intermediary"], R["amm_program"]>>
        /\ TokenPrograms(id) = <<R["token_program_a"], R["token_program_b"]>>
        /\ <<Ro(SYSTEM_PROGRAM), Ro(STAKING_PROGRAM)>>
             = <<R["system_program"], R["staking_program"]>>
    BY DEF PoolReading, TaxDestinations, TokenPrograms
  <1>2. {"stake_pool", "staking_escrow", "carnage_vault", "treasury", "amm_program",
         "wsol_intermediary", "token_program_a", "token_program_b", "system_program",
         "staking_program"} \subseteq Fields
    BY DEF Fields
  <1> HIDE DEF R
  <1>3. Fits(TaxDestinations, <<"stake_pool", "staking_escrow", "carnage_vault", "treasury">>,
             R, Fields)
    BY <1>1, <1>2, FitsWritten
  <1>4. Fits(<<Ro(At(AMM_PROGRAM_ID))>>, <<"amm_program">>, R, Fields)
    BY <1>1, <1>2, FitsWritten
  <1>5. Fits(<<Mut(WSOL_INTERMEDIARY_PDA), Ro(At(AMM_PROGRAM_ID))>>,
             <<"wsol_intermediary", "amm_program">>, R, Fields)
    BY <1>1, <1>2, FitsWritten
  <1>6. Fits(TokenPrograms(id), LastNames, R, Fields)
    BY <1>1, <1>2, FitsWritten DEF LastNames
  <1>7. Fits(<<Ro(SYSTEM_PROGRAM), Ro(STAKING_PROGRAM)>>, <<"system_program", "staking_program">>,
             R, Fields)
    BY <1>1, <1>2, FitsWritten
  <1>8. Reads(m, n, R)
    BY DEF R
  <1> QED BY <1>3, <1>4, <1>5, <1>6, <1>7, <1>8, ReadsOn DEF R

LEMMA Joined ==
  ASSUME NEW S, NEW a \in S, NEW b \in S, NEW c \in S, NEW d \in S
  PROVE  /\ <<a>> \o <<b>> = <<a, b>>
         /\ <<a>> \o <<b, c>> = <<a, b, c>>
         /\ <<a, b, c>> \o <<d>> = <<a, b, c, d>>
  <1>1. <<a>> \o <<b>> = <<a, b>>
    <2> DEFINE s == <<a>> \o <<b>>
               t == <<a, b>>
    <2>1. <<a>> \in Seq(S) /\ <<b>> \in Seq(S) /\ t \in Seq(S) /\ Len(t) = 2
          /\ t[1] = a /\ t[2] = b
      OBVIOUS
    <2>2. s \in Seq(S) /\ Len(s) = 2 /\ s[1] = a /\ s[2] = b
      BY <2>1, ConcatProperties
    <2> HIDE DEF s, t
    <2>3. s = t
      BY <2>1, <2>2, SeqEqual
    <2> QED BY <2>3 DEF s, t
  <1>2. <<a>> \o <<b, c>> = <<a, b, c>>
    <2> DEFINE s == <<a>> \o <<b, c>>
               t == <<a, b, c>>
    <2>1. <<a>> \in Seq(S) /\ <<b, c>> \in Seq(S) /\ t \in Seq(S) /\ Len(t) = 3
          /\ t[1] = a /\ t[2] = b /\ t[3] = c
      OBVIOUS
    <2>2. s \in Seq(S) /\ Len(s) = 3 /\ s[1] = a /\ s[2] = b /\ s[3] = c
      BY <2>1, ConcatProperties
    <2> HIDE DEF s, t
    <2>3. s = t
      BY <2>1, <2>2, SeqEqual
    <2> QED BY <2>3 DEF s, t
  <1>3. <<a, b, c>> \o <<d>> = <<a, b, c, d>>
    <2> DEFINE s == <<a, b, c>> \o <<d>>
               t == <<a, b, c, d>>
    <2>1. <<a, b, c>> \in Seq(S) /\ <<d>> \in Seq(S) /\ t \in Seq(S) /\ Len(t) = 4
          /\ t[1] = a /\ t[2] = b /\ t[3] = c /\ t[4] = d
      OBVIOUS
    <2>2. s \in Seq(S) /\ Len(s) = 4 /\ s[1] = a /\ s[2] = b /\ s[3] = c /\ s[4] = d
      BY <2>1, ConcatProperties
    <2> HIDE DEF s, t
    <2>3. s = t
      BY <2>1, <2>2, SeqEqual
    <2> QED BY <2>3 DEF s, t
  <1> QED BY <1>1, <1>2, <1>3

LEMMA TwoAtOnce ==
  ASSUME NEW n \in Seq(Fields \cup {"user"})
  PROVE  /\ n \o <<>> = n
         /\ n \o <<"wsol_intermediary">> \o <<"amm_program">>
              = n \o <<"wsol_intermediary", "amm_program">>
  <1>1. <<"wsol_intermediary">> \in Seq(Fields \cup {"user"})
        /\ <<"amm_program">> \in Seq(Fields \cup {"user"})
        /\ "wsol_intermediary" \in Fields /\ "amm_program" \in Fields
    BY DEF Fields
  <1>2. <<"wsol_intermediary">> \o <<"amm_program">> = <<"wsol_intermediary", "amm_program">>
    BY <1>1, Joined
  <1> QED BY <1>1, <1>2, ConcatAssociative, ConcatEmptySeq

\* What an admitted pool is, whatever the rest of its record
LEMMA PoolShape ==
  ASSUME NEW id \in Pools
  PROVE  /\ HasOneFactionSide(id) /\ FactionMint(id) \in FactionMints
         /\ QuoteMint(id) \notin FactionMints
         /\ {id.tokenProgramA, id.tokenProgramB}
              \subseteq {SPL_TOKEN_PROGRAM_ID, TOKEN_2022_PROGRAM_ID}
         /\ {id.mintA, id.mintB} = {QuoteMint(id), FactionMint(id)}
         /\ QuoteMint(id) # FactionMint(id)
         /\ QuoteMint(id) = NATIVE_MINT <=> id.mintA = NATIVE_MINT
         /\ id.mintB # NATIVE_MINT
  <1>1. Admits(Key(id), [owner |-> AMM_PROGRAM_ID, data |-> [id |-> id, initialized |-> TRUE]])
    BY SettlementAssumption
  <1>2. /\ MintRank[id.mintA] < MintRank[id.mintB] /\ HasOneFactionSide(id)
        /\ {id.tokenProgramA, id.tokenProgramB}
             \subseteq {SPL_TOKEN_PROGRAM_ID, TOKEN_2022_PROGRAM_ID}
    BY <1>1 DEF Admits, IsCanonical
  <1>3. FactionMint(id) \in FactionMints /\ QuoteMint(id) \notin FactionMints
        /\ {id.mintA, id.mintB} = {QuoteMint(id), FactionMint(id)}
    BY <1>2 DEF HasOneFactionSide, FactionMint, QuoteMint
  <1>4. NATIVE_MINT \notin FactionMints
    BY DEF NATIVE_MINT, FactionMints, CRIME_MINT, FRAUD_MINT
  <1>5. id.mintB # NATIVE_MINT
    <2>1. SUFFICES ASSUME id.mintB = NATIVE_MINT PROVE FALSE
      OBVIOUS
    <2>2. id.mintA \in FactionMints
      BY <1>2, <1>4, <2>1 DEF HasOneFactionSide
    <2>3. /\ MintRank[NATIVE_MINT] \in Nat /\ MintRank[id.mintA] \in Nat
          /\ MintRank[NATIVE_MINT] < MintRank[id.mintA]
      BY <2>2, SettlementAssumption
    <2> QED BY <1>2, <2>1, <2>3
  <1>6. QuoteMint(id) = NATIVE_MINT <=> id.mintA = NATIVE_MINT
    BY <1>2, <1>4, <1>5 DEF HasOneFactionSide, QuoteMint
  <1> QED BY <1>2, <1>3, <1>5, <1>6

\* The accounts of a WSOL pool by the side they are on
LEMMA SolPoolShape ==
  ASSUME NEW id \in Pools, id.mintA = NATIVE_MINT
  PROVE  /\ IsSolPool(id)
         /\ ResolveSides(id) = [tokenOnA |-> FALSE, mint |-> FactionMint(id),
                                vault |-> VaultOf(id, FactionMint(id))]
         /\ id.mintB = FactionMint(id) /\ QuoteMint(id) = NATIVE_MINT
  <1>1. id.mintB \in FactionMints /\ id.mintA \notin FactionMints /\ id.mintB # NATIVE_MINT
        /\ id.mintA # id.mintB
    BY PoolShape DEF HasOneFactionSide, NATIVE_MINT, FactionMints, CRIME_MINT, FRAUD_MINT
  <1>2. FactionMint(id) = id.mintB /\ QuoteMint(id) = NATIVE_MINT
        /\ VaultOf(id, FactionMint(id)) = At(id.vaultB)
    BY <1>1 DEF FactionMint, QuoteMint, VaultOf
  <1> QED BY <1>1, <1>2 DEF IsSolPool, ResolveSides

\* What a taxed swap of this pool hands over: the signer, the accounts that pay
\* and are paid, and the rest of what its lane's list names.
UserAccount(id, lane, mint, source, dest) ==
  IF mint = (IF IsBuy(lane) THEN QuoteMint(id) ELSE FactionMint(id)) THEN source
  ELSE IF lane = "SplSell" THEN CanonicalSweep(id) ELSE dest

TaxReading(user, id, lane, source, dest) ==
  PoolReading(lane, user, Key(id), id, UserAccount(id, lane, id.mintA, source, dest),
              UserAccount(id, lane, id.mintB, source, dest), dest)

TaxHooks(id, lane, source, dest) ==
  IF IsBuy(lane) THEN HookMetas(FactionMint(id), VaultOf(id, FactionMint(id)), dest)
                 ELSE HookMetas(FactionMint(id), source, VaultOf(id, FactionMint(id)))

\* The list of an instance of the pool
TaxList(user, id, lane, source, dest) ==
  ReadOut(lane, TaxReading(user, id, lane, source, dest)) \o TaxHooks(id, lane, source, dest)

LEMMA FactionHooks ==
  ASSUME NEW mint \in FactionMints \cup {PROFIT_MINT}, NEW source, NEW dest
  PROVE  HookMetasForMint(mint, source, dest) = HookMetas(mint, source, dest)
  BY DEF HookMetasForMint, HookMetas

LEMMA SolBuyList ==
  ASSUME NEW user, NEW source, NEW dest, NEW id \in Pools, id.mintA = NATIVE_MINT,
         NEW lane \in {"SolBuy"}
  PROVE  SolBuyMetas(user, source, dest, Key(id), id) = TaxList(user, id, lane, source, dest)
  <1> DEFINE R == TaxReading(user, id, lane, source, dest)
             h == <<"user", "epoch_state", "swap_authority", "tax_authority">>
             m == <<Meta(user, TRUE, TRUE), Ro(EPOCH_STATE_PDA), Ro(SWAP_AUTHORITY_PDA),
                    Ro(TAX_AUTHORITY_PDA)>>
  <1>1. /\ IsSolPool(id) /\ id.mintB = FactionMint(id) /\ QuoteMint(id) = NATIVE_MINT
        /\ ResolveSides(id).tokenOnA = FALSE /\ ResolveSides(id).mint = FactionMint(id)
        /\ ResolveSides(id).vault = VaultOf(id, FactionMint(id))
    BY SolPoolShape
  <1>2. UserAccount(id, lane, id.mintA, source, dest) = source
        /\ UserAccount(id, lane, id.mintB, source, dest) = dest
    BY <1>1, PoolShape DEF UserAccount, IsBuy
  <1>3. R = PoolReading(lane, user, Key(id), id, source, dest, dest)
    BY <1>2 DEF TaxReading
  <1>4. Reads(m, h, R)
    <2>1. m = <<R["user"], R["epoch_state"], R["swap_authority"], R["tax_authority"]>>
      <3>1. (lane = "SolBuy") = TRUE /\ (lane \in {"SolBuyWsol", "SolSell"}) = FALSE
        OBVIOUS
      <3>2. R["user"] = Meta(user, TRUE, lane = "SolBuy")
            /\ R["swap_authority"]
                 = Meta(SWAP_AUTHORITY_PDA, FALSE, lane \in {"SolBuyWsol", "SolSell"})
            /\ R["epoch_state"] = Ro(EPOCH_STATE_PDA) /\ R["tax_authority"] = Ro(TAX_AUTHORITY_PDA)
        BY <1>3 DEF PoolReading
      <3> HIDE DEF R
      <3> QED BY <3>1, <3>2 DEF Ro
    <2>2. "epoch_state" \in Fields /\ "swap_authority" \in Fields /\ "tax_authority" \in Fields
      BY DEF Fields
    <2> HIDE DEF R, m
    <2> QED BY <2>1, <2>2, ReadsHead
  <1> HIDE DEF R, m, h
  <1>5. Reads(m \o PoolMetas(Key(id), id) \o OnSides(FALSE, dest, source), h \o PoolNames, R)
    BY <1>3, <1>4, PoolPart
  <1> DEFINE m2 == m \o PoolMetas(Key(id), id) \o OnSides(FALSE, dest, source)
             n2 == h \o PoolNames
             m3 == m2 \o TaxDestinations
             n3 == n2 \o <<"stake_pool", "staking_escrow", "carnage_vault", "treasury">>
             m4 == m3 \o <<Ro(At(AMM_PROGRAM_ID))>>
             n4 == n3 \o <<"amm_program">>
             m5 == m4 \o TokenPrograms(id)
             n5 == n4 \o LastNames
             m6 == m5 \o <<Ro(SYSTEM_PROGRAM), Ro(STAKING_PROGRAM)>>
             n6 == n5 \o <<"system_program", "staking_program">>
  <1>6. Reads(m2, n2, R)
    BY <1>5
  <1>7. lane \in SolLanes
    BY DEF SolLanes
  <1> HIDE DEF m2, n2
  <1>8. Reads(m3, n3, R)
    BY <1>3, <1>6, <1>7, SolTail
  <1>9. n3 \in Seq(Fields \cup {"user"})
    BY <1>8 DEF Reads
  <1> HIDE DEF m3, n3
  <1>10. Reads(m4, n4, R)
    BY <1>3, <1>7, <1>8, SolTail
  <1> HIDE DEF m4, n4
  <1>11. Reads(m5, n5, R)
    BY <1>3, <1>7, <1>10, SolTail
  <1> HIDE DEF m5, n5
  <1>12. Reads(m6, n6, R)
    BY <1>3, <1>7, <1>11, SolTail
  <1>13. Names(lane) = n6
    <2>1. n3 \o <<>> = n3
      BY <1>9, TwoAtOnce
    <2>2. Names(lane) = n3 \o <<>> \o <<"amm_program">> \o LastNames
                              \o <<"system_program", "staking_program">>
      BY <1>7 DEF Names, SolNames, n3, n2, h
    <2> QED BY <2>1, <2>2 DEF n6, n5, n4
  <1> HIDE DEF m6, n6
  <1>14. m6 = ReadOut(lane, R)
    BY <1>12, <1>13, ReadsIsReadOut
  <1>15. HookMetasForMint(FactionMint(id), VaultOf(id, FactionMint(id)), dest)
           = TaxHooks(id, lane, source, dest)
    BY PoolShape, FactionHooks DEF TaxHooks, IsBuy
  <1>16. SolBuyMetas(user, source, dest, Key(id), id)
           = m6 \o HookMetasForMint(FactionMint(id), VaultOf(id, FactionMint(id)), dest)
    BY <1>1 DEF SolBuyMetas, m6, m5, m4, m3, m2, m
  <1> QED BY <1>14, <1>15, <1>16 DEF TaxList, R

LEMMA WsolLanesList ==
  ASSUME NEW user, NEW source, NEW dest, NEW id \in Pools, id.mintA = NATIVE_MINT,
         NEW lane \in {"SolBuyWsol", "SolSell"}, NEW userToken, NEW userSol,
         <<userSol, userToken>>
           = (IF lane = "SolBuyWsol" THEN <<source, dest>> ELSE <<dest, source>>)
  PROVE  WsolIntermediaryMetas(user, userToken, userSol, Key(id), id, lane = "SolBuyWsol")
           = TaxList(user, id, lane, source, dest)
  <1> DEFINE R == TaxReading(user, id, lane, source, dest)
             h == <<"user", "epoch_state", "swap_authority", "tax_authority">>
             m == <<Meta(user, TRUE, FALSE), Ro(EPOCH_STATE_PDA), Mut(SWAP_AUTHORITY_PDA),
                    Ro(TAX_AUTHORITY_PDA)>>
  <1>1. /\ IsSolPool(id) /\ id.mintB = FactionMint(id) /\ QuoteMint(id) = NATIVE_MINT
        /\ ResolveSides(id).tokenOnA = FALSE /\ ResolveSides(id).mint = FactionMint(id)
        /\ ResolveSides(id).vault = VaultOf(id, FactionMint(id))
    BY SolPoolShape
  <1>2. UserAccount(id, lane, id.mintA, source, dest) = userSol
        /\ UserAccount(id, lane, id.mintB, source, dest) = userToken
    BY <1>1, PoolShape DEF UserAccount, IsBuy
  <1>3. R = PoolReading(lane, user, Key(id), id, userSol, userToken, dest)
    BY <1>2 DEF TaxReading
  <1>4. Reads(m, h, R)
    <2>1. m = <<R["user"], R["epoch_state"], R["swap_authority"], R["tax_authority"]>>
      <3>1. (lane = "SolBuy") = FALSE /\ (lane \in {"SolBuyWsol", "SolSell"}) = TRUE
        OBVIOUS
      <3>2. R["user"] = Meta(user, TRUE, lane = "SolBuy")
            /\ R["swap_authority"]
                 = Meta(SWAP_AUTHORITY_PDA, FALSE, lane \in {"SolBuyWsol", "SolSell"})
            /\ R["epoch_state"] = Ro(EPOCH_STATE_PDA) /\ R["tax_authority"] = Ro(TAX_AUTHORITY_PDA)
        BY <1>3 DEF PoolReading
      <3> HIDE DEF R
      <3> QED BY <3>1, <3>2 DEF Mut
    <2>2. "epoch_state" \in Fields /\ "swap_authority" \in Fields /\ "tax_authority" \in Fields
      BY DEF Fields
    <2> HIDE DEF R, m
    <2> QED BY <2>1, <2>2, ReadsHead
  <1> HIDE DEF R, m, h
  <1>5. Reads(m \o PoolMetas(Key(id), id) \o OnSides(FALSE, userToken, userSol),
              h \o PoolNames, R)
    BY <1>3, <1>4, PoolPart
  <1> DEFINE m2 == m \o PoolMetas(Key(id), id) \o OnSides(FALSE, userToken, userSol)
             n2 == h \o PoolNames
             m3 == m2 \o TaxDestinations
             n3 == n2 \o <<"stake_pool", "staking_escrow", "carnage_vault", "treasury">>
             m4 == m3 \o <<Mut(WSOL_INTERMEDIARY_PDA), Ro(At(AMM_PROGRAM_ID))>>
             n4 == n3 \o <<"wsol_intermediary", "amm_program">>
             m5 == m4 \o TokenPrograms(id)
             n5 == n4 \o LastNames
             m6 == m5 \o <<Ro(SYSTEM_PROGRAM), Ro(STAKING_PROGRAM)>>
             n6 == n5 \o <<"system_program", "staking_program">>
  <1>6. Reads(m2, n2, R)
    BY <1>5
  <1>7. lane \in SolLanes /\ lane # "SolBuy"
    BY DEF SolLanes
  <1> HIDE DEF m2, n2
  <1>8. Reads(m3, n3, R)
    BY <1>3, <1>6, <1>7, SolTail
  <1>9. n3 \in Seq(Fields \cup {"user"})
    BY <1>8 DEF Reads
  <1> HIDE DEF m3, n3
  <1>10. Reads(m4, n4, R)
    BY <1>3, <1>7, <1>8, SolTail
  <1> HIDE DEF m4, n4
  <1>11. Reads(m5, n5, R)
    BY <1>3, <1>7, <1>10, SolTail
  <1> HIDE DEF m5, n5
  <1>12. Reads(m6, n6, R)
    BY <1>3, <1>7, <1>11, SolTail
  <1>13. Names(lane) = n6
    <2>1. n3 \o <<"wsol_intermediary">> \o <<"amm_program">> = n4
      BY <1>9, TwoAtOnce DEF n4
    <2>2. Names(lane) = n3 \o <<"wsol_intermediary">> \o <<"amm_program">> \o LastNames
                          \o <<"system_program", "staking_program">>
      BY <1>7 DEF Names, SolNames, n3, n2, h
    <2> QED BY <2>1, <2>2 DEF n6, n5
  <1> HIDE DEF m6, n6
  <1>14. m6 = ReadOut(lane, R)
    BY <1>12, <1>13, ReadsIsReadOut
  <1> DEFINE f == FactionMint(id)
             hooks == IF lane = "SolBuyWsol" THEN HookMetasForMint(f, VaultOf(id, f), userToken)
                      ELSE HookMetasForMint(f, userToken, VaultOf(id, f))
  <1>15. hooks = TaxHooks(id, lane, source, dest)
    BY PoolShape, FactionHooks DEF TaxHooks, IsBuy
  <1>16. WsolIntermediaryMetas(user, userToken, userSol, Key(id), id, lane = "SolBuyWsol")
           = m6 \o hooks
    BY <1>1 DEF WsolIntermediaryMetas, m6, m5, m4, m3, m2, m
  <1> QED BY <1>14, <1>15, <1>16 DEF TaxList, R

LEMMA SplPoolShape ==
  ASSUME NEW id \in Pools
  PROVE  /\ HasFactionSides(id)
         /\ SweepAccount(id) = CanonicalSweep(id)
         /\ LET s == ResolveFactionSides(id) IN
            /\ s.factionIsA \in BOOLEAN /\ (s.factionIsA <=> id.mintA = FactionMint(id))
            /\ s.factionMint = FactionMint(id) /\ s.quoteMint = QuoteMint(id)
            /\ s.factionVault = VaultOf(id, FactionMint(id))
            /\ s.quoteTokenProgram = TokenProgramOf(id, QuoteMint(id))
  <1>1. /\ id.mintA \in FactionMints \/ id.mintB \in FactionMints
        /\ ~(id.mintA \in FactionMints /\ id.mintB \in FactionMints)
        /\ HasOneFactionSide(id)
        /\ {id.tokenProgramA, id.tokenProgramB}
              \subseteq {SPL_TOKEN_PROGRAM_ID, TOKEN_2022_PROGRAM_ID}
    BY PoolShape DEF HasOneFactionSide
  <1>2. HasFactionSides(id)
    BY <1>1 DEF HasFactionSides, TokenProgramOf
  <1> DEFINE s == ResolveFactionSides(id)
  <1>3. CASE id.mintA \in FactionMints
    <2>1. FactionMint(id) = id.mintA /\ QuoteMint(id) = id.mintB /\ id.mintA # id.mintB
      BY <1>1, <1>3 DEF FactionMint, QuoteMint
    <2>2. /\ s.factionIsA = TRUE /\ s.factionMint = FactionMint(id) /\ s.quoteMint = QuoteMint(id)
          /\ s.factionVault = At(id.vaultA) /\ s.quoteTokenProgram = id.tokenProgramB
      BY <1>3 DEF ResolveFactionSides
    <2>3. VaultOf(id, FactionMint(id)) = At(id.vaultA)
          /\ TokenProgramOf(id, QuoteMint(id)) = id.tokenProgramB
      BY <2>1 DEF VaultOf, TokenProgramOf
    <2>4. s.factionIsA \in BOOLEAN /\ (s.factionIsA <=> id.mintA = FactionMint(id))
      BY <2>1, <2>2
    <2> HIDE DEF s
    <2> QED BY <1>2, <2>1, <2>2, <2>3, <2>4 DEF SweepAccount, SweepAta, CanonicalSweep, s
  <1>4. CASE id.mintA \notin FactionMints
    <2>1. FactionMint(id) = id.mintB /\ QuoteMint(id) = id.mintA /\ id.mintA # id.mintB
      BY <1>1, <1>4 DEF FactionMint, QuoteMint
    <2>2. /\ s.factionIsA = FALSE /\ s.factionMint = FactionMint(id) /\ s.quoteMint = QuoteMint(id)
          /\ s.factionVault = At(id.vaultB) /\ s.quoteTokenProgram = id.tokenProgramA
      <3>1. (id.mintA \in FactionMints) = FALSE
        BY <1>4
      <3> QED BY <3>1 DEF ResolveFactionSides
    <2>3. VaultOf(id, FactionMint(id)) = At(id.vaultB)
          /\ TokenProgramOf(id, QuoteMint(id)) = id.tokenProgramA
      BY <2>1 DEF VaultOf, TokenProgramOf
    <2>4. s.factionIsA \in BOOLEAN /\ (s.factionIsA <=> id.mintA = FactionMint(id))
      BY <2>1, <2>2
    <2> HIDE DEF s
    <2> QED BY <1>2, <2>1, <2>2, <2>3, <2>4 DEF SweepAccount, SweepAta, CanonicalSweep, s
  <1> QED BY <1>3, <1>4

SplNamesHead ==
  <<"user", "epoch_state">> \o PoolNames
  \o <<"swap_authority", "sweep_authority", "quote_mint", "sweep_ata">>

LEMMA SplHeadReads ==
  ASSUME NEW user, NEW source, NEW dest, NEW id \in Pools, NEW lane \in {"SplBuy", "SplSell"},
         NEW quoteSlot, NEW userFaction,
         <<userFaction, quoteSlot>>
           = (IF lane = "SplBuy" THEN <<dest, source>> ELSE <<source, CanonicalSweep(id)>>)
  PROVE  Reads(SplHead(user, quoteSlot, userFaction, Key(id), id), SplNamesHead,
               TaxReading(user, id, lane, source, dest))
  <1> DEFINE R == TaxReading(user, id, lane, source, dest)
             s == ResolveFactionSides(id)
             h == <<"user", "epoch_state">>
             m == <<Meta(user, TRUE, FALSE), Ro(EPOCH_STATE_PDA)>>
             x == UserAccount(id, lane, id.mintA, source, dest)
             y == UserAccount(id, lane, id.mintB, source, dest)
             four == <<"swap_authority", "sweep_authority", "quote_mint", "sweep_ata">>
             rest == <<Ro(SWAP_AUTHORITY_PDA), Ro(SWEEP_AUTHORITY), Ro(At(s.quoteMint)),
                       Mut(SweepAccount(id))>>
  <1>1. /\ s.factionIsA \in BOOLEAN /\ (s.factionIsA <=> id.mintA = FactionMint(id))
        /\ SweepAccount(id) = CanonicalSweep(id) /\ s.quoteMint = QuoteMint(id)
    BY SplPoolShape
  <1>2. /\ x = (IF s.factionIsA THEN userFaction ELSE quoteSlot)
        /\ y = (IF s.factionIsA THEN quoteSlot ELSE userFaction)
    <2>1. /\ {id.mintA, id.mintB} = {QuoteMint(id), FactionMint(id)}
          /\ QuoteMint(id) # FactionMint(id)
      BY PoolShape
    <2> QED BY <1>1, <2>1 DEF UserAccount, IsBuy
  <1>3. R = PoolReading(lane, user, Key(id), id, x, y, dest)
    BY DEF TaxReading
  <1> HIDE DEF x, y, s
  <1>4. m = <<R["user"], R["epoch_state"]>> /\ R["swap_authority"] = Ro(SWAP_AUTHORITY_PDA)
    <2>1. (lane = "SolBuy") = FALSE /\ (lane \in {"SolBuyWsol", "SolSell"}) = FALSE
      OBVIOUS
    <2>2. R["user"] = Meta(user, TRUE, lane = "SolBuy")
          /\ R["swap_authority"]
               = Meta(SWAP_AUTHORITY_PDA, FALSE, lane \in {"SolBuyWsol", "SolSell"})
          /\ R["epoch_state"] = Ro(EPOCH_STATE_PDA)
      BY <1>3 DEF PoolReading
    <2> HIDE DEF R
    <2> QED BY <2>1, <2>2 DEF Ro
  <1>5. /\ R["sweep_authority"] = Ro(SWEEP_AUTHORITY)
        /\ R["quote_mint"] = Ro(At(QuoteMint(id))) /\ R["sweep_ata"] = Mut(CanonicalSweep(id))
    BY <1>3 DEF PoolReading
  <1>6. {"epoch_state", "swap_authority", "sweep_authority", "quote_mint", "sweep_ata"}
          \subseteq Fields
    BY DEF Fields
  <1> HIDE DEF R
  <1>7. Reads(m, h, R)
    BY <1>4, <1>6, ReadsHead
  <1>8. rest = <<R["swap_authority"], R["sweep_authority"], R["quote_mint"], R["sweep_ata"]>>
    BY <1>1, <1>4, <1>5
  <1>9. Fits(rest, four, R, Fields)
    BY <1>6, <1>8, FitsWritten
  <1> HIDE DEF m, h, rest, four
  <1>10. Reads(m \o PoolMetas(Key(id), id) \o OnSides(s.factionIsA, userFaction, quoteSlot),
               h \o PoolNames, R)
    <2> DEFINE isA == s.factionIsA
    <2>1. isA \in BOOLEAN
      BY <1>1
    <2>2. Reads(m, h, PoolReading(lane, user, Key(id), id, x, y, dest))
      BY <1>3, <1>7
    <2>3. /\ x = (IF isA THEN userFaction ELSE quoteSlot)
          /\ y = (IF isA THEN quoteSlot ELSE userFaction)
      BY <1>2
    <2> HIDE DEF isA
    <2>4. Reads(m \o PoolMetas(Key(id), id) \o OnSides(isA, userFaction, quoteSlot),
                h \o PoolNames, PoolReading(lane, user, Key(id), id, x, y, dest))
      BY <2>1, <2>2, <2>3, PoolPart
    <2> QED BY <1>3, <2>4 DEF isA
  <1>11. Reads(m \o PoolMetas(Key(id), id) \o OnSides(s.factionIsA, userFaction, quoteSlot) \o rest,
               h \o PoolNames \o four, R)
    BY <1>9, <1>10, ReadsOn
  <1> QED BY <1>11 DEF SplHead, SplNamesHead, R, s, m, h, rest, four

\* The last accounts of an SPL list, behind whatever comes before them
LEMMA SplTailReads ==
  ASSUME NEW user, NEW source, NEW dest, NEW id \in Pools, NEW lane, NEW m, NEW n,
         Reads(m, n, TaxReading(user, id, lane, source, dest))
  PROVE  Reads(m \o SplTail(id),
               n \o <<"quote_token_program">> \o LastNames \o <<"amm_program">>,
               TaxReading(user, id, lane, source, dest))
  <1> DEFINE R == TaxReading(user, id, lane, source, dest)
             q == <<Ro(At(ResolveFactionSides(id).quoteTokenProgram))>>
             a == <<Ro(At(AMM_PROGRAM_ID))>>
             qn == <<"quote_token_program">>
             an == <<"amm_program">>
  <1>1. /\ q = <<R["quote_token_program"]>> /\ a = <<R["amm_program"]>>
        /\ TokenPrograms(id) = <<R["token_program_a"], R["token_program_b"]>>
    BY SplPoolShape DEF TaxReading, PoolReading, TokenPrograms
  <1>2. {"quote_token_program", "amm_program", "token_program_a", "token_program_b"}
          \subseteq Fields
    BY DEF Fields
  <1>3. Reads(m, n, R)
    OBVIOUS
  <1> HIDE DEF R
  <1>4. Fits(q, qn, R, Fields) /\ Fits(a, an, R, Fields)
        /\ Fits(TokenPrograms(id), LastNames, R, Fields)
    BY <1>1, <1>2, FitsWritten DEF LastNames
  <1> HIDE DEF q, a, qn, an
  <1>5. Fits(q \o TokenPrograms(id), qn \o LastNames, R, Fields)
    BY <1>4, FitsJoined
  <1>6. Fits(q \o TokenPrograms(id) \o a, qn \o LastNames \o an, R, Fields)
    BY <1>4, <1>5, FitsJoined
  <1>7. Reads(m \o (q \o TokenPrograms(id) \o a), n \o (qn \o LastNames \o an), R)
    BY <1>3, <1>6, ReadsOn
  <1>8. n \o (qn \o LastNames \o an) = n \o qn \o LastNames \o an
    <2> DEFINE F == Fields \cup {"user"}
    <2>1. n \in Seq(F)
      BY <1>3 DEF Reads
    <2>2. qn \in Seq(F) /\ an \in Seq(F) /\ LastNames \in Seq(F)
      BY DEF qn, an, LastNames, Fields
    <2> HIDE DEF F
    <2>3. qn \o LastNames \in Seq(F)
      BY <2>2
    <2> QED BY <2>1, <2>2, <2>3, ConcatAssociative
  <1>9. SplTail(id) = q \o TokenPrograms(id) \o a
    BY DEF SplTail, q, a
  <1> QED BY <1>7, <1>8, <1>9 DEF R, qn, an

LEMMA SplBuyList ==
  ASSUME NEW user, NEW source, NEW dest, NEW id \in Pools, NEW lane \in {"SplBuy"}
  PROVE  SplBuyMetas(user, source, dest, Key(id), id) = TaxList(user, id, lane, source, dest)
  <1> DEFINE R == TaxReading(user, id, lane, source, dest)
             m == SplHead(user, source, dest, Key(id), id)
             n == SplNamesHead
  <1>1. Reads(m, n, R)
    BY SplHeadReads
  <1>2. n \o <<>> = n
    BY <1>1, TwoAtOnce DEF Reads
  <1> HIDE DEF R, m
  <1>3. Reads(m \o SplTail(id),
              n \o <<"quote_token_program">> \o LastNames \o <<"amm_program">>, R)
    BY <1>1, SplTailReads DEF R
  <1>4. Names(lane) = n \o <<>> \o <<"quote_token_program">> \o LastNames \o <<"amm_program">>
    BY DEF Names, SolLanes, SplNames, SplNamesHead
  <1>5. m \o SplTail(id) = ReadOut(lane, R)
    BY <1>2, <1>3, <1>4, ReadsIsReadOut
  <1> DEFINE f == FactionMint(id)
  <1>6. HookMetasForMint(f, VaultOf(id, f), dest) = TaxHooks(id, lane, source, dest)
    BY PoolShape, FactionHooks DEF TaxHooks, IsBuy
  <1>7. SplBuyMetas(user, source, dest, Key(id), id)
          = m \o SplTail(id) \o HookMetasForMint(f, VaultOf(id, f), dest)
    BY SplPoolShape DEF SplBuyMetas, m
  <1> QED BY <1>5, <1>6, <1>7 DEF TaxList, R

LEMMA SplSellList ==
  ASSUME NEW user, NEW source, NEW dest, NEW id \in Pools, NEW lane \in {"SplSell"}
  PROVE  SplSellMetas(user, source, dest, Key(id), id) = TaxList(user, id, lane, source, dest)
  <1> DEFINE R == TaxReading(user, id, lane, source, dest)
             m == SplHead(user, SweepAccount(id), source, Key(id), id)
             n == SplNamesHead
             un == <<"user_quote">>
             u == <<Mut(dest)>>
  <1>1. Reads(m, n, R)
    BY SplHeadReads, SplPoolShape
  <1>2. u = <<R["user_quote"]>> /\ "user_quote" \in Fields
    BY DEF TaxReading, PoolReading, Fields
  <1> HIDE DEF R, m, n
  <1>3. Fits(u, un, R, Fields)
    BY <1>2, FitsWritten
  <1> HIDE DEF u, un
  <1>4. Reads(m \o u, n \o un, R)
    BY <1>1, <1>3, ReadsOn
  <1>5. Reads(m \o u \o SplTail(id),
              n \o un \o <<"quote_token_program">> \o LastNames \o <<"amm_program">>, R)
    BY <1>4, SplTailReads DEF R
  <1>6. Names(lane) = n \o un \o <<"quote_token_program">> \o LastNames \o <<"amm_program">>
    BY DEF Names, SolLanes, SplNames, SplNamesHead, n, un
  <1>7. m \o u \o SplTail(id) = ReadOut(lane, R)
    BY <1>5, <1>6, ReadsIsReadOut
  <1> DEFINE f == FactionMint(id)
  <1>8. HookMetasForMint(f, source, VaultOf(id, f)) = TaxHooks(id, lane, source, dest)
    BY PoolShape, FactionHooks DEF TaxHooks, IsBuy
  <1>9. SplSellMetas(user, source, dest, Key(id), id)
          = m \o u \o SplTail(id) \o HookMetasForMint(f, source, VaultOf(id, f))
    BY SplPoolShape DEF SplSellMetas, m, u
  <1> QED BY <1>7, <1>8, <1>9 DEF TaxList, R

-----------------------------------------------------------------------------
(* The lanes' names *)

Lanes == SolLanes \cup {"SplBuy", "SplSell", "ConvertV2"}

\* A list of names, the user's first and nowhere else.
Begins(names, fields, n) ==
  /\ names \in Seq(Fields \cup {"user"}) /\ Len(names) = n /\ n \in Nat \ {0}
  /\ {names[i] : i \in 1 .. Len(names)} = fields \cup {"user"}
  /\ \A i \in 1 .. Len(names) : names[i] = "user" <=> i = 1

Lists(names, fields, n) ==
  /\ names \in Seq(Fields) /\ Len(names) = n /\ n \in Nat
  /\ {names[i] : i \in 1 .. Len(names)} = fields

LEMMA BeginsOn ==
  ASSUME NEW n1, NEW s1, NEW k1, Begins(n1, s1, k1), NEW n2, NEW s2, NEW k2, Lists(n2, s2, k2)
  PROVE  Begins(n1 \o n2, s1 \cup s2, k1 + k2)
  <1> DEFINE F == Fields \cup {"user"}
  <1>1. /\ n1 \in Seq(F) /\ Len(n1) = k1 /\ k1 \in Nat \ {0}
        /\ {n1[i] : i \in 1 .. k1} = s1 \cup {"user"}
        /\ \A i \in 1 .. k1 : n1[i] = "user" <=> i = 1
    BY DEF Begins
  <1>2. n2 \in Seq(Fields) /\ Len(n2) = k2 /\ k2 \in Nat /\ {n2[i] : i \in 1 .. k2} = s2
    BY DEF Lists
  <1>3. Fields \subseteq F /\ "user" \notin Fields
    BY DEF Fields
  <1> HIDE DEF F
  <1>4. n2 \in Seq(F)
    BY <1>2, <1>3
  <1> DEFINE n == n1 \o n2
  <1>5. /\ n \in Seq(F) /\ Len(n) = k1 + k2
        /\ \A i \in 1 .. k1 : n[i] = n1[i]
        /\ \A i \in 1 .. k2 : n[k1 + i] = n2[i]
    BY <1>1, <1>2, <1>4
  <1> HIDE DEF n
  <1>6. ASSUME NEW i \in 1 .. k1 + k2
        PROVE  /\ n[i] \in s1 \cup s2 \cup {"user"}
               /\ n[i] = "user" <=> i = 1
    <2>1. CASE i \in 1 .. k1
      BY <1>1, <1>5, <2>1
    <2>2. CASE i \notin 1 .. k1
      <3>1. PICK j \in 1 .. k2 : i = k1 + j
        <4>1. i - k1 \in 1 .. k2 /\ i = k1 + (i - k1)
          BY <1>1, <1>2, <2>2
        <4> QED BY <4>1
      <3>2. n[i] = n2[j] /\ n2[j] \in s2 /\ n2[j] \in Fields
        BY <1>2, <1>5, <3>1
      <3> QED BY <1>1, <1>3, <3>1, <3>2
    <2> QED BY <2>1, <2>2
  <1>7. ASSUME NEW f \in s1 \cup s2 \cup {"user"}
        PROVE  \E i \in 1 .. k1 + k2 : f = n[i]
    <2>1. CASE f \in s2
      <3>1. PICK j \in 1 .. k2 : f = n2[j]
        BY <1>2, <2>1
      <3>2. k1 + j \in 1 .. k1 + k2
        BY <1>1, <1>2
      <3> QED BY <1>5, <3>1, <3>2
    <2>2. CASE f \in s1 \cup {"user"}
      <3>1. PICK i \in 1 .. k1 : f = n1[i]
        BY <1>1, <2>2
      <3>2. i \in 1 .. k1 + k2
        BY <1>1, <1>2
      <3> QED BY <1>5, <3>1, <3>2
    <2> QED BY <2>1, <2>2
  <1>8. {n[i] : i \in 1 .. k1 + k2} = (s1 \cup s2) \cup {"user"}
    BY <1>6, <1>7
  <1>9. k1 + k2 \in Nat \ {0}
    BY <1>1, <1>2
  <1> QED BY <1>5, <1>6, <1>8, <1>9 DEF Begins, n, F

PoolFieldSet == {"pool", "vault_a", "vault_b", "mint_a", "mint_b", "user_a", "user_b"}
TaxFieldSet == {"stake_pool", "staking_escrow", "carnage_vault", "treasury"}

LEMMA NamesWritten ==
  /\ Begins(<<"user", "epoch_state", "swap_authority", "tax_authority">>,
            {"epoch_state", "swap_authority", "tax_authority"}, 4)
  /\ Begins(<<"user", "epoch_state">>, {"epoch_state"}, 2)
  /\ Lists(PoolNames, PoolFieldSet, 7)
  /\ Lists(<<"stake_pool", "staking_escrow", "carnage_vault", "treasury">>, TaxFieldSet, 4)
  /\ Lists(<<>>, {}, 0)
  /\ Lists(<<"wsol_intermediary">>, {"wsol_intermediary"}, 1)
  /\ Lists(<<"amm_program">>, {"amm_program"}, 1)
  /\ Lists(LastNames, {"token_program_a", "token_program_b"}, 2)
  /\ Lists(<<"system_program", "staking_program">>, {"system_program", "staking_program"}, 2)
  /\ Lists(<<"swap_authority", "sweep_authority", "quote_mint", "sweep_ata">>,
           {"swap_authority", "sweep_authority", "quote_mint", "sweep_ata"}, 4)
  /\ Lists(<<"user_quote">>, {"user_quote"}, 1)
  /\ Lists(<<"quote_token_program">>, {"quote_token_program"}, 1)
  <1>1. Begins(<<"user", "epoch_state", "swap_authority", "tax_authority">>,
               {"epoch_state", "swap_authority", "tax_authority"}, 4)
    BY DEF Begins, Fields
  <1>2. Begins(<<"user", "epoch_state">>, {"epoch_state"}, 2)
    BY DEF Begins, Fields
  <1>3. Lists(PoolNames, PoolFieldSet, 7)
    BY DEF Lists, Fields, PoolNames, PoolFieldSet
  <1>4. Lists(<<"stake_pool", "staking_escrow", "carnage_vault", "treasury">>, TaxFieldSet, 4)
    BY DEF Lists, Fields, TaxFieldSet
  <1>5. Lists(<<>>, {}, 0)
    BY DEF Lists
  <1>6. Lists(<<"wsol_intermediary">>, {"wsol_intermediary"}, 1)
    BY DEF Lists, Fields
  <1>7. Lists(<<"amm_program">>, {"amm_program"}, 1)
    BY DEF Lists, Fields
  <1>8. Lists(LastNames, {"token_program_a", "token_program_b"}, 2)
    BY DEF Lists, Fields, LastNames
  <1>9. Lists(<<"system_program", "staking_program">>, {"system_program", "staking_program"}, 2)
    BY DEF Lists, Fields
  <1>10. Lists(<<"swap_authority", "sweep_authority", "quote_mint", "sweep_ata">>,
               {"swap_authority", "sweep_authority", "quote_mint", "sweep_ata"}, 4)
    BY DEF Lists, Fields
  <1>11. Lists(<<"user_quote">>, {"user_quote"}, 1)
    BY DEF Lists, Fields
  <1>12. Lists(<<"quote_token_program">>, {"quote_token_program"}, 1)
    BY DEF Lists, Fields
  <1> QED BY <1>1, <1>2, <1>3, <1>4, <1>5, <1>6, <1>7, <1>8, <1>9, <1>10, <1>11, <1>12

SolFields ==
  PoolFieldSet \cup TaxFieldSet
  \cup {"epoch_state", "swap_authority", "tax_authority", "amm_program", "token_program_a",
        "token_program_b", "system_program", "staking_program"}

SplFields ==
  PoolFieldSet
  \cup {"epoch_state", "swap_authority", "sweep_authority", "quote_mint", "sweep_ata",
        "quote_token_program", "token_program_a", "token_program_b", "amm_program"}

ConvertFields ==
  {"vault_config", "user_input", "user_output", "input_mint", "output_mint", "vault_input",
   "vault_output", "token_program"}

\* What a lane names besides the user, and how many names it has.
LaneFields(lane) ==
  CASE lane = "SolBuy"    -> SolFields
    [] lane = "SplBuy"    -> SplFields
    [] lane = "SplSell"   -> SplFields \cup {"user_quote"}
    [] lane = "ConvertV2" -> ConvertFields
    [] OTHER              -> SolFields \cup {"wsol_intermediary"}

LaneLength(lane) ==
  CASE lane = "SolBuy"    -> 20
    [] lane = "SplBuy"    -> 17
    [] lane = "SplSell"   -> 18
    [] lane = "ConvertV2" -> 9
    [] OTHER              -> 21

LEMMA NamesKnown ==
  ASSUME NEW lane \in Lanes
  PROVE  Begins(Names(lane), LaneFields(lane), LaneLength(lane))
  <1>2. ASSUME lane \in SolLanes
        PROVE  Begins(Names(lane), LaneFields(lane), LaneLength(lane))
    <2> DEFINE h == <<"user", "epoch_state", "swap_authority", "tax_authority">>
               d == <<"stake_pool", "staking_escrow", "carnage_vault", "treasury">>
               w == IF lane = "SolBuy" THEN <<>> ELSE <<"wsol_intermediary">>
               ws == IF lane = "SolBuy" THEN {} ELSE {"wsol_intermediary"}
               wk == IF lane = "SolBuy" THEN 0 ELSE 1
               a == <<"amm_program">>
               p == <<"system_program", "staking_program">>
               hs == {"epoch_state", "swap_authority", "tax_authority"}
    <2>1. Begins(h \o PoolNames, hs \cup PoolFieldSet, 4 + 7)
      BY NamesWritten, BeginsOn
    <2>2. Begins(h \o PoolNames \o d, hs \cup PoolFieldSet \cup TaxFieldSet, 4 + 7 + 4)
      BY <2>1, NamesWritten, BeginsOn
    <2>3. Lists(w, ws, wk)
      BY NamesWritten
    <2> HIDE DEF w, ws, wk
    <2>4. Begins(h \o PoolNames \o d \o w, hs \cup PoolFieldSet \cup TaxFieldSet \cup ws,
                 4 + 7 + 4 + wk)
      BY <2>2, <2>3, BeginsOn
    <2>5. Begins(h \o PoolNames \o d \o w \o a,
                 hs \cup PoolFieldSet \cup TaxFieldSet \cup ws \cup {"amm_program"},
                 4 + 7 + 4 + wk + 1)
      BY <2>4, NamesWritten, BeginsOn
    <2>6. Begins(h \o PoolNames \o d \o w \o a \o LastNames,
                 hs \cup PoolFieldSet \cup TaxFieldSet \cup ws \cup {"amm_program"}
                 \cup {"token_program_a", "token_program_b"}, 4 + 7 + 4 + wk + 1 + 2)
      BY <2>5, NamesWritten, BeginsOn
    <2>7. Begins(h \o PoolNames \o d \o w \o a \o LastNames \o p,
                 hs \cup PoolFieldSet \cup TaxFieldSet \cup ws \cup {"amm_program"}
                 \cup {"token_program_a", "token_program_b"}
                 \cup {"system_program", "staking_program"}, 4 + 7 + 4 + wk + 1 + 2 + 2)
      BY <2>6, NamesWritten, BeginsOn
    <2>8. Names(lane) = h \o PoolNames \o d \o w \o a \o LastNames \o p
      BY <1>2 DEF Names, SolNames, w
    <2>9. /\ LaneFields(lane) = hs \cup PoolFieldSet \cup TaxFieldSet \cup ws \cup {"amm_program"}
                 \cup {"token_program_a", "token_program_b"}
                 \cup {"system_program", "staking_program"}
          /\ LaneLength(lane) = 4 + 7 + 4 + wk + 1 + 2 + 2
      <3>1. CASE lane = "SolBuy"
        BY <3>1 DEF LaneFields, LaneLength, SolFields, ws, wk
      <3>2. CASE lane \in {"SolBuyWsol", "SolSell"}
        BY <3>2 DEF LaneFields, LaneLength, SolFields, ws, wk
      <3> QED BY <1>2, <3>1, <3>2 DEF SolLanes
    <2> QED BY <2>7, <2>8, <2>9
  <1>3. ASSUME lane \in {"SplBuy", "SplSell"}
        PROVE  Begins(Names(lane), LaneFields(lane), LaneLength(lane))
    <2> DEFINE h == <<"user", "epoch_state">>
               d == <<"swap_authority", "sweep_authority", "quote_mint", "sweep_ata">>
               ds == {"swap_authority", "sweep_authority", "quote_mint", "sweep_ata"}
               w == IF lane = "SplSell" THEN <<"user_quote">> ELSE <<>>
               ws == IF lane = "SplSell" THEN {"user_quote"} ELSE {}
               wk == IF lane = "SplSell" THEN 1 ELSE 0
               q == <<"quote_token_program">>
               a == <<"amm_program">>
    <2>1. Begins(h \o PoolNames, {"epoch_state"} \cup PoolFieldSet, 2 + 7)
      BY NamesWritten, BeginsOn
    <2>2. Begins(h \o PoolNames \o d, {"epoch_state"} \cup PoolFieldSet \cup ds, 2 + 7 + 4)
      BY <2>1, NamesWritten, BeginsOn
    <2>3. Lists(w, ws, wk)
      BY NamesWritten
    <2> HIDE DEF w, ws, wk
    <2>4. Begins(h \o PoolNames \o d \o w, {"epoch_state"} \cup PoolFieldSet \cup ds \cup ws,
                 2 + 7 + 4 + wk)
      BY <2>2, <2>3, BeginsOn
    <2>5. Begins(h \o PoolNames \o d \o w \o q,
                 {"epoch_state"} \cup PoolFieldSet \cup ds \cup ws \cup {"quote_token_program"},
                 2 + 7 + 4 + wk + 1)
      BY <2>4, NamesWritten, BeginsOn
    <2>6. Begins(h \o PoolNames \o d \o w \o q \o LastNames,
                 {"epoch_state"} \cup PoolFieldSet \cup ds \cup ws \cup {"quote_token_program"}
                 \cup {"token_program_a", "token_program_b"}, 2 + 7 + 4 + wk + 1 + 2)
      BY <2>5, NamesWritten, BeginsOn
    <2>7. Begins(h \o PoolNames \o d \o w \o q \o LastNames \o a,
                 {"epoch_state"} \cup PoolFieldSet \cup ds \cup ws \cup {"quote_token_program"}
                 \cup {"token_program_a", "token_program_b"} \cup {"amm_program"},
                 2 + 7 + 4 + wk + 1 + 2 + 1)
      BY <2>6, NamesWritten, BeginsOn
    <2>8. Names(lane) = h \o PoolNames \o d \o w \o q \o LastNames \o a
      BY <1>3 DEF Names, SplNames, SolLanes, w
    <2>9. /\ LaneFields(lane)
               = {"epoch_state"} \cup PoolFieldSet \cup ds \cup ws \cup {"quote_token_program"}
                 \cup {"token_program_a", "token_program_b"} \cup {"amm_program"}
          /\ LaneLength(lane) = 2 + 7 + 4 + wk + 1 + 2 + 1
      <3>1. CASE lane = "SplBuy"
        BY <3>1 DEF LaneFields, LaneLength, SplFields, ws, wk
      <3>2. CASE lane = "SplSell"
        BY <3>2 DEF LaneFields, LaneLength, SplFields, ws, wk
      <3> QED BY <1>3, <3>1, <3>2
    <2> QED BY <2>7, <2>8, <2>9
  <1>4. ASSUME lane = "ConvertV2"
        PROVE  Begins(Names(lane), LaneFields(lane), LaneLength(lane))
    <2>1. Names(lane) = ConvertNames /\ LaneFields(lane) = ConvertFields /\ LaneLength(lane) = 9
      BY <1>4 DEF Names, SolLanes, LaneFields, LaneLength
    <2>2. Begins(ConvertNames, ConvertFields, 9)
      BY DEF Begins, ConvertNames, ConvertFields, Fields
    <2> QED BY <2>1, <2>2
  <1> QED BY <1>2, <1>3, <1>4 DEF Lanes

\* A list read back: what it has under each name, in each position, and the keys
\* behind the named accounts.
ReadBack(o, lane, reading, hooks) ==
  /\ Len(Names(lane)) = LaneLength(lane) /\ LaneLength(lane) \in Nat \ {0}
  /\ NameSet(lane) = LaneFields(lane) \cup {"user"}
  /\ Len(o.metas) = LaneLength(lane) + Len(hooks)
  /\ \A n \in NameSet(lane) : Named(o)[n] = reading[n] /\ Keys(o)[n] = reading[n].key
  /\ \A i \in 1 .. LaneLength(lane) :
       /\ Names(lane)[i] \in NameSet(lane) /\ o.metas[i] = reading[Names(lane)[i]]
       /\ Names(lane)[i] = "user" <=> i = 1
  /\ \A i \in 1 .. Len(hooks) : o.metas[LaneLength(lane) + i] = hooks[i]
  /\ Hooks(o) = [i \in 1 .. Len(hooks) |-> hooks[i].key]

LEMMA ReadOff ==
  ASSUME NEW lane \in Lanes, NEW R, NEW S, NEW hooks \in Seq(S), NEW o,
         o.ix.lane = lane, o.metas = ReadOut(lane, R) \o hooks
  PROVE  ReadBack(o, lane, R, hooks)
  <1> DEFINE N == LaneLength(lane)
             names == Names(lane)
             head == ReadOut(lane, R)
  <1>1. /\ Len(names) = N /\ N \in Nat \ {0}
        /\ NameSet(lane) = LaneFields(lane) \cup {"user"}
        /\ \A i \in 1 .. N : names[i] = "user" <=> i = 1
        /\ \A i \in 1 .. N : names[i] \in NameSet(lane)
        /\ \A n \in NameSet(lane) : \E i \in 1 .. N : names[i] = n
    BY NamesKnown DEF Begins, NameSet
  <1> HIDE DEF N, names
  <1> DEFINE T == {R[n] : n \in NameSet(lane)} \cup S
  <1>2. head = [i \in 1 .. N |-> R[names[i]]]
    BY <1>1 DEF ReadOut, names
  <1>3. head \in Seq(T) /\ Len(head) = N /\ \A i \in 1 .. N : head[i] = R[names[i]]
    <2>1. \A i \in 1 .. N : R[names[i]] \in T
      BY <1>1
    <2> HIDE DEF T, head
    <2> QED BY <1>1, <1>2, <2>1
  <1>4. hooks \in Seq(T) /\ Len(hooks) \in Nat
    OBVIOUS
  <1> HIDE DEF T, head
  <1>5. /\ Len(o.metas) = N + Len(hooks)
        /\ \A i \in 1 .. N : o.metas[i] = R[names[i]]
        /\ \A i \in 1 .. Len(hooks) : o.metas[N + i] = hooks[i]
    <2> DEFINE all == head \o hooks
    <2>1. o.metas = all
      BY DEF head
    <2>2. /\ Len(all) = N + Len(hooks)
          /\ \A i \in 1 .. N + Len(hooks) : all[i] = IF i <= N THEN head[i] ELSE hooks[i - N]
      BY <1>3, <1>4, ConcatProperties
    <2> HIDE DEF all
    <2>3. ASSUME NEW i \in 1 .. N PROVE all[i] = R[names[i]]
      BY <1>1, <1>3, <1>4, <2>2
    <2>4. ASSUME NEW i \in 1 .. Len(hooks) PROVE all[N + i] = hooks[i]
      <3>1. N + i \in 1 .. N + Len(hooks) /\ ~(N + i <= N) /\ (N + i) - N = i
        BY <1>1, <1>4
      <3> QED BY <2>2, <3>1
    <2> QED BY <2>1, <2>2, <2>3, <2>4
  <1>6. ASSUME NEW n \in NameSet(lane)
        PROVE  Named(o)[n] = R[n] /\ Keys(o)[n] = R[n].key
    <2>1. Named(o)[n] = o.metas[CHOOSE i \in 1 .. N : names[i] = n]
      BY <1>1 DEF Named, names
    <2> DEFINE j == CHOOSE i \in 1 .. N : names[i] = n
    <2>2. j \in 1 .. N /\ names[j] = n
      BY <1>1
    <2>3. Named(o)[n] = o.metas[j]
      BY <2>1
    <2> HIDE DEF j
    <2>4. Named(o)[n] = R[n]
      BY <1>5, <2>2, <2>3
    <2> QED BY <2>4 DEF Keys
  <1>7. Hooks(o) = [i \in 1 .. Len(hooks) |-> hooks[i].key]
    <2>1. Len(o.metas) - Len(names) = Len(hooks)
      BY <1>1, <1>4, <1>5
    <2>2. Hooks(o) = [i \in 1 .. Len(hooks) |-> o.metas[i + N].key]
      BY <1>1, <2>1 DEF Hooks, names
    <2>3. \A i \in 1 .. Len(hooks) : o.metas[i + N].key = hooks[i].key
      BY <1>1, <1>4, <1>5
    <2> QED BY <2>2, <2>3
  <1> QED BY <1>1, <1>5, <1>6, <1>7 DEF ReadBack, N, names

-----------------------------------------------------------------------------
(* The list of a conversion *)

ConvertReading(user, source, dest, input, output) ==
  [user         |-> Meta(user, TRUE, FALSE),
   vault_config |-> Ro(VAULT_CONFIG_PDA),
   user_input   |-> Mut(source),
   user_output  |-> Mut(dest),
   input_mint   |-> Ro(At(input)),
   output_mint  |-> Ro(At(output)),
   vault_input  |-> Mut(VaultTokenAccount(input)),
   vault_output |-> Mut(VaultTokenAccount(output)),
   token_program |-> Ro(At(TOKEN_2022_PROGRAM_ID))]

ConvertHooks(source, dest, input, output) ==
  HookMetas(input, source, VaultTokenAccount(input))
  \o HookMetas(output, VaultTokenAccount(output), dest)

LEMMA ConvertListRead ==
  ASSUME NEW user, NEW source, NEW dest, NEW input \in FactionMints \cup {PROFIT_MINT},
         NEW output \in FactionMints \cup {PROFIT_MINT}, NEW lane \in {"ConvertV2"}
  PROVE  VaultMetas(user, source, dest, input, output)
           = ReadOut(lane, ConvertReading(user, source, dest, input, output))
             \o ConvertHooks(source, dest, input, output)
  <1> DEFINE R == ConvertReading(user, source, dest, input, output)
             nine == <<Meta(user, TRUE, FALSE), Ro(VAULT_CONFIG_PDA), Mut(source), Mut(dest),
                       Ro(At(input)), Ro(At(output)), Mut(VaultTokenAccount(input)),
                       Mut(VaultTokenAccount(output)), Ro(At(TOKEN_2022_PROGRAM_ID))>>
  <1>1. nine = <<R["user"], R["vault_config"], R["user_input"], R["user_output"],
                 R["input_mint"], R["output_mint"], R["vault_input"], R["vault_output"],
                 R["token_program"]>>
    BY DEF ConvertReading
  <1>2. ConvertFields \subseteq Fields /\ "user" \notin Fields
    BY DEF ConvertFields, Fields
  <1> HIDE DEF R, nine
  <1> DEFINE U == UNION {{R[n]} : n \in Fields \cup {"user"}}
  <1>3. \A n \in Fields \cup {"user"} : R[n] \in U
    OBVIOUS
  <1> HIDE DEF U
  <1>4. nine \in Seq(U)
    BY <1>1, <1>2, <1>3 DEF ConvertFields
  <1>5. /\ ConvertNames \in Seq(Fields \cup {"user"}) /\ Len(ConvertNames) = 9
        /\ \A i \in 1 .. 9 : ConvertNames[i] = "user" <=> i = 1
    BY <1>2, NamesKnown DEF Begins, Names, LaneFields, LaneLength, Lanes, SolLanes
  <1>6. Reads(nine, ConvertNames, R)
    <2>1. Len(nine) = 9 /\ \A i \in 1 .. 9 : nine[i] = R[ConvertNames[i]]
      BY <1>1 DEF ConvertNames
    <2> QED BY <1>4, <1>5, <2>1 DEF Reads, U
  <1>7. Names(lane) = ConvertNames
    BY DEF Names, SolLanes
  <1>8. nine = ReadOut(lane, R)
    BY <1>6, <1>7, ReadsIsReadOut
  <1> DEFINE h1 == HookMetas(input, source, VaultTokenAccount(input))
             h2 == HookMetas(output, VaultTokenAccount(output), dest)
             S == U \cup {h1[i] : i \in 1 .. 4}
                  \cup {h2[i] : i \in 1 .. 4}
  <1>9. VaultMetas(user, source, dest, input, output) = nine \o h1 \o h2
    BY FactionHooks DEF VaultMetas, nine
  <1>10. h1 \in Seq(S) /\ h2 \in Seq(S)
    BY DEF HookMetas
  <1>11. nine \in Seq(S)
    <2> HIDE DEF h1, h2
    <2> QED BY <1>4
  <1> HIDE DEF S, h1, h2
  <1>12. nine \o h1 \o h2 = nine \o (h1 \o h2)
    BY <1>10, <1>11, ConcatAssociative
  <1> QED BY <1>8, <1>9, <1>12 DEF R, ConvertHooks, h1, h2

-----------------------------------------------------------------------------
(* A taxed swap, as its list is read *)

TaxLanes == SolLanes \cup {"SplBuy", "SplSell"}

\* A lane that serves the pool: the WSOL ones for a WSOL quote, the others else.
Serves(lane, id) == lane \in TaxLanes /\ (lane \in SolLanes <=> id.mintA = NATIVE_MINT)

InMint(id, lane)  == IF IsBuy(lane) THEN QuoteMint(id) ELSE FactionMint(id)
OutMint(id, lane) == IF IsBuy(lane) THEN FactionMint(id) ELSE QuoteMint(id)

LEMMA MintsAreTraded ==
  /\ FactionMints \cup {PROFIT_MINT, NATIVE_MINT} \subseteq Traded
  /\ \A id \in Pools : {id.mintA, id.mintB, QuoteMint(id), FactionMint(id)} \subseteq Traded
  <1>1. FactionMints \cup {PROFIT_MINT, NATIVE_MINT} \subseteq Traded
    BY DEF Traded
  <1>2. ASSUME NEW id \in Pools PROVE id.mintA \in Traded /\ id.mintB \in Traded
    BY DEF Traded
  <1>3. ASSUME NEW id \in Pools
        PROVE  {id.mintA, id.mintB, QuoteMint(id), FactionMint(id)} \subseteq Traded
    BY <1>2, PoolShape
  <1> QED BY <1>1, <1>3

\* What the reading has where the two ends of a swap are looked for
LEMMA Ends ==
  ASSUME NEW id \in Pools, NEW lane, Serves(lane, id), NEW source, NEW dest
  PROVE  /\ UserAccount(id, lane, InMint(id, lane), source, dest) = source
         /\ UserAccount(id, lane, OutMint(id, lane), source, dest)
              = (IF lane = "SplSell" THEN CanonicalSweep(id) ELSE dest)
         /\ InMint(id, lane) # OutMint(id, lane)
         /\ {InMint(id, lane), OutMint(id, lane)} = {id.mintA, id.mintB}
         /\ id.mintA # id.mintB
  BY PoolShape DEF UserAccount, InMint, OutMint

\* The rights a reading gives, which are those its lane asks for
LEMMA TaxRights ==
  ASSUME NEW lane \in TaxLanes, NEW user, NEW key, NEW id, NEW x, NEW y, NEW z,
         NEW n \in LaneFields(lane) \cup {"user"}, NameSet(lane) = LaneFields(lane) \cup {"user"}
  PROVE  LET R == PoolReading(lane, user, key, id, x, y, z) IN
         /\ R[n].writable <=> n \in Writable(lane)
         /\ R[n].signer <=> n = "user"
  <1> DEFINE R == PoolReading(lane, user, key, id, x, y, z)
             muts == {"pool", "vault_a", "vault_b", "user_a", "user_b", "stake_pool",
                      "staking_escrow", "carnage_vault", "treasury", "wsol_intermediary",
                      "sweep_ata", "user_quote"}
             ros == {"epoch_state", "tax_authority", "mint_a", "mint_b", "amm_program",
                     "token_program_a", "token_program_b", "system_program", "staking_program",
                     "sweep_authority", "quote_mint", "quote_token_program"}
  <1>1. n \in muts \cup ros \cup {"user", "swap_authority"}
    BY DEF LaneFields, SolFields, SplFields, PoolFieldSet, TaxFieldSet, TaxLanes, SolLanes
  <1>2. CASE n \in muts
    <2>1. R[n].writable = TRUE /\ R[n].signer = FALSE
      BY <1>2 DEF PoolReading, Mut, Meta
    <2>2. n \in Writable(lane)
      BY <1>2 DEF Writable
    <2> QED BY <1>2, <2>1, <2>2
  <1>3. CASE n \in ros
    <2>1. R[n].writable = FALSE /\ R[n].signer = FALSE
      BY <1>3 DEF PoolReading, Ro, Meta
    <2>2. n \notin Writable(lane)
      BY <1>3 DEF Writable
    <2> QED BY <1>3, <2>1, <2>2
  <1>4. CASE n = "user"
    <2>1. (R[n].writable <=> lane = "SolBuy") /\ R[n].signer = TRUE
      BY <1>4 DEF PoolReading, Meta
    <2>2. n \in Writable(lane) <=> lane = "SolBuy"
      BY <1>4 DEF Writable
    <2> QED BY <1>4, <2>1, <2>2
  <1>5. CASE n = "swap_authority"
    <2>1. (R[n].writable <=> lane \in {"SolBuyWsol", "SolSell"}) /\ R[n].signer = FALSE
      BY <1>5 DEF PoolReading, Meta
    <2>2. n \in Writable(lane) <=> lane \in {"SolBuyWsol", "SolSell"}
      BY <1>5 DEF Writable
    <2> QED BY <1>5, <2>1, <2>2
  <1> QED BY <1>1, <1>2, <1>3, <1>4, <1>5

\* The accounts it has where the programs pin one
LEMMA TaxPins ==
  ASSUME NEW lane \in TaxLanes, NEW user, NEW key, NEW id, NEW x, NEW y, NEW z,
         NEW n \in (LaneFields(lane) \cup {"user"}) \cap DOMAIN Pinned
  PROVE  PoolReading(lane, user, key, id, x, y, z)[n].key = Pinned[n]
  <1> DEFINE R == PoolReading(lane, user, key, id, x, y, z)
             pins == {"epoch_state", "swap_authority", "tax_authority", "stake_pool",
                      "staking_escrow", "carnage_vault", "treasury", "wsol_intermediary",
                      "amm_program", "system_program", "staking_program", "sweep_authority"}
  <1>1. n \in pins
    BY DEF LaneFields, SolFields, SplFields, PoolFieldSet, TaxFieldSet, TaxLanes, SolLanes, Pinned
  <1>2. \A f \in pins : R[f].key = Pinned[f]
    BY DEF PoolReading, Pinned, Mut, Ro, Meta
  <1> QED BY <1>1, <1>2

LEMMA HookKeys ==
  ASSUME NEW mint, NEW source, NEW dest
  PROVE  LET hooks == HookMetas(mint, source, dest) IN
         /\ hooks \in Seq([key : {HookMetaList(mint), Whitelist(source), Whitelist(dest),
                                  TRANSFER_HOOK_PROGRAM},
                           signer : {FALSE}, writable : {FALSE}])
         /\ Len(hooks) = 4
         /\ [i \in 1 .. 4 |-> hooks[i].key] = HookAccounts(mint, source, dest)
  <1> DEFINE hooks == HookMetas(mint, source, dest)
             K == {HookMetaList(mint), Whitelist(source), Whitelist(dest), TRANSFER_HOOK_PROGRAM}
  <1>1. \A k \in K : Ro(k) \in [key : K, signer : {FALSE}, writable : {FALSE}] /\ Ro(k).key = k
    BY DEF Ro, Meta
  <1>2. hooks \in Seq([key : K, signer : {FALSE}, writable : {FALSE}]) /\ Len(hooks) = 4
    <2> DEFINE T == [key : K, signer : {FALSE}, writable : {FALSE}]
    <2>1. /\ Ro(HookMetaList(mint)) \in T /\ Ro(Whitelist(source)) \in T
          /\ Ro(Whitelist(dest)) \in T /\ Ro(TRANSFER_HOOK_PROGRAM) \in T
      BY <1>1
    <2> HIDE DEF T
    <2>2. hooks \in Seq(T) /\ Len(hooks) = 4
      BY <2>1 DEF HookMetas
    <2> QED BY <2>2 DEF T
  <1>3. /\ hooks[1].key = HookMetaList(mint) /\ hooks[2].key = Whitelist(source)
        /\ hooks[3].key = Whitelist(dest) /\ hooks[4].key = TRANSFER_HOOK_PROGRAM
    BY <1>1 DEF HookMetas
  <1> HIDE DEF hooks
  <1>4. [i \in 1 .. 4 |-> hooks[i].key] = HookAccounts(mint, source, dest)
    BY <1>3 DEF HookAccounts
  <1> QED BY <1>2, <1>4 DEF hooks

\* The trader accounts of an order, and what the programs ask of them
LEMMA TraderParts ==
  ASSUME NEW h \in Holders, NEW m \in Traded
  PROVE  LET a == TokenAccount(h, m) IN
         a \in TraderAccounts /\ a \in Accounts /\ MintOf(a) = m /\ OwnerOf(a) = Wallet(h)
  <1> DEFINE a == TokenAccount(h, m)
  <1>1. a \in TraderAccounts /\ a[2] = h /\ a[3] = m
    BY DEF TraderAccounts, TokenAccount
  <1> QED BY <1>1 DEF MintOf, OwnerOf, Accounts

LEMMA SweepParts ==
  ASSUME NEW id \in Pools
  PROVE  CanonicalSweep(id) \in SweepAccounts /\ MintOf(CanonicalSweep(id)) = QuoteMint(id)
  <1>1. CanonicalSweep(id) \in SweepAccounts /\ CanonicalSweep(id)[3] = QuoteMint(id)
    BY DEF SweepAccounts, CanonicalSweep
  <1> QED BY <1>1 DEF MintOf

LEMMA PoolFound ==
  ASSUME NEW id \in Pools
  PROVE  PoolAt(Key(id)) = id
  <1>1. \E p \in Pools : Key(p) = Key(id)
    OBVIOUS
  <1>2. PoolAt(Key(id)) \in Pools /\ Key(PoolAt(Key(id))) = Key(id)
    BY <1>1 DEF PoolAt
  <1> QED BY <1>2, SettlementAssumption

\* A list of the lane that serves a pool, in the hands of the tax program.
TaxedList(o, h, id, lane, source, dest) ==
  /\ o.ix.lane = lane /\ o.metas = TaxList(Wallet(h), id, lane, source, dest)
  /\ o.ix.witness = (IF HasFactionWitness(lane) THEN {FactionMint(id) = CRIME_MINT} ELSE {})

LEMMA TaxedRead ==
  ASSUME NEW o, NEW h, NEW id \in Pools, NEW lane, Serves(lane, id),
         NEW source, NEW dest, TaxedList(o, h, id, lane, source, dest)
  PROVE  /\ ReadBack(o, lane, TaxReading(Wallet(h), id, lane, source, dest),
                      TaxHooks(id, lane, source, dest))
         /\ lane \in TaxLanes /\ LaneLength(lane) \in 1 .. 21
         /\ TaxHooks(id, lane, source, dest)
              \in Seq([key : {HookMetaList(FactionMint(id)), TRANSFER_HOOK_PROGRAM}
                              \cup {Whitelist(a) : a \in {source, dest,
                                                        VaultOf(id, FactionMint(id))}},
                       signer : {FALSE}, writable : {FALSE}])
         /\ Len(TaxHooks(id, lane, source, dest)) = 4
         /\ Hooks(o) = (IF IsBuy(lane)
                        THEN HookAccounts(FactionMint(id), VaultOf(id, FactionMint(id)), dest)
                        ELSE HookAccounts(FactionMint(id), source, VaultOf(id, FactionMint(id))))
  <1> DEFINE R == TaxReading(Wallet(h), id, lane, source, dest)
             hooks == TaxHooks(id, lane, source, dest)
             from == IF IsBuy(lane) THEN VaultOf(id, FactionMint(id)) ELSE source
             to == IF IsBuy(lane) THEN dest ELSE VaultOf(id, FactionMint(id))
             A == {source, dest, VaultOf(id, FactionMint(id))}
             K == {HookMetaList(FactionMint(id)), Whitelist(from), Whitelist(to),
                   TRANSFER_HOOK_PROGRAM}
             L == {HookMetaList(FactionMint(id)), TRANSFER_HOOK_PROGRAM}
                  \cup {Whitelist(a) : a \in A}
  <1>1. hooks = HookMetas(FactionMint(id), from, to) /\ from \in A /\ to \in A
    BY DEF TaxHooks
  <1> HIDE DEF from, to, A
  <1>2. hooks \in Seq([key : K, signer : {FALSE}, writable : {FALSE}]) /\ Len(hooks) = 4
        /\ [i \in 1 .. 4 |-> hooks[i].key] = HookAccounts(FactionMint(id), from, to)
    BY <1>1, HookKeys
  <1>3. lane \in Lanes /\ lane \in TaxLanes
    BY DEF Serves, TaxLanes, Lanes
  <1>4. o.ix.lane = lane /\ o.metas = ReadOut(lane, R) \o hooks
    BY DEF TaxedList, TaxList
  <1>5. hooks \in Seq([key : L, signer : {FALSE}, writable : {FALSE}])
    <2>1. [key : K, signer : {FALSE}, writable : {FALSE}]
            \subseteq [key : L, signer : {FALSE}, writable : {FALSE}]
      BY <1>1
    <2> DEFINE S == [key : K, signer : {FALSE}, writable : {FALSE}]
               T == [key : L, signer : {FALSE}, writable : {FALSE}]
    <2> HIDE DEF S, T, hooks
    <2>2. hooks \in Seq(S) /\ S \subseteq T
      BY <1>2, <2>1 DEF S, T
    <2>3. hooks \in Seq(T)
      BY <2>2, SeqMonotonic
    <2> QED BY <2>3 DEF T
  <1> HIDE DEF R, hooks, K
  <1>6. ReadBack(o, lane, R, hooks)
    BY <1>2, <1>3, <1>4, ReadOff
  <1>7. Hooks(o) = HookAccounts(FactionMint(id), from, to)
    BY <1>2, <1>6 DEF ReadBack
  <1>8. LaneLength(lane) \in 1 .. 21
    BY <1>3 DEF LaneLength, Lanes, SolLanes
  <1>9. Hooks(o) = (IF IsBuy(lane)
                    THEN HookAccounts(FactionMint(id), VaultOf(id, FactionMint(id)), dest)
                    ELSE HookAccounts(FactionMint(id), source, VaultOf(id, FactionMint(id))))
    BY <1>7 DEF from, to
  <1> QED BY <1>2, <1>3, <1>5, <1>6, <1>8, <1>9 DEF R, hooks, A

\* What the tax program finds under the names it reads.
TaxKeysRead(k, user, id, lane, source, dest) ==
  /\ k.user = user /\ k.pool = Key(id) /\ PoolAt(k.pool) = id
  /\ k.vault_a = At(id.vaultA) /\ k.vault_b = At(id.vaultB)
  /\ k.mint_a = At(id.mintA) /\ k.mint_b = At(id.mintB)
  /\ k.token_program_a = At(id.tokenProgramA)
  /\ k.token_program_b = At(id.tokenProgramB)
  /\ k.user_a = UserAccount(id, lane, id.mintA, source, dest)
  /\ k.user_b = UserAccount(id, lane, id.mintB, source, dest)
  /\ lane \in SolLanes => /\ k.staking_escrow = ESCROW_VAULT_PDA
                          /\ k.carnage_vault = CARNAGE_SOL_VAULT_PDA
                          /\ k.treasury = TREASURY
  /\ lane \notin SolLanes => /\ k.quote_mint = At(QuoteMint(id))
                             /\ k.quote_token_program = At(TokenProgramOf(id, QuoteMint(id)))
                             /\ k.sweep_ata = CanonicalSweep(id)
  /\ lane = "SplSell" => k.user_quote = dest /\ UserOn(k, id, QuoteMint(id)) = k.sweep_ata
  /\ Payer(k, id, lane) = source /\ Payee(k, id, lane) = dest

LEMMA TaxedKeys ==
  ASSUME NEW o, NEW h, NEW id \in Pools, NEW lane, Serves(lane, id),
         NEW source, NEW dest, TaxedList(o, h, id, lane, source, dest)
  PROVE  TaxKeysRead(Keys(o), Wallet(h), id, lane, source, dest)
  <1> DEFINE k == Keys(o)
             a == UserAccount(id, lane, id.mintA, source, dest)
             b == UserAccount(id, lane, id.mintB, source, dest)
             R == PoolReading(lane, Wallet(h), Key(id), id, a, b, dest)
  <1>1. /\ lane \in TaxLanes /\ NameSet(lane) = LaneFields(lane) \cup {"user"}
        /\ \A n \in NameSet(lane) : k[n] = R[n].key
    <2>1. ReadBack(o, lane, TaxReading(Wallet(h), id, lane, source, dest),
                   TaxHooks(id, lane, source, dest)) /\ lane \in TaxLanes
      BY TaxedRead
    <2>2. R = TaxReading(Wallet(h), id, lane, source, dest)
      BY DEF TaxReading
    <2> HIDE DEF R, k
    <2> QED BY <2>1, <2>2 DEF ReadBack, k
  <1> HIDE DEF a, b, k
  <1>2. {"epoch_state", "token_program_a", "token_program_b", "pool", "vault_a", "vault_b",
         "mint_a", "mint_b", "user_a", "user_b", "user"} \subseteq NameSet(lane)
    BY <1>1 DEF TaxLanes, SolLanes, LaneFields, SolFields, SplFields, PoolFieldSet
  <1>3. /\ lane \in SolLanes
             => {"staking_escrow", "carnage_vault", "treasury"} \subseteq NameSet(lane)
        /\ lane \notin SolLanes
             => {"quote_mint", "sweep_ata", "quote_token_program"} \subseteq NameSet(lane)
        /\ lane = "SplSell" => "user_quote" \in NameSet(lane)
    BY <1>1 DEF TaxLanes, SolLanes, LaneFields, SolFields, SplFields, TaxFieldSet
  <1>4. /\ R["user"].key = Wallet(h) /\ R["pool"].key = Key(id)
        /\ R["vault_a"].key = At(id.vaultA) /\ R["vault_b"].key = At(id.vaultB)
        /\ R["mint_a"].key = At(id.mintA) /\ R["mint_b"].key = At(id.mintB)
        /\ R["token_program_a"].key = At(id.tokenProgramA)
        /\ R["token_program_b"].key = At(id.tokenProgramB)
        /\ R["user_a"].key = a /\ R["user_b"].key = b
    BY DEF PoolReading, Mut, Ro, Meta
  <1>5. /\ R["staking_escrow"].key = ESCROW_VAULT_PDA
        /\ R["carnage_vault"].key = CARNAGE_SOL_VAULT_PDA
        /\ R["treasury"].key = TREASURY
        /\ R["quote_mint"].key = At(QuoteMint(id))
        /\ R["quote_token_program"].key = At(TokenProgramOf(id, QuoteMint(id)))
        /\ R["sweep_ata"].key = CanonicalSweep(id)
        /\ R["user_quote"].key = dest
    BY DEF PoolReading, Mut, Ro, Meta
  <1> HIDE DEF R
  <1>6. /\ k.user = Wallet(h) /\ k.pool = Key(id)
        /\ k.vault_a = At(id.vaultA) /\ k.vault_b = At(id.vaultB)
        /\ k.mint_a = At(id.mintA) /\ k.mint_b = At(id.mintB)
        /\ k.token_program_a = At(id.tokenProgramA)
        /\ k.token_program_b = At(id.tokenProgramB)
        /\ k.user_a = a /\ k.user_b = b
    BY <1>1, <1>2, <1>4
  <1>7. lane \in SolLanes => /\ k.staking_escrow = ESCROW_VAULT_PDA
                             /\ k.carnage_vault = CARNAGE_SOL_VAULT_PDA
                             /\ k.treasury = TREASURY
    BY <1>1, <1>3, <1>5
  <1>8. lane \notin SolLanes => /\ k.quote_mint = At(QuoteMint(id))
                                /\ k.quote_token_program = At(TokenProgramOf(id, QuoteMint(id)))
                                /\ k.sweep_ata = CanonicalSweep(id)
    BY <1>1, <1>3, <1>5
  <1>9. lane = "SplSell" => k.user_quote = dest
    BY <1>1, <1>3, <1>5
  <1>10. PoolAt(k.pool) = id
    BY <1>6, PoolFound
  <1>11. /\ UserAccount(id, lane, InMint(id, lane), source, dest) = source
         /\ UserAccount(id, lane, OutMint(id, lane), source, dest)
              = (IF lane = "SplSell" THEN CanonicalSweep(id) ELSE dest)
         /\ {InMint(id, lane), OutMint(id, lane)} = {id.mintA, id.mintB}
    BY Ends
  <1>12. /\ UserOn(k, id, InMint(id, lane)) = source
         /\ UserOn(k, id, OutMint(id, lane))
              = (IF lane = "SplSell" THEN CanonicalSweep(id) ELSE dest)
    BY <1>6, <1>11 DEF UserOn, a, b
  <1>13. Payer(k, id, lane) = source
    BY <1>12 DEF Payer, InMint
  <1>14. Payee(k, id, lane) = dest
    BY <1>9, <1>12 DEF Payee, OutMint
  <1>15. lane = "SplSell" => UserOn(k, id, QuoteMint(id)) = k.sweep_ata
    <2>1. SUFFICES ASSUME lane = "SplSell" PROVE UserOn(k, id, QuoteMint(id)) = k.sweep_ata
      OBVIOUS
    <2>2. lane \notin SolLanes /\ OutMint(id, lane) = QuoteMint(id)
      BY <2>1 DEF SolLanes, OutMint, IsBuy
    <2> QED BY <1>8, <1>12, <2>1, <2>2
  <1> QED BY <1>6, <1>7, <1>8, <1>9, <1>10, <1>13, <1>14, <1>15 DEF TaxKeysRead, k, a, b

\* The tax program takes the list that serves its pool.
LEMMA TaxedAccepted ==
  ASSUME NEW o, NEW h \in Holders, NEW payee \in Holders, NEW id \in Pools, NEW lane,
         Serves(lane, id), NEW source, NEW dest,
         source = TokenAccount(h, InMint(id, lane)),
         dest = TokenAccount(payee, OutMint(id, lane)),
         TaxedList(o, h, id, lane, source, dest)
  PROVE  Accepts(o)
  <1> DEFINE k == Keys(o)
             R == TaxReading(Wallet(h), id, lane, source, dest)
  <1>1. /\ ReadBack(o, lane, R, TaxHooks(id, lane, source, dest))
        /\ lane \in TaxLanes /\ LaneLength(lane) \in 1 .. 21
        /\ Len(TaxHooks(id, lane, source, dest)) = 4
        /\ Hooks(o) = (IF IsBuy(lane)
                        THEN HookAccounts(FactionMint(id), VaultOf(id, FactionMint(id)), dest)
                        ELSE HookAccounts(FactionMint(id), source, VaultOf(id, FactionMint(id))))
    BY TaxedRead
  <1>2. TaxKeysRead(k, Wallet(h), id, lane, source, dest)
    BY TaxedKeys
  <1>3. o.ix.lane = lane /\ lane # "ConvertV2"
        /\ o.ix.witness = (IF HasFactionWitness(lane) THEN {FactionMint(id) = CRIME_MINT} ELSE {})
    BY DEF TaxedList, Serves, TaxLanes, SolLanes
  <1> HIDE DEF k, R
  <1>4. /\ Len(o.metas) >= Len(Names(lane))
        /\ Named(o)["user"].signer
        /\ \A n \in Writable(lane) : Named(o)[n].writable
        /\ \A n \in NameSet(lane) \cap DOMAIN Pinned : Named(o)[n].key = Pinned[n]
    <2>1. /\ Len(Names(lane)) = LaneLength(lane) /\ Len(o.metas) = LaneLength(lane) + 4
          /\ NameSet(lane) = LaneFields(lane) \cup {"user"}
          /\ \A n \in NameSet(lane) : Named(o)[n] = R[n]
      BY <1>1 DEF ReadBack
    <2>2. \A n \in NameSet(lane) : /\ R[n].writable <=> n \in Writable(lane)
                                   /\ R[n].signer <=> n = "user"
      BY <1>1, <2>1, TaxRights DEF R, TaxReading
    <2>3. \A n \in NameSet(lane) \cap DOMAIN Pinned : R[n].key = Pinned[n]
      BY <1>1, <2>1, TaxPins DEF R, TaxReading
    <2>4. Writable(lane) \subseteq NameSet(lane)
      BY DEF Writable
    <2> QED BY <1>1, <2>1, <2>2, <2>3, <2>4
  <1>5. /\ InMint(id, lane) \in Traded /\ OutMint(id, lane) \in Traded
        /\ MintOf(source) = InMint(id, lane) /\ OwnerOf(source) = Wallet(h)
        /\ MintOf(dest) = OutMint(id, lane)
    <2>1. InMint(id, lane) \in Traded /\ OutMint(id, lane) \in Traded
      BY MintsAreTraded DEF InMint, OutMint
    <2> QED BY <2>1, TraderParts
  <1>6. MintOf(k.user_a) = id.mintA /\ MintOf(k.user_b) = id.mintB
    <2>1. /\ UserAccount(id, lane, InMint(id, lane), source, dest) = source
          /\ UserAccount(id, lane, OutMint(id, lane), source, dest)
              = (IF lane = "SplSell" THEN CanonicalSweep(id) ELSE dest)
          /\ {InMint(id, lane), OutMint(id, lane)} = {id.mintA, id.mintB}
      BY Ends
    <2>2. MintOf(IF lane = "SplSell" THEN CanonicalSweep(id) ELSE dest) = OutMint(id, lane)
      <3>1. CASE lane = "SplSell"
        BY <3>1, SweepParts DEF OutMint, IsBuy
      <3>2. CASE lane # "SplSell"
        BY <1>5, <3>2
      <3> QED BY <3>1, <3>2
    <2>3. \A m \in {InMint(id, lane), OutMint(id, lane)} :
            MintOf(UserAccount(id, lane, m, source, dest)) = m
      BY <1>5, <2>1, <2>2
    <2> QED BY <1>2, <2>1, <2>3 DEF TaxKeysRead
  <1>7. HasFactionWitness(lane) => o.ix.witness = {FactionMint(id) = CRIME_MINT}
    BY <1>3
  <1>8. /\ lane \in SolLanes => id.mintA = NATIVE_MINT
        /\ lane \notin SolLanes => QuoteMint(id) # NATIVE_MINT
    BY PoolShape DEF Serves
  <1>9. TaxProgramAccepts(o)
    <2>1. k.pool \in {Key(p) : p \in Pools}
      BY <1>2 DEF TaxKeysRead
    <2>2. /\ OwnerOf(Payer(k, id, lane)) = k.user
          /\ MintOf(Payee(k, id, lane))
               = (IF IsBuy(lane) THEN FactionMint(id) ELSE QuoteMint(id))
      BY <1>2, <1>5 DEF OutMint, TaxKeysRead
    <2>3. Hooks(o) = (IF IsBuy(lane)
                      THEN HookAccounts(FactionMint(id), VaultOf(id, FactionMint(id)),
                                        Payee(k, id, lane))
                      ELSE HookAccounts(FactionMint(id), Payer(k, id, lane),
                                        VaultOf(id, FactionMint(id))))
      BY <1>1, <1>2 DEF TaxKeysRead
    <2> QED BY <1>2, <1>3, <1>6, <1>7, <1>8, <2>1, <2>2, <2>3
           DEF TaxProgramAccepts, TaxKeysRead, k
  <1> QED BY <1>3, <1>4, <1>9 DEF Accepts

\* What ListsAskForNoMore says of one order
Modest(o) ==
  LET n == Len(Names(o.ix.lane)) IN
  /\ \A i \in 1 .. Len(o.metas) :
       /\ o.metas[i].writable <=> (i <= n /\ Names(o.ix.lane)[i] \in Writable(o.ix.lane))
       /\ o.metas[i].signer <=> i = 1
  /\ IF o.ix.lane = "ConvertV2" THEN Len(o.metas) = VaultAccountsLen
     ELSE Len(o.metas) <= PoolAccountsLen(PoolAmm(PoolAt(Keys(o).pool)))

\* The rights of the lane: of a reading, of the accounts behind it, of a list
ReadingRights(reading, lane) ==
  \A n \in NameSet(lane) : /\ reading[n].writable <=> n \in Writable(lane)
                           /\ reading[n].signer <=> n = "user"
HookRights(hooks) ==
  Len(hooks) \in Nat /\ \A i \in 1 .. Len(hooks) : ~hooks[i].writable /\ ~hooks[i].signer
ListRights(o, lane) ==
  \A i \in 1 .. Len(o.metas) :
    /\ o.metas[i].writable <=> (i <= Len(Names(lane)) /\ Names(lane)[i] \in Writable(lane))
    /\ o.metas[i].signer <=> i = 1

LEMMA RightsRead ==
  ASSUME NEW o, NEW lane, NEW R, NEW hooks, ReadBack(o, lane, R, hooks),
         ReadingRights(R, lane), HookRights(hooks)
  PROVE  ListRights(o, lane)
  <1> DEFINE N == LaneLength(lane)
  <1>1. /\ Len(Names(lane)) = N /\ N \in Nat \ {0} /\ Len(o.metas) = N + Len(hooks)
        /\ \A i \in 1 .. N :
              /\ Names(lane)[i] \in NameSet(lane) /\ o.metas[i] = R[Names(lane)[i]]
              /\ Names(lane)[i] = "user" <=> i = 1
        /\ \A i \in 1 .. Len(hooks) : o.metas[N + i] = hooks[i]
        /\ Len(hooks) \in Nat
    BY DEF ReadBack, HookRights
  <1> HIDE DEF N
  <1>2. SUFFICES ASSUME NEW i \in 1 .. Len(o.metas)
                 PROVE  /\ o.metas[i].writable
                             <=> (i <= N /\ Names(lane)[i] \in Writable(lane))
                        /\ o.metas[i].signer <=> i = 1
    BY <1>1 DEF ListRights
  <1>3. CASE i <= N
    <2>1. i \in 1 .. N
      BY <1>1, <1>3
    <2>2. /\ o.metas[i].writable <=> Names(lane)[i] \in Writable(lane)
          /\ o.metas[i].signer <=> i = 1
      BY <1>1, <2>1 DEF ReadingRights
    <2> QED BY <1>1, <1>3, <2>2
  <1>4. CASE ~(i <= N)
    <2>1. i - N \in 1 .. Len(hooks) /\ N + (i - N) = i /\ i # 1
      BY <1>1, <1>4
    <2>2. o.metas[i] = hooks[i - N]
      BY <1>1, <2>1
    <2> QED BY <1>1, <1>4, <2>1, <2>2 DEF HookRights
  <1> QED BY <1>3, <1>4

LEMMA TaxedModest ==
  ASSUME NEW o, NEW h, NEW id \in Pools, NEW lane, Serves(lane, id),
         NEW source, NEW dest, TaxedList(o, h, id, lane, source, dest)
  PROVE  Modest(o)
  <1> DEFINE R == TaxReading(Wallet(h), id, lane, source, dest)
             hooks == TaxHooks(id, lane, source, dest)
             K == {HookMetaList(FactionMint(id)), TRANSFER_HOOK_PROGRAM}
                  \cup {Whitelist(a) : a \in {source, dest, VaultOf(id, FactionMint(id))}}
             S == [key : K, signer : {FALSE}, writable : {FALSE}]
  <1>1. /\ ReadBack(o, lane, R, hooks) /\ lane \in TaxLanes /\ LaneLength(lane) \in 1 .. 21
        /\ hooks \in Seq(S) /\ Len(hooks) = 4
    BY TaxedRead
  <1>2. o.ix.lane = lane /\ lane # "ConvertV2"
    BY DEF TaxedList, Serves, TaxLanes, SolLanes
  <1> HIDE DEF hooks, K
  <1>3. HookRights(hooks)
    <2>1. \A s \in S : s.writable = FALSE /\ s.signer = FALSE
      OBVIOUS
    <2> HIDE DEF S
    <2> QED BY <1>1, <2>1, ElementOfSeq DEF HookRights
  <1>4. ReadingRights(R, lane)
    <2>1. NameSet(lane) = LaneFields(lane) \cup {"user"}
      BY <1>1 DEF ReadBack
    <2> QED BY <1>1, <2>1, TaxRights DEF R, TaxReading, ReadingRights
  <1> HIDE DEF R, S
  <1>5. ListRights(o, lane)
    BY <1>1, <1>3, <1>4, RightsRead
  <1>6. Len(o.metas) = LaneLength(lane) + 4
    BY <1>1 DEF ReadBack
  <1>7. Len(o.metas) <= PoolAccountsLen(PoolAmm(PoolAt(Keys(o).pool)))
    BY <1>1, <1>6 DEF PoolAccountsLen
  <1> QED BY <1>2, <1>5, <1>7 DEF Modest, ListRights

\* Every key of a list is known if those of its reading and its hooks are.
LEMMA KeysKnown ==
  ASSUME NEW o, NEW lane, NEW R, NEW hooks, ReadBack(o, lane, R, hooks), Len(hooks) \in Nat,
         \A n \in NameSet(lane) : R[n].key \in Known,
         \A i \in 1 .. Len(hooks) : hooks[i].key \in Known
  PROVE  \A i \in 1 .. Len(o.metas) : o.metas[i].key \in Known
  <1> DEFINE N == LaneLength(lane)
  <1>1. /\ N \in Nat \ {0} /\ Len(o.metas) = N + Len(hooks)
        /\ \A i \in 1 .. N : Names(lane)[i] \in NameSet(lane) /\ o.metas[i] = R[Names(lane)[i]]
        /\ \A i \in 1 .. Len(hooks) : o.metas[N + i] = hooks[i]
    BY DEF ReadBack
  <1> HIDE DEF N
  <1>2. TAKE i \in 1 .. Len(o.metas)
  <1>3. CASE i <= N
    <2>1. i \in 1 .. N
      BY <1>1, <1>3
    <2> QED BY <1>1, <2>1
  <1>4. CASE ~(i <= N)
    <2>1. i - N \in 1 .. Len(hooks) /\ N + (i - N) = i
      BY <1>1, <1>4
    <2>2. o.metas[i] = hooks[i - N]
      BY <1>1, <2>1
    <2> QED BY <2>1, <2>2
  <1> QED BY <1>3, <1>4

LEMMA TaxedKnown ==
  ASSUME NEW o, NEW h \in Holders, NEW payee \in Holders, NEW id \in Pools, NEW lane,
         Serves(lane, id), NEW source \in TraderAccounts, NEW dest \in TraderAccounts,
         TaxedList(o, h, id, lane, source, dest)
  PROVE  \A i \in 1 .. Len(o.metas) : o.metas[i].key \in Known
  <1> DEFINE a == UserAccount(id, lane, id.mintA, source, dest)
             b == UserAccount(id, lane, id.mintB, source, dest)
             R == PoolReading(lane, Wallet(h), Key(id), id, a, b, dest)
             hooks == TaxHooks(id, lane, source, dest)
             K == {HookMetaList(FactionMint(id)), TRANSFER_HOOK_PROGRAM}
                  \cup {Whitelist(x) : x \in {source, dest, VaultOf(id, FactionMint(id))}}
             S == [key : K, signer : {FALSE}, writable : {FALSE}]
  <1>1. /\ ReadBack(o, lane, R, hooks) /\ lane \in TaxLanes
        /\ hooks \in Seq(S) /\ Len(hooks) = 4
    BY TaxedRead DEF TaxReading
  <1>2. NameSet(lane) = LaneFields(lane) \cup {"user"}
    BY <1>1 DEF ReadBack
  <1>3. /\ source \in Accounts /\ dest \in Accounts /\ Wallet(h) \in Accounts
        /\ CanonicalSweep(id) \in Accounts
        /\ a \in Accounts /\ b \in Accounts
        /\ \A m \in Traded : VaultOf(id, m) \in Accounts
        /\ At(id.vaultA) \in Accounts /\ At(id.vaultB) \in Accounts
    <2>1. source \in Accounts /\ dest \in Accounts /\ Wallet(h) \in Accounts
          /\ CanonicalSweep(id) \in Accounts /\ \A m \in Traded : VaultOf(id, m) \in Accounts
      BY SweepParts DEF Accounts, PoolVaults
    <2>2. VaultOf(id, id.mintA) = At(id.vaultA) /\ VaultOf(id, id.mintB) = At(id.vaultB)
          /\ id.mintA \in Traded /\ id.mintB \in Traded
      BY MintsAreTraded, PoolShape DEF VaultOf
    <2> QED BY <2>1, <2>2 DEF UserAccount
  <1>4. \A n \in NameSet(lane) : R[n].key \in Known
    <2>1. \A x \in Accounts : x \in Known /\ Whitelist(x) \in Known
      BY DEF Known
    <2>2. Key(id) \in Known
      BY DEF Known
    <2>3. At(id.mintA) \in Known /\ At(id.mintB) \in Known /\ At(QuoteMint(id)) \in Known
      BY MintsAreTraded DEF Known
    <2>4. At(id.tokenProgramA) \in Known /\ At(id.tokenProgramB) \in Known
          /\ At(TokenProgramOf(id, QuoteMint(id))) \in Known
      BY PoolShape DEF Known, TokenProgramOf
    <2>5. \A n \in DOMAIN Pinned : Pinned[n] \in Known
      BY DEF Known
    <2>6. TAKE n \in NameSet(lane)
    <2>7. CASE n \in DOMAIN Pinned
      <3>1. R[n].key = Pinned[n]
        BY <1>1, <1>2, <2>7, TaxPins
      <3> QED BY <2>5, <2>7, <3>1
    <2>8. CASE n \notin DOMAIN Pinned
      <3> DEFINE rest == {"user", "pool", "vault_a", "vault_b", "mint_a", "mint_b", "user_a",
                          "user_b", "token_program_a", "token_program_b", "quote_mint",
                          "sweep_ata", "user_quote", "quote_token_program"}
      <3>1. n \in rest
        BY <1>1, <1>2, <2>8 DEF LaneFields, SolFields, SplFields, PoolFieldSet, TaxFieldSet,
                                TaxLanes, SolLanes, Pinned
      <3>2. R[n].key \in {Wallet(h), Key(id), At(id.vaultA), At(id.vaultB), At(id.mintA),
                          At(id.mintB), a, b, At(id.tokenProgramA), At(id.tokenProgramB),
                          At(QuoteMint(id)), CanonicalSweep(id), dest,
                          At(TokenProgramOf(id, QuoteMint(id)))}
        <4> HIDE DEF a, b
        <4> QED BY <3>1 DEF PoolReading, Mut, Ro, Meta
      <3> HIDE DEF R, a, b
      <3> QED BY <1>3, <2>1, <2>2, <2>3, <2>4, <3>2
    <2> QED BY <2>7, <2>8
  <1>5. \A i \in 1 .. Len(hooks) : hooks[i].key \in Known
    <2>1. K \subseteq Known
      <3>1. FactionMint(id) \in Traded
        BY MintsAreTraded
      <3> QED BY <1>3, <3>1 DEF Known
    <2>2. \A s \in S : s.key \in K
      OBVIOUS
    <2> HIDE DEF S, K, hooks
    <2>3. \A i \in 1 .. Len(hooks) : hooks[i] \in S
      BY <1>1, ElementOfSeq
    <2> QED BY <2>1, <2>2, <2>3
  <1> HIDE DEF R, hooks, S
  <1> QED BY <1>1, <1>4, <1>5, KeysKnown

-----------------------------------------------------------------------------
(* A conversion, as its list is read *)

Converted == FactionMints \cup {PROFIT_MINT}

ConversionList(o, h, input, output, source, dest) ==
  /\ o.ix.lane \in {"ConvertV2"}
  /\ o.metas = ReadOut(o.ix.lane, ConvertReading(Wallet(h), source, dest, input, output))
               \o ConvertHooks(source, dest, input, output)

\* The keys behind a conversion's named accounts
ConvertHookKeys(source, dest, input, output) ==
  {HookMetaList(m) : m \in {input, output}} \cup {TRANSFER_HOOK_PROGRAM}
  \cup {Whitelist(a) : a \in {source, dest, VaultTokenAccount(input), VaultTokenAccount(output)}}

HooksRead(hooks, addresses, n, keys) ==
  /\ hooks \in Seq([key : addresses, signer : {FALSE}, writable : {FALSE}])
  /\ Len(hooks) = n /\ [i \in 1 .. n |-> hooks[i].key] = keys

LEMMA ConvertHooksRead ==
  ASSUME NEW source, NEW dest, NEW input, NEW output
  PROVE  HooksRead(ConvertHooks(source, dest, input, output),
                   ConvertHookKeys(source, dest, input, output), 8,
                   HookAccounts(input, source, VaultTokenAccount(input))
                   \o HookAccounts(output, VaultTokenAccount(output), dest))
  <1> DEFINE vin == VaultTokenAccount(input)
             vout == VaultTokenAccount(output)
             h1 == HookMetas(input, source, vin)
             h2 == HookMetas(output, vout, dest)
             a1 == HookAccounts(input, source, vin)
             a2 == HookAccounts(output, vout, dest)
             K == ConvertHookKeys(source, dest, input, output)
             K1 == {HookMetaList(input), Whitelist(source), Whitelist(vin), TRANSFER_HOOK_PROGRAM}
             K2 == {HookMetaList(output), Whitelist(vout), Whitelist(dest), TRANSFER_HOOK_PROGRAM}
             S == [key : K, signer : {FALSE}, writable : {FALSE}]
             S1 == [key : K1, signer : {FALSE}, writable : {FALSE}]
             S2 == [key : K2, signer : {FALSE}, writable : {FALSE}]
  <1>1. S1 \subseteq S /\ S2 \subseteq S
    BY DEF ConvertHookKeys
  <1>2. /\ h1 \in Seq(S1) /\ Len(h1) = 4 /\ [i \in 1 .. 4 |-> h1[i].key] = a1
        /\ h2 \in Seq(S2) /\ Len(h2) = 4 /\ [i \in 1 .. 4 |-> h2[i].key] = a2
    BY HookKeys
  <1>3. a1 \in Seq(K) /\ Len(a1) = 4 /\ a2 \in Seq(K) /\ Len(a2) = 4
    BY DEF HookAccounts, ConvertHookKeys
  <1> HIDE DEF h1, h2, a1, a2, S, S1, S2, K
  <1>4. h1 \in Seq(S) /\ h2 \in Seq(S)
    BY <1>1, <1>2, SeqMonotonic
  <1> DEFINE hooks == h1 \o h2
             keys == a1 \o a2
  <1>5. /\ hooks \in Seq(S) /\ Len(hooks) = 8
        /\ \A i \in 1 .. 8 : hooks[i] = IF i <= 4 THEN h1[i] ELSE h2[i - 4]
    BY <1>2, <1>4, ConcatProperties
  <1>6. /\ keys \in Seq(K) /\ Len(keys) = 8
        /\ \A i \in 1 .. 8 : keys[i] = IF i <= 4 THEN a1[i] ELSE a2[i - 4]
    <2>1. a1 \in Seq(K) /\ a2 \in Seq(K) /\ Len(a1) = 4 /\ Len(a2) = 4
      BY <1>3
    <2>2. keys \in Seq(K) /\ Len(keys) = Len(a1) + Len(a2)
          /\ \A i \in 1 .. Len(a1) + Len(a2) :
               keys[i] = IF i <= Len(a1) THEN a1[i] ELSE a2[i - Len(a1)]
      BY <2>1, ConcatProperties, Zenon
    <2> HIDE DEF keys
    <2> QED BY <2>1, <2>2
  <1> HIDE DEF hooks, keys
  <1>7. keys = [i \in 1 .. 8 |-> keys[i]]
    BY <1>6
  <1>8. \A i \in 1 .. 8 : keys[i] = hooks[i].key
    <2>1. \A i \in 1 .. 4 : a1[i] = h1[i].key /\ a2[i] = h2[i].key
      BY <1>2
    <2>2. TAKE i \in 1 .. 8
    <2>3. CASE i <= 4
      BY <1>5, <1>6, <2>1, <2>3
    <2>4. CASE ~(i <= 4)
      <3>1. i - 4 \in 1 .. 4
        BY <2>4
      <3> QED BY <1>5, <1>6, <2>1, <2>4, <3>1
    <2> QED BY <2>3, <2>4
  <1>9. [i \in 1 .. 8 |-> hooks[i].key] = keys
    BY <1>7, <1>8
  <1> QED BY <1>5, <1>9 DEF HooksRead, ConvertHooks, hooks, keys, h1, h2, a1, a2, S, K

LEMMA ConversionRead ==
  ASSUME NEW o, NEW h, NEW input, NEW output, NEW source, NEW dest,
         ConversionList(o, h, input, output, source, dest)
  PROVE  LET R == ConvertReading(Wallet(h), source, dest, input, output)
             k == Keys(o)
         IN  /\ ReadBack(o, o.ix.lane, R, ConvertHooks(source, dest, input, output))
             /\ LaneLength(o.ix.lane) = 9
             /\ NameSet(o.ix.lane) = ConvertFields \cup {"user"}
             /\ ReadingRights(R, o.ix.lane)
             /\ Hooks(o) = HookAccounts(input, source, VaultTokenAccount(input))
                           \o HookAccounts(output, VaultTokenAccount(output), dest)
             /\ k.user = Wallet(h) /\ k.user_input = source /\ k.user_output = dest
             /\ k.input_mint = At(input) /\ k.output_mint = At(output)
             /\ k.vault_input = VaultTokenAccount(input)
             /\ k.vault_output = VaultTokenAccount(output)
  <1> DEFINE R == ConvertReading(Wallet(h), source, dest, input, output)
             k == Keys(o)
             lane == o.ix.lane
             hooks == ConvertHooks(source, dest, input, output)
             S == [key : ConvertHookKeys(source, dest, input, output),
                   signer : {FALSE}, writable : {FALSE}]
  <1>1. lane \in {"ConvertV2"} /\ o.metas = ReadOut(lane, R) \o hooks
    BY DEF ConversionList
  <1>2. lane \in Lanes /\ LaneFields(lane) = ConvertFields /\ LaneLength(lane) = 9
    BY <1>1 DEF Lanes, LaneFields, LaneLength
  <1>3. hooks \in Seq(S) /\ Len(hooks) = 8
        /\ [i \in 1 .. 8 |-> hooks[i].key]
              = HookAccounts(input, source, VaultTokenAccount(input))
                \o HookAccounts(output, VaultTokenAccount(output), dest)
    <2>1. HooksRead(hooks, ConvertHookKeys(source, dest, input, output), 8,
                    HookAccounts(input, source, VaultTokenAccount(input))
                    \o HookAccounts(output, VaultTokenAccount(output), dest))
      BY ConvertHooksRead, Zenon
    <2> HIDE DEF hooks
    <2> QED BY <2>1 DEF HooksRead
  <1>4. ReadBack(o, lane, R, hooks)
    <2> HIDE DEF R, hooks, S
    <2> QED BY <1>1, <1>2, <1>3, ReadOff
  <1>5. NameSet(lane) = ConvertFields \cup {"user"}
        /\ \A n \in NameSet(lane) : k[n] = R[n].key
    <2> HIDE DEF R
    <2> QED BY <1>2, <1>4 DEF ReadBack
  <1>6. ReadingRights(R, lane)
    <2> DEFINE muts == {"user_input", "user_output", "vault_input", "vault_output"}
               ros == {"vault_config", "input_mint", "output_mint", "token_program"}
    <2>1. \A n \in muts : R[n].writable = TRUE /\ R[n].signer = FALSE
      BY DEF ConvertReading, Mut, Meta
    <2>2. \A n \in ros : R[n].writable = FALSE /\ R[n].signer = FALSE
      BY DEF ConvertReading, Ro, Meta
    <2>3. R["user"].writable = FALSE /\ R["user"].signer = TRUE
      BY DEF ConvertReading, Meta
    <2>4. NameSet(lane) = muts \cup ros \cup {"user"}
      BY <1>5 DEF ConvertFields
    <2>5. Writable(lane) = muts
      BY <1>1, <2>4 DEF Writable
    <2> HIDE DEF R
    <2> QED BY <2>1, <2>2, <2>3, <2>4, <2>5 DEF ReadingRights
  <1>7. /\ R["user"].key = Wallet(h) /\ R["user_input"].key = source
        /\ R["user_output"].key = dest
        /\ R["input_mint"].key = At(input) /\ R["output_mint"].key = At(output)
        /\ R["vault_input"].key = VaultTokenAccount(input)
        /\ R["vault_output"].key = VaultTokenAccount(output)
    BY DEF ConvertReading, Mut, Ro, Meta
  <1>8. Hooks(o) = HookAccounts(input, source, VaultTokenAccount(input))
                   \o HookAccounts(output, VaultTokenAccount(output), dest)
    <2>1. Hooks(o) = [i \in 1 .. Len(hooks) |-> hooks[i].key]
      BY <1>4 DEF ReadBack
    <2> HIDE DEF hooks
    <2> QED BY <1>3, <2>1
  <1> HIDE DEF k, R
  <1>9. /\ k.user = Wallet(h) /\ k.user_input = source /\ k.user_output = dest
        /\ k.input_mint = At(input) /\ k.output_mint = At(output)
        /\ k.vault_input = VaultTokenAccount(input)
        /\ k.vault_output = VaultTokenAccount(output)
    BY <1>5, <1>7 DEF ConvertFields
  <1> QED BY <1>2, <1>4, <1>5, <1>6, <1>8, <1>9 DEF k, R

LEMMA ConversionAccepted ==
  ASSUME NEW o, NEW h \in Holders, NEW payee \in Holders, NEW input \in Converted,
         NEW output \in Converted, NEW source, NEW dest,
         source = TokenAccount(h, input), dest = TokenAccount(payee, output),
         ComputeVaultOutput(input, output, o.ix.amountIn) # None,
         ConversionList(o, h, input, output, source, dest)
  PROVE  Accepts(o)
  <1> DEFINE k == Keys(o)
             lane == o.ix.lane
             R == ConvertReading(Wallet(h), source, dest, input, output)
             hooks == ConvertHooks(source, dest, input, output)
  <1>1. /\ ReadBack(o, lane, R, hooks) /\ LaneLength(lane) = 9
        /\ NameSet(lane) = ConvertFields \cup {"user"} /\ ReadingRights(R, lane)
        /\ Hooks(o) = HookAccounts(input, source, VaultTokenAccount(input))
                      \o HookAccounts(output, VaultTokenAccount(output), dest)
        /\ k.user = Wallet(h) /\ k.user_input = source /\ k.user_output = dest
        /\ k.input_mint = At(input) /\ k.output_mint = At(output)
        /\ k.vault_input = VaultTokenAccount(input)
        /\ k.vault_output = VaultTokenAccount(output)
    BY ConversionRead
  <1>2. lane = "ConvertV2"
    BY DEF ConversionList
  <1>3. /\ R["vault_config"].key = Pinned["vault_config"]
        /\ R["token_program"].key = Pinned["token_program"]
    BY DEF ConvertReading, Ro, Meta, Pinned
  <1>4. Len(hooks) \in Nat
    <2>1. HooksRead(hooks, ConvertHookKeys(source, dest, input, output), 8,
                    HookAccounts(input, source, VaultTokenAccount(input))
                    \o HookAccounts(output, VaultTokenAccount(output), dest))
      BY ConvertHooksRead, Zenon
    <2> HIDE DEF hooks
    <2> QED BY <2>1 DEF HooksRead
  <1> HIDE DEF k, R, hooks, lane
  <1>5. /\ Len(o.metas) >= Len(Names(lane))
        /\ Named(o)["user"].signer
        /\ \A n \in Writable(lane) : Named(o)[n].writable
        /\ \A n \in NameSet(lane) \cap DOMAIN Pinned : Named(o)[n].key = Pinned[n]
    <2>1. /\ Len(Names(lane)) = 9 /\ Len(o.metas) = 9 + Len(hooks)
          /\ \A n \in NameSet(lane) : Named(o)[n] = R[n]
      BY <1>1 DEF ReadBack
    <2>2. \A n \in NameSet(lane) : /\ R[n].writable <=> n \in Writable(lane)
                                   /\ R[n].signer <=> n = "user"
      BY <1>1 DEF ReadingRights
    <2>3. NameSet(lane) \cap DOMAIN Pinned = {"vault_config", "token_program"}
      BY <1>1 DEF Pinned, ConvertFields
    <2>4. Writable(lane) \subseteq NameSet(lane)
      BY DEF Writable
    <2> QED BY <1>1, <1>3, <1>4, <2>1, <2>2, <2>3, <2>4
  <1>6. k.input_mint[1] = input /\ k.output_mint[1] = output
    BY <1>1 DEF At
  <1>7. input \in Traded /\ output \in Traded
    BY MintsAreTraded DEF Converted
  <1>8. /\ MintOf(source) = input /\ OwnerOf(source) = Wallet(h) /\ MintOf(dest) = output
    BY <1>7, TraderParts
  <1>9. ConvertAccepts(o)
    BY <1>1, <1>6, <1>8 DEF ConvertAccepts, k
  <1> QED BY <1>2, <1>5, <1>9 DEF Accepts, lane

LEMMA ConversionModest ==
  ASSUME NEW o, NEW h, NEW input, NEW output, NEW source, NEW dest,
         ConversionList(o, h, input, output, source, dest)
  PROVE  Modest(o)
  <1> DEFINE lane == o.ix.lane
             R == ConvertReading(Wallet(h), source, dest, input, output)
             hooks == ConvertHooks(source, dest, input, output)
             S == [key : ConvertHookKeys(source, dest, input, output),
                   signer : {FALSE}, writable : {FALSE}]
  <1>1. ReadBack(o, lane, R, hooks) /\ LaneLength(lane) = 9 /\ ReadingRights(R, lane)
    BY ConversionRead
  <1>2. lane = "ConvertV2"
    BY DEF ConversionList
  <1>3. hooks \in Seq(S) /\ Len(hooks) = 8
    <2>1. HooksRead(hooks, ConvertHookKeys(source, dest, input, output), 8,
                    HookAccounts(input, source, VaultTokenAccount(input))
                    \o HookAccounts(output, VaultTokenAccount(output), dest))
      BY ConvertHooksRead, Zenon
    <2> HIDE DEF hooks
    <2> QED BY <2>1 DEF HooksRead
  <1>4. \A s \in S : s.writable = FALSE /\ s.signer = FALSE
    OBVIOUS
  <1> HIDE DEF lane, R, hooks, S
  <1>5. HookRights(hooks)
    <2>1. \A i \in 1 .. Len(hooks) : hooks[i] \in S
      BY <1>3, ElementOfSeq
    <2> QED BY <1>3, <1>4, <2>1 DEF HookRights
  <1>6. ListRights(o, lane)
    BY <1>1, <1>5, RightsRead
  <1>7. Len(o.metas) = VaultAccountsLen
    BY <1>1, <1>3 DEF ReadBack, VaultAccountsLen
  <1> QED BY <1>2, <1>6, <1>7 DEF Modest, ListRights, lane

LEMMA ConversionKnown ==
  ASSUME NEW o, NEW h \in Holders, NEW input \in Converted, NEW output \in Converted,
         NEW source \in TraderAccounts, NEW dest \in TraderAccounts,
         ConversionList(o, h, input, output, source, dest)
  PROVE  \A i \in 1 .. Len(o.metas) : o.metas[i].key \in Known
  <1> DEFINE lane == o.ix.lane
             R == ConvertReading(Wallet(h), source, dest, input, output)
             hooks == ConvertHooks(source, dest, input, output)
             K == ConvertHookKeys(source, dest, input, output)
             S == [key : K, signer : {FALSE}, writable : {FALSE}]
  <1>1. ReadBack(o, lane, R, hooks) /\ NameSet(lane) = ConvertFields \cup {"user"}
    BY ConversionRead
  <1>2. hooks \in Seq(S) /\ Len(hooks) = 8
    <2>1. HooksRead(hooks, ConvertHookKeys(source, dest, input, output), 8,
                    HookAccounts(input, source, VaultTokenAccount(input))
                    \o HookAccounts(output, VaultTokenAccount(output), dest))
      BY ConvertHooksRead, Zenon
    <2> HIDE DEF hooks
    <2> QED BY <2>1 DEF HooksRead
  <1>3. /\ source \in Accounts /\ dest \in Accounts /\ Wallet(h) \in Accounts
        /\ VaultTokenAccount(input) \in Accounts /\ VaultTokenAccount(output) \in Accounts
        /\ input \in Traded /\ output \in Traded
    BY MintsAreTraded DEF Accounts, VaultAccounts, Converted
  <1>4. K \subseteq Known
    BY <1>3 DEF Known, ConvertHookKeys
  <1>5. \A n \in NameSet(lane) : R[n].key \in Known
    <2>1. /\ R["user"].key = Wallet(h) /\ R["vault_config"].key = VAULT_CONFIG_PDA
          /\ R["user_input"].key = source /\ R["user_output"].key = dest
          /\ R["input_mint"].key = At(input) /\ R["output_mint"].key = At(output)
          /\ R["vault_input"].key = VaultTokenAccount(input)
          /\ R["vault_output"].key = VaultTokenAccount(output)
          /\ R["token_program"].key = At(TOKEN_2022_PROGRAM_ID)
      BY DEF ConvertReading, Mut, Ro, Meta
    <2>2. VAULT_CONFIG_PDA \in Known /\ At(TOKEN_2022_PROGRAM_ID) \in Known
      <3>1. Pinned["vault_config"] = VAULT_CONFIG_PDA /\ "vault_config" \in DOMAIN Pinned
        BY DEF Pinned
      <3> QED BY <3>1 DEF Known
    <2>3. \A a \in Accounts : a \in Known
      BY DEF Known
    <2>4. At(input) \in Known /\ At(output) \in Known
      BY <1>3 DEF Known
    <2> HIDE DEF R
    <2> QED BY <1>1, <1>3, <2>1, <2>2, <2>3, <2>4 DEF ConvertFields
  <1>6. \A s \in S : s.key \in K
    OBVIOUS
  <1> HIDE DEF lane, R, hooks, K, S
  <1>7. \A i \in 1 .. Len(hooks) : hooks[i].key \in Known
    <2>1. \A i \in 1 .. Len(hooks) : hooks[i] \in S
      BY <1>2, ElementOfSeq
    <2> QED BY <1>4, <1>6, <2>1
  <1> QED BY <1>1, <1>2, <1>5, <1>7, KeysKnown

-----------------------------------------------------------------------------
(* The inductive invariant *)

TaxedOrder(o, h) ==
  \E payee \in Holders, id \in Pools, lane \in TaxLanes :
    /\ Serves(lane, id)
    /\ o.source = TokenAccount(h, InMint(id, lane))
    /\ o.dest = TokenAccount(payee, OutMint(id, lane))
    /\ TaxedList(o, h, id, lane, o.source, o.dest)
    /\ o.amount \in Amounts /\ o.ix.amountIn = o.amount
    /\ o.quoted \in Nat /\ o.ix.minimumOutput = SaturatingSub(o.quoted, Slippage)
    /\ o.via = (IF lane = "SolBuy" THEN "direct" ELSE "engine")

ConversionOrder(o, h) ==
  \E payee \in Holders, input \in Converted, output \in Converted :
    /\ input # output
    /\ o.source = TokenAccount(h, input)
    /\ o.dest = TokenAccount(payee, output)
    /\ ConversionList(o, h, input, output, o.source, o.dest)
    /\ o.amount \in Amounts /\ o.ix.amountIn = o.amount
    /\ o.quoted \in Nat /\ ComputeVaultOutput(input, output, o.amount) = o.quoted

\* A pending order is one an instance builds: its list is read as its lane's.
OrderIsBuilt(h) ==
  orders[h] = NoOrder \/ TaxedOrder(orders[h], h) \/ ConversionOrder(orders[h], h)

IInv ==
  /\ ledger \in [Accounts -> U64]
  /\ built \in 0 .. MaxSwaps
  /\ orders = [h \in Holders |-> orders[h]]
  /\ \A h \in Holders : OrderIsBuilt(h)

\* What the invariant says of one order is what the run checks of it.
LEMMA BuiltOrder ==
  ASSUME NEW h \in Holders, OrderIsBuilt(h), orders[h] # NoOrder
  PROVE  /\ Accepts(orders[h]) /\ Modest(orders[h])
         /\ orders[h].source \in TraderAccounts /\ orders[h].dest \in TraderAccounts
         /\ \A i \in 1 .. Len(orders[h].metas) : orders[h].metas[i].key \in Known
  <1> DEFINE o == orders[h]
  <1>1. TaxedOrder(o, h) \/ ConversionOrder(o, h)
    BY DEF OrderIsBuilt
  <1> HIDE DEF o
  <1>2. CASE TaxedOrder(o, h)
    <2>1. PICK payee \in Holders, id \in Pools, lane \in TaxLanes :
            /\ Serves(lane, id)
            /\ o.source = TokenAccount(h, InMint(id, lane))
            /\ o.dest = TokenAccount(payee, OutMint(id, lane))
            /\ TaxedList(o, h, id, lane, o.source, o.dest)
      BY <1>2 DEF TaxedOrder
    <2>2. InMint(id, lane) \in Traded /\ OutMint(id, lane) \in Traded
      BY MintsAreTraded DEF InMint, OutMint
    <2>3. o.source \in TraderAccounts /\ o.dest \in TraderAccounts
      BY <2>1, <2>2, TraderParts
    <2>4. Accepts(o) /\ Modest(o)
      BY <2>1, TaxedAccepted, TaxedModest
    <2>5. \A i \in 1 .. Len(o.metas) : o.metas[i].key \in Known
      BY <2>1, <2>3, TaxedKnown
    <2> QED BY <2>3, <2>4, <2>5 DEF o
  <1>3. CASE ConversionOrder(o, h)
    <2>1. PICK payee \in Holders, input \in Converted, output \in Converted :
            /\ o.source = TokenAccount(h, input) /\ o.dest = TokenAccount(payee, output)
            /\ ConversionList(o, h, input, output, o.source, o.dest)
            /\ o.ix.amountIn = o.amount /\ o.quoted \in Nat
            /\ ComputeVaultOutput(input, output, o.amount) = o.quoted
      BY <1>3 DEF ConversionOrder
    <2>2. input \in Traded /\ output \in Traded
      BY MintsAreTraded DEF Converted
    <2>3. o.source \in TraderAccounts /\ o.dest \in TraderAccounts
      BY <2>1, <2>2, TraderParts
    <2>4. ComputeVaultOutput(input, output, o.ix.amountIn) # None
      BY <2>1 DEF None
    <2>5. Accepts(o) /\ Modest(o)
      BY <2>1, <2>4, ConversionAccepted, ConversionModest
    <2>6. \A i \in 1 .. Len(o.metas) : o.metas[i].key \in Known
      BY <2>1, <2>3, ConversionKnown
    <2> QED BY <2>3, <2>5, <2>6 DEF o
  <1> QED BY <1>1, <1>2, <1>3

LEMMA IInvImplies == IInv => TypeOK /\ BuiltSwapsAreAccepted /\ ListsAskForNoMore
  <1> SUFFICES ASSUME IInv PROVE TypeOK /\ BuiltSwapsAreAccepted /\ ListsAskForNoMore
    OBVIOUS
  <1>1. ASSUME NEW h \in Holders, orders[h] # NoOrder
        PROVE  /\ Accepts(orders[h]) /\ Modest(orders[h])
               /\ orders[h].source \in TraderAccounts /\ orders[h].dest \in TraderAccounts
               /\ \A i \in 1 .. Len(orders[h].metas) : orders[h].metas[i].key \in Known
    BY <1>1, BuiltOrder DEF IInv
  <1>2. TypeOK
    BY <1>1 DEF TypeOK, IInv
  <1>3. BuiltSwapsAreAccepted
    BY <1>1 DEF BuiltSwapsAreAccepted
  <1>4. ListsAskForNoMore
    BY <1>1 DEF ListsAskForNoMore, Modest
  <1> QED BY <1>2, <1>3, <1>4

LEMMA InitIInv == Init => IInv
  <1> SUFFICES ASSUME Init PROVE IInv
    OBVIOUS
  <1>1. ledger \in [Accounts -> U64]
    <2>1. ASSUME NEW a \in TraderAccounts PROVE a[3] \in Traded
      BY DEF TraderAccounts, TokenAccount
    <2>2. InitReserve \in U64 /\ InitTrader[NATIVE_MINT] \in U64 /\ 0 \in U64
          /\ \A m \in Traded : InitTrader[m] \in U64
      BY SettlementAssumption, MintsAreTraded, U64MaxAssumption DEF U64
    <2> QED BY <2>1, <2>2 DEF Init
  <1>2. built \in 0 .. MaxSwaps
    BY SettlementAssumption DEF Init
  <1>3. orders = [h \in Holders |-> orders[h]] /\ \A h \in Holders : OrderIsBuilt(h)
    BY DEF Init, OrderIsBuilt
  <1> QED BY <1>1, <1>2, <1>3 DEF IInv

\* A quote is a u64 or nothing.
LEMMA QuotesAreU64 ==
  ASSUME NEW id, NEW lane, NEW amount
  PROVE  SwapOutput(id, lane, amount) \in U64 \cup {None}
  <1> DEFINE q == ledger[VaultOf(id, QuoteMint(id))]
             f == ledger[VaultOf(id, FactionMint(id))]
  <1>1. \A x : CheckedU64(x) \in U64 \cup {None}
    BY DEF CheckedU64, U64
  <1>2. \A x, y, z : CalculateSwapOutput(x, y, z) \in U64 \cup {None}
    BY <1>1 DEF CalculateSwapOutput
  <1>3. \A x, y : CalculateTax(x, y) \in U64 \cup {None}
    BY <1>1 DEF CalculateTax
  <1>4. 0 \in U64 /\ U64Max \in Nat
    BY U64MaxAssumption DEF U64
  <1>5. QuoteBuy(q, f, LpFeeBps, BuyTaxBps, amount).ok
          => QuoteBuy(q, f, LpFeeBps, BuyTaxBps, amount).out \in U64
    <2> HIDE DEF q, f
    <2> QED BY <1>2, <1>4 DEF QuoteBuy, Err, QuoteOk
  <1>6. QuoteSell(q, f, LpFeeBps, SellTaxBps, amount).ok
          => QuoteSell(q, f, LpFeeBps, SellTaxBps, amount).out \in U64
    <2> DEFINE gross == CalculateSwapOutput(f, q, CalculateEffectiveInput(amount, LpFeeBps))
               tax == CalculateTax(gross, SellTaxBps)
    <2>1. gross \in U64 \cup {None} /\ tax \in U64 \cup {None}
      BY <1>2, <1>3
    <2>2. \/ QuoteSell(q, f, LpFeeBps, SellTaxBps, amount) = Err
          \/ /\ gross # None /\ tax # None /\ ~(tax > gross)
             /\ QuoteSell(q, f, LpFeeBps, SellTaxBps, amount)
                  = QuoteOk(gross - tax, tax, LpFeeBps + SellTaxBps)
      BY DEF QuoteSell
    <2> HIDE DEF q, f, gross, tax
    <2> QED BY <1>4, <2>1, <2>2 DEF Err, QuoteOk, U64, None
  <1> QED BY <1>5, <1>6 DEF SwapOutput

-----------------------------------------------------------------------------
(* The steps *)

LEMMA PlacedOrder ==
  ASSUME IInv, NEW h \in Holders, NEW o, built < MaxSwaps,
         orders' = [orders EXCEPT ![h] = o], built' = built + 1, UNCHANGED ledger,
         TaxedOrder(o, h) \/ ConversionOrder(o, h)
  PROVE  IInv'
  <1>1. ledger' \in [Accounts -> U64]
    BY DEF IInv
  <1>2. built' \in 0 .. MaxSwaps
    BY SettlementAssumption DEF IInv
  <1>3. /\ orders' = [g \in Holders |-> orders'[g]] /\ orders'[h] = o
        /\ \A g \in Holders \ {h} : orders'[g] = orders[g]
    BY DEF IInv
  <1>4. \A g \in Holders : OrderIsBuilt(g)'
    BY <1>3 DEF IInv, OrderIsBuilt
  <1> QED BY <1>1, <1>2, <1>3, <1>4 DEF IInv

\* A settled or refused order leaves its place.
LEMMA ClearedOrder ==
  ASSUME IInv, NEW h \in Holders, orders' = [orders EXCEPT ![h] = NoOrder], UNCHANGED built,
         ledger' \in [Accounts -> U64]
  PROVE  IInv'
  <1>1. built' \in 0 .. MaxSwaps
    BY DEF IInv
  <1>2. /\ orders' = [g \in Holders |-> orders'[g]] /\ orders'[h] = NoOrder
        /\ \A g \in Holders \ {h} : orders'[g] = orders[g]
    BY DEF IInv
  <1>3. \A g \in Holders : OrderIsBuilt(g)'
    BY <1>2 DEF IInv, OrderIsBuilt
  <1> QED BY <1>1, <1>2, <1>3 DEF IInv

\* The lane and the list of an instance's two directions
LEMMA PoolSwapList ==
  ASSUME NEW id \in Pools, NEW isBuy \in BOOLEAN, NEW user, NEW source, NEW dest,
         NEW lane, lane = (IF isBuy THEN IF id.mintA = NATIVE_MINT THEN "SolBuyWsol" ELSE "SplBuy"
                                    ELSE IF id.mintA = NATIVE_MINT THEN "SolSell" ELSE "SplSell")
  PROVE  LET a      == PoolAmm(id)
             input  == IF isBuy THEN a.quoteMint ELSE a.factionMint
             output == IF isBuy THEN a.factionMint ELSE a.quoteMint
         IN  /\ ForMints(a.quoteMint, a.factionMint, input, output) = lane
             /\ PoolSwapMetas(a, input, output, user, source, dest)
                  = TaxList(user, id, lane, source, dest)
             /\ Serves(lane, id) /\ lane \in TaxLanes /\ (IsBuy(lane) <=> isBuy)
             /\ input = InMint(id, lane) /\ output = OutMint(id, lane) /\ lane # "SolBuy"
  <1> DEFINE a      == PoolAmm(id)
             q      == QuoteMint(id)
             f      == FactionMint(id)
             input  == IF isBuy THEN a.quoteMint ELSE a.factionMint
             output == IF isBuy THEN a.factionMint ELSE a.quoteMint
  <1>1. /\ a.quoteMint = q /\ a.factionMint = f /\ a.key = Key(id) /\ a.id = id
    BY DEF PoolAmm
  <1>2. q # f /\ (q = NATIVE_MINT <=> id.mintA = NATIVE_MINT)
    BY PoolShape
  <1> HIDE DEF a, q, f
  <1>3. ForMints(q, f, input, output) = lane /\ ValidateMintPair(a, input, output)
    BY <1>1, <1>2 DEF ForMints, ValidateMintPair
  <1>4. IsBuy(lane) <=> isBuy
    BY DEF IsBuy
  <1>5. Serves(lane, id) /\ lane \in TaxLanes /\ lane # "SolBuy"
    BY DEF Serves, TaxLanes, SolLanes
  <1>6. input = InMint(id, lane) /\ output = OutMint(id, lane)
    BY <1>1, <1>4 DEF InMint, OutMint, q, f
  <1>7. PoolSwapMetas(a, input, output, user, source, dest)
          = CASE lane = "SolBuyWsol" -> SolBuyWsolMetas(user, source, dest, Key(id), id)
              [] lane = "SolBuy"     -> SolBuyMetas(user, source, dest, Key(id), id)
              [] lane = "SolSell"    -> SolSellMetas(user, source, dest, Key(id), id)
              [] lane = "SplBuy"     -> SplBuyMetas(user, source, dest, Key(id), id)
              [] lane = "SplSell"    -> SplSellMetas(user, source, dest, Key(id), id)
              [] OTHER               -> <<>>
    <2> HIDE DEF input, output
    <2> QED BY <1>1, <1>3 DEF PoolSwapMetas
  <1>8. PoolSwapMetas(a, input, output, user, source, dest) = TaxList(user, id, lane, source, dest)
    <2>1. CASE isBuy /\ id.mintA = NATIVE_MINT
      <3>1. lane = "SolBuyWsol" /\ (lane = "SolBuyWsol") = TRUE
        BY <2>1
      <3>2. SolBuyWsolMetas(user, source, dest, Key(id), id)
              = WsolIntermediaryMetas(user, dest, source, Key(id), id, lane = "SolBuyWsol")
        BY <3>1 DEF SolBuyWsolMetas
      <3>3. WsolIntermediaryMetas(user, dest, source, Key(id), id, lane = "SolBuyWsol")
              = TaxList(user, id, lane, source, dest)
        <4>1. lane \in {"SolBuyWsol", "SolSell"}
              /\ <<source, dest>>
                   = (IF lane = "SolBuyWsol" THEN <<source, dest>> ELSE <<dest, source>>)
          BY <3>1
        <4> QED BY <2>1, <4>1, WsolLanesList
      <3> QED BY <1>7, <3>1, <3>2, <3>3
    <2>2. CASE ~isBuy /\ id.mintA = NATIVE_MINT
      <3>1. lane = "SolSell" /\ (lane = "SolBuyWsol") = FALSE
        BY <2>2
      <3>2. SolSellMetas(user, source, dest, Key(id), id)
              = WsolIntermediaryMetas(user, source, dest, Key(id), id, lane = "SolBuyWsol")
        BY <3>1 DEF SolSellMetas
      <3>3. WsolIntermediaryMetas(user, source, dest, Key(id), id, lane = "SolBuyWsol")
              = TaxList(user, id, lane, source, dest)
        <4>1. lane \in {"SolBuyWsol", "SolSell"}
              /\ <<dest, source>>
                   = (IF lane = "SolBuyWsol" THEN <<source, dest>> ELSE <<dest, source>>)
          BY <3>1
        <4> QED BY <2>2, <4>1, WsolLanesList
      <3> QED BY <1>7, <3>1, <3>2, <3>3
    <2>3. CASE isBuy /\ id.mintA # NATIVE_MINT
      <3>1. lane \in {"SplBuy"}
        BY <2>3
      <3>2. SplBuyMetas(user, source, dest, Key(id), id) = TaxList(user, id, lane, source, dest)
        BY <3>1, SplBuyList
      <3> QED BY <1>7, <3>1, <3>2
    <2>4. CASE ~isBuy /\ id.mintA # NATIVE_MINT
      <3>1. lane \in {"SplSell"}
        BY <2>4
      <3>2. SplSellMetas(user, source, dest, Key(id), id) = TaxList(user, id, lane, source, dest)
        BY <3>1, SplSellList
      <3> QED BY <1>7, <3>1, <3>2
    <2> QED BY <2>1, <2>2, <2>3, <2>4
  <1> QED BY <1>1, <1>3, <1>4, <1>5, <1>6, <1>8 DEF a

LEMMA BuildPoolSwapKeeps ==
  ASSUME IInv, NEW h \in Holders, NEW payee \in Holders, NEW id \in Pools,
         NEW isBuy \in BOOLEAN, NEW amount \in Amounts,
         BuildPoolSwap(h, payee, id, isBuy, amount)
  PROVE  IInv'
  <1> DEFINE lane == IF isBuy THEN IF id.mintA = NATIVE_MINT THEN "SolBuyWsol" ELSE "SplBuy"
                     ELSE IF id.mintA = NATIVE_MINT THEN "SolSell" ELSE "SplSell"
             source == TokenAccount(h, InMint(id, lane))
             dest   == TokenAccount(payee, OutMint(id, lane))
             quoted == SwapOutput(id, IF isBuy THEN "SplBuy" ELSE "SplSell", amount)
             ix     == Encode(lane, amount, SaturatingSub(quoted, Slippage),
                              FactionMint(id) = CRIME_MINT)
             o == [ix |-> ix, metas |-> TaxList(Wallet(h), id, lane, source, dest),
                   source |-> source, dest |-> dest, amount |-> amount, quoted |-> quoted,
                   via |-> "engine"]
  <1>1. Serves(lane, id) /\ lane \in TaxLanes /\ lane # "SolBuy"
    BY PoolSwapList
  <1>2. Place(h, ix, TaxList(Wallet(h), id, lane, source, dest), source, dest, amount, quoted,
              "engine")
    <2> DEFINE a      == PoolAmm(id)
               input  == IF isBuy THEN a.quoteMint ELSE a.factionMint
               output == IF isBuy THEN a.factionMint ELSE a.quoteMint
               L == lane
    <2>1. a.factionMint = FactionMint(id)
      BY DEF PoolAmm
    <2>2. Place(h, Encode(ForMints(a.quoteMint, a.factionMint, input, output), amount,
                          SaturatingSub(quoted, Slippage), a.factionMint = CRIME_MINT),
                PoolSwapMetas(a, input, output, Wallet(h), TokenAccount(h, input),
                              TokenAccount(payee, output)),
                TokenAccount(h, input), TokenAccount(payee, output), amount, quoted, "engine")
      BY DEF BuildPoolSwap
    <2>3. L = lane
      OBVIOUS
    <2> HIDE DEF L
    <2>4. /\ ForMints(a.quoteMint, a.factionMint, input, output) = L
          /\ input = InMint(id, L) /\ output = OutMint(id, L)
          /\ \A s, d : PoolSwapMetas(a, input, output, Wallet(h), s, d)
                         = TaxList(Wallet(h), id, L, s, d)
      BY <2>3, PoolSwapList
    <2> HIDE DEF a, input, output, quoted
    <2> QED BY <2>1, <2>2, <2>3, <2>4
  <1> HIDE DEF lane
  <1>3. built < MaxSwaps /\ orders' = [orders EXCEPT ![h] = o] /\ built' = built + 1
        /\ UNCHANGED ledger /\ quoted > 0
    BY <1>2 DEF Place
  <1>4. quoted \in Nat
    <2>1. quoted \in U64 \cup {None}
      BY QuotesAreU64
    <2> HIDE DEF quoted
    <2> QED BY <1>3, <2>1, U64MaxAssumption DEF U64, None
  <1>5. TaxedList(o, h, id, lane, source, dest)
    BY DEF TaxedList, Encode
  <1>6. o.ix.amountIn = amount /\ o.ix.minimumOutput = SaturatingSub(quoted, Slippage)
        /\ o.source = source /\ o.dest = dest /\ o.amount = amount /\ o.quoted = quoted
        /\ o.via = "engine"
    BY DEF Encode
  <1> HIDE DEF o, quoted
  <1>7. TaxedOrder(o, h)
    BY <1>1, <1>4, <1>5, <1>6 DEF TaxedOrder
  <1> QED BY <1>3, <1>7, PlacedOrder

\* What the vault quotes is a natural number or nothing.
LEMMA ConversionsAreNat ==
  ASSUME NEW input, NEW output, NEW amount \in U64
  PROVE  ComputeVaultOutput(input, output, amount) \in Nat \cup {None}
  <1>1. U64Max \in Nat /\ amount \in Nat
    BY U64MaxAssumption DEF U64
  <1>2. amount \div CONVERSION_RATE \in Nat
    BY <1>1 DEF CONVERSION_RATE
  <1>3. CheckedU64(amount * CONVERSION_RATE) \in Nat \cup {None}
    BY <1>1 DEF CheckedU64
  <1> QED BY <1>2, <1>3 DEF ComputeVaultOutput

LEMMA BuildConversionKeeps ==
  ASSUME IInv, NEW h \in Holders, NEW payee \in Holders, NEW input \in Converted,
         NEW output \in Converted, input # output, NEW amount \in Amounts,
         BuildConversion(h, payee, input, output, amount)
  PROVE  IInv'
  <1> DEFINE source == TokenAccount(h, input)
             dest   == TokenAccount(payee, output)
             quoted == ComputeVaultOutput(input, output, amount)
             ix     == [lane |-> "ConvertV2", amountIn |-> amount, minimumOutput |-> quoted,
                        witness |-> {}]
             list   == VaultMetas(Wallet(h), source, dest, input, output)
             o == [ix |-> ix, metas |-> list, source |-> source, dest |-> dest,
                   amount |-> amount, quoted |-> quoted, via |-> "engine"]
  <1>1. Place(h, ix, list, source, dest, amount, quoted, "engine")
    <2>1. VaultSwapMetas(<<input, output>>, input, output, Wallet(h), source, dest) = list
      BY DEF VaultSwapMetas
    <2> HIDE DEF list, quoted
    <2>2. Place(h, ix, VaultSwapMetas(<<input, output>>, input, output, Wallet(h), source, dest),
                source, dest, amount, quoted, "engine")
      BY DEF BuildConversion, quoted
    <2> QED BY <2>1, <2>2
  <1>2. built < MaxSwaps /\ orders' = [orders EXCEPT ![h] = o] /\ built' = built + 1
        /\ UNCHANGED ledger /\ quoted > 0
    BY <1>1 DEF Place
  <1>3. quoted \in Nat
    <2>1. amount \in U64
      BY SettlementAssumption
    <2>2. quoted \in Nat \cup {None}
      BY <2>1, ConversionsAreNat
    <2> HIDE DEF quoted
    <2> QED BY <1>2, <2>2 DEF None
  <1>4. ConversionList(o, h, input, output, source, dest)
    <2>1. o.ix.lane \in {"ConvertV2"} /\ o.metas = list
      OBVIOUS
    <2> HIDE DEF o, list
    <2>2. o.metas = ReadOut(o.ix.lane, ConvertReading(Wallet(h), source, dest, input, output))
                    \o ConvertHooks(source, dest, input, output)
      <3> DEFINE l == o.ix.lane
      <3>1. l \in {"ConvertV2"}
        BY <2>1
      <3> HIDE DEF l
      <3>2. list = ReadOut(l, ConvertReading(Wallet(h), source, dest, input, output))
                   \o ConvertHooks(source, dest, input, output)
        BY <3>1, ConvertListRead DEF list, Converted
      <3> QED BY <2>1, <3>2 DEF l
    <2> QED BY <2>1, <2>2 DEF ConversionList
  <1>5. o.ix.amountIn = amount /\ o.source = source /\ o.dest = dest /\ o.amount = amount
        /\ o.quoted = quoted
    OBVIOUS
  <1> HIDE DEF o, list, ix
  <1>6. ConversionOrder(o, h)
    BY <1>3, <1>4, <1>5 DEF ConversionOrder
  <1> QED BY <1>2, <1>6, PlacedOrder

LEMMA BuildLegacyBuyKeeps ==
  ASSUME IInv, NEW h \in Holders, NEW id \in Pools, NEW amount \in Amounts,
         BuildLegacyBuy(h, id, amount)
  PROVE  IInv'
  <1> DEFINE source == TokenAccount(h, NATIVE_MINT)
             dest   == TokenAccount(h, FactionMint(id))
             quoted == SwapOutput(id, "SolBuy", amount)
             ix     == Encode("SolBuy", amount, SaturatingSub(quoted, Slippage),
                              FactionMint(id) = CRIME_MINT)
             list   == SolBuyMetas(Wallet(h), source, dest, Key(id), id)
             o == [ix |-> ix, metas |-> list, source |-> source, dest |-> dest,
                   amount |-> amount, quoted |-> quoted, via |-> "direct"]
  <1>1. id.mintA = NATIVE_MINT /\ Place(h, ix, list, source, dest, amount, quoted, "direct")
    BY DEF BuildLegacyBuy
  <1>2. built < MaxSwaps /\ orders' = [orders EXCEPT ![h] = o] /\ built' = built + 1
        /\ UNCHANGED ledger /\ quoted > 0
    BY <1>1 DEF Place
  <1>3. quoted \in Nat
    <2>1. quoted \in U64 \cup {None}
      BY QuotesAreU64
    <2> HIDE DEF quoted
    <2> QED BY <1>2, <2>1, U64MaxAssumption DEF U64, None
  <1>4. /\ o.ix.lane \in {"SolBuy"} /\ o.metas = list /\ o.ix.amountIn = amount
        /\ o.ix.minimumOutput = SaturatingSub(quoted, Slippage)
        /\ o.source = source /\ o.dest = dest /\ o.amount = amount /\ o.quoted = quoted
        /\ o.via = "direct"
    BY DEF Encode
  <1>5. o.ix.witness = {FactionMint(id) = CRIME_MINT}
    BY DEF Encode, HasFactionWitness
  <1> HIDE DEF o, ix, quoted
  <1> DEFINE lane == o.ix.lane
  <1>6. lane \in {"SolBuy"}
    BY <1>4
  <1> HIDE DEF lane
  <1>7. Serves(lane, id) /\ lane \in TaxLanes /\ IsBuy(lane) /\ lane = "SolBuy"
    BY <1>1, <1>6 DEF Serves, TaxLanes, SolLanes, IsBuy
  <1>8. source = TokenAccount(h, InMint(id, lane)) /\ dest = TokenAccount(h, OutMint(id, lane))
    BY <1>1, <1>7, SolPoolShape DEF InMint, OutMint
  <1>9. list = TaxList(Wallet(h), id, lane, source, dest)
    BY <1>1, <1>6, SolBuyList DEF list
  <1> HIDE DEF source, dest, list
  <1>10. TaxedList(o, h, id, lane, source, dest)
    BY <1>4, <1>5, <1>7, <1>9 DEF TaxedList, lane, HasFactionWitness
  <1>11. TaxedOrder(o, h)
    BY <1>3, <1>4, <1>7, <1>8, <1>10 DEF TaxedOrder
  <1> QED BY <1>2, <1>11, PlacedOrder

\* A balance for every account.
IsLedger(l) == l = [a \in Accounts |-> l[a]]

LEMMA MoveKeeps ==
  ASSUME NEW l, IsLedger(l), NEW from, NEW to, NEW amount
  PROVE  /\ IsLedger(Move(l, from, to, amount))
         /\ \A a \in Accounts \ {from, to} : Move(l, from, to, amount)[a] = l[a]
  BY DEF IsLedger, Move

LEMMA CollectKeeps ==
  ASSUME NEW l, IsLedger(l), NEW k, NEW lane, NEW from, NEW tax
  PROVE  IsLedger(Collect(l, k, lane, from, tax))
  <1> DEFINE d == SplitDistribution(tax)
             l1 == Move(l, from, k.staking_escrow, d.staking)
             l2 == Move(l1, from, k.carnage_vault, d.carnage)
             l3 == Move(l2, from, k.treasury, d.treasury)
  <1>1. IsLedger(l1)
    BY MoveKeeps
  <1> HIDE DEF l1
  <1>2. IsLedger(l2)
    BY <1>1, MoveKeeps
  <1> HIDE DEF l2
  <1>3. IsLedger(l3) /\ IsLedger(Move(l, from, k.sweep_ata, tax))
    BY <1>2, MoveKeeps
  <1> QED BY <1>3 DEF Collect, l3, l2, l1

LEMMA AfterIsLedger ==
  ASSUME IsLedger(ledger), NEW o
  PROVE  IsLedger(After(o))
  <1>1. IsLedger(AfterConversion(o))
    <2> DEFINE k == Keys(o)
               out == ComputeVaultOutput(k.input_mint[1], k.output_mint[1], o.ix.amountIn)
               l1 == Move(ledger, k.user_input, k.vault_input, o.ix.amountIn)
    <2>1. IsLedger(l1)
      BY MoveKeeps
    <2> HIDE DEF l1
    <2>2. IsLedger(Move(l1, k.vault_output, k.user_output, out))
      BY <2>1, MoveKeeps
    <2> QED BY <2>2 DEF AfterConversion, l1
  <1>2. IsLedger(AfterTaxedSwap(o))
    <2> DEFINE lane   == o.ix.lane
               k      == Keys(o)
               id     == PoolAt(k.pool)
               payer  == Payer(k, id, lane)
               payee  == Payee(k, id, lane)
               out    == SwapOutput(id, lane, o.ix.amountIn)
               quotes == VaultOf(id, QuoteMint(id))
               tokens == VaultOf(id, FactionMint(id))
               tax    == CalculateTax(o.ix.amountIn, BuyTaxBps)
               from   == IF lane = "SolBuy" THEN k.user ELSE payer
               gross  == CalculateSwapOutput(ledger[tokens], ledger[quotes],
                            CalculateEffectiveInput(o.ix.amountIn, LpFeeBps))
               taxed  == Collect(ledger, k, lane, from, tax)
               b1     == Move(taxed, payer, quotes, o.ix.amountIn - tax)
               b2     == Move(b1, tokens, payee, out)
               s1     == Move(ledger, payer, tokens, o.ix.amountIn)
               paid   == Move(s1, quotes, payee, out)
               s3     == Collect(paid, k, lane, quotes, gross - out)
    <2>1. IsLedger(taxed) /\ IsLedger(s1)
      BY CollectKeeps, MoveKeeps
    <2> HIDE DEF taxed, s1
    <2>2. IsLedger(b1) /\ IsLedger(paid)
      BY <2>1, MoveKeeps
    <2> HIDE DEF b1, paid
    <2>3. IsLedger(b2) /\ IsLedger(s3)
      BY <2>2, CollectKeeps, MoveKeeps
    <2>4. AfterTaxedSwap(o) = IF IsBuy(lane) THEN b2 ELSE s3
      BY DEF AfterTaxedSwap, taxed, s1, b1, paid
    <2> HIDE DEF b2, s3
    <2> QED BY <2>3, <2>4
  <1> QED BY <1>1, <1>2 DEF After

LEMMA ExecuteKeeps ==
  ASSUME IInv, NEW h \in Holders, Execute(h)
  PROVE  IInv'
  <1>1. Succeeds(orders[h]) /\ ledger' = After(orders[h])
        /\ orders' = [orders EXCEPT ![h] = NoOrder] /\ UNCHANGED built
    BY DEF Execute
  <1>2. IsLedger(ledger)
    BY DEF IInv, IsLedger
  <1>3. IsLedger(ledger')
    BY <1>1, <1>2, AfterIsLedger
  <1>4. \A a \in Accounts : ledger'[a] \in U64
    BY <1>1 DEF Succeeds
  <1>5. ledger' \in [Accounts -> U64]
    BY <1>3, <1>4 DEF IsLedger
  <1> QED BY <1>1, <1>5, ClearedOrder

LEMMA StepIInv == IInv /\ [Next]_vars => IInv'
  <1> SUFFICES ASSUME IInv, [Next]_vars PROVE IInv'
    OBVIOUS
  <1>1. ASSUME NEW h \in Holders, NEW payee \in Holders, NEW id \in Pools,
               NEW isBuy \in BOOLEAN, NEW amount \in Amounts,
               BuildPoolSwap(h, payee, id, isBuy, amount)
        PROVE  IInv'
    BY <1>1, BuildPoolSwapKeeps
  <1>2. ASSUME NEW h \in Holders, NEW payee \in Holders, NEW m \in FactionMints,
               NEW amount \in Amounts,
               \/ BuildConversion(h, payee, m, PROFIT_MINT, amount)
               \/ BuildConversion(h, payee, PROFIT_MINT, m, amount)
        PROVE  IInv'
    <2>1. m \in Converted /\ PROFIT_MINT \in Converted /\ m # PROFIT_MINT
      BY DEF Converted, FactionMints, CRIME_MINT, FRAUD_MINT, PROFIT_MINT
    <2> QED BY <1>2, <2>1, BuildConversionKeeps
  <1>3. ASSUME NEW h \in Holders, NEW id \in Pools, NEW amount \in Amounts,
               BuildLegacyBuy(h, id, amount)
        PROVE  IInv'
    BY <1>3, BuildLegacyBuyKeeps
  <1>4. ASSUME NEW h \in Holders, Execute(h)
        PROVE  IInv'
    BY <1>4, ExecuteKeeps
  <1>5. ASSUME NEW h \in Holders, Fail(h)
        PROVE  IInv'
    <2>1. ledger' \in [Accounts -> U64]
      BY <1>5 DEF Fail, IInv
    <2> QED BY <1>5, <2>1, ClearedOrder DEF Fail
  <1>6. CASE UNCHANGED vars
    BY <1>6 DEF vars, IInv, OrderIsBuilt
  <1> QED BY <1>1, <1>2, <1>3, <1>4, <1>5, <1>6 DEF Next

\* Every pending order is, at every moment, one an instance builds: whichever
\* orders settle or fail in between, the list waits as PoolSwapMetas,
\* VaultSwapMetas or SolBuyMetas made it.
THEOREM PendingOrdersAreBuilt == Spec => []IInv
  BY InitIInv, StepIInv, PTL DEF Spec

\* No swap, whatever the pools, the signers and the rates, takes a balance out of
\* a u64, and the lists of get_swap_and_account_metas name no address that is not
\* the protocol's, the pool's or a trader's.
THEOREM SettlementTypesHold == Spec => []TypeOK
  BY PendingOrdersAreBuilt, IInvImplies, PTL

\* For every admitted pool, in either orientation, with either token program of
\* its quote, in either direction, and for every conversion of the vault, the
\* program accepts the list that src/src/accounts/ builds.
THEOREM BuiltListsAreAccepted == Spec => []BuiltSwapsAreAccepted
  BY PendingOrdersAreBuilt, IInvImplies, PTL

\* And the list gives no account a right its program does not ask for, has the
\* signer as its only signer, and fits get_accounts_len.
THEOREM BuiltListsAskForNoMore == Spec => []ListsAskForNoMore
  BY PendingOrdersAreBuilt, IInvImplies, PTL

-----------------------------------------------------------------------------
(* Settlement *)

\* The accounts a collected tax comes to.
Sinks(k, lane) ==
  IF lane \notin SolLanes THEN {k.sweep_ata}
  ELSE {k.staking_escrow, k.carnage_vault, k.treasury}

LEMMA MovePays ==
  ASSUME NEW l, IsLedger(l), NEW from, NEW to, NEW amount
  PROVE  /\ from # to /\ from \in Accounts => Move(l, from, to, amount)[from] = l[from] - amount
         /\ from # to /\ to \in Accounts => Move(l, from, to, amount)[to] = l[to] + amount
  BY DEF IsLedger, Move

LEMMA SplitAddsUp ==
  ASSUME NEW tax \in Int
  PROVE  LET d == SplitDistribution(tax) IN
         /\ d.staking \in Int /\ d.carnage \in Int /\ d.treasury \in Int
         /\ d.staking + d.carnage + d.treasury = tax
  <1>1. CASE tax < 4
    BY <1>1 DEF SplitDistribution
  <1>2. CASE ~(tax < 4)
    <2> DEFINE s == (tax * 7100) \div BPS_DENOM
               c == (tax * 2400) \div BPS_DENOM
    <2>1. s \in Int /\ c \in Int
      BY DEF BPS_DENOM
    <2>2. SplitDistribution(tax) = [staking |-> s, carnage |-> c, treasury |-> tax - s - c]
      BY <1>2 DEF SplitDistribution
    <2> HIDE DEF s, c
    <2> QED BY <2>1, <2>2
  <1> QED BY <1>1, <1>2

\* The tax leaves the account it is collected from for its destinations alone.
LEMMA CollectPays ==
  ASSUME NEW l, IsLedger(l), NEW k, NEW lane, NEW from, NEW tax
  PROVE  /\ \A a \in Accounts \ ({from} \cup Sinks(k, lane)) :
              Collect(l, k, lane, from, tax)[a] = l[a]
         /\ from \in Accounts /\ from \notin Sinks(k, lane) /\ tax \in Int /\ l[from] \in Int
              => Collect(l, k, lane, from, tax)[from] = l[from] - tax
  <1>1. CASE lane \notin SolLanes
    <2>1. Collect(l, k, lane, from, tax) = Move(l, from, k.sweep_ata, tax)
          /\ Sinks(k, lane) = {k.sweep_ata}
      BY <1>1 DEF Collect, Sinks
    <2> QED BY <2>1, MoveKeeps, MovePays
  <1>2. CASE lane \in SolLanes
    <2> DEFINE d == SplitDistribution(tax)
               l1 == Move(l, from, k.staking_escrow, d.staking)
               l2 == Move(l1, from, k.carnage_vault, d.carnage)
               l3 == Move(l2, from, k.treasury, d.treasury)
    <2>1. Collect(l, k, lane, from, tax) = l3
          /\ Sinks(k, lane) = {k.staking_escrow, k.carnage_vault, k.treasury}
      BY <1>2 DEF Collect, Sinks
    <2>2. IsLedger(l1) /\ \A a \in Accounts \ {from, k.staking_escrow} : l1[a] = l[a]
      BY MoveKeeps
    <2>3. from # k.staking_escrow /\ from \in Accounts => l1[from] = l[from] - d.staking
      BY MovePays
    <2> HIDE DEF l1
    <2>4. IsLedger(l2) /\ \A a \in Accounts \ {from, k.carnage_vault} : l2[a] = l1[a]
      BY <2>2, MoveKeeps
    <2>5. from # k.carnage_vault /\ from \in Accounts => l2[from] = l1[from] - d.carnage
      BY <2>2, MovePays
    <2> HIDE DEF l2
    <2>6. \A a \in Accounts \ {from, k.treasury} : l3[a] = l2[a]
      BY <2>4, MoveKeeps
    <2>7. from # k.treasury /\ from \in Accounts => l3[from] = l2[from] - d.treasury
      BY <2>4, MovePays
    <2> HIDE DEF l3
    <2>8. tax \in Int => /\ d.staking \in Int /\ d.carnage \in Int /\ d.treasury \in Int
                         /\ d.staking + d.carnage + d.treasury = tax
      BY SplitAddsUp
    <2> HIDE DEF d
    <2>9. ASSUME NEW a \in Accounts \ ({from} \cup Sinks(k, lane))
          PROVE  Collect(l, k, lane, from, tax)[a] = l[a]
      BY <2>1, <2>2, <2>4, <2>6
    <2>10. ASSUME from \in Accounts, from \notin Sinks(k, lane), tax \in Int, l[from] \in Int
           PROVE  Collect(l, k, lane, from, tax)[from] = l[from] - tax
      <3>1. /\ l1[from] = l[from] - d.staking /\ l2[from] = l1[from] - d.carnage
            /\ l3[from] = l2[from] - d.treasury
        BY <2>1, <2>3, <2>5, <2>7, <2>10
      <3>2. l3[from] = l[from] - tax
        BY <2>8, <2>10, <3>1
      <3> QED BY <2>1, <3>2
    <2> QED BY <2>9, <2>10
  <1> QED BY <1>1, <1>2

\* Addresses derived from different numbers of seeds differ.
LEMMA Apart ==
  ASSUME NEW h, NEW m, NEW g, NEW x, NEW id
  PROVE  /\ TokenAccount(h, m) # At(x) /\ TokenAccount(h, m) # Wallet(g)
         /\ TokenAccount(h, m) # CanonicalSweep(id)
         /\ Wallet(g) # At(x) /\ Wallet(g) # CanonicalSweep(id)
         /\ \A i, j, n : TokenAccount(i, j) = TokenAccount(h, n) => i = h /\ j = n
  BY DEF TokenAccount, At, Wallet, CanonicalSweep

\* What a settled order does to the accounts of the traders.
Settles(l, o, h, paid) ==
  /\ o.via = "engine" => /\ l[o.source] = ledger[o.source] - o.amount
                         /\ l[Wallet(h)] = ledger[Wallet(h)]
  /\ l[o.dest] = ledger[o.dest] + paid
  /\ \A a \in TraderAccounts \ {o.source, o.dest} : l[a] = ledger[a]

LEMMA BalancesAreInt ==
  ASSUME IInv, NEW a \in Accounts
  PROVE  ledger[a] \in Int
  BY U64MaxAssumption DEF IInv, U64

LEMMA TaxesAreInt ==
  ASSUME NEW x, NEW y
  PROVE  CalculateTax(x, y) \in Int
  <1>1. U64Max \in Nat
    BY U64MaxAssumption
  <1>2. \A z : CheckedU64(z) \in Int
    BY <1>1 DEF CheckedU64, None
  <1> QED BY <1>2 DEF CalculateTax, None

\* The sinks of a tax are no trader's.
LEMMA SinksApart ==
  ASSUME NEW o, NEW h, NEW id \in Pools, NEW lane, Serves(lane, id),
         NEW source, NEW dest, TaxedList(o, h, id, lane, source, dest)
  PROVE  /\ \A a \in TraderAccounts : a \notin Sinks(Keys(o), lane)
         /\ \A g : Wallet(g) \notin Sinks(Keys(o), lane)
  <1>1. Sinks(Keys(o), lane)
          \subseteq {CanonicalSweep(id), ESCROW_VAULT_PDA, CARNAGE_SOL_VAULT_PDA, TREASURY}
    BY TaxedKeys DEF Sinks, TaxKeysRead
  <1>2. \A i, m, g : /\ TokenAccount(i, m) \notin {CanonicalSweep(id), ESCROW_VAULT_PDA,
                                                   CARNAGE_SOL_VAULT_PDA, TREASURY}
                     /\ Wallet(g) \notin {CanonicalSweep(id), ESCROW_VAULT_PDA,
                                          CARNAGE_SOL_VAULT_PDA, TREASURY}
    BY Apart DEF ESCROW_VAULT_PDA, CARNAGE_SOL_VAULT_PDA, TREASURY
  <1> QED BY <1>1, <1>2 DEF TraderAccounts

LEMMA TaxedAfter ==
  ASSUME NEW o, NEW h, NEW id \in Pools, NEW lane, Serves(lane, id),
         NEW source, NEW dest, TaxedList(o, h, id, lane, source, dest)
  PROVE  LET k      == Keys(o)
             amount == o.ix.amountIn
             out    == SwapOutput(id, lane, amount)
             quotes == VaultOf(id, QuoteMint(id))
             tokens == VaultOf(id, FactionMint(id))
             tax    == CalculateTax(amount, BuyTaxBps)
             gross  == CalculateSwapOutput(ledger[tokens], ledger[quotes],
                         CalculateEffectiveInput(amount, LpFeeBps))
         IN  IF IsBuy(lane)
             THEN \E from \in {source, Wallet(h)} :
                    /\ lane # "SolBuy" => from = source
                    /\ AfterTaxedSwap(o)
                         = Move(Move(Collect(ledger, k, lane, from, tax),
                                     source, quotes, amount - tax), tokens, dest, out)
                    /\ lane = "SolBuy" => from = Wallet(h)
             ELSE AfterTaxedSwap(o)
                    = Collect(Move(Move(ledger, source, tokens, amount), quotes, dest, out),
                              k, lane, quotes, gross - out)
  <1> DEFINE k      == Keys(o)
             amount == o.ix.amountIn
             out    == SwapOutput(id, lane, amount)
             quotes == VaultOf(id, QuoteMint(id))
             tokens == VaultOf(id, FactionMint(id))
             tax    == CalculateTax(amount, BuyTaxBps)
             gross  == CalculateSwapOutput(ledger[tokens], ledger[quotes],
                         CalculateEffectiveInput(amount, LpFeeBps))
             from   == IF lane = "SolBuy" THEN Wallet(h) ELSE source
  <1>1. o.ix.lane = lane /\ PoolAt(k.pool) = id /\ k.user = Wallet(h)
        /\ Payer(k, id, lane) = source /\ Payee(k, id, lane) = dest
    <2>1. TaxKeysRead(k, Wallet(h), id, lane, source, dest)
      BY TaxedKeys
    <2> HIDE DEF k
    <2> QED BY <2>1 DEF TaxKeysRead, TaxedList
  <1>2. AfterTaxedSwap(o)
          = IF IsBuy(lane)
            THEN Move(Move(Collect(ledger, k, lane, from, tax), source, quotes, amount - tax),
                      tokens, dest, out)
            ELSE Collect(Move(Move(ledger, source, tokens, amount), quotes, dest, out),
                         k, lane, quotes, gross - out)
    <2> DEFINE pool == PoolAt(k.pool)
               l == o.ix.lane
    <2>1. AfterTaxedSwap(o)
            = IF IsBuy(l)
              THEN Move(Move(Collect(ledger, k, l,
                                     IF l = "SolBuy" THEN k.user ELSE Payer(k, pool, l), tax),
                             Payer(k, pool, l), VaultOf(pool, QuoteMint(pool)), amount - tax),
                        VaultOf(pool, FactionMint(pool)), Payee(k, pool, l),
                        SwapOutput(pool, l, amount))
              ELSE Collect(Move(Move(ledger, Payer(k, pool, l),
                                     VaultOf(pool, FactionMint(pool)), amount),
                                VaultOf(pool, QuoteMint(pool)), Payee(k, pool, l),
                                SwapOutput(pool, l, amount)),
                           k, l, VaultOf(pool, QuoteMint(pool)),
                           CalculateSwapOutput(ledger[VaultOf(pool, FactionMint(pool))],
                             ledger[VaultOf(pool, QuoteMint(pool))],
                             CalculateEffectiveInput(amount, LpFeeBps))
                           - SwapOutput(pool, l, amount))
      BY DEF AfterTaxedSwap
    <2>2. pool = id /\ l = lane
      BY <1>1
    <2> HIDE DEF pool, l, k, tax, amount
    <2> QED BY <1>1, <2>1, <2>2
  <1> HIDE DEF k, amount, out, quotes, tokens, tax, gross
  <1>3. from \in {source, Wallet(h)} /\ (lane # "SolBuy" => from = source)
        /\ (lane = "SolBuy" => from = Wallet(h))
    OBVIOUS
  <1> HIDE DEF from
  <1>4. CASE IsBuy(lane)
    BY <1>2, <1>3, <1>4 DEF k, amount, out, quotes, tokens, tax
  <1>5. CASE ~IsBuy(lane)
    BY <1>2, <1>5 DEF k, amount, out, quotes, tokens, gross
  <1> QED BY <1>4, <1>5

LEMMA TaxedSettles ==
  ASSUME IInv, NEW o, NEW h \in Holders, NEW payee \in Holders, NEW id \in Pools, NEW lane,
         Serves(lane, id), o.source = TokenAccount(h, InMint(id, lane)),
         o.dest = TokenAccount(payee, OutMint(id, lane)),
         TaxedList(o, h, id, lane, o.source, o.dest), o.amount \in U64,
         o.ix.amountIn = o.amount, lane = "SolBuy" => o.via # "engine"
  PROVE  Settles(AfterTaxedSwap(o), o, h, SwapOutput(id, lane, o.amount))
  <1> DEFINE source == o.source
             dest   == o.dest
             amount == o.amount
             k      == Keys(o)
             out    == SwapOutput(id, lane, amount)
             quotes == VaultOf(id, QuoteMint(id))
             tokens == VaultOf(id, FactionMint(id))
             tax    == CalculateTax(amount, BuyTaxBps)
             gross  == CalculateSwapOutput(ledger[tokens], ledger[quotes],
                         CalculateEffectiveInput(amount, LpFeeBps))
             sinks  == Sinks(k, lane)
  <1>1. /\ source \in TraderAccounts /\ dest \in TraderAccounts /\ source # dest
        /\ TraderAccounts \subseteq Accounts /\ Wallet(h) \in Accounts
    <2>1. InMint(id, lane) \in Traded /\ OutMint(id, lane) \in Traded
          /\ InMint(id, lane) # OutMint(id, lane)
      BY MintsAreTraded, Ends DEF InMint, OutMint
    <2> QED BY <2>1, TraderParts, Apart DEF Accounts
  <1>2. \A a \in TraderAccounts \cup {Wallet(h)} : a # quotes /\ a # tokens /\ a \notin sinks
    <2>1. \A i, m, g, x : TokenAccount(i, m) # At(x) /\ Wallet(g) # At(x)
      BY Apart
    <2>2. quotes \in {At(id.vaultA), At(id.vaultB)} /\ tokens \in {At(id.vaultA), At(id.vaultB)}
      BY DEF VaultOf
    <2>3. \A a \in TraderAccounts \cup {Wallet(h)} : a \notin {At(id.vaultA), At(id.vaultB)}
      BY <2>1 DEF TraderAccounts
    <2> HIDE DEF quotes, tokens
    <2> QED BY <2>2, <2>3, SinksApart
  <1>3. \A a \in TraderAccounts : a # Wallet(h)
    BY Apart DEF TraderAccounts
  <1>4. IsLedger(ledger) /\ amount \in Int /\ tax \in Int
        /\ \A a \in Accounts : ledger[a] \in Int
    BY BalancesAreInt, TaxesAreInt, U64MaxAssumption DEF IInv, IsLedger, U64
  <1> HIDE DEF source, dest, amount, k, out, quotes, tokens, tax, gross, sinks
  <1>5. CASE IsBuy(lane)
    <2>1. PICK from \in {source, Wallet(h)} :
            /\ lane # "SolBuy" => from = source
            /\ AfterTaxedSwap(o)
                 = Move(Move(Collect(ledger, k, lane, from, tax), source, quotes, amount - tax),
                        tokens, dest, out)
            /\ lane = "SolBuy" => from = Wallet(h)
      BY <1>5, TaxedAfter DEF source, dest, amount, k, out, quotes, tokens, tax
    <2> DEFINE l0 == Collect(ledger, k, lane, from, tax)
               l1 == Move(l0, source, quotes, amount - tax)
               l2 == Move(l1, tokens, dest, out)
    <2>2. IsLedger(l0) /\ (\A a \in Accounts \ ({from} \cup sinks) : l0[a] = ledger[a])
          /\ (from \notin sinks => l0[from] = ledger[from] - tax)
      <3>1. from \in Accounts /\ ledger[from] \in Int
        BY <1>1, <1>4
      <3> QED BY <1>4, <3>1, CollectKeeps, CollectPays DEF sinks
    <2> HIDE DEF l0
    <2>3. IsLedger(l1) /\ (\A a \in Accounts \ {source, quotes} : l1[a] = l0[a])
          /\ l1[source] = l0[source] - (amount - tax)
      BY <1>1, <1>2, <2>2, MoveKeeps, MovePays
    <2> HIDE DEF l1
    <2>4. (\A a \in Accounts \ {tokens, dest} : l2[a] = l1[a]) /\ l2[dest] = l1[dest] + out
      BY <1>1, <1>2, <2>3, MoveKeeps, MovePays
    <2>5. AfterTaxedSwap(o) = l2
      BY <2>1 DEF l1, l0
    <2> HIDE DEF l2
    <2>6. ASSUME lane # "SolBuy"
          PROVE  l2[source] = ledger[source] - amount /\ l2[Wallet(h)] = ledger[Wallet(h)]
      <3>1. from = source /\ l0[source] = ledger[source] - tax
        BY <1>1, <1>2, <2>1, <2>2, <2>6
      <3>2. l1[source] = ledger[source] - amount
        <4>1. ledger[source] \in Int
          BY <1>1, <1>4
        <4> QED BY <1>4, <2>3, <3>1, <4>1
      <3>3. l2[source] = l1[source]
        BY <1>1, <1>2, <2>4
      <3>4. l2[Wallet(h)] = ledger[Wallet(h)]
        BY <1>1, <1>2, <1>3, <2>2, <2>3, <2>4, <3>1
      <3> QED BY <3>2, <3>3, <3>4
    <2>7. l2[dest] = ledger[dest] + out
      BY <1>1, <1>2, <1>3, <2>2, <2>3, <2>4
    <2>8. \A a \in TraderAccounts \ {source, dest} : l2[a] = ledger[a]
      BY <1>1, <1>2, <1>3, <2>2, <2>3, <2>4
    <2> QED BY <2>5, <2>6, <2>7, <2>8 DEF Settles, source, dest, amount, out
  <1>6. CASE ~IsBuy(lane)
    <2>1. AfterTaxedSwap(o)
            = Collect(Move(Move(ledger, source, tokens, amount), quotes, dest, out),
                      k, lane, quotes, gross - out)
      BY <1>6, TaxedAfter DEF source, dest, amount, k, out, quotes, tokens, gross
    <2> DEFINE l0 == Move(ledger, source, tokens, amount)
               l1 == Move(l0, quotes, dest, out)
               l2 == Collect(l1, k, lane, quotes, gross - out)
    <2>2. IsLedger(l0) /\ (\A a \in Accounts \ {source, tokens} : l0[a] = ledger[a])
          /\ l0[source] = ledger[source] - amount
      BY <1>1, <1>2, <1>4, MoveKeeps, MovePays
    <2> HIDE DEF l0
    <2>3. IsLedger(l1) /\ (\A a \in Accounts \ {quotes, dest} : l1[a] = l0[a])
          /\ l1[dest] = l0[dest] + out
      BY <1>1, <1>2, <2>2, MoveKeeps, MovePays
    <2> HIDE DEF l1
    <2>4. \A a \in Accounts \ ({quotes} \cup sinks) : l2[a] = l1[a]
      BY <2>3, CollectPays DEF sinks
    <2>5. AfterTaxedSwap(o) = l2
      BY <2>1 DEF l1, l0
    <2> HIDE DEF l2
    <2>6. l2[source] = ledger[source] - amount /\ l2[Wallet(h)] = ledger[Wallet(h)]
      BY <1>1, <1>2, <1>3, <2>2, <2>3, <2>4
    <2>7. l2[dest] = ledger[dest] + out
      BY <1>1, <1>2, <2>2, <2>3, <2>4
    <2>8. \A a \in TraderAccounts \ {source, dest} : l2[a] = ledger[a]
      BY <1>1, <1>2, <2>2, <2>3, <2>4
    <2> QED BY <2>5, <2>6, <2>7, <2>8 DEF Settles, source, dest, amount, out
  <1> QED BY <1>5, <1>6

LEMMA ConversionSettles ==
  ASSUME IInv, NEW o, NEW h \in Holders, NEW payee \in Holders, NEW input \in Converted,
         NEW output \in Converted, input # output, o.source = TokenAccount(h, input),
         o.dest = TokenAccount(payee, output),
         ConversionList(o, h, input, output, o.source, o.dest),
         o.ix.amountIn = o.amount, o.quoted = ComputeVaultOutput(input, output, o.amount)
  PROVE  Settles(AfterConversion(o), o, h, o.quoted)
  <1> DEFINE source == o.source
             dest   == o.dest
             vin    == VaultTokenAccount(input)
             vout   == VaultTokenAccount(output)
             l1     == Move(ledger, source, vin, o.amount)
             l2     == Move(l1, vout, dest, o.quoted)
  <1>1. /\ source \in TraderAccounts /\ dest \in TraderAccounts /\ source # dest
        /\ TraderAccounts \subseteq Accounts /\ Wallet(h) \in Accounts
    <2>1. input \in Traded /\ output \in Traded
      BY MintsAreTraded DEF Converted
    <2> QED BY <2>1, TraderParts, Apart DEF Accounts
  <1>2. \A a \in TraderAccounts \cup {Wallet(h)} : a # vin /\ a # vout
    <2>1. \A i, m, g, x : TokenAccount(i, m) # At(x) /\ Wallet(g) # At(x)
      BY Apart
    <2>2. \A m : \E x : VaultTokenAccount(m) = At(x)
      BY DEF VaultTokenAccount
    <2> QED BY <2>1, <2>2 DEF TraderAccounts
  <1>3. \A a \in TraderAccounts : a # Wallet(h)
    BY Apart DEF TraderAccounts
  <1>4. AfterConversion(o) = l2
    <2> DEFINE k == Keys(o)
    <2>1. /\ k.user_input = source /\ k.user_output = dest
          /\ k.vault_input = vin /\ k.vault_output = vout
          /\ k.input_mint[1] = input /\ k.output_mint[1] = output
      BY ConversionRead DEF At
    <2> HIDE DEF k, source, dest, vin, vout
    <2> QED BY <2>1 DEF AfterConversion, k
  <1> HIDE DEF source, dest, vin, vout
  <1>5. IsLedger(ledger)
    BY DEF IInv, IsLedger
  <1>6. IsLedger(l1) /\ (\A a \in Accounts \ {source, vin} : l1[a] = ledger[a])
        /\ l1[source] = ledger[source] - o.amount
    BY <1>1, <1>2, <1>5, MoveKeeps, MovePays
  <1> HIDE DEF l1
  <1>7. (\A a \in Accounts \ {vout, dest} : l2[a] = l1[a]) /\ l2[dest] = l1[dest] + o.quoted
    BY <1>1, <1>2, <1>6, MoveKeeps, MovePays
  <1> HIDE DEF l2
  <1>8. l2[source] = ledger[source] - o.amount /\ l2[Wallet(h)] = ledger[Wallet(h)]
    BY <1>1, <1>2, <1>3, <1>6, <1>7
  <1>9. l2[dest] = ledger[dest] + o.quoted
    BY <1>1, <1>2, <1>6, <1>7
  <1>10. \A a \in TraderAccounts \ {source, dest} : l2[a] = ledger[a]
    BY <1>1, <1>2, <1>6, <1>7
  <1> QED BY <1>4, <1>8, <1>9, <1>10 DEF Settles, source, dest

LEMMA ExecutedSettles ==
  ASSUME IInv, NEW h \in Holders, Execute(h)
  PROVE  \E paid \in Int : /\ Settles(ledger', orders[h], h, paid)
                           /\ paid >= SaturatingSub(orders[h].quoted, Slippage)
  <1> DEFINE o == orders[h]
  <1>1. orders[h] # NoOrder /\ Succeeds(o) /\ ledger' = After(o)
    BY DEF Execute
  <1>2. TaxedOrder(o, h) \/ ConversionOrder(o, h)
    BY <1>1 DEF IInv, OrderIsBuilt
  <1>3. U64Max \in Nat /\ Slippage \in Nat /\ Amounts \subseteq U64
    BY U64MaxAssumption, SettlementAssumption DEF U64
  <1> HIDE DEF o
  <1>4. CASE TaxedOrder(o, h)
    <2>1. PICK payee \in Holders, id \in Pools, lane \in TaxLanes :
            /\ Serves(lane, id)
            /\ o.source = TokenAccount(h, InMint(id, lane))
            /\ o.dest = TokenAccount(payee, OutMint(id, lane))
            /\ TaxedList(o, h, id, lane, o.source, o.dest)
            /\ o.amount \in Amounts /\ o.ix.amountIn = o.amount
            /\ o.quoted \in Nat /\ o.ix.minimumOutput = SaturatingSub(o.quoted, Slippage)
            /\ o.via = (IF lane = "SolBuy" THEN "direct" ELSE "engine")
      BY <1>4 DEF TaxedOrder
    <2>2. o.ix.lane = lane /\ lane # "ConvertV2" /\ PoolAt(Keys(o).pool) = id
      <3>1. TaxKeysRead(Keys(o), Wallet(h), id, lane, o.source, o.dest)
        BY <2>1, TaxedKeys
      <3>2. o.ix.lane = lane /\ lane # "ConvertV2"
        BY <2>1 DEF TaxedList, TaxLanes, SolLanes
      <3> QED BY <3>1, <3>2 DEF TaxKeysRead
    <2>3. o.amount \in U64 /\ (lane = "SolBuy" => o.via # "engine")
      BY <1>3, <2>1
    <2> DEFINE paid == SwapOutput(id, lane, o.amount)
    <2>4. Settles(ledger', o, h, paid)
      <3>1. ledger' = AfterTaxedSwap(o)
        BY <1>1, <2>2 DEF After
      <3> QED BY <2>1, <2>3, <3>1, TaxedSettles
    <2>5. paid >= SaturatingSub(o.quoted, Slippage)
      BY <1>1, <2>1, <2>2 DEF Succeeds
    <2>6. paid \in Int
      <3>1. paid \in U64 \cup {None}
        BY QuotesAreU64
      <3> HIDE DEF paid
      <3> QED BY <1>3, <3>1 DEF U64, None
    <2> HIDE DEF paid
    <2> QED BY <2>4, <2>5, <2>6 DEF o
  <1>5. CASE ConversionOrder(o, h)
    <2>1. PICK payee \in Holders, input \in Converted, output \in Converted :
            /\ input # output
            /\ o.source = TokenAccount(h, input)
            /\ o.dest = TokenAccount(payee, output)
            /\ ConversionList(o, h, input, output, o.source, o.dest)
            /\ o.amount \in Amounts /\ o.ix.amountIn = o.amount
            /\ o.quoted \in Nat /\ ComputeVaultOutput(input, output, o.amount) = o.quoted
      BY <1>5 DEF ConversionOrder
    <2>2. ledger' = AfterConversion(o)
      BY <1>1, <2>1 DEF After, ConversionList
    <2>3. Settles(ledger', o, h, o.quoted)
      BY <2>1, <2>2, ConversionSettles
    <2>4. o.quoted >= SaturatingSub(o.quoted, Slippage)
      BY <1>3, <2>1 DEF SaturatingSub
    <2> QED BY <2>1, <2>3, <2>4 DEF o
  <1> QED BY <1>2, <1>4, <1>5

\* An order leaves its place by its own execution, or without moving anything.
LEMMA OrdersLeaveAlone ==
  ASSUME IInv, [Next]_vars, NEW h \in Holders, orders[h] # NoOrder, orders'[h] = NoOrder
  PROVE  Execute(h) \/ ledger' = ledger
  <1>1. ASSUME NEW g \in Holders, Execute(g)
        PROVE  g = h
    BY <1>1 DEF Execute, IInv
  <1>2. CASE ledger' # ledger
    <2>1. \A g, ix, metas, s, d, amount, quoted, via :
            ~Place(g, ix, metas, s, d, amount, quoted, via)
      BY <1>2 DEF Place
    <2>2. \A g, payee, id, isBuy, amount : ~BuildPoolSwap(g, payee, id, isBuy, amount)
      BY <2>1 DEF BuildPoolSwap
    <2>3. \A g, payee, in, out, amount : ~BuildConversion(g, payee, in, out, amount)
      BY <2>1 DEF BuildConversion
    <2>4. \A g, id, amount : ~BuildLegacyBuy(g, id, amount)
      BY <2>1 DEF BuildLegacyBuy
    <2>5. \A g : ~Fail(g)
      BY <1>2 DEF Fail
    <2>6. \E g \in Holders : Execute(g)
      BY <1>2, <2>2, <2>3, <2>4, <2>5 DEF Next, vars
    <2> QED BY <1>1, <2>6
  <1> QED BY <1>2

Settled ==
  \A h \in Holders :
    LET o == orders[h] IN
    o # NoOrder /\ orders'[h] = NoOrder /\ ledger' # ledger =>
      /\ o.via = "engine" => ledger'[o.source] = ledger[o.source] - o.amount
      /\ ledger'[o.dest] - ledger[o.dest] >= SaturatingSub(o.quoted, Slippage)
      /\ \A a \in TraderAccounts \ {o.source, o.dest} : ledger'[a] = ledger[a]

Spared ==
  \A h \in Holders :
    orders[h] # NoOrder /\ orders'[h] = NoOrder /\ orders[h].via = "engine" =>
      ledger'[Wallet(h)] = ledger[Wallet(h)]

LEMMA StepSettles == IInv /\ [Next]_vars => Settled /\ Spared
  <1> SUFFICES ASSUME IInv, [Next]_vars, NEW h \in Holders,
                      orders[h] # NoOrder, orders'[h] = NoOrder, ledger' # ledger
               PROVE  LET o == orders[h] IN
                      /\ o.via = "engine" => /\ ledger'[o.source] = ledger[o.source] - o.amount
                                             /\ ledger'[Wallet(h)] = ledger[Wallet(h)]
                      /\ ledger'[o.dest] - ledger[o.dest] >= SaturatingSub(o.quoted, Slippage)
                      /\ \A a \in TraderAccounts \ {o.source, o.dest} : ledger'[a] = ledger[a]
    BY DEF Settled, Spared
  <1> DEFINE o == orders[h]
  <1>1. Execute(h)
    BY OrdersLeaveAlone
  <1>2. PICK paid \in Int : Settles(ledger', o, h, paid)
                            /\ paid >= SaturatingSub(o.quoted, Slippage)
    BY <1>1, ExecutedSettles
  <1>3. ledger[o.dest] \in Int
    <2>1. o.dest \in TraderAccounts
      BY BuiltOrder DEF IInv
    <2> QED BY <2>1, BalancesAreInt DEF Accounts
  <1> HIDE DEF o
  <1>4. ledger'[o.dest] - ledger[o.dest] = paid
    BY <1>2, <1>3 DEF Settles
  <1> QED BY <1>2, <1>4 DEF Settles, o

\* An order the engine had built takes from the source it named exactly the amount
\* it asked for; every executed order pays its destination at least the quote less
\* the slippage and leaves every other trader's account as it was.  (A legacy buy
\* takes less from its source: the tax comes out of the signer's lamports.)
THEOREM OrdersSettleAsBuilt == Spec => SettlesAsOrdered
  <1>1. IInv /\ [Next]_vars => [Settled]_vars
    BY StepSettles
  <1>2. Spec => [][Settled]_vars
    BY <1>1, PendingOrdersAreBuilt, PTL DEF Spec
  <1> QED BY <1>2 DEF SettlesAsOrdered, Settled

\* A swap the engine routes leaves the signer's own lamports alone: the tax of a
\* WSOL buy or sell comes out of the WSOL of the trade, on SolBuyWsol and SolSell.
THEOREM RoutesSpareLamports == Spec => RoutedSwapsSpareLamports
  <1>1. IInv /\ [Next]_vars => [Spared]_vars
    BY StepSettles
  <1>2. Spec => [][Spared]_vars
    BY <1>1, PendingOrdersAreBuilt, PTL DEF Spec
  <1> QED BY <1>2 DEF RoutedSwapsSpareLamports, Spared

=============================================================================
