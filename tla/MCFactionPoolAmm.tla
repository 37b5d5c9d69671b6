-------------------------- MODULE MCFactionPoolAmm ---------------------------
(***************************************************************************)
(* Two instances of FactionPoolAmm for TLC.                                *)
(*   Spl*: a FRAUD pool quoted in a Token-2022 stablecoin, the faction     *)
(*         mint on side A (reversed orientation).                          *)
(*   Sol*: the CRIME/WSOL pool, no mint account to refresh.                *)
(***************************************************************************)
EXTENDS FactionPoolAmm, TLC

Symmetry == Permutations(Routes)

\* A byte order that puts the quote mint on side A of one pool and B of the other.
MCMintRank == [WSOL |-> 1, CRIME |-> 2, FRAUD |-> 3, PROFIT |-> 4, USD |-> 5]

MCAmounts == {0, 1, 77, 5000}

SplId == [mintA |-> "FRAUD", mintB |-> "USD", vaultA |-> "va", vaultB |-> "vb",
          tokenProgramA |-> "T22", tokenProgramB |-> "T22"]
SolId == [mintA |-> "WSOL", mintB |-> "CRIME", vaultA |-> "va", vaultB |-> "vb",
          tokenProgramA |-> "SPL", tokenProgramB |-> "T22"]

Pool(id, a, b, locked) ==
  [id |-> id, reserveA |-> a, reserveB |-> b, lpFeeBps |-> 100,
   initialized |-> TRUE, locked |-> locked]

Epoch(cb, cs, fb, fs, end, paused) ==
  [crimeBuy |-> cb, crimeSell |-> cs, fraudBuy |-> fb, fraudSell |-> fs,
   pauseEndSlot |-> end, tradingPaused |-> paused, initialized |-> TRUE]

SplPools == {Pool(SplId, 9000, 4000, FALSE), Pool(SplId, 8200, 4400, FALSE),
             Pool(SplId, 9000, 4000, TRUE)}
SolPools == {Pool(SolId, 4000, 9000, FALSE), Pool(SolId, 4400, 8200, FALSE),
             Pool(SolId, 4000, 9000, TRUE)}

\* Cheap CRIME, cheap FRAUD behind a slot pause, and a manual pause.
CheapCrime  == Epoch(300, 1300, 1200, 200, 0, FALSE)
CheapFraud  == Epoch(1400, 100, 400, 1100, 1, FALSE)
ManualPause == Epoch(300, 1300, 1200, 200, 0, TRUE)

SplEpochs == {CheapCrime, CheapFraud, ManualPause}
SolEpochs == {CheapCrime, CheapFraud, ManualPause,
              [CheapCrime EXCEPT !.initialized = FALSE]}

Zero == [bps |-> 0, max |-> 0]
PlainMint == [older |-> Zero, newer |-> Zero, hookArmed |-> FALSE,
              nonTransferable |-> FALSE, initializes |-> TRUE, paused |-> FALSE]
Mint(data) == [owner |-> "T22", data |-> data]

SplMints == {Mint(PlainMint), Mint([PlainMint EXCEPT !.newer = [bps |-> 10, max |-> 5]])}
SolMints == {[owner |-> "SPL", data |-> PlainMint]}

\* A closed account belongs to the system program; a foreign pool parses.
ForeignId == [mintA |-> "CRIME", mintB |-> "USD", vaultA |-> "vc", vaultB |-> "vd",
              tokenProgramA |-> "T22", tokenProgramB |-> "T22"]

MCPoolFaults(id) ==
  {Absent, [owner |-> "AMM", data |-> Malformed],
   [owner |-> "SYSTEM", data |-> Pool(id, 9000, 4000, FALSE)],
   [owner |-> "AMM", data |-> Pool(ForeignId, 500, 700, FALSE)]}
SplPoolFaults == MCPoolFaults(SplId)
SolPoolFaults == MCPoolFaults(SolId)

MCEpochFaults == {Absent, [owner |-> "SYSTEM", data |-> CheapCrime]}
MCMintFaults  == {[owner |-> "SPL", data |-> PlainMint]}

\* The liveness instance: one open and one locked pool, one pause of each kind.
LivePools  == {Pool(SplId, 9000, 4000, FALSE), Pool(SplId, 9000, 4000, TRUE)}
LiveEpochs == {CheapFraud, ManualPause}
LiveFaults == {Absent}
=============================================================================
