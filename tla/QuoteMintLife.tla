---------------------------- MODULE QuoteMintLife ----------------------------
(***************************************************************************)
(* A Token-2022 quote mint after routes have accepted it.  update()        *)
(* (src/src/sol_pool_amm.rs) looks at the mint once per refresh; between   *)
(* two refreshes its authorities change the fee, the hook and the pause.   *)
(*                                                                         *)
(* The mint is the environment.  Its authority replaces the newer of two   *)
(* fee schedules, effective two epochs later (older_transfer_fee is the    *)
(* one in force until then); a transfer withholds what the schedule in     *)
(* force says, and fails on a paused mint or a hook that was not passed.   *)
(***************************************************************************)
EXTENDS QuoteMintPolicy

CONSTANTS
  Routes,
  Fees,        \* the schedules an authority may set
  Amounts,     \* the amounts of transfers
  MaxEpoch,    \* bound on the epoch
  NotYet       \* a route that has not accepted the mint

VARIABLES
  mint,        \* the mint's extensions; a schedule also has its first epoch
  epoch,
  open,        \* routes whose last refresh let the mint through
  acceptedAt   \* history: the epoch of that refresh

vars == <<mint, epoch, open, acceptedAt>>

Schedule == [bps : Nat, max : Nat, epoch : Nat]

From(e, fee) == [bps |-> fee.bps, max |-> fee.max, epoch |-> e]

MintNow == [older : Schedule, newer : Schedule, hookArmed : BOOLEAN,
            nonTransferable : {FALSE}, initializes : {TRUE}, paused : BOOLEAN]

Cell == [owner |-> TOKEN_2022_PROGRAM_ID, data |-> mint]

ASSUME LifeAssumption ==
  /\ Fees \subseteq FeeSchedule /\ Amounts \subseteq Nat
  /\ MaxEpoch \in Nat /\ NotYet \notin Nat
  /\ Malformed \notin MintNow
  /\ Absent \notin [owner : {TOKEN_2022_PROGRAM_ID}, data : MintNow]

-----------------------------------------------------------------------------
(* Transfers of the quote mint *)

InForce == IF epoch >= mint.newer.epoch THEN mint.newer ELSE mint.older

Withheld(schedule, amount) ==
  LET fee == (amount * schedule.bps + 9999) \div 10000
  IN  IF schedule.bps = 0 THEN 0 ELSE IF fee < schedule.max THEN fee ELSE schedule.max

\* The Tax SPL lane forwards no hook accounts for its quote side.
TransferFails == mint.paused \/ mint.hookArmed

Delivered(amount) == amount - Withheld(InForce, amount)

-----------------------------------------------------------------------------
(* Actions *)

\* A plausible bug: a route is open before its first refresh.
OpenFromBirth == Routes

\* from_keyed_account: no route is refreshed yet.
InitiallyOpen == {}

Init ==
  /\ epoch = 0
  /\ \E fee \in Fees :
       mint = [older |-> From(0, fee), newer |-> From(0, fee), hookArmed |-> FALSE,
               nonTransferable |-> FALSE, initializes |-> TRUE, paused |-> FALSE]
  /\ open = InitiallyOpen
  /\ acceptedAt = [r \in Routes |-> NotYet]

\* The mint's part of update(): the route opens on what its policy lets through.
Refresh(r) ==
  /\ IF ValidateQuoteMint(Cell, TOKEN_2022_PROGRAM_ID)
     THEN /\ open' = open \cup {r}
          /\ acceptedAt' = [acceptedAt EXCEPT ![r] = epoch]
     ELSE open' = open \ {r} /\ UNCHANGED acceptedAt
  /\ UNCHANGED <<mint, epoch>>

\* A refresh that fails on another account closes the route.
RefreshFails(r) ==
  /\ open' = open \ {r}
  /\ UNCHANGED <<mint, epoch, acceptedAt>>

SetTransferFee(fee) ==
  /\ mint' = [mint EXCEPT
       !.older = IF mint.newer.epoch <= epoch THEN mint.newer ELSE @,
       !.newer = From(epoch + 2, fee)]
  /\ UNCHANGED <<epoch, open, acceptedAt>>

SetHook(armed) ==
  /\ mint' = [mint EXCEPT !.hookArmed = armed]
  /\ UNCHANGED <<epoch, open, acceptedAt>>

SetPaused(paused) ==
  /\ mint' = [mint EXCEPT !.paused = paused]
  /\ UNCHANGED <<epoch, open, acceptedAt>>

EpochRolls ==
  /\ epoch < MaxEpoch
  /\ epoch' = epoch + 1
  /\ UNCHANGED <<mint, open, acceptedAt>>

Next ==
  \/ \E r \in Routes : Refresh(r) \/ RefreshFails(r)
  \/ \E fee \in Fees : SetTransferFee(fee)
  \/ \E flag \in BOOLEAN : SetHook(flag) \/ SetPaused(flag)
  \/ EpochRolls

Spec == Init /\ [][Next]_vars

-----------------------------------------------------------------------------
(* Properties *)

\* No route is open on a mint it has not looked at.
TypeOK ==
  /\ mint \in MintNow
  /\ epoch \in Nat
  /\ open \subseteq Routes
  /\ acceptedAt \in [Routes -> Nat \cup {NotYet}]
  /\ \A r \in open : acceptedAt[r] # NotYet /\ acceptedAt[r] <= epoch

\* In the epoch a route's refresh accepted the mint in, and in the next one,
\* whatever the mint's authorities have done since, a transfer delivers its
\* nominal amount or fails: the reserve and tax arithmetic of the route, which
\* knows nothing of fees, is never short.
NeverShort ==
  \A r \in open : epoch <= acceptedAt[r] + 1 =>
    TransferFails \/ \A amount \in Amounts : Delivered(amount) = amount

\* Why: what was accepted had no fee in either schedule, so the one in force is
\* still zero, and any other starts two epochs after the refresh at the earliest.
NoFeeInReach ==
  \A r \in open : epoch <= acceptedAt[r] + 1 =>
    /\ ScheduleIsZero(mint.older)
    /\ ScheduleIsZero(mint.newer) \/ mint.newer.epoch >= acceptedAt[r] + 2
=============================================================================
