--------------------------- MODULE QuoteMintPolicy ---------------------------
(***************************************************************************)
(* The amount-preserving policy on a pool's quote mint                     *)
(* (src/src/state/mint_state.rs), and the account cells it is read from.   *)
(*                                                                         *)
(* An account map entry is Absent, or a cell [owner, data] whose data is   *)
(* Malformed when the parser of that account type rejects its bytes.  A    *)
(* parsed mint is the record of what its extensions say; an extension the  *)
(* mint does not carry has its harmless value.                             *)
(***************************************************************************)
EXTENDS Integers, Addresses

CONSTANTS Absent, Malformed

FeeSchedule == [bps : Nat, max : Nat]

MintState == [older           : FeeSchedule,  \* TransferFeeConfig
              newer           : FeeSchedule,
              hookArmed       : BOOLEAN,      \* TransferHook program id set
              nonTransferable : BOOLEAN,
              initializes     : BOOLEAN,      \* default account state
              paused          : BOOLEAN]      \* Pausable

Cells(Data) == {Absent} \cup [owner : STRING, data : Data \cup {Malformed}]

Parses(cell) == cell # Absent /\ cell.data # Malformed

-----------------------------------------------------------------------------

ScheduleIsZero(s) == s.bps = 0 /\ s.max = 0

\* A plausible bug: only the older of the two fee schedules is looked at.
ValidateIgnoringNewer(cell, expectedProgram) ==
  /\ Parses(cell)
  /\ cell.owner = expectedProgram
  /\ ScheduleIsZero(cell.data.older)
  /\ ~cell.data.hookArmed /\ ~cell.data.paused

ValidateQuoteMint(cell, expectedProgram) ==
  /\ Parses(cell)
  /\ cell.owner = expectedProgram
  /\ \/ cell.owner = SPL_TOKEN_PROGRAM_ID
     \/ /\ cell.owner = TOKEN_2022_PROGRAM_ID
        /\ ScheduleIsZero(cell.data.older)
        /\ ScheduleIsZero(cell.data.newer)
        /\ ~cell.data.hookArmed
        /\ ~cell.data.nonTransferable
        /\ cell.data.initializes
        /\ ~cell.data.paused
=============================================================================
