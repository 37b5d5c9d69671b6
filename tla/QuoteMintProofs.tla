--------------------------- MODULE QuoteMintProofs ---------------------------
(***************************************************************************)
(* Proofs about QuoteMintLife, for any routes, schedules, amounts and      *)
(* epochs.  NeverShort is not inductive: it says nothing of a schedule     *)
(* that is not in force yet.  NoFeeInReach does, and with the types it is. *)
(***************************************************************************)
EXTENDS QuoteMintLife, TLAPS

IInv == TypeOK /\ NoFeeInReach

\* A schedule given its first epoch is a schedule.
LEMMA FromIsSchedule ==
  ASSUME NEW e \in Nat, NEW fee \in Fees
  PROVE  From(e, fee) \in Schedule
  BY LifeAssumption DEF From, Schedule, FeeSchedule

\* A zero schedule withholds nothing.
LEMMA ZeroWithholdsNothing ==
  ASSUME NEW s, ScheduleIsZero(s), NEW amount
  PROVE  Withheld(s, amount) = 0
  BY DEF ScheduleIsZero, Withheld

\* What the policy lets through has no fee in either schedule.
LEMMA AcceptedHasNoFee ==
  ASSUME mint \in MintNow, ValidateQuoteMint(Cell, TOKEN_2022_PROGRAM_ID)
  PROVE  ScheduleIsZero(mint.older) /\ ScheduleIsZero(mint.newer)
  BY DEF ValidateQuoteMint, Cell, SPL_TOKEN_PROGRAM_ID, TOKEN_2022_PROGRAM_ID

\* No route is open at first.
LEMMA InitIInv == Init => IInv
  <1> SUFFICES ASSUME Init PROVE IInv
    OBVIOUS
  <1>1. mint \in MintNow
    <2>1. PICK fee \in Fees :
            mint = [older |-> From(0, fee), newer |-> From(0, fee), hookArmed |-> FALSE,
                    nonTransferable |-> FALSE, initializes |-> TRUE, paused |-> FALSE]
      BY DEF Init
    <2> QED BY <2>1, FromIsSchedule DEF MintNow
  <1>2. epoch = 0 /\ open = {} /\ acceptedAt = [r \in Routes |-> NotYet]
    BY DEF Init, InitiallyOpen
  <1> QED BY <1>1, <1>2 DEF IInv, TypeOK, NoFeeInReach

\* A refresh opens a route on a mint without fees, or closes it.
LEMMA RefreshIInv ==
  ASSUME IInv, NEW r \in Routes, Refresh(r)
  PROVE  IInv'
  <1>1. CASE ValidateQuoteMint(Cell, TOKEN_2022_PROGRAM_ID)
    <2>1. /\ open' = open \cup {r}
          /\ acceptedAt' = [acceptedAt EXCEPT ![r] = epoch]
          /\ UNCHANGED <<mint, epoch>>
      BY <1>1 DEF Refresh
    <2>2. epoch # NotYet
      BY LifeAssumption DEF IInv, TypeOK
    <2>3. TypeOK'
      BY <2>1, <2>2 DEF IInv, TypeOK
    <2>4. ScheduleIsZero(mint.older) /\ ScheduleIsZero(mint.newer)
      BY <1>1, AcceptedHasNoFee DEF IInv, TypeOK
    <2>6. NoFeeInReach'
      BY <2>1, <2>4 DEF NoFeeInReach
    <2> QED BY <2>3, <2>6 DEF IInv
  <1>2. CASE ~ValidateQuoteMint(Cell, TOKEN_2022_PROGRAM_ID)
    <2>1. open' = open \ {r} /\ UNCHANGED <<mint, epoch, acceptedAt>>
      BY <1>2 DEF Refresh
    <2> QED BY <2>1 DEF IInv, TypeOK, NoFeeInReach
  <1> QED BY <1>1, <1>2

\* A new fee starts beyond the reach of every route; the schedule it displaces
\* was in force, so it is no fee for a route in reach.
LEMMA SetTransferFeeIInv ==
  ASSUME IInv, NEW fee \in Fees, SetTransferFee(fee)
  PROVE  IInv'
  <1>1. /\ mint' = [mint EXCEPT
             !.older = IF mint.newer.epoch <= epoch THEN mint.newer ELSE @,
             !.newer = From(epoch + 2, fee)]
        /\ UNCHANGED <<epoch, open, acceptedAt>>
    BY DEF SetTransferFee
  <1>2. epoch \in Nat /\ mint \in MintNow
    BY DEF IInv, TypeOK
  <1>3. From(epoch + 2, fee) \in Schedule
    BY <1>2, FromIsSchedule
  <1>4. mint.older \in Schedule /\ mint.newer \in Schedule
    BY <1>2 DEF MintNow
  <1>5. mint' \in MintNow
    BY <1>1, <1>2, <1>3, <1>4 DEF MintNow
  <1>6. TypeOK'
    BY <1>1, <1>5 DEF IInv, TypeOK
  <1>7. ASSUME NEW r \in open', epoch' <= acceptedAt'[r] + 1
        PROVE  /\ ScheduleIsZero(mint'.older)
               /\ mint'.newer.epoch >= acceptedAt'[r] + 2
    <2>1. r \in open /\ epoch <= acceptedAt[r] + 1 /\ acceptedAt[r] \in Nat
          /\ acceptedAt[r] <= epoch
      BY <1>1, <1>7, LifeAssumption DEF IInv, TypeOK
    <2>2. /\ ScheduleIsZero(mint.older)
          /\ ScheduleIsZero(mint.newer) \/ mint.newer.epoch >= acceptedAt[r] + 2
      BY <2>1 DEF IInv, NoFeeInReach
    <2>3. mint'.newer.epoch = epoch + 2
      BY <1>1, <1>2 DEF MintNow, From
    <2>4. mint.newer.epoch \in Nat
      BY <1>4 DEF Schedule
    <2>5. mint'.newer.epoch >= acceptedAt'[r] + 2
      <3>1. acceptedAt' = acceptedAt
        BY DEF SetTransferFee
      <3> QED BY <3>1, <1>2, <2>1, <2>3
    <2>6. CASE mint.newer.epoch <= epoch
      <3>1. mint'.older = mint.newer
        BY <1>1, <1>2, <2>6 DEF MintNow
      <3>2. ScheduleIsZero(mint.newer)
        BY <1>2, <2>1, <2>2, <2>4, <2>6
      <3> QED BY <3>1, <3>2, <2>5
    <2>7. CASE ~(mint.newer.epoch <= epoch)
      <3>1. mint'.older = mint.older
        BY <1>1, <1>2, <2>7 DEF MintNow
      <3> QED BY <3>1, <2>2, <2>5
    <2> QED BY <2>6, <2>7
  <1>8. NoFeeInReach'
    BY <1>7 DEF NoFeeInReach
  <1> QED BY <1>6, <1>8 DEF IInv

\* The other steps of the environment and a failed refresh leave both schedules
\* alone and bring no route back into reach.
LEMMA OtherStepsIInv ==
  ASSUME IInv,
         \/ \E r \in Routes : RefreshFails(r)
         \/ \E flag \in BOOLEAN : SetHook(flag) \/ SetPaused(flag)
         \/ EpochRolls
         \/ UNCHANGED vars
  PROVE  IInv'
  <1>1. CASE \E r \in Routes : RefreshFails(r)
    BY <1>1 DEF RefreshFails, IInv, TypeOK, NoFeeInReach
  <1>2. CASE \E flag \in BOOLEAN : SetHook(flag) \/ SetPaused(flag)
    <2>1. /\ mint' \in MintNow
          /\ mint'.older = mint.older /\ mint'.newer = mint.newer
          /\ UNCHANGED <<epoch, open, acceptedAt>>
      BY <1>2 DEF SetHook, SetPaused, IInv, TypeOK, MintNow
    <2> QED BY <2>1 DEF IInv, TypeOK, NoFeeInReach
  <1>3. CASE EpochRolls
    <2>1. epoch' = epoch + 1 /\ UNCHANGED <<mint, open, acceptedAt>> /\ epoch \in Nat
      BY <1>3 DEF EpochRolls, IInv, TypeOK
    <2>2. \A r \in open : acceptedAt[r] \in Nat
      BY DEF IInv, TypeOK
    <2>3. TypeOK'
      BY <2>1, <2>2 DEF IInv, TypeOK
    <2>4. NoFeeInReach'
      BY <2>1, <2>2 DEF IInv, NoFeeInReach
    <2> QED BY <2>3, <2>4 DEF IInv
  <1>4. CASE UNCHANGED vars
    BY <1>4 DEF vars, IInv, TypeOK, NoFeeInReach
  <1> QED BY <1>1, <1>2, <1>3, <1>4

\* A schedule out of reach is not in force.
LEMMA NoFeeInReachSuffices == IInv => NeverShort
  <1> SUFFICES ASSUME IInv, NEW r \in open, epoch <= acceptedAt[r] + 1, NEW amount \in Amounts
               PROVE  Delivered(amount) = amount
    BY DEF NeverShort
  <1>1. /\ epoch \in Nat /\ acceptedAt[r] \in Nat /\ amount \in Nat
        /\ mint.newer.epoch \in Nat
    BY LifeAssumption DEF IInv, TypeOK, MintNow, Schedule
  <1>2. ScheduleIsZero(InForce)
    <2>1. ScheduleIsZero(mint.older)
          /\ (ScheduleIsZero(mint.newer) \/ mint.newer.epoch >= acceptedAt[r] + 2)
      BY DEF IInv, NoFeeInReach
    <2>2. CASE epoch >= mint.newer.epoch
      <3>1. ScheduleIsZero(mint.newer)
        BY <1>1, <2>1, <2>2
      <3> QED BY <3>1, <2>2 DEF InForce
    <2>3. CASE ~(epoch >= mint.newer.epoch)
      BY <2>1, <2>3 DEF InForce
    <2> QED BY <2>2, <2>3
  <1>3. Withheld(InForce, amount) = 0
    BY <1>2, ZeroWithholdsNothing
  <1> QED BY <1>1, <1>3 DEF Delivered

\* Both schedules stay clear of every open route's reach.
THEOREM FeesStayOutOfReach == Spec => [](TypeOK /\ NoFeeInReach)
  <1>1. Init => IInv
    BY InitIInv
  <1>2. IInv /\ [Next]_vars => IInv'
    BY RefreshIInv, SetTransferFeeIInv, OtherStepsIInv DEF Next
  <1>3. IInv => TypeOK /\ NoFeeInReach
    BY DEF IInv
  <1> QED BY <1>1, <1>2, <1>3, PTL DEF Spec

\* A route is never short in the epoch it was accepted in and the one after,
\* for any fees an authority may set and any history of the mint.
THEOREM AcceptedRoutesAreNeverShort == Spec => []NeverShort
  <1>1. TypeOK /\ NoFeeInReach => NeverShort
    BY NoFeeInReachSuffices DEF IInv
  <1> QED BY <1>1, FeesStayOutOfReach, PTL

\* The mint's schedules, the epoch and the routes' records keep their types.
THEOREM MintTypesHold == Spec => []TypeOK
  <1>1. TypeOK /\ NoFeeInReach => TypeOK
    OBVIOUS
  <1> QED BY <1>1, FeesStayOutOfReach, PTL
=============================================================================
