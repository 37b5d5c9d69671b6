---------------------------- MODULE RouteMirror ------------------------------
(***************************************************************************)
(* What a held route promises, apart from how an update() is written.      *)
(*                                                                         *)
(* There is a market, which at any time offers some terms or is closed.    *)
(* Nobody who holds a route sees the market: a route is handed snapshots   *)
(* of it, which may be late, torn or unusable.  The promise is that a      *)
(* route offers exactly the terms of the last snapshot it was handed, all  *)
(* of them, or is closed when that snapshot was unusable: never a mixture  *)
(* of two snapshots, never the terms of an earlier one.                    *)
(***************************************************************************)
EXTENDS Naturals

CONSTANTS Routes, Terms, Closed, Unborn, MaxLapses

VARIABLES
  market,    \* what the market offers
  handed,    \* the snapshot each route was last handed
  offer,     \* what each route offers
  lapses     \* snapshots that need not be the market's

vars == <<market, handed, offer, lapses>>

Offers == Terms \cup {Closed}

Init ==
  /\ market \in Offers
  /\ handed = [r \in Routes |-> Closed]
  /\ offer = [r \in Routes |-> Unborn]
  /\ lapses = 0

MarketMoves ==
  /\ market' \in Offers
  /\ UNCHANGED <<handed, offer, lapses>>

\* A route is born closed.
Register(r) ==
  /\ offer[r] = Unborn
  /\ offer' = [offer EXCEPT ![r] = Closed]
  /\ UNCHANGED <<market, handed, lapses>>

Clone(r, s) ==
  /\ offer[r] # Unborn /\ offer[s] = Unborn
  /\ offer' = [offer EXCEPT ![s] = offer[r]]
  /\ handed' = [handed EXCEPT ![s] = handed[r]]
  /\ UNCHANGED <<market, lapses>>

Hand(r, snapshot) ==
  /\ offer[r] # Unborn
  /\ handed' = [handed EXCEPT ![r] = snapshot]
  /\ offer' = [offer EXCEPT ![r] = snapshot]
  /\ UNCHANGED market

Refresh(r) == Hand(r, market) /\ UNCHANGED lapses

Lapse(r) ==
  /\ lapses < MaxLapses
  /\ \E snapshot \in Offers : Hand(r, snapshot)
  /\ lapses' = lapses + 1

Next ==
  \/ MarketMoves
  \/ \E r \in Routes : Register(r) \/ Refresh(r) \/ Lapse(r)
  \/ \E r, s \in Routes : Clone(r, s)

Spec == Init /\ [][Next]_vars

-----------------------------------------------------------------------------

\* Once the market settles, every route there is ends up offering just what it
\* offers: nothing a late, torn or unusable snapshot left behind survives.
OffersSettle ==
  <>[][market' = market]_market =>
    \A r \in Routes : <>[](offer[r] \in {Unborn, market})
=============================================================================
