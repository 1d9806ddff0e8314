-------------------------- MODULE RegistrationFees --------------------------
(***************************************************************************)
(* The arithmetic of a registration season: how many councilors a roster   *)
(* needs, what a roster costs, and how a submitted count and fee move when *)
(* members are added or removed afterwards                                 *)
(* (app/units/registration_cycle_service.py).                              *)
(*                                                                         *)
(* The fees are the two columns of site_settings.  They are constants: an  *)
(* admin may change them, but within one season every handler reads the    *)
(* same pair.                                                              *)
(***************************************************************************)
EXTENDS Integers

CONSTANTS
  UnitFee,     (* site_settings.unit_registration_fee, 100 by default      *)
  MemberFee,   (* site_settings.unit_member_fee, 10 by default             *)
  RosterBand,  (* members per councilor tier: 25 in the code               *)
  Nil          (* SQL NULL, or no row                                      *)

ASSUME FeesAssumption ==
  /\ UnitFee \in Nat
  /\ MemberFee \in Nat
  /\ RosterBand \in Nat \ {0}
  /\ Nil \notin Nat

(* Python's max(floor, x).                                                 *)
AtLeast(floor, x) == IF x > floor THEN x ELSE floor

(* required_councilor_count: one councilor per started band of members,    *)
(* never fewer than one and never more than five.                          *)
RequiredCouncilors(n) ==
  IF      n <= RosterBand     THEN 1
  ELSE IF n <= 2 * RosterBand THEN 2
  ELSE IF n <= 3 * RosterBand THEN 3
  ELSE IF n <= 4 * RosterBand THEN 4
  ELSE 5

(* What a unit with n members owes.                                        *)
RegistrationFee(n) == UnitFee + n * MemberFee

(* The snapshot of adjust_fee_for_member_delta after delta members.        *)
AdjustedCount(count, delta) == AtLeast(0, count + delta)
(* Mutant: the fee may fall below the unit fee.                            *)
AdjustedFeeToZero(fee, delta) == AtLeast(0, fee + delta * MemberFee)
AdjustedFee(fee, delta) == AtLeast(UnitFee, fee + delta * MemberFee)
=============================================================================
