-------------------------- MODULE MCDistrictQuotas --------------------------
(* KalamelaEntries, ConferenceDelegates and Accounts, the admissions of    *)
(* the program, on small instances in one run, told apart by focus: each   *)
(* stands still while another moves.                                       *)
EXTENDS KalamelaEntries, ConferenceDelegates, Accounts, TLC

VARIABLE focus

OneDistrict == [u \in Units |-> CHOOSE d \in Districts : TRUE]

Symmetry == Permutations(Members) \union Permutations(Events)
              \union Permutations(Units) \union Permutations(Requests)

ClergyOfName == [u \in UnitNames |-> CHOOSE d \in ClergyDistricts : TRUE]

qvars == <<evars, dvars, ovars, focus>>

(* The delegates without the food, and the food without the delegates.     *)
InFocus(t) == t.kind # (IF focus = "delegates" THEN "feeds" ELSE "names")

(* The rows of the entries, the delegates and the accounts keep their      *)
(* types: entries and delegates of present members, delegates of officials *)
(* there are, accounts of units and districts there are, and no phone      *)
(* number stored twice.                                                    *)
QuotasTypeOK == TypeOK /\ DelegatesTypeOK /\ AccountsTypeOK

QuotasInit ==
  /\ focus \in {"entries", "delegates", "food", "accounts"}
  /\ Init
  /\ DelegatesInit
  /\ AccountsInit
  /\ focus # "entries" => \A m, n \in Members : home[m] = home[n]
  /\ focus # "accounts" => enabled

QuotasNext ==
  \/ focus = "entries" /\ Next /\ UNCHANGED <<dvars, ovars, focus>>
  \/ focus = "accounts" /\ AccountsNext /\ UNCHANGED <<evars, dvars, focus>>
  \/ /\ focus \in {"delegates", "food"}
     /\ DelegatesNext
     /\ \A k \in Calls : InFocus(calls'[k])
     /\ focus = "food" => bills' = bills
     /\ UNCHANGED <<evars, ovars, focus>>

QuotasSpec == QuotasInit /\ [][QuotasNext]_qvars
=============================================================================
