------------------------ MODULE MCRegistrationRaces -------------------------
(* RegistrationRaces on three small instances in one run, told apart by    *)
(* focus: the wizard up to the completion with one proof, uploads while    *)
(* the fee moves, and reviews of one proof of each of two.                 *)
EXTENDS RegistrationRaces, TLC

VARIABLE focus

Symmetry == Permutations(Members) \union Permutations(Requests)

(* The members of the unit and the proofs of a cycle.                      *)
People(n) == Cardinality({m \in Members : owner[m] # Nil \/ archived[m] # Nil}) <= n

Few == IF focus = "wizard" THEN People(1) ELSE TRUE

FocusInit ==
  /\ RacesInit
  /\ focus \in {"wizard", "uploads", "reviews"}
  /\ season.enabled
  /\ incomplete = {}
  /\ \A u \in Units : details[u] = Nil
  /\ \A u \in Units, y \in Years :
       /\ cycle[u][y] # Nil
       /\ cycle[u][y].status = IF focus = "wizard" THEN OfficialsCompleted ELSE Declared
  /\ Few

Approves(w) == \E i \in DOMAIN w.proofs : "paid" \in DOMAIN w.proofs[i]

Uploads == {"then upload", "to upload", "upload"}
Pages   == {"then page", "to page", "page"}

InFocus(w) ==
  CASE focus = "wizard"  -> w.kind \in {"steps", "declares", "wizard", "reviews", "completes"} \union Uploads
    [] focus = "uploads" -> w.kind \in {"admin"} \union Uploads \/ (w.kind = "reviews" /\ ~Approves(w))
    [] focus = "reviews" -> w.kind \in {"admin", "reviews", "upload"} \union Pages

ProofsIn == [wizard |-> 1, uploads |-> 3, reviews |-> 1]

FocusNext ==
  /\ UNCHANGED focus
  /\ RacesNext
  /\ Few'
  /\ \A r \in Requests : calls'[r] # Rest => InFocus(calls'[r])
  /\ \A u \in Units, y \in Years : Len(payments'[u][y]) <= ProofsIn[focus]
  /\ focus # "wizard" => UNCHANGED council

FocusSpec == FocusInit /\ [][FocusNext]_<<xvars, focus>>
=============================================================================
