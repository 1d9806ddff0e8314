-------------------------- MODULE MCKalamelaTeams ---------------------------
(* KalamelaCatalogue, and the teams in it, on four small instances in one  *)
(* run, told apart by focus: the teams of events that stand, the payments  *)
(* of the districts, the events with their fees and categories while       *)
(* members come and go, and the stages.                                    *)
EXTENDS KalamelaCatalogue, TLC

CONSTANTS
  FirstDistrict, SecondDistrict, FarUnit,  (* FarUnit alone is in the first *)
  MaxRows,                                 (* bounds the rows               *)
  MaxEdits                                 (* bounds the requests for the   *)
                                           (* events at the same time       *)

VARIABLE focus

TwoDistricts == [u \in Units |-> IF u = FarUnit THEN FirstDistrict ELSE SecondDistrict]

(* The times that schedules are given: one within another, and one that    *)
(* ends before it starts.                                                  *)
Spans == {<<0, 3>>, <<1, 2>>, <<2, 1>>}

(* The requests for schedules: a new one is on, and an update gives places *)
(* or the status, not both.                                                *)
Plans(e) ==
  /\ e.new.event \in Solo
  /\ <<e.new.from, e.new.to>> \in Spans
  /\ e \in Creation => e.new.live
  /\ e \in Update /\ e.new.live # e.old.live => SamePlace(e.new, e.old)

Symmetry ==
  Permutations(Members) \union Permutations(Slots) \union Permutations(Requests)
    \union Permutations(Admins) \union Permutations(Stages)

FocusInit ==
  /\ CatalogueInit
  /\ focus \in {"teams", "bills", "events", "stages"}
  /\ focus # "events" => Held(events) = Events
  /\ focus = "events" => Held(events) = {}
  /\ focus # "teams" => home = [m \in Members |-> FarUnit]

(* Each member of a request in flight.                                     *)
Entering ==
  {<<r, m>> \in Requests \X Members : calls[r] \in Entry /\ m \in calls[r].members}

Focused ==
  /\ focus = "teams"  => /\ UNCHANGED bills
                         /\ Cardinality({m \in Members : home'[m] = Nil}) <= 1
                         /\ barred' # {} => Cardinality(barred') = 1 /\ rows' = << >>
                         /\ \A r \in Requests : calls'[r] \in Entry \union {Nil}
                         /\ Len(rows') + Cardinality(Entering') <= MaxRows
  /\ focus = "bills"  => UNCHANGED <<home, rows, barred>>
  /\ focus = "events" =>
       /\ UNCHANGED <<home, barred, bills>>
       /\ Len(rows') + Cardinality(Entering') <= 1
       /\ \A i \in DOMAIN rows' : rows'[i].number = 1
       /\ \A r \in Requests : calls'[r] \in Entry \union {Nil}
       /\ Cardinality({a \in Admins : edits'[a] # Nil})
            + Cardinality({r \in Requests : calls'[r] # Nil}) <= MaxEdits
  /\ focus = "stages" =>
       \A a \in Admins : edits'[a] # Nil => Plans(edits'[a])

(* The steps of CatalogueNext that the focus has.                          *)
FocusNext ==
  /\ UNCHANGED focus
  /\ \/ focus # "stages" /\ TeamStep /\ UNCHANGED cvars
     \/ /\ \/ focus = "events" /\ (FeeStep \/ EventStep)
           \/ focus = "stages" /\ ScheduleStep
           \/ \E a \in Admins : GiveUp(a)
        /\ Watching
        /\ UNCHANGED tvars
  /\ Focused

FocusSpec == FocusInit /\ [][FocusNext]_<<tvars, cvars, focus>>
=============================================================================
