------------------------- MODULE MCKalamelaResults --------------------------
(* KalamelaResults on three small instances in one run, told apart by      *)
(* focus: two requests that update and rank a few cards of individual      *)
(* events, the admin's rankings of more cards of one event that come and   *)
(* go meanwhile, appeals on fewer.                                         *)
EXTENDS KalamelaResults, TLC

CONSTANTS
  m1, m2, t1, s1, s2, g1,   (* named in the sets below                     *)
  MaxStarted                (* bounds the requests that score in updates   *)

VARIABLES focus, started

SomeEntered == {<<s1, m1>>, <<s1, m2>>, <<s2, m1>>}
Contested   == {<<m1, s1>>, <<m1, g1>>, <<t1, g1>>}

Symmetry == Permutations(Requests)

CardsIn == [updates |-> 2, rankings |-> 4, appeals |-> 2]

OneCardEach ==
  \A i, j \in DOMAIN cards' :
    i # j => <<cards'[i].event, cards'[i].who>> # <<cards'[j].event, cards'[j].who>>

NoWindowCloses == \A i \in DOMAIN cards \intersect DOMAIN cards' : cards'[i].open = cards[i].open

Scoring == {r \in Requests : calls[r] # Rest}

(* Cards come while nobody scores, and go at any time.                     *)
UpdatesOnly ==
  /\ OneCardEach
  /\ \A i \in DOMAIN cards' : cards'[i].event \in Solo
  /\ Scoring # {} => DOMAIN cards' \subseteq DOMAIN cards

(* One admin ranks.                                                        *)
NoUpdate ==
  /\ Cardinality(Scoring') <= 1
  /\ \A r \in Requests : calls'[r].step # "marks"

FocusInit == ResultsInit /\ focus \in DOMAIN CardsIn /\ started = 0

FocusNext ==
  /\ UNCHANGED focus
  /\ ResultsNext
  /\ DOMAIN cards' \subseteq 1 .. CardsIn[focus]
  /\ started' = IF focus = "updates" /\ Cardinality(Scoring') > Cardinality(Scoring)
                THEN started + 1 ELSE started
  /\ started' <= MaxStarted
  /\ IF focus = "updates" THEN UpdatesOnly ELSE NoUpdate
  /\ focus = "rankings" =>
       \E v \in {s1, g1} : \A i \in DOMAIN cards' :
         cards'[i].event = v /\ cards'[i].who # m2
  /\ IF focus = "appeals" THEN \A r \in Requests : calls'[r].on \in {g1, Nil}
     ELSE UNCHANGED <<appeals, filing>> /\ NoWindowCloses

FocusSpec == FocusInit /\ [][FocusNext]_<<rvars, focus, started>>
=============================================================================
