-------------------------- MODULE KalamelaCatalogue --------------------------
(***************************************************************************)
(* What the admins keep for the arts festival (app/kalamela/routers/       *)
(* admin.py): payment QR codes, event categories, registration fees, the   *)
(* events themselves and the schedules of the stages, together with the    *)
(* teams of KalamelaTeams, whose rows need their event.                    *)
(*                                                                         *)
(* A deletion of a fee or a category, and a schedule, are checked in       *)
(* statements before the one that writes, and nothing is locked: what the  *)
(* other admins do in between is part of the model.  A foreign key is      *)
(* looked at when a row is written.                                        *)
(*                                                                         *)
(* Ids are never given twice: a row deleted and created again here is a    *)
(* new one, which nothing that is kept or in hand may name.                *)
(***************************************************************************)
EXTENDS KalamelaTeams

CONSTANTS
  Codes, Categories, Fees, Slots,  (* ids of rows                           *)
  Titles,                          (* names of categories and of fees       *)
  Solo,                            (* individual events                     *)
  Stages,
  MaxTime,                         (* times of a schedule are 0 .. MaxTime  *)
  Admins                           (* admins' requests at the same time     *)

Events == Solo \union GroupEvents
Times  == 0 .. MaxTime

Fee      == [name : Titles, code : Codes \union {Nil}]
Event    == [category : Categories \union {Nil}, fee : Fees \union {Nil}]
Schedule == [event : Events, stage : Stages, from : Times, to : Times, live : BOOLEAN]

(* The requests in hand.  A deletion has found no solo event that names    *)
(* the row, then no group event, then loaded those that do by now; a       *)
(* schedule is new, or an old one's next version.                          *)
FeeDeletion      == [what : {"fee"}, row : Fees, step : {"solo", "asked", "loaded"},
                     loaded : SUBSET Events]
CategoryDeletion == [what : {"category"}, row : Categories, step : {"asked", "loaded"},
                     loaded : SUBSET Solo]
Creation         == [what : {"create"}, new : Schedule]
Update           == [what : {"update"}, row : Slots, old : Schedule, new : Schedule]
Deletion         == FeeDeletion \union CategoryDeletion

ASSUME CatalogueAssumption ==
  /\ Nil \notin Codes \union Categories \union Fees \union Events \union Titles
  /\ Nil \notin Slots
  /\ Nil \notin Fee \union Event \union Schedule
  /\ Nil \notin Deletion \union Creation \union Update
  /\ Solo \intersect GroupEvents = {}
  /\ MaxTime \in Nat

VARIABLES
  codes,          (* payment_qr_code: all active, none ever deleted        *)
  categories,     (* the name of each category; Nil when there is no row   *)
  fees,           (* the name and the QR code of each fee, or Nil          *)
  events,         (* the category and the fee of each event, or Nil        *)
  entered,        (* the individual events somebody takes part in          *)
  schedules,      (* event_schedule; live when the status is not CANCELLED *)
  edits,          (* what each admin's request has read, or Nil            *)
  changed         (* the events and schedules that others have changed     *)
                  (* since a request looked: only looked at                *)

cvars == <<codes, categories, fees, events, entered, schedules, edits, changed>>

Bare     == [category |-> Nil, fee |-> Nil]

Held(table) == {k \in DOMAIN table : table[k] # Nil}

CatalogueTypeOK ==
  /\ TeamsTypeOK
  /\ codes \subseteq Codes
  /\ categories \in [Categories -> Titles \union {Nil}]
  /\ fees \in [Fees -> Fee \union {Nil}]
  /\ \A f \in Held(fees) : fees[f].code \in codes \union {Nil}
  /\ events \in [Events -> Event \union {Nil}]
  /\ \A v \in Held(events) :
       /\ events[v].category \in Held(categories) \union {Nil}
       /\ events[v].fee \in Held(fees) \union {Nil}
  /\ entered \subseteq Solo
  /\ entered \union {rows[i].event : i \in DOMAIN rows} \subseteq Held(events)
  /\ schedules \in [Slots -> Schedule \union {Nil}]
  /\ edits \in [Admins -> Deletion \union Creation \union Update \union {Nil}]
  /\ changed \in [Admins -> SUBSET (Events \union Slots)]

CatalogueInit ==
  /\ TeamsInit
  /\ codes = {}
  /\ categories = [c \in Categories |-> Nil]
  /\ fees = [f \in Fees |-> Nil]
  /\ events \in [Events -> {Nil, Bare}]
  /\ entered = {}
  /\ schedules = [s \in Slots |-> Nil]
  /\ edits = [a \in Admins |-> Nil]
  /\ changed = [a \in Admins |-> {}]

-----------------------------------------------------------------------------

(* The fees, categories and schedules that a request in hand names, and    *)
(* the events.                                                             *)
InHand(row) ==
  \E a \in Admins : edits[a] \in Deletion \union Update /\ edits[a].row = row

Named(v) ==
  \/ \E s \in Held(schedules) : schedules[s].event = v
  \/ \E r \in Requests : calls[r] \in Entry /\ calls[r].event = v
  \/ \E a \in Admins : edits[a] \in Deletion /\ v \in edits[a].loaded
  \/ \E a \in Admins : edits[a] \in Creation \union Update /\ edits[a].new.event = v

Takes(a, e) ==
  /\ edits' = [edits EXCEPT ![a] = e]
  /\ UNCHANGED <<codes, categories, fees, events, entered, schedules>>

(* A check fails, or the client goes away.                                 *)
GiveUp(a) ==
  /\ edits[a] # Nil
  /\ Takes(a, Nil)

-----------------------------------------------------------------------------
(* QR codes, categories and fees.                                          *)

UploadCode(q) ==
  /\ q \notin codes
  /\ codes' = codes \union {q}
  /\ UNCHANGED <<categories, fees, events, entered, schedules, edits>>

CreateCategory(c, name) ==
  /\ categories[c] = Nil
  /\ ~InHand(c)
  /\ \A x \in Categories : categories[x] # name
  /\ categories' = [categories EXCEPT ![c] = name]
  /\ UNCHANGED <<codes, fees, events, entered, schedules, edits>>

UpdateCategory(c, name) ==
  /\ categories[c] # Nil
  /\ \A x \in Categories \ {c} : categories[x] # name
  /\ categories' = [categories EXCEPT ![c] = name]
  /\ UNCHANGED <<codes, fees, events, entered, schedules, edits>>

(* delete_category finds the row and no individual event of it; group      *)
(* events are not asked.                                                   *)
AskCategory(a, c) ==
  /\ edits[a] = Nil
  /\ categories[c] # Nil
  /\ \A v \in Held(events) \intersect Solo : events[v].category # c
  /\ Takes(a, [what |-> "category", row |-> c, step |-> "asked", loaded |-> {}])

(* The session loads the individual events of a category it deletes ...    *)
LoadMembers(a) ==
  /\ edits[a] \in CategoryDeletion
  /\ edits[a].step = "asked"
  /\ Takes(a, [edits[a] EXCEPT !.step = "loaded",
                !.loaded = {v \in Held(events) \intersect Solo :
                              events[v].category = edits[a].row}])

(* What the deletion takes from the events it has loaded.                  *)
Without(loaded, column) ==
  [v \in Events |-> IF v \in loaded THEN [events[v] EXCEPT ![column] = Nil] ELSE events[v]]

(* ... and takes it from them, whatever theirs is by now: they must still  *)
(* be there.  Every other event is held by the foreign key.                *)
DeleteCategory(a) ==
  /\ edits[a] \in CategoryDeletion
  /\ edits[a].step = "loaded"
  /\ edits[a].loaded \subseteq Held(events)
  /\ \A v \in Held(events) \ edits[a].loaded : events[v].category # edits[a].row
  /\ categories' = [categories EXCEPT ![edits[a].row] = Nil]
  /\ events' = Without(edits[a].loaded, "category")
  /\ edits' = [edits EXCEPT ![a] = Nil]
  /\ UNCHANGED <<codes, fees, entered, schedules>>

NameFree(f, name) == \A x \in Held(fees) \ {f} : fees[x].name # name

CreateFee(f, name, q) ==
  /\ fees[f] = Nil
  /\ ~InHand(f)
  /\ NameFree(f, name)
  /\ q \in codes \union {Nil}
  /\ fees' = [fees EXCEPT ![f] = [name |-> name, code |-> q]]
  /\ UNCHANGED <<codes, categories, events, entered, schedules, edits>>

(* A code that is not given stays.                                         *)
UpdateFee(f, name, q) ==
  /\ fees[f] # Nil
  /\ NameFree(f, name)
  /\ q \in codes \union {Nil}
  /\ fees' = [fees EXCEPT ![f] =
                [name |-> name, code |-> IF q = Nil THEN @.code ELSE q]]
  /\ UNCHANGED <<codes, categories, events, entered, schedules, edits>>

(* Here no code takes the fee's away.                                      *)
SetFeeCode(f, q) ==
  /\ fees[f] # Nil
  /\ q \in codes \union {Nil}
  /\ fees' = [fees EXCEPT ![f].code = q]
  /\ UNCHANGED <<codes, categories, events, entered, schedules, edits>>

(* delete_registration_fee finds the row and no individual event of it ... *)
AskFee(a, f) ==
  /\ edits[a] = Nil
  /\ fees[f] # Nil
  /\ \A v \in Held(events) \intersect Solo : events[v].fee # f
  /\ Takes(a, [what |-> "fee", row |-> f, step |-> "solo", loaded |-> {}])

(* Mutant: group events are not asked.                                     *)
AskNoGroups(a) ==
  /\ edits[a] \in FeeDeletion
  /\ edits[a].step = "solo"
  /\ Takes(a, [edits[a] EXCEPT !.step = "asked"])

(* ... then no group event ...                                             *)
AskGroups(a) ==
  /\ edits[a] \in FeeDeletion
  /\ edits[a].step = "solo"
  /\ \A v \in Held(events) \intersect GroupEvents : events[v].fee # edits[a].row
  /\ Takes(a, [edits[a] EXCEPT !.step = "asked"])

(* ... and goes on as a category's, with the events of both kinds.         *)
LoadUsers(a) ==
  /\ edits[a] \in FeeDeletion
  /\ edits[a].step = "asked"
  /\ Takes(a, [edits[a] EXCEPT !.step = "loaded",
                !.loaded = {v \in Held(events) : events[v].fee = edits[a].row}])

DeleteFee(a) ==
  /\ edits[a] \in FeeDeletion
  /\ edits[a].step = "loaded"
  /\ edits[a].loaded \subseteq Held(events)
  /\ \A v \in Held(events) \ edits[a].loaded : events[v].fee # edits[a].row
  /\ fees' = [fees EXCEPT ![edits[a].row] = Nil]
  /\ events' = Without(edits[a].loaded, "fee")
  /\ edits' = [edits EXCEPT ![a] = Nil]
  /\ UNCHANGED <<codes, categories, entered, schedules>>

-----------------------------------------------------------------------------
(* The events.                                                             *)

NewEvent(v, c, f) ==
  /\ events[v] = Nil
  /\ ~Named(v)
  /\ c \in Held(categories) \union {Nil}
  /\ f \in Held(fees) \union {Nil}
  /\ events' = [events EXCEPT ![v] = [category |-> c, fee |-> f]]
  /\ UNCHANGED <<codes, categories, fees, entered, schedules, edits>>

CreateSoloEvent(v, c, f) == NewEvent(v, c, f)

(* A group event is created without a category.                            *)
CreateGroupEvent(g, f) == NewEvent(g, Nil, f)

(* What is not given stays: an update takes neither away.                  *)
Revised(x, c, f) ==
  [category |-> IF c = Nil THEN x.category ELSE c,
   fee      |-> IF f = Nil THEN x.fee ELSE f]

UpdateEvent(v, c, f) ==
  /\ events[v] # Nil
  /\ c \in Held(categories) \union {Nil}
  /\ f \in Held(fees) \union {Nil}
  /\ events' = [events EXCEPT ![v] = Revised(@, c, f)]
  /\ UNCHANGED <<codes, categories, fees, entered, schedules, edits>>

(* The schedules that name the event stay.                                 *)
DeleteSoloEvent(v) ==
  /\ v \in Held(events) \ entered
  /\ events' = [events EXCEPT ![v] = Nil]
  /\ UNCHANGED <<codes, categories, fees, entered, schedules, edits>>

DeleteGroupEvent(g) ==
  /\ events[g] # Nil
  /\ RowsOf(g) = {}
  /\ events' = [events EXCEPT ![g] = Nil]
  /\ UNCHANGED <<codes, categories, fees, entered, schedules, edits>>

(* The first one enters an individual event, or the last one leaves it.    *)
TakePart(v) ==
  /\ events[v] # Nil
  /\ entered' \in {entered \union {v}, entered \ {v}}
  /\ UNCHANGED <<codes, categories, fees, events, schedules, edits>>

-----------------------------------------------------------------------------
(* The schedules of the stages.                                            *)

(* Mutant: a schedule within the new one is not seen.                      *)
ConflictAtTheEnds(s, stage, from, to) ==
  \E x \in Held(schedules) \ {s} :
    /\ schedules[x].stage = stage
    /\ schedules[x].live
    /\ \/ schedules[x].from <= from /\ from < schedules[x].to
       \/ schedules[x].from < to /\ to <= schedules[x].to

(* check_schedule_conflict: another schedule of the stage that is not      *)
(* cancelled holds the start, or the end, or lies within.                  *)
Conflict(s, stage, from, to) ==
  \E x \in Held(schedules) \ {s} :
    /\ schedules[x].stage = stage
    /\ schedules[x].live
    /\ \/ schedules[x].from <= from /\ from < schedules[x].to
       \/ schedules[x].from < to /\ to <= schedules[x].to
       \/ from <= schedules[x].from /\ schedules[x].to <= to

(* create_schedule finds the event and no conflict, and adds the row.      *)
CheckSchedule(a, x) ==
  /\ edits[a] = Nil
  /\ events[x.event] # Nil
  /\ x.from < x.to
  /\ ~Conflict(Nil, x.stage, x.from, x.to)
  /\ Takes(a, [what |-> "create", new |-> x])

CreateSchedule(a, s) ==
  /\ edits[a] \in Creation
  /\ schedules[s] = Nil
  /\ ~InHand(s)
  /\ schedules' = [schedules EXCEPT ![s] = edits[a].new]
  /\ edits' = [edits EXCEPT ![a] = Nil]
  /\ UNCHANGED <<codes, categories, fees, events, entered>>

SamePlace(x, y) == x.stage = y.stage /\ x.from = y.from /\ x.to = y.to

(* An update that gives a stage or a time is checked for conflicts,        *)
(* whatever the status, and may put the end before the start; one that     *)
(* gives an event is checked for the event; a status alone is not checked. *)
CheckUpdate(a, s, x) ==
  /\ edits[a] = Nil
  /\ schedules[s] # Nil
  /\ x.event # schedules[s].event => events[x.event] # Nil
  /\ ~SamePlace(x, schedules[s]) => ~Conflict(s, x.stage, x.from, x.to)
  /\ Takes(a, [what |-> "update", row |-> s, old |-> schedules[s], new |-> x])

(* The columns in which new differs from old, written over the row x.      *)
Rewritten(x, old, new) ==
  [k \in DOMAIN x |-> IF new[k] = old[k] THEN x[k] ELSE new[k]]

UpdateSchedule(a) ==
  /\ edits[a] \in Update
  /\ schedules[edits[a].row] # Nil
  /\ schedules' = [schedules EXCEPT
                      ![edits[a].row] = Rewritten(@, edits[a].old, edits[a].new)]
  /\ edits' = [edits EXCEPT ![a] = Nil]
  /\ UNCHANGED <<codes, categories, fees, events, entered>>

DeleteSchedule(s) ==
  /\ schedules[s] # Nil
  /\ schedules' = [schedules EXCEPT ![s] = Nil]
  /\ UNCHANGED <<codes, categories, fees, events, entered, edits>>

-----------------------------------------------------------------------------

FeeStep ==
  \/ \E q \in Codes : UploadCode(q)
  \/ \E c \in Categories, n \in Titles : CreateCategory(c, n) \/ UpdateCategory(c, n)
  \/ \E a \in Admins, c \in Categories : AskCategory(a, c)
  \/ \E f \in Fees, n \in Titles, q \in Codes \union {Nil} :
       CreateFee(f, n, q) \/ UpdateFee(f, n, q)
  \/ \E f \in Fees, q \in Codes \union {Nil} : SetFeeCode(f, q)
  \/ \E a \in Admins, f \in Fees : AskFee(a, f)
  \/ \E a \in Admins :
       AskGroups(a) \/ LoadUsers(a) \/ DeleteFee(a) \/ LoadMembers(a) \/ DeleteCategory(a)

EventStep ==
  \/ \E c \in Categories \union {Nil}, f \in Fees \union {Nil} :
       \/ \E v \in Solo : CreateSoloEvent(v, c, f)
       \/ \E v \in Events : UpdateEvent(v, c, f)
  \/ \E g \in GroupEvents, f \in Fees \union {Nil} : CreateGroupEvent(g, f)
  \/ \E v \in Solo : DeleteSoloEvent(v) \/ TakePart(v)
  \/ \E g \in GroupEvents : DeleteGroupEvent(g)

ScheduleStep ==
  \/ \E a \in Admins, x \in Schedule :
       CheckSchedule(a, x) \/ \E s \in Slots : CheckUpdate(a, s, x)
  \/ \E a \in Admins : UpdateSchedule(a) \/ \E s \in Slots : CreateSchedule(a, s)
  \/ \E s \in Slots : DeleteSchedule(s)

AdminStep ==
  \/ FeeStep \/ EventStep \/ ScheduleStep
  \/ \E a \in Admins : GiveUp(a)

(* The events and the schedules that a step makes, changes or deletes.     *)
Altered ==
  {v \in Events : events'[v] # events[v]} \union {s \in Slots : schedules'[s] # schedules[s]}

Watching ==
  changed' = [a \in Admins |->
    IF edits[a] # Nil /\ edits'[a] # Nil THEN changed[a] \union Altered ELSE {}]

(* Members enter the events there are.                                     *)
TeamStep ==
  /\ TeamsNext
  /\ \A i \in DOMAIN rows' : events[rows'[i].event] # Nil
  /\ \A r \in Requests : calls[r] = Nil /\ calls'[r] \in Entry
                          => events[calls'[r].event] # Nil

CatalogueNext ==
  \/ TeamStep /\ UNCHANGED cvars
  \/ AdminStep /\ Watching /\ UNCHANGED tvars

CatalogueSpec == CatalogueInit /\ [][CatalogueNext]_<<tvars, cvars>>

-----------------------------------------------------------------------------

(* An event that asks for a fee, or is in a category, does so as long as   *)
(* it exists, unless a deletion that found no event with that fee or       *)
(* category takes it: only from an event that was changed after the        *)
(* deletion asked, and a category never from a group event, which the      *)
(* deletion does not ask about but the foreign key holds                   *)
(* (delete_registration_fee, delete_category).                             *)
FeeLostOnlyByRace ==
  [][\A v \in Held(events) \intersect Held(events') :
       /\ events[v].fee # Nil /\ events[v]'.fee = Nil
          => \E a \in Admins : DeleteFee(a) /\ v \in changed[a]
       /\ events[v].category # Nil /\ events[v]'.category = Nil
          => v \in Solo /\ \E a \in Admins : DeleteCategory(a) /\ v \in changed[a]
     ]_<<tvars, cvars>>

(* Two events that are on at one stage at one time.                        *)
Overlap(x, y) ==
  /\ x.live /\ y.live
  /\ x.stage = y.stage
  /\ x.from < y.to /\ y.from < x.to
  /\ x.from < x.to /\ y.from < y.to

(* Two schedules come to overlap only when one that was cancelled is       *)
(* brought back where it was, the one change update_schedule does not      *)
(* check for conflicts, or when a request writes one of them that was      *)
(* checked before one of the two was written by another (create_schedule,  *)
(* update_schedule): an inverted or corrected interval does not do it.     *)
OverlapOnlyByRevivalOrRace ==
  [][\A s, t \in Held(schedules') :
       s # t /\ Overlap(schedules[s]', schedules[t]')
       => \/ {s, t} \subseteq Held(schedules) /\ Overlap(schedules[s], schedules[t])
          \/ \E x \in {s, t} :
               /\ x \in Held(schedules)
               /\ ~schedules[x].live
               /\ SamePlace(schedules[x], schedules[x]')
          \/ \E a \in Admins :
               \/ CreateSchedule(a, s) /\ t \in changed[a]
               \/ CreateSchedule(a, t) /\ s \in changed[a]
               \/ UpdateSchedule(a) /\ changed[a] \intersect {s, t} # {}]_<<tvars, cvars>>

=============================================================================
