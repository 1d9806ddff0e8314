------------------------------ MODULE Magazine ------------------------------
(***************************************************************************)
(* The Yuvalokham magazine (app/yuvalokham/service.py and its routers)     *)
(* over the session a request gets (get_async_db in app/common/db.py):     *)
(* what a handler writes is seen by others only when the session commits,  *)
(* and the session commits only when the handler left changes that are not *)
(* flushed yet.                                                            *)
(*                                                                         *)
(* A handler reads and writes in one step: what it flushes stays locked    *)
(* until its request ends, and another handler waits for the lock.         *)
(* Handlers that only read are left out, but for what an active            *)
(* subscription gives (Readable).                                          *)
(***************************************************************************)
EXTENDS Integers, FiniteSets, TLC

CONSTANTS
  Requests,      (* requests served at the same time                       *)
  Ids,           (* the ids of every table; a user's id stands for the     *)
                 (* e-mail address                                         *)
  Files,         (* keys of the object store                               *)
  Durations,     (* months of a plan                                       *)
  LastDay,       (* bounds the calendar, counted in months                 *)
  None

VARIABLES
  rows,          (* the committed rows                                     *)
  work,          (* what each request has written and not committed        *)
  answer,        (* the rows of the last answer given                      *)
  stored,        (* the keys in the object store                           *)
  today

vars == <<rows, work, answer, stored, today>>

Tables == {"user", "token", "plan", "sub", "payment", "issue", "complaint", "qr"}
Keys   == Tables \X Ids

(* The rows of each table, less what no step tells apart.                  *)
User(role, active, text)      == [role |-> role, active |-> active, text |-> text]
Token(owner, live)            == [owner |-> owner, live |-> live]
Plan(months, active)          == [months |-> months, active |-> active]
Sub(owner, months, state, ends) ==
  [owner |-> owner, months |-> months, status |-> state, ends |-> ends]
Payment(sub, state)           == [sub |-> sub, status |-> state]
Issue(state, file)            == [status |-> state, file |-> file]
Complaint(owner, state)       == [owner |-> owner, status |-> state]

Row(t, i)  == rows[<<t, i>>]
Present(t) == {i \in Ids : Row(t, i) # None}

Idle == [writes |-> <<>>, unflushed |-> FALSE]

(* A flushed row is locked until its transaction ends.                     *)
Locked(k) == \E q \in Requests : ~work[q].unflushed /\ k \in DOMAIN work[q].writes

-----------------------------------------------------------------------------
(* The session: get_async_db.                                              *)

(* A handler that has flushed what it wrote.                               *)
Flush(r, w) ==
  /\ work[r] = Idle
  /\ \A k \in DOMAIN w : ~Locked(k)
  /\ work' = [work EXCEPT ![r] = [writes |-> w, unflushed |-> FALSE]]
  /\ UNCHANGED <<rows, answer, today>>

(* A handler that leaves its writes to the commit.                         *)
Leave(r, w) ==
  /\ work[r] = Idle
  /\ work' = [work EXCEPT ![r] = [writes |-> w, unflushed |-> TRUE]]
  /\ UNCHANGED <<rows, answer, stored, today>>

(* The end of a request: a commit when something is new, dirty or deleted; *)
(* closing the session rolls the rest back.                                *)
Close(r) ==
  /\ work[r] # Idle
  /\ work[r].unflushed => \A k \in DOMAIN work[r].writes : ~Locked(k)
  /\ rows' = IF work[r].unflushed THEN work[r].writes @@ rows ELSE rows
  /\ answer' = work[r].writes
  /\ work' = [work EXCEPT ![r] = Idle]
  /\ UNCHANGED <<stored, today>>

(* An exception, or a lost connection: rolled back, and no answer.         *)
Fail(r) ==
  /\ work[r] # Idle
  /\ work' = [work EXCEPT ![r] = Idle]
  /\ UNCHANGED <<rows, answer, stored, today>>

Kept == UNCHANGED stored

-----------------------------------------------------------------------------
(* Accounts.  Any handler below asks for an active user, or admin.         *)

Active(u)  == u \in Present("user") /\ Row("user", u).active
Admin(u)   == Active(u) /\ Row("user", u).role = "admin"

(* register_user and create_admin: the address must be free.               *)
Register(r, u, role) ==
  /\ u \notin Present("user")
  /\ role = "user" \/ \E a \in Ids : Admin(a)
  /\ Flush(r, <<"user", u>> :> User(role, TRUE, 0))
  /\ Kept

LiveTokens(u) == {i \in Present("token") : Row("token", i) = Token(u, TRUE)}

(* login revokes the user's live tokens and adds one.                      *)
Login(r, u) ==
  /\ Active(u)
  /\ \E n \in Ids \ Present("token") :
       Leave(r, [k \in {"token"} \X (LiveTokens(u) \union {n}) |-> Token(u, k[2] = n)])

(* refresh_token exchanges a live token.                                   *)
Refresh(r, i) ==
  /\ i \in Present("token") /\ Row("token", i).live
  /\ Active(Row("token", i).owner)
  /\ \E n \in Ids \ Present("token") :
       Leave(r, [k \in {"token"} \X {i, n} |-> Token(Row("token", i).owner, k[2] = n)])

(* update_profile; the admin also edits the account or the password.       *)
EditUser(r, u, active, text) ==
  /\ u \in Present("user")
  /\ \/ Active(u) /\ active = Row("user", u).active
     \/ \E a \in Ids : Admin(a)
  /\ Flush(r, <<"user", u>> :> User(Row("user", u).role, active, text))
  /\ Kept

-----------------------------------------------------------------------------
(* Plans, subscriptions and payments.                                      *)

CreatePlan(r, m) ==
  /\ \E a \in Ids : Admin(a)
  /\ \E i \in Ids \ Present("plan") : Flush(r, <<"plan", i>> :> Plan(m, TRUE))
  /\ Kept

(* update_plan and toggle_plan.                                            *)
EditPlan(r, i, m, active) ==
  /\ \E a \in Ids : Admin(a)
  /\ i \in Present("plan")
  /\ Flush(r, <<"plan", i>> :> Plan(m, active))
  /\ Kept

SubsOf(u)   == {i \in Present("sub") : Row("sub", i).owner = u}
PendingOf(u) == {i \in SubsOf(u) : Row("sub", i).status = "pending"}
(* get_active_subscription: of two the query fails.                        *)
Running(u)  == {i \in SubsOf(u) : Row("sub", i).status = "active" /\ Row("sub", i).ends >= today}

(* subscribe: one pending subscription at a time, of an active plan, whose *)
(* duration it keeps.                                                      *)
Subscribe(r, u, p) ==
  /\ Active(u)
  /\ PendingOf(u) = {}
  /\ p \in Present("plan") /\ Row("plan", p).active
  /\ \E i \in Ids \ Present("sub") :
       Flush(r, <<"sub", i>> :> Sub(u, Row("plan", p).months, "pending", None))
  /\ Kept

(* submit_payment: any number of proofs while the subscription is pending. *)
SubmitPayment(r, s) ==
  /\ s \in Present("sub") /\ Row("sub", s).status = "pending"
  /\ Active(Row("sub", s).owner)
  /\ \E i \in Ids \ Present("payment") : Flush(r, <<"payment", i>> :> Payment(s, "pending"))
  /\ Kept

PendingPayment(i) == i \in Present("payment") /\ Row("payment", i).status = "pending"

(* approve_payment: the subscription starts today, or when the running one *)
(* ends.                                                                   *)
ApprovePayment(r, i) ==
  LET s      == Row("payment", i).sub
      others == Running(Row("sub", s).owner) \ {s}
      start  == IF others = {} THEN today
                ELSE Row("sub", CHOOSE o \in others : TRUE).ends
  IN
  /\ \E a \in Ids : Admin(a)
  /\ PendingPayment(i)
  /\ Cardinality(Running(Row("sub", s).owner)) <= 1
  /\ Flush(r, <<"payment", i>> :> Payment(s, "approved") @@
              <<"sub", s>> :> [Row("sub", s) EXCEPT
                                 !.status = "active", !.ends = start + Row("sub", s).months])
  /\ Kept

RejectPayment(r, i) ==
  /\ \E a \in Ids : Admin(a)
  /\ PendingPayment(i)
  /\ Flush(r, <<"payment", i>> :> Payment(Row("payment", i).sub, "rejected"))
  /\ Kept

-----------------------------------------------------------------------------
(* Issues, complaints and the QR code.  Storing and deleting a file takes  *)
(* place at once, whatever becomes of the transaction.                     *)

FreshFiles == Files \ stored

CreateIssue(r) ==
  /\ \E a \in Ids : Admin(a)
  /\ \E i \in Ids \ Present("issue") : Flush(r, <<"issue", i>> :> Issue("draft", None))
  /\ Kept

(* upload_magazine_files deletes the old file, then stores the new one.    *)
UploadIssue(r, i, f) ==
  /\ \E a \in Ids : Admin(a)
  /\ i \in Present("issue") /\ f \in FreshFiles
  /\ Flush(r, <<"issue", i>> :> Issue(Row("issue", i).status, f))
  /\ stored' = (stored \ {Row("issue", i).file}) \union {f}

(* publish_magazine, from either status; update_magazine edits the text.   *)
PublishIssue(r, i) ==
  /\ \E a \in Ids : Admin(a)
  /\ i \in Present("issue")
  /\ Flush(r, <<"issue", i>> :> Issue("published", Row("issue", i).file))
  /\ Kept

DeleteIssue(r, i) ==
  /\ \E a \in Ids : Admin(a)
  /\ i \in Present("issue") /\ Row("issue", i).status = "draft"
  /\ Flush(r, <<"issue", i>> :> None)
  /\ stored' = stored \ {Row("issue", i).file}

(* What list_magazines and get_magazine give a user to read.               *)
Readable(u) ==
  IF Running(u) = {} THEN {}
  ELSE {i \in Present("issue") : Row("issue", i).status = "published"
                                  /\ Row("issue", i).file # None}

Complain(r, u) ==
  /\ Active(u)
  /\ \E i \in Ids \ Present("complaint") :
       Flush(r, <<"complaint", i>> :> Complaint(u, "open"))
  /\ Kept

(* respond_complaint resolves, close_complaint closes.                     *)
EndComplaint(r, i, state) ==
  /\ \E a \in Ids : Admin(a)
  /\ i \in Present("complaint") /\ Row("complaint", i).status = "open"
  /\ Flush(r, <<"complaint", i>> :> Complaint(Row("complaint", i).owner, state))
  /\ Kept

(* update_qr_setting: one row, created when missing.                       *)
UpdateQr(r, i, f) ==
  /\ \E a \in Ids : Admin(a)
  /\ Present("qr") \subseteq {i} /\ f \in FreshFiles
  /\ Flush(r, <<"qr", i>> :> [file |-> f])
  /\ stored' = (stored \ (IF Row("qr", i) = None THEN {} ELSE {Row("qr", i).file})) \union {f}

-----------------------------------------------------------------------------

NextDay ==
  /\ today < LastDay
  /\ today' = today + 1
  /\ UNCHANGED <<rows, work, answer, stored>>

Handle(r) ==
  \/ \E u \in Ids, role \in {"user", "admin"} : Register(r, u, role)
  \/ \E u \in Ids : Login(r, u) \/ Complain(r, u)
  \/ \E i \in Ids : Refresh(r, i)
  \/ \E u \in Ids, b \in BOOLEAN, x \in 0 .. 1 : EditUser(r, u, b, x)
  \/ \E m \in Durations : CreatePlan(r, m)
  \/ \E i \in Ids, m \in Durations, b \in BOOLEAN : EditPlan(r, i, m, b)
  \/ \E u, p \in Ids : Subscribe(r, u, p)
  \/ \E i \in Ids : SubmitPayment(r, i) \/ ApprovePayment(r, i) \/ RejectPayment(r, i)
  \/ CreateIssue(r)
  \/ \E i \in Ids : PublishIssue(r, i) \/ DeleteIssue(r, i)
  \/ \E i \in Ids, f \in Files : UploadIssue(r, i, f) \/ UpdateQr(r, i, f)
  \/ \E i \in Ids, state \in {"resolved", "closed"} : EndComplaint(r, i, state)

MagazineNext == NextDay \/ \E r \in Requests : Handle(r) \/ Close(r) \/ Fail(r)

(* A reader's subscription with its payments, as copied from the old site. *)
Subscribed(u, m) ==
  {<<None, None>>}
    \union {<<Sub(u, m, "pending", None), Payment(1, x)>> : x \in {"pending", "rejected"}}
    \union {<<Sub(u, m, "active", 1 + m), Payment(1, "approved")>>}

(* The seeding script gives an admin; migrate_ym_data_to_prod.py copies    *)
(* every table's rows: users, a plan, and any of the others.               *)
MagazineInit ==
  /\ {1, 2} \subseteq Ids
  /\ \E m \in Durations, f \in Files :
     \E sp \in Subscribed(2, m),
        issue \in {None, Issue("draft", None), Issue("draft", f), Issue("published", f)},
        complaint \in {None, Complaint(2, "open")} :
       /\ rows = [k \in Keys |->
                    CASE k = <<"user", 1>>      -> User("admin", TRUE, 0)
                      [] k = <<"user", 2>>      -> User("user", TRUE, 0)
                      [] k = <<"plan", 1>>      -> Plan(m, TRUE)
                      [] k = <<"sub", 1>>       -> sp[1]
                      [] k = <<"payment", 1>>   -> sp[2]
                      [] k = <<"issue", 1>>     -> issue
                      [] k = <<"complaint", 1>> -> complaint
                      [] OTHER                  -> None]
       /\ stored = IF issue = None THEN {} ELSE {issue.file} \ {None}
  /\ work = [r \in Requests |-> Idle]
  /\ answer = <<>>
  /\ today = 1

MagazineSpec == MagazineInit /\ [][MagazineNext]_vars

-----------------------------------------------------------------------------

(* A subscription a reader is answered is there when the request is over,  *)
(* pending its payment (POST /subscribe, YuvalokhamService.subscribe).     *)
AnsweredSubscriptionStays ==
  [][\A i \in Ids :
       LET k == <<"sub", i>> IN
       (answer' # answer /\ k \in DOMAIN answer') => rows'[k] = answer'[k]]_vars

=============================================================================
