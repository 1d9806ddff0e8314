--------------------------- MODULE MCUserSessions ---------------------------
(* UserSessions on four small instances in one run, told apart by focus:  *)
(* the tokens of a user, the entries of a user in the caches of the        *)
(* workers, those of a page, and those of a report.                        *)
EXTENDS UserSessions

VARIABLE focus

FocusInit == SessionsInit /\ focus \in {"tokens", "users", "pages", "reports"}

InFocus(t) ==
  CASE focus = "tokens" -> t.kind \in {"idle", "logs in", "refreshes", "clears"}
    [] focus = "users"  -> t.kind \in {"idle", "logs in"}
                           \/ (t.kind \in {"fills", "clears"} /\ t.key \in Users)
    [] focus = "pages"  -> t.kind = "idle"
                           \/ (t.kind \in {"fills", "clears"} /\ t.key \in Pages)
    [] focus = "reports" -> t.kind = "idle" \/ (t.kind = "fills" /\ t.key \in Reports)

FocusNext ==
  /\ UNCHANGED focus
  /\ SessionsNext
  /\ \A r \in Requests : InFocus(tasks'[r])

FocusSpec ==
  FocusInit /\ [][FocusNext]_<<svars, focus>> /\ SessionsFairness
=============================================================================
