------------------------- MODULE AssessmentSessions -------------------------
(***************************************************************************)
(* apps/web/src/features/assessment/components/AssessmentSessionPanel.tsx: the *)
(* sessions of an assessment, which a teacher creates, opens and closes.       *)
(* What is copied, printed or unfolded of a session is left out.             *)
(***************************************************************************)
EXTENDS BrowserTab

CONSTANTS MaxSessionRows, MaxSessionWrites

ASSUME AssessmentSessionsAssumption ==
  MaxSessionRows \in Nat \ {0} /\ MaxSessionWrites \in Nat

SessionRows == 1..MaxSessionRows
SessionStatuses == {"scheduled", "active", "closed"}
SessionList == [SessionRows -> SessionStatuses \cup {"none"}]
NoSessions == [r \in SessionRows |-> "none"]

SessionsTypeOK ==
  Mounted("sessions") =>
    /\ screen \in [page : {"sessions"}, rows : SessionList, busy : BOOLEAN, saving : BOOLEAN,
                   failed : BOOLEAN, lost : BOOLEAN, writes : 0..MaxSessionWrites]
    /\ server \in SessionList

SessionReads == {c \in calls : c.kind = "list"}
SessionWrites == {c \in calls : c.kind # "list"}
ListRequest == [kind |-> "list", read |-> FALSE, rows |-> NoSessions]

(***************************************************************************)
(* The list.  "failed" and "lost" remember that the last list could not be     *)
(* read, and that the answer to a stored write did not come: the panel goes on  *)
(* showing the rows of before.                                               *)
(***************************************************************************)
SessionsInit ==
  /\ screen = [page |-> "sessions", rows |-> NoSessions, busy |-> TRUE, saving |-> FALSE,
               failed |-> FALSE, lost |-> FALSE, writes |-> 0]
  /\ calls = {ListRequest}
  /\ server = NoSessions

AbortedList == SessionReads

ReloadSessions(p, over) ==
  /\ screen' = [p EXCEPT !.busy = TRUE, !.failed = FALSE]
  /\ calls' = (calls \ (over \cup AbortedList)) \cup {ListRequest}
  /\ UNCHANGED server

SessionsRead(c) ==
  /\ c.kind = "list" /\ ~c.read
  /\ calls' = (calls \ {c}) \cup {[c EXCEPT !.read = TRUE, !.rows = server]}
  /\ UNCHANGED <<screen, server>>

SessionsArrive(c) ==
  /\ c.kind = "list" /\ c.read
  /\ screen' = [screen EXCEPT !.rows = c.rows, !.busy = FALSE]
  /\ Ended(c) /\ UNCHANGED server

SessionsFail(c) ==
  /\ c.kind = "list"
  /\ screen' = [screen EXCEPT !.busy = FALSE, !.failed = TRUE]
  /\ Ended(c) /\ UNCHANGED server

(***************************************************************************)
(* The writes: one at a time.  The form does not wait for the list.          *)
(***************************************************************************)
OrdersSession(c) ==
  /\ ~screen.saving /\ screen.writes < MaxSessionWrites
  /\ screen' = [screen EXCEPT !.saving = TRUE, !.writes = @ + 1]
  /\ calls' = calls \cup {c}
  /\ UNCHANGED server

CreateSessionForm == OrdersSession([kind |-> "create", stage |-> "sent"])

\* A scheduled session is opened, an active one closed.
SessionButtons ==
  /\ ~screen.busy
  /\ \E r \in SessionRows :
       /\ screen.rows[r] \in {"scheduled", "active"}
       /\ OrdersSession([kind |-> "status", row |-> r, stage |-> "sent",
                         next |-> IF screen.rows[r] = "scheduled" THEN "active" ELSE "closed"])

SessionStored(c) ==
  /\ c.kind = "create" /\ c.stage = "sent"
  /\ \E r \in SessionRows :
       /\ server[r] = "none" /\ \A earlier \in 1..(r - 1) : server[earlier] # "none"
       /\ server' = [server EXCEPT ![r] = "scheduled"]
  /\ Advances(c, "stored") /\ UNCHANGED screen

SessionStatusStored(c) ==
  /\ c.kind = "status" /\ c.stage = "sent"
  /\ server' = [server EXCEPT ![c.row] = c.next]
  /\ Advances(c, "stored") /\ UNCHANGED screen

SessionWritten(c) ==
  /\ c \in SessionWrites /\ c.stage = "stored"
  /\ ReloadSessions([screen EXCEPT !.saving = FALSE], {c})

SessionWriteFails(c) ==
  /\ c \in SessionWrites
  /\ screen' = [screen EXCEPT !.saving = FALSE, !.lost = @ \/ c.stage = "stored"]
  /\ Ended(c) /\ UNCHANGED server

SessionsNext ==
  \/ CreateSessionForm \/ SessionButtons
  \/ \E c \in calls :
       \/ SessionsRead(c) \/ SessionsArrive(c) \/ SessionsFail(c) \/ SessionStored(c)
       \/ SessionStatusStored(c) \/ SessionWritten(c) \/ SessionWriteFails(c)

SessionsSpec == SessionsInit /\ [][SessionsNext]_tabVars

(***************************************************************************)
(* Properties                                                              *)
(***************************************************************************)
\* The sessions that can be opened and closed on the screen are as the server holds
\* them, although the form creates others while a list is still to come.  It holds
\* unless the last list could not be read or the answer to a write was lost.
SessionsAreTrue ==
  /\ Mounted("sessions") /\ SessionWrites = {}
  /\ ~screen.busy /\ ~screen.failed /\ ~screen.lost
  => screen.rows = server
=============================================================================
