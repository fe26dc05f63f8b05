----------------------------- MODULE Classroom ------------------------------
(* One smart classroom session (internal/realtime): a teacher publishes,     *)
(* reveals and ends questions while the students of the class join and       *)
(* answer, and the end of the session freezes a report.  Every request is    *)
(* its own READ COMMITTED transaction on a pool of connections.  A command   *)
(* that takes row locks one after the other, or reads in one statement what  *)
(* it uses in a later one, is one action per statement; a command that holds *)
(* the session row from its first statement and waits for no other row is    *)
(* one action.  The batch row is only ever locked under the session row.     *)
EXTENDS Naturals, FiniteSets

CONSTANTS
  Students,
  Questions, Batches,
  BatchOf,     \* the batch of every question
  Modes,       \* published modes the session may be created with
  Options,     \* option indexes a student may choose
  Marks,       \* BOUND: attendance a teacher sets by hand
  Movers,      \* BOUND: students whose membership of the class may change
  Calls,       \* requests that may be in flight together
  None

ASSUME ClassroomAssumption ==
  /\ BatchOf \in [Questions -> Batches]
  /\ Modes \subseteq {"single", "batch"}
  /\ None \notin Options \cup Questions \cup Batches
  /\ Marks \subseteq {"present", "late", "absent", "excused"}
  /\ Movers \subseteq Students

VARIABLES
  session,      \* status, published_mode, active_batch_id, active_question_ordinal
  batch,        \* per batch: absent (not appended yet), new, started or ended,
                \* and its competition timer
  published,    \* questions with published_at
  revealed,     \* questions with revealed_at
  answer,       \* classroom_responses: the option, or None
  participant,  \* classroom_participants: joined_at, attendance, overridden_by
  roster,       \* students of the class, owned by organizations
  report,       \* the snapshot, or None
  call,         \* requests in flight, and by that the row locks
  marked,       \* HISTORY: what the teacher last set for a student, or None
  early         \* HISTORY: students who joined before anything was published

vars == <<session, batch, published, revealed, answer, participant, roster,
          report, call, marked, early>>

-----------------------------------------------------------------------------
Attendance == {"present", "late", "absent", "excused"}
Timer == {"off", "running", "over"}

Idle == [op |-> "none"]
Answering == [op : {"answer"}, at : {"session", "question"},
              q : Questions, s : Students, o : Options]
Publishing == [op : {"publish"}, q : Questions]
Revealing == [op : {"reveal"}, q : Questions]
Joining == [op : {"join"}, s : Students]
Inserting == [op : {"insert"}, s : Students, status : {"present", "late"}]

NoRow == [joined |-> FALSE, status |-> "absent", overridden |-> FALSE]
Participants ==
  [Students -> [joined : BOOLEAN, status : Attendance, overridden : BOOLEAN]]

\* FinalizeSession: the roster was read before the transaction, the
\* participants under the lock on the session, the responses after that.
Ending == [op : {"end"}, at : {"roster"}, roster : SUBSET Students]
          \cup [op : {"end"}, at : {"session"}, roster : SUBSET Students,
                seen : Participants]

CallStates == {Idle} \cup Answering \cup Publishing \cup Revealing \cup Joining
              \cup Inserting \cup Ending

\* FAULTY: UpsertAnswer reads the session without FOR UPDATE.
HoldsSessionToChange(t) ==
  call[t].op = "publish" \/ (call[t].op = "end" /\ call[t].at = "session")

\* The transactions that have the session row FOR UPDATE.
HoldsSession(t) ==
  \/ call[t].op \in {"answer", "publish"}
  \/ call[t].op = "end" /\ call[t].at = "session"

HoldsQuestion(t, q) ==
  \/ call[t] \in Revealing /\ call[t].q = q
  \/ call[t] \in Answering /\ call[t].at = "question" /\ call[t].q = q

SessionFree == \A t \in Calls : ~HoldsSession(t)
QuestionFree(q) == \A t \in Calls : ~HoldsQuestion(t, q)

Live == session.status = "live"
Open(b) == batch[b].state \in {"new", "started"}

-----------------------------------------------------------------------------
(* The teacher *)

StartSession ==
  /\ session.status = "draft" /\ SessionFree
  /\ session' = [session EXCEPT !.status = "live"]
  /\ UNCHANGED <<batch, published, revealed, answer, participant, roster,
                 report, call, marked, early>>

AppendBatch(b) ==
  /\ session.status \in {"draft", "live"} /\ SessionFree
  /\ batch[b].state = "absent"
  /\ batch' = [batch EXCEPT ![b].state = "new"]
  /\ UNCHANGED <<session, published, revealed, answer, participant, roster,
                 report, call, marked, early>>

BeginPublish(t, q) ==
  /\ call[t] = Idle /\ Live /\ SessionFree
  /\ batch[BatchOf[q]].state # "absent"
  /\ call' = [call EXCEPT ![t] = [op |-> "publish", q |-> q]]
  /\ UNCHANGED <<session, batch, published, revealed, answer, participant,
                 roster, report, marked, early>>

\* What one publication makes visible: the question, or its whole batch.
Shown(q) ==
  IF session.mode = "batch" THEN {r \in Questions : BatchOf[r] = BatchOf[q]} ELSE {q}

FinishPublish(t) ==
  /\ call[t] \in Publishing
  /\ LET q == call[t].q IN
     /\ \A r \in Shown(q) : QuestionFree(r)
     /\ Open(BatchOf[q])
     /\ batch' = [batch EXCEPT ![BatchOf[q]].state = "started"]
     /\ published' = published \cup Shown(q)
     /\ session' = [session EXCEPT !.batch = BatchOf[q], !.question = q]
  /\ call' = [call EXCEPT ![t] = Idle]
  /\ UNCHANGED <<revealed, answer, participant, roster, report, marked, early>>

\* The session is joined, not locked: it may end before the reveal commits.
BeginReveal(t, q) ==
  /\ call[t] = Idle /\ Live /\ QuestionFree(q)
  /\ q \in published
  /\ call' = [call EXCEPT ![t] = [op |-> "reveal", q |-> q]]
  /\ UNCHANGED <<session, batch, published, revealed, answer, participant,
                 roster, report, marked, early>>

\* The first reveal also counts the session's revision up, and so waits for
\* the session row while it holds the question.
FinishReveal(t) ==
  /\ call[t] \in Revealing
  /\ call[t].q \notin revealed => SessionFree
  /\ revealed' = revealed \cup {call[t].q}
  /\ call' = [call EXCEPT ![t] = Idle]
  /\ UNCHANGED <<session, batch, published, answer, participant, roster,
                 report, marked, early>>

EndBatch(b) ==
  /\ Live /\ SessionFree /\ batch[b].state # "absent"
  /\ batch' = [batch EXCEPT ![b].state = "ended"]
  /\ session' = IF session.batch = b
                THEN [session EXCEPT !.batch = None, !.question = None] ELSE session
  /\ UNCHANGED <<published, revealed, answer, participant, roster, report,
                 call, marked, early>>

\* ConfigureCompetition starts the timer of the active batch, EndCompetition
\* stops it; Expire is the clock.
ConfigureCompetition ==
  /\ Live /\ SessionFree /\ session.batch # None /\ Open(session.batch)
  /\ batch' = [batch EXCEPT ![session.batch].timer = "running"]
  /\ UNCHANGED <<session, published, revealed, answer, participant, roster,
                 report, call, marked, early>>

EndCompetition ==
  /\ Live /\ SessionFree /\ session.batch # None
  /\ batch[session.batch].timer # "off"
  /\ batch' = [batch EXCEPT ![session.batch].timer = "over"]
  /\ UNCHANGED <<session, published, revealed, answer, participant, roster,
                 report, call, marked, early>>

Expire(b) ==
  /\ batch[b].timer = "running"
  /\ batch' = [batch EXCEPT ![b].timer = "over"]
  /\ UNCHANGED <<session, published, revealed, answer, participant, roster,
                 report, call, marked, early>>

\* A new participant row waits for the session row, which its foreign key
\* reads FOR KEY SHARE, and for another insert of the same row.
MayInsert(s) ==
  SessionFree /\ \A t \in Calls : ~(call[t] \in Inserting /\ call[t].s = s)

\* Allowed before, during and after the session, for a student of the class.
SetAttendance(s, status) ==
  /\ s \in roster
  /\ participant[s] = NoRow => MayInsert(s)
  /\ participant' = [participant EXCEPT ![s].status = status, ![s].overridden = TRUE]
  /\ marked' = [marked EXCEPT ![s] = status]
  /\ UNCHANGED <<session, batch, published, revealed, answer, roster, report,
                 call, early>>

-----------------------------------------------------------------------------
(* The students *)

\* The service looks at the session and the class before the one statement
\* that writes; both may have changed by then.
BeginJoin(t, s) ==
  /\ call[t] = Idle /\ Live /\ s \in roster
  /\ call' = [call EXCEPT ![t] = [op |-> "join", s |-> s]]
  /\ UNCHANGED <<session, batch, published, revealed, answer, participant,
                 roster, report, marked, early>>

Arrival == IF published = {} THEN "present" ELSE "late"

\* FAULTY: the arrival decides, also over the teacher.
JoinedAnew(p) == [joined |-> TRUE, status |-> Arrival, overridden |-> p.overridden]

\* ON CONFLICT DO UPDATE
Joined(p) == [joined |-> TRUE, status |-> IF p.overridden THEN p.status ELSE Arrival,
              overridden |-> p.overridden]

FinishJoin(t) ==
  /\ call[t] \in Joining /\ participant[call[t].s] # NoRow
  /\ LET s == call[t].s IN
     /\ participant' = [participant EXCEPT ![s] = Joined(participant[s])]
     /\ early' = IF published = {} THEN early \cup {s} ELSE early
  /\ call' = [call EXCEPT ![t] = Idle]
  /\ UNCHANGED <<session, batch, published, revealed, answer, roster, report, marked>>

\* The status is decided before the wait for the session row.
InsertParticipant(t) ==
  /\ call[t] \in Joining /\ participant[call[t].s] = NoRow
  /\ \A r \in Calls : ~(call[r] \in Inserting /\ call[r].s = call[t].s)
  /\ call' = [call EXCEPT ![t] = [op |-> "insert", s |-> call[t].s, status |-> Arrival]]
  /\ UNCHANGED <<session, batch, published, revealed, answer, participant,
                 roster, report, marked, early>>

FinishInsert(t) ==
  /\ call[t] \in Inserting /\ SessionFree
  /\ LET s == call[t].s IN
     /\ participant' = [participant EXCEPT ![s] =
                           [joined |-> TRUE, status |-> call[t].status, overridden |-> FALSE]]
     /\ early' = IF call[t].status = "present" THEN early \cup {s} ELSE early
  /\ call' = [call EXCEPT ![t] = Idle]
  /\ UNCHANGED <<session, batch, published, revealed, answer, roster, report, marked>>

BeginAnswer(t, q, s, o) ==
  /\ call[t] = Idle /\ Live /\ SessionFree
  /\ batch[BatchOf[q]].state # "absent"
  /\ call' = [call EXCEPT ![t] = [op |-> "answer", at |-> "session", q |-> q, s |-> s, o |-> o]]
  /\ UNCHANGED <<session, batch, published, revealed, answer, participant,
                 roster, report, marked, early>>

Current(q) ==
  /\ batch[BatchOf[q]].state # "ended"
  /\ batch[BatchOf[q]].timer # "over"
  /\ IF session.mode = "single" THEN session.question = q ELSE session.batch = BatchOf[q]

\* FAULTY: an answer is taken after the reveal.
AcceptsRevealed(q, s) == q \in published /\ Current(q) /\ participant[s].joined

Accepts(q, s) == q \in published \ revealed /\ Current(q) /\ participant[s].joined

CheckAnswer(t) ==
  /\ call[t] \in Answering /\ call[t].at = "session"
  /\ QuestionFree(call[t].q) /\ Accepts(call[t].q, call[t].s)
  /\ call' = [call EXCEPT ![t].at = "question"]
  /\ UNCHANGED <<session, batch, published, revealed, answer, participant,
                 roster, report, marked, early>>

StoreAnswer(t) ==
  /\ call[t] \in Answering /\ call[t].at = "question"
  /\ answer' = [answer EXCEPT ![<<call[t].q, call[t].s>>] = call[t].o]
  /\ call' = [call EXCEPT ![t] = Idle]
  /\ UNCHANGED <<session, batch, published, revealed, participant, roster,
                 report, marked, early>>

-----------------------------------------------------------------------------
(* The end of the session *)

BeginEnd(t) ==
  /\ call[t] = Idle /\ session.status # "draft"
  /\ call' = [call EXCEPT ![t] = [op |-> "end", at |-> "roster", roster |-> roster]]
  /\ UNCHANGED <<session, batch, published, revealed, answer, participant,
                 roster, report, marked, early>>

LockEnd(t) ==
  /\ call[t] \in Ending /\ call[t].at = "roster"
  /\ SessionFree /\ Live
  /\ call' = [call EXCEPT ![t] = [op |-> "end", at |-> "session",
                                  roster |-> call[t].roster, seen |-> participant]]
  /\ UNCHANGED <<session, batch, published, revealed, answer, participant,
                 roster, report, marked, early>>

Snapshot(c) ==
  [roster |-> c.roster,
   joined |-> {s \in c.roster : c.seen[s].joined},
   attendance |-> [s \in c.roster |-> c.seen[s].status],
   answer |-> answer]

FinishEnd(t) ==
  /\ call[t] \in Ending /\ call[t].at = "session"
  /\ report' = Snapshot(call[t])
  /\ batch' = [b \in Batches |->
                 IF batch[b].state = "started" THEN [batch[b] EXCEPT !.state = "ended"]
                 ELSE batch[b]]
  /\ session' = [session EXCEPT !.status = "ended", !.batch = None, !.question = None]
  /\ call' = [call EXCEPT ![t] = Idle]
  /\ UNCHANGED <<published, revealed, answer, participant, roster, marked, early>>

-----------------------------------------------------------------------------
(* Calls that change nothing, and the class list *)

Refusal(t) ==
  \/ /\ call[t] \in Publishing
     /\ \A r \in Shown(call[t].q) : QuestionFree(r)
     /\ ~Open(BatchOf[call[t].q])
  \/ /\ call[t] \in Answering /\ call[t].at = "session"
     /\ QuestionFree(call[t].q) /\ ~Accepts(call[t].q, call[t].s)
  \/ call[t] \in Ending /\ call[t].at = "roster" /\ SessionFree /\ ~Live

\* FAULTY: the refused transaction is left open, with its locks.
RefuseOnly(t) == Refusal(t) /\ UNCHANGED vars

\* A condition fails and the transaction rolls back, or finds the session
\* already ended and answers with the stored report.
Refuse(t) ==
  /\ Refusal(t)
  /\ call' = [call EXCEPT ![t] = Idle]
  /\ UNCHANGED <<session, batch, published, revealed, answer, participant,
                 roster, report, marked, early>>

\* r holds a question and waits for the session row, t holds the session row
\* and waits for the question.
Deadlocked(t, r) ==
  /\ call[r] \in Revealing /\ call[r].q \notin revealed
  /\ \/ call[t] \in Answering /\ call[t].at = "session" /\ call[t].q = call[r].q
     \/ call[t] \in Publishing /\ call[r].q \in Shown(call[t].q)

\* PostgreSQL's deadlock detector aborts one of the two.
BreakDeadlock(t, r) ==
  /\ Deadlocked(t, r)
  /\ \E victim \in {t, r} : call' = [call EXCEPT ![victim] = Idle]
  /\ UNCHANGED <<session, batch, published, revealed, answer, participant,
                 roster, report, marked, early>>

\* The process or its connection fails.
Abort(t) ==
  /\ call[t] # Idle
  /\ call' = [call EXCEPT ![t] = Idle]
  /\ UNCHANGED <<session, batch, published, revealed, answer, participant,
                 roster, report, marked, early>>

ChangeRoster(s) ==
  /\ roster' = IF s \in roster THEN roster \ {s} ELSE roster \cup {s}
  /\ UNCHANGED <<session, batch, published, revealed, answer, participant,
                 report, call, marked, early>>

-----------------------------------------------------------------------------
Init ==
  /\ \E mode \in Modes :
       session = [status |-> "draft", mode |-> mode, batch |-> None, question |-> None]
  /\ \E first \in Batches :
       batch = [b \in Batches |-> [state |-> IF b = first THEN "new" ELSE "absent",
                                   timer |-> "off"]]
  /\ published = {} /\ revealed = {}
  /\ answer = [x \in Questions \X Students |-> None]
  /\ participant = [s \in Students |-> NoRow]
  /\ roster = Students
  /\ report = None
  /\ call = [t \in Calls |-> Idle]
  /\ marked = [s \in Students |-> None]
  /\ early = {}

\* The steps of a request that is under way.
Advance(t) ==
  \/ FinishPublish(t) \/ FinishReveal(t) \/ FinishJoin(t)
  \/ InsertParticipant(t) \/ FinishInsert(t)
  \/ CheckAnswer(t) \/ StoreAnswer(t) \/ LockEnd(t) \/ FinishEnd(t) \/ Refuse(t)

Next ==
  \/ StartSession \/ ConfigureCompetition \/ EndCompetition
  \/ \E b \in Batches : AppendBatch(b) \/ EndBatch(b) \/ Expire(b)
  \/ \E s \in Students, status \in Marks : SetAttendance(s, status)
  \/ \E t \in Calls :
       \/ \E q \in Questions : BeginPublish(t, q) \/ BeginReveal(t, q)
       \/ \E s \in Students : BeginJoin(t, s)
       \/ \E q \in Questions, s \in Students, o \in Options : BeginAnswer(t, q, s, o)
       \/ BeginEnd(t) \/ Advance(t) \/ Abort(t)
  \/ \E t, r \in Calls : BreakDeadlock(t, r)
  \/ \E s \in Movers : ChangeRoster(s)

Spec == Init /\ [][Next]_vars

\* PostgreSQL queues the requests for a row, so none of them is passed over for
\* ever, and runs its detector; nobody is obliged to start a request.
Fairness ==
  /\ \A t \in Calls : SF_vars(Advance(t))
  /\ WF_vars(\E t, r \in Calls : BreakDeadlock(t, r))

FairSpec == Spec /\ Fairness

-----------------------------------------------------------------------------
\* Types, and the CHECK that only what was published is revealed.
TypeOK ==
  /\ session \in [status : {"draft", "live", "ended"}, mode : Modes,
                  batch : Batches \cup {None}, question : Questions \cup {None}]
  /\ batch \in [Batches -> [state : {"absent", "new", "started", "ended"}, timer : Timer]]
  /\ published \subseteq Questions /\ revealed \subseteq published
  /\ answer \in [Questions \X Students -> Options \cup {None}]
  /\ participant \in Participants
  /\ roster \subseteq Students
  /\ call \in [Calls -> CallStates]
  /\ marked \in [Students -> Marks \cup {None}] /\ early \subseteq Students

\* An answer is written or changed only while its question is in front of the
\* class: in a live session, published, not revealed, in a batch that has not
\* ended, and by a student who joined (UpsertAnswer against RevealQuestion,
\* EndBatch and FinalizeSession on other connections).
AnswersStop ==
  [][\A q \in Questions, s \in Students :
       answer'[<<q, s>>] # answer[<<q, s>>] =>
         /\ Live /\ q \in published \ revealed
         /\ batch[BatchOf[q]].state = "started"
         /\ participant[s].joined]_vars

\* What the session points at is on show: the active batch is started and not
\* ended, the active question is published and belongs to it (PublishQuestion,
\* EndBatch and FinalizeSession each write several rows).
ActiveIsOpen ==
  session.batch # None =>
    /\ Live /\ batch[session.batch].state = "started"
    /\ session.question \in published /\ BatchOf[session.question] = session.batch

\* The report that the end of the session froze holds every answer there is,
\* whatever was in flight at the end.
ReportIsFinal == report # None => report.answer = answer

\* A student of the class whose answers the report counts is one it counts as
\* joined: the two come from different statements of FinalizeSession.
ReportAddsUp ==
  report # None =>
    \A q \in Questions, s \in report.roster :
      report.answer[<<q, s>>] # None => s \in report.joined

\* The end of a session leaves one consistent account of it: nothing is still on
\* show, and the report is complete and adds up.
RecordIsConsistent == TypeOK /\ ActiveIsOpen /\ ReportIsFinal /\ ReportAddsUp

\* What a teacher set by hand is not undone by a student who joins again.
OverrideStands ==
  \A s \in Students : marked[s] # None => participant[s].status = marked[s]

\* Every request that holds row locks ends, although RevealQuestion locks the
\* question before the session and all others the session before the question.
CallsEnd == \A t \in Calls : call[t] # Idle ~> call[t] = Idle

\* A student who joined before the first published question is present unless
\* the teacher says otherwise (docs/domains/realtime/
\* SMART_CLASSROOM_PARITY_CERTIFICATION.md:28).
EarlyIsPresent ==
  \A s \in early : ~participant[s].overridden => participant[s].status = "present"

=============================================================================
