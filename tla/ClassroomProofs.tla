--------------------------- MODULE ClassroomProofs ---------------------------
(* One classroom session, for any number of students, questions, batches and  *)
(* concurrent requests: answers are written only while their question is on   *)
(* show, the record of the session is consistent, and what a teacher set      *)
(* stands.                                                                    *)
EXTENDS Classroom, TLAPS

-----------------------------------------------------------------------------
(* The inductive invariant: what each request under way relies on, and that    *)
(* the row locks keep apart those that could disturb it.                       *)

\* The rows a request has locked, from its state alone.
LocksSession(c) ==
  c.op \in {"answer", "publish"} \/ (c.op = "end" /\ c.at = "session")
LocksQuestion(c, q) ==
  (c.op = "reveal" \/ (c.op = "answer" /\ c.at = "question")) /\ c.q = q
LocksParticipant(c, s) == c.op = "insert" /\ c.s = s

\* No other request has what c has locked.
Alone(t, c) ==
  \A r \in Calls \ {t} :
    /\ ~(LocksSession(c) /\ LocksSession(call[r]))
    /\ \A q \in Questions : ~(LocksQuestion(c, q) /\ LocksQuestion(call[r], q))
    /\ \A s \in Students : ~(LocksParticipant(c, s) /\ LocksParticipant(call[r], s))

\* What c has seen is still true.
StillTrue(c) ==
  /\ LocksSession(c) => Live
  /\ c.op = "reveal" => c.q \in published
  /\ c.op = "insert" => participant[c.s] = NoRow
  /\ c.op = "answer" /\ c.at = "question" =>
       /\ c.q \in published \ revealed
       /\ batch[BatchOf[c.q]].state = "started"
       /\ participant[c.s].joined
  /\ c.op = "end" /\ c.at = "session" =>
       \A q \in Questions, s \in Students : answer[<<q, s>>] # None => c.seen[s].joined

CallsFit == \A t \in Calls : Alone(t, call[t]) /\ StillTrue(call[t])

QuestionHasBatch == session.question # None => session.batch # None
ReportEnds == report # None => session.status = "ended"
AnswersAreOfJoined ==
  \A q \in Questions, s \in Students : answer[<<q, s>>] # None => participant[s].joined
MarksOverride == \A s \in Students : marked[s] # None => participant[s].overridden

ClassroomInv ==
  /\ RecordIsConsistent /\ OverrideStands
  /\ QuestionHasBatch /\ ReportEnds /\ AnswersAreOfJoined /\ MarksOverride /\ CallsFit

-----------------------------------------------------------------------------
(* The forms of a request. *)

LEMMA CallForms ==
  ASSUME NEW c \in CallStates
  PROVE  /\ c \in Answering <=> c.op = "answer"
         /\ c \in Publishing <=> c.op = "publish"
         /\ c \in Revealing <=> c.op = "reveal"
         /\ c \in Joining <=> c.op = "join"
         /\ c \in Inserting <=> c.op = "insert"
         /\ c \in Ending <=> c.op = "end"
         /\ c = Idle <=> c.op = "none"
BY DEF CallStates, Answering, Publishing, Revealing, Joining, Inserting, Ending, Idle

LEMMA CallFields ==
  ASSUME NEW c \in CallStates
  PROVE  /\ c.op = "answer" => c.q \in Questions /\ c.s \in Students /\ c.o \in Options
         /\ c.op = "publish" => c.q \in Questions
         /\ c.op = "reveal" => c.q \in Questions
         /\ c.op = "join" => c.s \in Students
         /\ c.op = "insert" => c.s \in Students /\ c.status \in Attendance
         /\ c.op = "end" => c.roster \subseteq Students
         /\ c.op = "end" /\ c.at = "session" => c.seen \in Participants
BY CallForms DEF Answering, Publishing, Revealing, Joining, Inserting, Ending, Attendance

\* The guards of the actions speak of the same locks.
LEMMA SameLocks ==
  ASSUME TypeOK, NEW t \in Calls
  PROVE  /\ HoldsSession(t) <=> LocksSession(call[t])
         /\ \A q \in Questions : HoldsQuestion(t, q) <=> LocksQuestion(call[t], q)
BY CallForms DEF TypeOK, HoldsSession, LocksSession, HoldsQuestion, LocksQuestion

-----------------------------------------------------------------------------
(* A step that only moves one request on. *)

OnlyCall(t, c) ==
  /\ call' = [call EXCEPT ![t] = c]
  /\ UNCHANGED <<session, batch, published, revealed, answer, participant, roster,
                 report, marked, early>>

LEMMA CallStep ==
  ASSUME ClassroomInv, NEW t \in Calls, NEW c \in CallStates, OnlyCall(t, c),
         Alone(t, c), StillTrue(c)
  PROVE  ClassroomInv'
<1>1. /\ call' \in [Calls -> CallStates] /\ call'[t] = c
      /\ \A r \in Calls \ {t} : call'[r] = call[r]
  BY DEF OnlyCall, ClassroomInv, RecordIsConsistent, TypeOK
<1>2. RecordIsConsistent' /\ OverrideStands'
  BY <1>1 DEF OnlyCall, ClassroomInv, RecordIsConsistent, TypeOK, ActiveIsOpen, Live,
              ReportIsFinal, ReportAddsUp, OverrideStands
<1>3. QuestionHasBatch' /\ ReportEnds' /\ AnswersAreOfJoined' /\ MarksOverride'
  BY DEF OnlyCall, ClassroomInv, QuestionHasBatch, ReportEnds, AnswersAreOfJoined,
         MarksOverride
<1>4. ASSUME NEW r \in Calls PROVE Alone(r, call[r])' /\ StillTrue(call[r])'
  <2>1. StillTrue(call'[r]) => StillTrue(call[r])'
    BY DEF OnlyCall, StillTrue, LocksSession, Live
  <2>2. CASE r = t
    <3>1. Alone(t, call[t])'
      BY <1>1 DEF Alone
    <3> QED BY <1>1, <2>1, <2>2, <3>1
  <2>3. CASE r # t
    <3>1. Alone(r, call[r]) /\ StillTrue(call[r]) /\ call'[r] = call[r]
      BY <1>1, <2>3 DEF ClassroomInv, CallsFit
    <3>2. Alone(r, call[r])'
      BY <1>1, <2>3, <3>1 DEF Alone
    <3> QED BY <2>1, <3>1, <3>2
  <2> QED BY <2>2, <2>3
<1> QED BY <1>2, <1>3, <1>4 DEF ClassroomInv, CallsFit

\* An idle request has locked nothing and relies on nothing.
LEMMA IdleFits ==
  ASSUME NEW t
  PROVE  Alone(t, Idle) /\ StillTrue(Idle) /\ Idle \in CallStates
BY DEF Alone, StillTrue, Idle, LocksSession, LocksQuestion, LocksParticipant, CallStates

LEMMA BeginPublishStep ==
  ASSUME ClassroomInv, NEW t \in Calls, NEW q \in Questions, BeginPublish(t, q)
  PROVE  ClassroomInv'
<1> DEFINE c == [op |-> "publish", q |-> q]
<1>1. TypeOK /\ OnlyCall(t, c) /\ Live /\ SessionFree
  BY DEF BeginPublish, OnlyCall, ClassroomInv, RecordIsConsistent
<1>2. c \in CallStates /\ c.op = "publish"
  BY DEF CallStates, Publishing
<1>3. Alone(t, c)
  BY <1>1, SameLocks DEF Alone, SessionFree, LocksQuestion, LocksParticipant
<1>4. StillTrue(c)
  BY <1>1 DEF StillTrue
<1> QED BY <1>1, <1>2, <1>3, <1>4, CallStep

LEMMA BeginRevealStep ==
  ASSUME ClassroomInv, NEW t \in Calls, NEW q \in Questions, BeginReveal(t, q)
  PROVE  ClassroomInv'
<1> DEFINE c == [op |-> "reveal", q |-> q]
<1>1. TypeOK /\ OnlyCall(t, c) /\ q \in published /\ QuestionFree(q)
  BY DEF BeginReveal, OnlyCall, ClassroomInv, RecordIsConsistent
<1>2. c \in CallStates
  BY DEF CallStates, Revealing
<1>3. Alone(t, c)
  BY <1>1, SameLocks DEF Alone, QuestionFree, LocksSession, LocksQuestion, LocksParticipant
<1>4. StillTrue(c)
  BY <1>1 DEF StillTrue, LocksSession
<1> QED BY <1>1, <1>2, <1>3, <1>4, CallStep

LEMMA BeginJoinStep ==
  ASSUME ClassroomInv, NEW t \in Calls, NEW s \in Students, BeginJoin(t, s)
  PROVE  ClassroomInv'
<1> DEFINE c == [op |-> "join", s |-> s]
<1>1. OnlyCall(t, c)
  BY DEF BeginJoin, OnlyCall
<1>2. c \in CallStates
  BY DEF CallStates, Joining
<1>3. Alone(t, c) /\ StillTrue(c)
  BY DEF Alone, StillTrue, LocksSession, LocksQuestion, LocksParticipant
<1> QED BY <1>1, <1>2, <1>3, CallStep

LEMMA InsertParticipantStep ==
  ASSUME ClassroomInv, NEW t \in Calls, InsertParticipant(t)
  PROVE  ClassroomInv'
<1> DEFINE s == call[t].s
           c == [op |-> "insert", s |-> s, status |-> Arrival]
<1>1. /\ TypeOK /\ OnlyCall(t, c) /\ participant[s] = NoRow
      /\ \A r \in Calls : ~(call[r] \in Inserting /\ call[r].s = s)
      /\ call[t] \in Joining
  BY DEF InsertParticipant, OnlyCall, ClassroomInv, RecordIsConsistent
<1>2. c \in CallStates
  BY <1>1 DEF CallStates, Inserting, Joining, Arrival
<1>3. Alone(t, c)
  <2>1. \A r \in Calls : ~LocksParticipant(call[r], s)
    BY <1>1, CallForms DEF TypeOK, LocksParticipant
  <2> QED BY <2>1 DEF Alone, LocksSession, LocksQuestion, LocksParticipant
<1>4. StillTrue(c)
  BY <1>1 DEF StillTrue, LocksSession
<1> QED BY <1>1, <1>2, <1>3, <1>4, CallStep

LEMMA BeginAnswerStep ==
  ASSUME ClassroomInv, NEW t \in Calls, NEW q \in Questions, NEW s \in Students,
         NEW o \in Options, BeginAnswer(t, q, s, o)
  PROVE  ClassroomInv'
<1> DEFINE c == [op |-> "answer", at |-> "session", q |-> q, s |-> s, o |-> o]
<1>1. TypeOK /\ OnlyCall(t, c) /\ Live /\ SessionFree
  BY DEF BeginAnswer, OnlyCall, ClassroomInv, RecordIsConsistent
<1>2. c \in CallStates
  BY DEF CallStates, Answering
<1>3. Alone(t, c)
  BY <1>1, SameLocks DEF Alone, SessionFree, LocksQuestion, LocksParticipant
<1>4. StillTrue(c)
  BY <1>1 DEF StillTrue
<1> QED BY <1>1, <1>2, <1>3, <1>4, CallStep

\* The question an answer has locked is on show: its batch is the active one, and
\* the active batch is started and not ended.
LEMMA CheckAnswerStep ==
  ASSUME ClassroomInv, NEW t \in Calls, CheckAnswer(t)
  PROVE  ClassroomInv'
<1> DEFINE q == call[t].q
           s == call[t].s
           c == [call[t] EXCEPT !.at = "question"]
<1>1. /\ TypeOK /\ call[t] \in Answering /\ call[t].at = "session"
      /\ QuestionFree(q) /\ Accepts(q, s)
  BY DEF CheckAnswer, ClassroomInv, RecordIsConsistent
<1>2. OnlyCall(t, c)
  BY <1>1 DEF CheckAnswer, OnlyCall, TypeOK
<1>3. /\ c \in Answering /\ c \in CallStates /\ call[t].op = "answer"
      /\ c.op = "answer" /\ c.at = "question" /\ c.q = q /\ c.s = s /\ q \in Questions
  BY <1>1 DEF Answering, CallStates
<1>4. Alone(t, c)
  <2>1. \A r \in Calls \ {t} : ~LocksSession(call[r])
    BY <1>3 DEF ClassroomInv, CallsFit, Alone, LocksSession
  <2>2. \A r \in Calls : ~LocksQuestion(call[r], q)
    BY <1>1, <1>3, SameLocks DEF QuestionFree
  <2> QED BY <1>3, <2>1, <2>2 DEF Alone, LocksQuestion, LocksParticipant
<1>5. StillTrue(c)
  <2>1. Live
    BY <1>3 DEF ClassroomInv, CallsFit, StillTrue, LocksSession
  <2>2. session.batch # None /\ batch[BatchOf[q]].state = "started"
    <3>1. CASE session.mode = "single"
      BY <1>1, <1>3, <3>1, ClassroomAssumption
         DEF Accepts, Current, ClassroomInv, QuestionHasBatch, RecordIsConsistent, ActiveIsOpen
    <3>2. CASE session.mode # "single"
      BY <1>1, <1>3, <3>2, ClassroomAssumption
         DEF Accepts, Current, ClassroomInv, RecordIsConsistent, ActiveIsOpen
    <3> QED BY <3>1, <3>2
  <2> QED BY <1>1, <1>3, <2>1, <2>2 DEF StillTrue, Accepts
<1> QED BY <1>2, <1>3, <1>4, <1>5, CallStep

LEMMA BeginEndStep ==
  ASSUME ClassroomInv, NEW t \in Calls, BeginEnd(t)
  PROVE  ClassroomInv'
<1> DEFINE c == [op |-> "end", at |-> "roster", roster |-> roster]
<1>1. TypeOK /\ OnlyCall(t, c)
  BY DEF BeginEnd, OnlyCall, ClassroomInv, RecordIsConsistent
<1>2. c \in CallStates
  BY <1>1 DEF CallStates, Ending, TypeOK
<1>3. Alone(t, c) /\ StillTrue(c)
  BY DEF Alone, StillTrue, LocksSession, LocksQuestion, LocksParticipant
<1> QED BY <1>1, <1>2, <1>3, CallStep

\* From the lock on, no answer is added to those of students who have joined.
LEMMA LockEndStep ==
  ASSUME ClassroomInv, NEW t \in Calls, LockEnd(t)
  PROVE  ClassroomInv'
<1> DEFINE c == [op |-> "end", at |-> "session", roster |-> call[t].roster,
                 seen |-> participant]
<1>1. TypeOK /\ OnlyCall(t, c) /\ call[t] \in Ending /\ SessionFree /\ Live
  BY DEF LockEnd, OnlyCall, ClassroomInv, RecordIsConsistent
<1>2. c \in CallStates
  BY <1>1 DEF CallStates, Ending, TypeOK
<1>3. Alone(t, c)
  BY <1>1, SameLocks DEF Alone, SessionFree, LocksQuestion, LocksParticipant
<1>4. StillTrue(c)
  BY <1>1 DEF StillTrue, ClassroomInv, AnswersAreOfJoined
<1> QED BY <1>1, <1>2, <1>3, <1>4, CallStep

LEMMA ReleaseStep ==
  ASSUME ClassroomInv, NEW t \in Calls, OnlyCall(t, Idle)
  PROVE  ClassroomInv'
BY IdleFits, CallStep

LEMMA CallSteps ==
  ASSUME ClassroomInv, NEW t \in Calls,
         Refuse(t) \/ Abort(t) \/ \E r \in Calls : BreakDeadlock(t, r)
  PROVE  ClassroomInv'
BY ReleaseStep DEF Refuse, Abort, BreakDeadlock, OnlyCall

-----------------------------------------------------------------------------
(* A step that changes the state, and at most ends its own request. *)

EndsAtMost ==
  /\ call' \in [Calls -> CallStates]
  /\ \A r \in Calls : call'[r] = call[r] \/ call'[r] = Idle

\* What the requests that remain have seen stays true.
OthersSeeNoChange ==
  \A r \in Calls :
    call'[r] = call[r] /\ Alone(r, call[r]) /\ StillTrue(call[r]) => StillTrue(call[r])'

LEMMA OthersFit ==
  ASSUME CallsFit, EndsAtMost, OthersSeeNoChange
  PROVE  CallsFit'
<1> SUFFICES ASSUME NEW r \in Calls PROVE Alone(r, call[r])' /\ StillTrue(call[r])'
  BY DEF CallsFit
<1>1. Alone(r, call[r])'
  <2>1. \A u \in Calls : \A q, s :
          /\ LocksSession(call'[u]) => LocksSession(call[u])
          /\ LocksQuestion(call'[u], q) => LocksQuestion(call[u], q)
          /\ LocksParticipant(call'[u], s) => LocksParticipant(call[u], s)
    BY DEF EndsAtMost, LocksSession, LocksQuestion, LocksParticipant, Idle
  <2> QED BY <2>1 DEF CallsFit, Alone
<1>2. StillTrue(call[r])'
  <2>1. CASE call'[r] = call[r]
    BY <2>1 DEF CallsFit, OthersSeeNoChange
  <2>2. CASE call'[r] = Idle
    BY <2>2 DEF StillTrue, Idle, LocksSession
  <2> QED BY <2>1, <2>2 DEF EndsAtMost
<1> QED BY <1>1, <1>2

LEMMA StartSessionStep ==
  ASSUME ClassroomInv, StartSession
  PROVE  ClassroomInv'
<1>1. /\ TypeOK /\ CallsFit /\ session.status = "draft"
      /\ session' = [session EXCEPT !.status = "live"]
      /\ UNCHANGED <<batch, published, revealed, answer, participant, roster, report, call,
                     marked, early>>
  BY DEF StartSession, ClassroomInv, RecordIsConsistent
<1>2. /\ session'.status = "live" /\ session'.mode = session.mode
      /\ session'.batch = session.batch /\ session'.question = session.question
  BY <1>1 DEF TypeOK
<1>3. RecordIsConsistent'
  BY <1>1, <1>2 DEF ClassroomInv, RecordIsConsistent, TypeOK, ActiveIsOpen, ReportIsFinal,
                    ReportAddsUp, Live, ReportEnds
<1>4. CallsFit'
  <2>1. EndsAtMost
    BY <1>1 DEF EndsAtMost, TypeOK
  <2>2. OthersSeeNoChange
    BY <1>1, <1>2 DEF OthersSeeNoChange, StillTrue, Live
  <2> QED BY <1>1, <2>1, <2>2, OthersFit
<1> QED BY <1>1, <1>2, <1>3, <1>4
     DEF ClassroomInv, OverrideStands, QuestionHasBatch, ReportEnds, AnswersAreOfJoined,
         MarksOverride

BatchRows == [state : {"absent", "new", "started", "ended"}, timer : Timer]

\* Appending, timing and expiring change a batch that is not the started one, or
\* nothing that decides whether it is.
LEMMA BatchStep ==
  ASSUME ClassroomInv,
         \/ \E b \in Batches : AppendBatch(b) \/ Expire(b)
         \/ ConfigureCompetition \/ EndCompetition
  PROVE  ClassroomInv'
<1>1. TypeOK /\ CallsFit
  BY DEF ClassroomInv, RecordIsConsistent
<1>2. UNCHANGED <<session, published, revealed, answer, participant, roster, report, call,
                  marked, early>>
  BY DEF AppendBatch, Expire, ConfigureCompetition, EndCompetition
<1>3. /\ batch' \in [Batches -> [state : {"absent", "new", "started", "ended"}, timer : Timer]]
      /\ \A b \in Batches : batch[b].state = "started" => batch'[b].state = "started"
  <2>1. PICK b \in Batches, row \in BatchRows :
          /\ batch' = [batch EXCEPT ![b] = row]
          /\ row.state = batch[b].state \/ batch[b].state = "absent"
    <3>1. \A b \in Batches : batch[b] \in BatchRows
      BY <1>1 DEF TypeOK, BatchRows
    <3>2. ASSUME NEW b \in Batches, AppendBatch(b)
          PROVE  /\ batch' = [batch EXCEPT ![b] = [batch[b] EXCEPT !.state = "new"]]
                 /\ [batch[b] EXCEPT !.state = "new"] \in BatchRows
                 /\ batch[b].state = "absent"
      BY <1>1, <3>1, <3>2 DEF AppendBatch, TypeOK, BatchRows
    <3>3. ASSUME NEW b \in Batches, NEW timer \in Timer,
                 batch' = [batch EXCEPT ![b].timer = timer]
          PROVE  \E row \in BatchRows : /\ batch' = [batch EXCEPT ![b] = row]
                                        /\ row.state = batch[b].state
      <4>1. [batch[b] EXCEPT !.timer = timer] \in BatchRows
            /\ [batch[b] EXCEPT !.timer = timer].state = batch[b].state
        BY <3>1, <3>3 DEF BatchRows
      <4> QED BY <1>1, <3>3, <4>1 DEF TypeOK
    <3>4. session.batch # None => session.batch \in Batches
      BY <1>1 DEF TypeOK
    <3>5. CASE \E b \in Batches : AppendBatch(b)
      BY <3>2, <3>5
    <3>6. CASE \E b \in Batches : Expire(b)
      BY <3>3, <3>6 DEF Expire, Timer
    <3>7. CASE ConfigureCompetition \/ EndCompetition
      BY <3>3, <3>4, <3>7 DEF ConfigureCompetition, EndCompetition, Timer
    <3> QED BY <3>5, <3>6, <3>7
  <2> QED BY <1>1, <2>1 DEF TypeOK, BatchRows
<1>4. RecordIsConsistent'
  BY <1>1, <1>2, <1>3 DEF ClassroomInv, RecordIsConsistent, TypeOK, ActiveIsOpen,
                          ReportIsFinal, ReportAddsUp, Live
<1>5. CallsFit'
  <2>1. EndsAtMost
    BY <1>1, <1>2 DEF EndsAtMost, TypeOK
  <2>2. OthersSeeNoChange
    <3> SUFFICES ASSUME NEW r \in Calls, StillTrue(call[r]) PROVE StillTrue(call[r])'
      BY <1>2 DEF OthersSeeNoChange
    <3>1. call[r].op = "answer" => BatchOf[call[r].q] \in Batches
      BY <1>1, CallFields, ClassroomAssumption DEF TypeOK
    <3> QED BY <1>2, <1>3, <3>1 DEF StillTrue, Live
  <2> QED BY <1>1, <2>1, <2>2, OthersFit
<1> QED BY <1>2, <1>4, <1>5
     DEF ClassroomInv, OverrideStands, QuestionHasBatch, ReportEnds, AnswersAreOfJoined,
         MarksOverride

\* Only the request that ends in this step changes.
LEMMA EndsOne ==
  ASSUME TypeOK, NEW t \in Calls, call' = [call EXCEPT ![t] = Idle], call[t] # Idle
  PROVE  /\ EndsAtMost
         /\ \A r \in Calls : call'[r] = call[r] => r # t
BY IdleFits DEF TypeOK, EndsAtMost

LEMMA FinishPublishStep ==
  ASSUME ClassroomInv, NEW t \in Calls, FinishPublish(t)
  PROVE  ClassroomInv'
<1> DEFINE q == call[t].q
           b == BatchOf[q]
<1>1. /\ TypeOK /\ CallsFit /\ call[t] \in Publishing /\ Open(b)
      /\ batch' = [batch EXCEPT ![b].state = "started"]
      /\ published' = published \cup Shown(q)
      /\ session' = [session EXCEPT !.batch = b, !.question = q]
      /\ call' = [call EXCEPT ![t] = Idle]
      /\ UNCHANGED <<revealed, answer, participant, roster, report, marked, early>>
  BY DEF FinishPublish, ClassroomInv, RecordIsConsistent
<1>2. call[t].op = "publish" /\ call[t] # Idle /\ q \in Questions /\ b \in Batches
  BY <1>1, ClassroomAssumption DEF Publishing, Idle
<1>3. LocksSession(call[t]) /\ Live
  BY <1>1, <1>2 DEF CallsFit, StillTrue, LocksSession
<1>4. Shown(q) \subseteq Questions /\ q \in Shown(q)
  BY <1>2 DEF Shown
<1>5. /\ session'.status = session.status /\ session'.mode = session.mode
      /\ session'.batch = b /\ session'.question = q
  BY <1>1 DEF TypeOK
<1>6. EndsAtMost /\ \A r \in Calls : call'[r] = call[r] => r # t
  BY <1>1, <1>2, EndsOne
<1>7. batch' \in [Batches -> BatchRows] /\ batch'[b].state = "started"
  <2>1. [batch[b] EXCEPT !.state = "started"] \in BatchRows
        /\ [batch[b] EXCEPT !.state = "started"].state = "started"
    BY <1>1, <1>2 DEF TypeOK, BatchRows
  <2>2. batch' = [batch EXCEPT ![b] = [batch[b] EXCEPT !.state = "started"]]
    BY <1>1, <1>2 DEF TypeOK
  <2> QED BY <1>1, <1>2, <2>1, <2>2 DEF TypeOK, BatchRows
<1> HIDE DEF q, b
<1>8. TypeOK'
  <2>1. session' \in [status : {"draft", "live", "ended"}, mode : Modes,
                      batch : Batches \cup {None}, question : Questions \cup {None}]
    BY <1>1, <1>2 DEF TypeOK
  <2> QED BY <1>1, <1>4, <1>6, <1>7, <2>1 DEF TypeOK, BatchRows, EndsAtMost
<1>9. RecordIsConsistent'
  BY <1>1, <1>3, <1>4, <1>5, <1>7, <1>8
     DEF ClassroomInv, RecordIsConsistent, ActiveIsOpen, ReportIsFinal, ReportAddsUp, Live, q, b
<1>10. CallsFit'
  <2>1. OthersSeeNoChange
    <3> SUFFICES ASSUME NEW r \in Calls, r # t, call'[r] = call[r], StillTrue(call[r])
                 PROVE  StillTrue(call[r])'
      BY <1>6 DEF OthersSeeNoChange
    <3>1. ~LocksSession(call[r])
      BY <1>1, <1>3 DEF CallsFit, Alone
    <3> QED BY <1>1, <3>1 DEF StillTrue, LocksSession
  <2> QED BY <1>1, <1>6, <2>1, OthersFit
<1>11. b # None
  BY <1>2, ClassroomAssumption
<1> QED BY <1>1, <1>5, <1>9, <1>10, <1>11
     DEF ClassroomInv, OverrideStands, QuestionHasBatch, ReportEnds, AnswersAreOfJoined,
         MarksOverride

\* A reveal has locked its question, so no answer to it has been checked.
LEMMA FinishRevealStep ==
  ASSUME ClassroomInv, NEW t \in Calls, FinishReveal(t)
  PROVE  ClassroomInv'
<1> DEFINE q == call[t].q
<1>1. /\ TypeOK /\ CallsFit /\ call[t] \in Revealing
      /\ revealed' = revealed \cup {q}
      /\ call' = [call EXCEPT ![t] = Idle]
      /\ UNCHANGED <<session, batch, published, answer, participant, roster, report,
                     marked, early>>
  BY DEF FinishReveal, ClassroomInv, RecordIsConsistent
<1>2. call[t].op = "reveal" /\ call[t] # Idle /\ q \in Questions
  BY <1>1 DEF Revealing, Idle
<1>3. LocksQuestion(call[t], q) /\ q \in published
  BY <1>1, <1>2 DEF CallsFit, StillTrue, LocksQuestion
<1>4. EndsAtMost /\ \A r \in Calls : call'[r] = call[r] => r # t
  BY <1>1, <1>2, EndsOne
<1>5. RecordIsConsistent'
  BY <1>1, <1>3, <1>4 DEF ClassroomInv, RecordIsConsistent, TypeOK, EndsAtMost, ActiveIsOpen,
                          ReportIsFinal, ReportAddsUp, Live
<1>6. CallsFit'
  <2>1. OthersSeeNoChange
    <3> SUFFICES ASSUME NEW r \in Calls, r # t, call'[r] = call[r], StillTrue(call[r])
                 PROVE  StillTrue(call[r])'
      BY <1>4 DEF OthersSeeNoChange
    <3>1. ~LocksQuestion(call[r], q)
      BY <1>1, <1>2, <1>3 DEF CallsFit, Alone
    <3> QED BY <1>1, <3>1 DEF StillTrue, LocksQuestion, Live
  <2> QED BY <1>1, <1>4, <2>1, OthersFit
<1> QED BY <1>1, <1>5, <1>6
     DEF ClassroomInv, OverrideStands, QuestionHasBatch, ReportEnds, AnswersAreOfJoined,
         MarksOverride

\* The end of a batch waits for the session row, so no answer has been checked.
LEMMA EndBatchStep ==
  ASSUME ClassroomInv, NEW b \in Batches, EndBatch(b)
  PROVE  ClassroomInv'
<1>1. /\ TypeOK /\ CallsFit /\ SessionFree
      /\ batch' = [batch EXCEPT ![b].state = "ended"]
      /\ session' = IF session.batch = b
                    THEN [session EXCEPT !.batch = None, !.question = None] ELSE session
      /\ UNCHANGED <<published, revealed, answer, participant, roster, report, call,
                     marked, early>>
  BY DEF EndBatch, ClassroomInv, RecordIsConsistent
<1>2. /\ session' \in [status : {"draft", "live", "ended"}, mode : Modes,
                        batch : Batches \cup {None}, question : Questions \cup {None}]
      /\ session'.status = session.status
      /\ \/ session'.batch = None /\ session'.question = None
         \/ /\ session'.batch = session.batch /\ session'.question = session.question
            /\ session.batch # b
  BY <1>1 DEF TypeOK
<1>3. /\ batch' \in [Batches -> BatchRows]
      /\ \A a \in Batches \ {b} : batch'[a] = batch[a]
  <2>1. [batch[b] EXCEPT !.state = "ended"] \in BatchRows
    BY <1>1 DEF TypeOK, BatchRows
  <2>2. batch' = [batch EXCEPT ![b] = [batch[b] EXCEPT !.state = "ended"]]
    BY <1>1 DEF TypeOK
  <2> QED BY <1>1, <2>1, <2>2 DEF TypeOK, BatchRows
<1>4. TypeOK'
  BY <1>1, <1>2, <1>3 DEF TypeOK, BatchRows
<1>5. ActiveIsOpen'
  <2>1. session.batch # None => session.batch \in Batches
    BY <1>1 DEF TypeOK
  <2> QED BY <1>1, <1>2, <1>3, <2>1
          DEF ClassroomInv, RecordIsConsistent, ActiveIsOpen, Live
<1>6. ReportIsFinal' /\ ReportAddsUp'
  BY <1>1 DEF ClassroomInv, RecordIsConsistent, ReportIsFinal, ReportAddsUp
<1>7. CallsFit'
  <2>1. EndsAtMost
    BY <1>1 DEF EndsAtMost, TypeOK
  <2>2. OthersSeeNoChange
    <3> SUFFICES ASSUME NEW r \in Calls, StillTrue(call[r]) PROVE StillTrue(call[r])'
      BY <1>1 DEF OthersSeeNoChange
    <3>1. ~LocksSession(call[r])
      BY <1>1, SameLocks DEF SessionFree
    <3> QED BY <1>1, <3>1 DEF StillTrue, LocksSession
  <2> QED BY <1>1, <2>1, <2>2, OthersFit
<1> QED BY <1>1, <1>2, <1>4, <1>5, <1>6, <1>7
     DEF ClassroomInv, RecordIsConsistent, OverrideStands, QuestionHasBatch, ReportEnds,
         AnswersAreOfJoined, MarksOverride

-----------------------------------------------------------------------------
(* Steps that write one participant. *)

Rows == [joined : BOOLEAN, status : Attendance, overridden : BOOLEAN]

\* Whoever writes a participant leaves one who joined joined, and keeps the mark
\* of a teacher; no insert of the row is under way.
LEMMA ParticipantStep ==
  ASSUME ClassroomInv, NEW s \in Students, NEW row \in Rows, EndsAtMost,
         participant' = [participant EXCEPT ![s] = row],
         participant[s].joined => row.joined,
         marked' \in [Students -> Marks \cup {None}],
         \A u \in Students \ {s} : marked'[u] = marked[u],
         marked'[s] # None => row.overridden /\ row.status = marked'[s],
         \A r \in Calls : call'[r] = call[r] => ~LocksParticipant(call[r], s),
         early' \subseteq Students,
         UNCHANGED <<session, batch, published, revealed, answer, roster, report>>
  PROVE  ClassroomInv'
<1>1. TypeOK /\ CallsFit
  BY DEF ClassroomInv, RecordIsConsistent
<1>2. /\ participant' \in Participants /\ participant'[s] = row
      /\ \A u \in Students \ {s} : participant'[u] = participant[u]
  BY <1>1 DEF TypeOK, Participants, Rows
<1>3. TypeOK'
  BY <1>1, <1>2 DEF TypeOK, EndsAtMost
<1>4. RecordIsConsistent' /\ OverrideStands' /\ MarksOverride'
  BY <1>2, <1>3 DEF ClassroomInv, RecordIsConsistent, ActiveIsOpen, ReportIsFinal,
                    ReportAddsUp, Live, OverrideStands, MarksOverride
<1>5. QuestionHasBatch' /\ ReportEnds' /\ AnswersAreOfJoined'
  BY <1>2 DEF ClassroomInv, QuestionHasBatch, ReportEnds, AnswersAreOfJoined
<1>6. CallsFit'
  <2>1. OthersSeeNoChange
    <3> SUFFICES ASSUME NEW r \in Calls, call'[r] = call[r], StillTrue(call[r])
                 PROVE  StillTrue(call[r])'
      BY DEF OthersSeeNoChange
    <3>1. call[r] \in CallStates /\ ~LocksParticipant(call[r], s)
      BY <1>1 DEF TypeOK
    <3>2. /\ call[r].op = "insert" => call[r].s \in Students \ {s}
          /\ call[r].op = "answer" => call[r].s \in Students
      BY <3>1, CallFields DEF LocksParticipant
    <3> QED BY <1>2, <3>2 DEF StillTrue, Live
  <2> QED BY <1>1, <2>1, OthersFit
<1> QED BY <1>4, <1>5, <1>6 DEF ClassroomInv

LEMMA SetAttendanceStep ==
  ASSUME ClassroomInv, NEW s \in Students, NEW status \in Marks, SetAttendance(s, status)
  PROVE  ClassroomInv'
<1> DEFINE row == [participant[s] EXCEPT !.status = status, !.overridden = TRUE]
<1>1. /\ TypeOK /\ CallsFit
      /\ participant[s] = NoRow => MayInsert(s)
      /\ participant' = [participant EXCEPT ![s].status = status, ![s].overridden = TRUE]
      /\ marked' = [marked EXCEPT ![s] = status]
      /\ UNCHANGED <<session, batch, published, revealed, answer, roster, report, call, early>>
  BY DEF SetAttendance, ClassroomInv, RecordIsConsistent
<1>2. participant[s] \in Rows /\ status \in Attendance
  BY <1>1, ClassroomAssumption DEF TypeOK, Participants, Rows, Attendance
<1>3. participant' = [participant EXCEPT ![s] = row]
  BY <1>1 DEF TypeOK, Participants
<1>4. row \in Rows /\ row.joined = participant[s].joined /\ row.overridden
      /\ row.status = status
  BY ONLY <1>2 DEF Rows
<1>5. \A r \in Calls : ~LocksParticipant(call[r], s)
  <2>1. CASE participant[s] = NoRow
    BY <1>1, <2>1, CallForms DEF MayInsert, LocksParticipant, TypeOK
  <2>2. CASE participant[s] # NoRow
    BY <1>1, <2>2 DEF CallsFit, StillTrue, LocksParticipant
  <2> QED BY <2>1, <2>2
<1>6. EndsAtMost /\ early' \subseteq Students
  BY <1>1 DEF EndsAtMost, TypeOK
<1>7. /\ marked' \in [Students -> Marks \cup {None}] /\ marked'[s] = status
      /\ \A u \in Students \ {s} : marked'[u] = marked[u]
  BY <1>1 DEF TypeOK
<1> HIDE DEF row
<1> QED BY <1>1, <1>3, <1>4, <1>5, <1>6, <1>7, ParticipantStep

\* A student who joins again is marked as the arrival says, unless a teacher did.
LEMMA FinishJoinStep ==
  ASSUME ClassroomInv, NEW t \in Calls, FinishJoin(t)
  PROVE  ClassroomInv'
<1> DEFINE s == call[t].s
           row == Joined(participant[s])
<1>1. /\ TypeOK /\ CallsFit /\ call[t] \in Joining /\ participant[s] # NoRow
      /\ participant' = [participant EXCEPT ![s] = row]
      /\ early' = IF published = {} THEN early \cup {s} ELSE early
      /\ call' = [call EXCEPT ![t] = Idle]
      /\ UNCHANGED <<session, batch, published, revealed, answer, roster, report, marked>>
  BY DEF FinishJoin, ClassroomInv, RecordIsConsistent
<1>2. s \in Students /\ call[t] # Idle
  BY <1>1 DEF Joining, Idle
<1>3. participant[s] \in Rows
  BY <1>1, <1>2 DEF TypeOK, Participants, Rows
<1>4. row \in Rows /\ row.joined /\ row.overridden = participant[s].overridden
      /\ (participant[s].overridden => row.status = participant[s].status)
  BY <1>3 DEF Joined, Rows, Arrival, Attendance
<1>5. marked'[s] # None => row.overridden /\ row.status = marked'[s]
  BY <1>1, <1>2, <1>4 DEF ClassroomInv, OverrideStands, MarksOverride
<1>6. EndsAtMost /\ early' \subseteq Students
      /\ marked' \in [Students -> Marks \cup {None}]
  BY <1>1, <1>2, EndsOne DEF TypeOK
<1>7. \A r \in Calls : ~LocksParticipant(call[r], s)
  BY <1>1 DEF CallsFit, StillTrue, LocksParticipant
<1> HIDE DEF row, s
<1> QED BY <1>1, <1>2, <1>4, <1>5, <1>6, <1>7, ParticipantStep

\* A row that is inserted is new: no teacher marked it, or the insert would have
\* been a conflict.
LEMMA FinishInsertStep ==
  ASSUME ClassroomInv, NEW t \in Calls, FinishInsert(t)
  PROVE  ClassroomInv'
<1> DEFINE s == call[t].s
           row == [joined |-> TRUE, status |-> call[t].status, overridden |-> FALSE]
<1>1. /\ TypeOK /\ CallsFit /\ call[t] \in Inserting
      /\ participant' = [participant EXCEPT ![s] = row]
      /\ early' = IF call[t].status = "present" THEN early \cup {s} ELSE early
      /\ call' = [call EXCEPT ![t] = Idle]
      /\ UNCHANGED <<session, batch, published, revealed, answer, roster, report, marked>>
  BY DEF FinishInsert, ClassroomInv, RecordIsConsistent
<1>2. s \in Students /\ call[t] # Idle /\ call[t].op = "insert" /\ row \in Rows
  BY <1>1 DEF Inserting, Idle, Rows, Attendance
<1>3. participant[s] = NoRow /\ ~participant[s].joined /\ ~participant[s].overridden
  BY <1>1, <1>2 DEF CallsFit, StillTrue, NoRow
<1>4. marked[s] = None
  BY <1>2, <1>3 DEF ClassroomInv, MarksOverride
<1>5. EndsAtMost /\ early' \subseteq Students
      /\ marked' \in [Students -> Marks \cup {None}]
      /\ \A r \in Calls : call'[r] = call[r] => r # t
  BY <1>1, <1>2, EndsOne DEF TypeOK
<1>6. \A r \in Calls \ {t} : ~LocksParticipant(call[r], s)
  BY <1>1, <1>2 DEF CallsFit, Alone, LocksParticipant
<1> HIDE DEF row, s
<1> QED BY <1>1, <1>2, <1>3, <1>4, <1>5, <1>6, ParticipantStep

-----------------------------------------------------------------------------
(* Answers and the report. *)

LEMMA StoreAnswerStep ==
  ASSUME ClassroomInv, NEW t \in Calls, StoreAnswer(t)
  PROVE  ClassroomInv'
<1> DEFINE q == call[t].q
           s == call[t].s
           o == call[t].o
<1>1. /\ TypeOK /\ CallsFit /\ call[t] \in Answering /\ call[t].at = "question"
      /\ answer' = [answer EXCEPT ![<<q, s>>] = o]
      /\ call' = [call EXCEPT ![t] = Idle]
      /\ UNCHANGED <<session, batch, published, revealed, participant, roster, report,
                     marked, early>>
  BY DEF StoreAnswer, ClassroomInv, RecordIsConsistent
<1>2. /\ q \in Questions /\ s \in Students /\ o \in Options
      /\ call[t].op = "answer" /\ call[t] # Idle
  BY <1>1 DEF Answering, Idle
<1>3. Live /\ participant[s].joined /\ LocksSession(call[t])
  BY <1>1, <1>2 DEF CallsFit, StillTrue, LocksSession
<1>4. report = None
  BY <1>3 DEF ClassroomInv, ReportEnds, Live
<1>5. EndsAtMost /\ \A r \in Calls : call'[r] = call[r] => r # t
  BY <1>1, <1>2, EndsOne
<1>6. /\ answer' \in [Questions \X Students -> Options \cup {None}]
      /\ \A p \in Questions, u \in Students :
           answer'[<<p, u>>] = IF p = q /\ u = s THEN o ELSE answer[<<p, u>>]
  BY <1>1, <1>2 DEF TypeOK
<1> HIDE DEF q, s, o
<1>7. RecordIsConsistent'
  BY <1>1, <1>4, <1>5, <1>6 DEF ClassroomInv, RecordIsConsistent, TypeOK, EndsAtMost,
     ActiveIsOpen, ReportIsFinal, ReportAddsUp, Live
<1>8. AnswersAreOfJoined'
  BY <1>1, <1>3, <1>6 DEF ClassroomInv, AnswersAreOfJoined
<1>9. CallsFit'
  <2>1. OthersSeeNoChange
    <3> SUFFICES ASSUME NEW r \in Calls, r # t, call'[r] = call[r], StillTrue(call[r])
                 PROVE  StillTrue(call[r])'
      BY <1>5 DEF OthersSeeNoChange
    <3>1. ~LocksSession(call[r])
      BY <1>1, <1>3 DEF CallsFit, Alone
    <3> QED BY <1>1, <3>1 DEF StillTrue, LocksSession
  <2> QED BY <1>1, <1>5, <2>1, OthersFit
<1> QED BY <1>1, <1>7, <1>8, <1>9
     DEF ClassroomInv, OverrideStands, QuestionHasBatch, ReportEnds, MarksOverride

\* The report is taken by the request that has the session, so no answer is under
\* way, and those it counts are of students it has seen join.
LEMMA FinishEndStep ==
  ASSUME ClassroomInv, NEW t \in Calls, FinishEnd(t)
  PROVE  ClassroomInv'
<1> DEFINE c == call[t]
<1>1. /\ TypeOK /\ CallsFit /\ c \in Ending /\ c.at = "session"
      /\ report' = Snapshot(c)
      /\ batch' = [b \in Batches |->
                     IF batch[b].state = "started" THEN [batch[b] EXCEPT !.state = "ended"]
                     ELSE batch[b]]
      /\ session' = [session EXCEPT !.status = "ended", !.batch = None, !.question = None]
      /\ call' = [call EXCEPT ![t] = Idle]
      /\ UNCHANGED <<published, revealed, answer, participant, roster, marked, early>>
  BY DEF FinishEnd, ClassroomInv, RecordIsConsistent
<1>2. c.op = "end" /\ c # Idle /\ LocksSession(c) /\ c.roster \subseteq Students
      /\ c.seen \in Participants
  BY <1>1, CallFields DEF Ending, Idle, LocksSession, TypeOK
<1>3. /\ session' \in [status : {"draft", "live", "ended"}, mode : Modes,
                        batch : Batches \cup {None}, question : Questions \cup {None}]
      /\ session'.status = "ended" /\ session'.batch = None /\ session'.question = None
  BY <1>1 DEF TypeOK
<1>4. batch' \in [Batches -> BatchRows]
  <2>1. \A b \in Batches : batch[b] \in BatchRows /\ [batch[b] EXCEPT !.state = "ended"] \in BatchRows
    BY <1>1 DEF TypeOK, BatchRows
  <2> QED BY <1>1, <2>1
<1>5. EndsAtMost /\ \A r \in Calls : call'[r] = call[r] => r # t
  BY <1>1, <1>2, EndsOne
<1>6. TypeOK'
  BY <1>1, <1>3, <1>4, <1>5 DEF TypeOK, BatchRows, EndsAtMost
<1>7. ActiveIsOpen' /\ QuestionHasBatch' /\ ReportEnds'
  BY <1>3 DEF ActiveIsOpen, QuestionHasBatch, ReportEnds
<1>8. ReportIsFinal' /\ ReportAddsUp'
  <2>1. /\ report'.roster = c.roster /\ report'.answer = answer
        /\ report'.joined = {s \in c.roster : c.seen[s].joined}
    BY <1>1 DEF Snapshot
  <2>2. \A q \in Questions, s \in Students : answer[<<q, s>>] # None => c.seen[s].joined
    BY <1>1, <1>2 DEF CallsFit, StillTrue
  <2> QED BY <1>1, <1>2, <2>1, <2>2 DEF ReportIsFinal, ReportAddsUp
<1>9. CallsFit'
  <2>1. OthersSeeNoChange
    <3> SUFFICES ASSUME NEW r \in Calls, r # t, call'[r] = call[r], StillTrue(call[r])
                 PROVE  StillTrue(call[r])'
      BY <1>5 DEF OthersSeeNoChange
    <3>1. ~LocksSession(call[r])
      BY <1>1, <1>2 DEF CallsFit, Alone
    <3> QED BY <1>1, <3>1 DEF StillTrue, LocksSession
  <2> QED BY <1>1, <1>5, <2>1, OthersFit
<1> QED BY <1>1, <1>6, <1>7, <1>8, <1>9
     DEF ClassroomInv, RecordIsConsistent, OverrideStands, AnswersAreOfJoined, MarksOverride

LEMMA ChangeRosterStep ==
  ASSUME ClassroomInv, NEW s \in Movers, ChangeRoster(s)
  PROVE  ClassroomInv'
<1>1. /\ TypeOK /\ CallsFit /\ roster' \subseteq Students
      /\ UNCHANGED <<session, batch, published, revealed, answer, participant, report, call,
                     marked, early>>
  BY ClassroomAssumption DEF ChangeRoster, ClassroomInv, RecordIsConsistent, TypeOK
<1>2. RecordIsConsistent'
  BY <1>1 DEF ClassroomInv, RecordIsConsistent, TypeOK, ActiveIsOpen, ReportIsFinal,
              ReportAddsUp, Live
<1>3. CallsFit'
  BY <1>1 DEF CallsFit, Alone, StillTrue, Live
<1> QED BY <1>1, <1>2, <1>3
     DEF ClassroomInv, OverrideStands, QuestionHasBatch, ReportEnds, AnswersAreOfJoined,
         MarksOverride

-----------------------------------------------------------------------------
LEMMA ClassroomInit == Init => ClassroomInv
<1> SUFFICES ASSUME Init PROVE ClassroomInv
  OBVIOUS
<1>1. PICK mode \in Modes :
        session = [status |-> "draft", mode |-> mode, batch |-> None, question |-> None]
  BY DEF Init
<1>2. PICK first \in Batches :
        batch = [b \in Batches |-> [state |-> IF b = first THEN "new" ELSE "absent",
                                    timer |-> "off"]]
  BY DEF Init
<1>3. TypeOK
  BY <1>1, <1>2, IdleFits DEF Init, TypeOK, NoRow, Participants, Attendance, Timer
<1>4. CallsFit
  BY IdleFits DEF Init, CallsFit
<1> QED BY <1>1, <1>3, <1>4
     DEF Init, ClassroomInv, RecordIsConsistent, ActiveIsOpen, ReportIsFinal, ReportAddsUp,
         OverrideStands, QuestionHasBatch, ReportEnds, AnswersAreOfJoined, MarksOverride

LEMMA ClassroomStep == ClassroomInv /\ [Next]_vars => ClassroomInv'
<1> SUFFICES ASSUME ClassroomInv, [Next]_vars PROVE ClassroomInv'
  OBVIOUS
<1>1. CASE UNCHANGED vars
  BY <1>1 DEF vars, ClassroomInv, RecordIsConsistent, TypeOK, ActiveIsOpen, ReportIsFinal,
     ReportAddsUp, Live, OverrideStands, QuestionHasBatch, ReportEnds, AnswersAreOfJoined,
     MarksOverride, CallsFit, Alone, StillTrue
<1>2. ASSUME NEW t \in Calls, Advance(t) PROVE ClassroomInv'
  BY <1>2, FinishPublishStep, FinishRevealStep, FinishJoinStep, InsertParticipantStep,
     FinishInsertStep, CheckAnswerStep, StoreAnswerStep, LockEndStep, FinishEndStep, CallSteps
     DEF Advance
<1>3. CASE Next
  BY <1>2, <1>3, StartSessionStep, BatchStep, EndBatchStep, SetAttendanceStep,
     BeginPublishStep, BeginRevealStep, BeginJoinStep, BeginAnswerStep, BeginEndStep,
     CallSteps, ChangeRosterStep DEF Next
<1> QED BY <1>1, <1>3

LEMMA ClassroomInvariant == Spec => []ClassroomInv
BY ClassroomInit, ClassroomStep, PTL DEF Spec

-----------------------------------------------------------------------------
\* The active batch is started and not ended and the active question is one of
\* its published ones; and the report that FinalizeSession freezes is complete
\* and agrees with itself, whatever was under way at the end.
THEOREM RecordCorrect == Spec => []RecordIsConsistent
<1>1. ClassroomInv => RecordIsConsistent
  BY DEF ClassroomInv
<1> QED BY <1>1, ClassroomInvariant, PTL

\* SetAttendance is not undone by JoinSession, whichever of its two statements
\* a student's request is at.
THEOREM OverrideCorrect == Spec => []OverrideStands
<1>1. ClassroomInv => OverrideStands
  BY DEF ClassroomInv
<1> QED BY <1>1, ClassroomInvariant, PTL

\* Only StoreAnswer() writes an answer, at the end of an UpsertAnswer that has
\* locked the session and then the question.
LEMMA OnlyStoreAnswers ==
  ASSUME Next, NEW q \in Questions, NEW s \in Students, answer'[<<q, s>>] # answer[<<q, s>>]
  PROVE  \E t \in Calls : StoreAnswer(t)
BY DEF Next, Advance, StartSession, ConfigureCompetition, EndCompetition, AppendBatch,
       EndBatch, Expire, SetAttendance, BeginPublish, BeginReveal, BeginJoin, BeginAnswer,
       BeginEnd, FinishPublish, FinishReveal, FinishJoin, InsertParticipant, FinishInsert,
       CheckAnswer, LockEnd, FinishEnd, Refuse, Abort, BreakDeadlock, ChangeRoster

LEMMA AnswerStep ==
  ASSUME ClassroomInv, [Next]_vars, NEW q \in Questions, NEW s \in Students,
         answer'[<<q, s>>] # answer[<<q, s>>]
  PROVE  /\ Live /\ q \in published \ revealed
         /\ batch[BatchOf[q]].state = "started"
         /\ participant[s].joined
<1>1. PICK t \in Calls : StoreAnswer(t)
  <2>1. Next
    BY DEF vars
  <2> QED BY <2>1, OnlyStoreAnswers
<1>2. /\ TypeOK /\ CallsFit /\ call[t] \in Answering /\ call[t].at = "question"
      /\ answer' = [answer EXCEPT ![<<call[t].q, call[t].s>>] = call[t].o]
  BY <1>1 DEF StoreAnswer, ClassroomInv, RecordIsConsistent
<1>3. q = call[t].q /\ s = call[t].s
  BY <1>2 DEF TypeOK, Answering
<1>4. call[t].op = "answer"
  BY <1>2 DEF Answering
<1> QED BY <1>2, <1>3, <1>4 DEF CallsFit, StillTrue, LocksSession

\* An answer is written or changed only while its question is in front of the
\* class, though the reveal, the end of the batch and the end of the session come
\* on other connections.
THEOREM AnswersCorrect == Spec => AnswersStop
<1>1. ClassroomInv /\ [Next]_vars =>
        [\A q \in Questions, s \in Students :
           answer'[<<q, s>>] # answer[<<q, s>>] =>
             /\ Live /\ q \in published \ revealed
             /\ batch[BatchOf[q]].state = "started"
             /\ participant[s].joined]_vars
  BY AnswerStep
<1> QED BY <1>1, ClassroomInvariant, PTL DEF Spec, AnswersStop
=============================================================================
