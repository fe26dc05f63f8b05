-------------------------- MODULE AssessmentAttempt --------------------------
(* A learner's own attempts at one assessment: start, saved answers, submit  *)
(* with its retries, the single-shot submission that does all three at once, *)
(* and the handover of the outcome to the learning component                 *)
(* (internal/assessment, attempt_repository.go and single_shot.go).          *)
(*                                                                           *)
(* A transaction is a Begin step, which takes its row locks and checks, and  *)
(* a Finish step, which writes and commits; other requests run in between    *)
(* unless a lock keeps them out.  A request that is refused before it has    *)
(* written anything leaves no trace and is not a step.                       *)
EXTENDS Naturals, FiniteSets

CONSTANTS
  Students,
  Versions,     \* versions of the assessment, 1..n
  MaxAttempts,  \* max_attempts of every version
  Questions,    \* questions of every version
  StartKeys,    \* idempotency keys of Start
  SubmitKeys,   \* idempotency keys of Submit and SingleShotSubmit
  NoKey,        \* SingleShotSubmit without a key
  Calls         \* requests in flight together

ASSUME AttemptAssumption ==
  /\ MaxAttempts \in Nat \ {0}
  /\ 1 \in Versions /\ Versions \subseteq Nat \ {0}
  /\ Questions # {}
  /\ NoKey \notin StartKeys \cup SubmitKeys
  /\ StartKeys \cap SubmitKeys = {}   \* a client draws a UUID for each command

VARIABLES
  published,  \* published_version, 0 when the assessment is not published
  latest,     \* current_version
  attempt,    \* assessment_attempts by student, version and attempt_number
  late,       \* attempts whose expires_at has passed
  answer,     \* assessment_answers of an attempt
  result,     \* assessment_results of an attempt
  evidence,   \* mastery_evidence of an attempt
  call,       \* the requests in flight, and by that the locks
  told        \* HISTORY: what requests have answered

vars == <<published, latest, attempt, late, answer, result, evidence, call, told>>

-----------------------------------------------------------------------------
Ids == Students \X Versions \X (1..(MaxAttempts + 1))
Student(i) == i[1]

Keys == StartKeys \cup SubmitKeys \cup {NoKey}

Attempts == [status : {"absent", "in_progress", "submitted", "expired"},
             start : Keys, submit : Keys]

Absent == [status |-> "absent", start |-> NoKey, submit |-> NoKey]

\* An answer row: what it holds, an option or a text, and is_correct.
Answers == [value : {"none", "right", "wrong", "text"},
            scored : {"null", "right", "wrong"}]

NoAnswer == [value |-> "none", scored |-> "null"]

Answered(value, scored) == [value |-> value, scored |-> scored]

NoResult == [correct |-> 0, wrong |-> 0, blank |-> 0]

\* The counts of the result, from the selected options.
Score(answers) ==
  LET count(V) == Cardinality({q \in Questions : answers[q].value \in V})
  IN [correct |-> count({"right"}), wrong |-> count({"wrong"}),
      blank |-> count({"none", "text"})]

\* LearningSubmissionEvidence: COALESCE(is_correct, false).
Outcome(answers) ==
  [q \in Questions |-> [answered |-> answers[q].value # "none",
                        correct |-> answers[q].scored = "right"]]

NoEvidence == [q \in {} |-> {}]

\* The answers a single-shot request carries; "none" for a question it skips.
Selections == [Questions -> {"none", "right", "wrong"}]

Idle == [at |-> "idle"]

-----------------------------------------------------------------------------
(* What the statements read *)

Rows(s) == {i \in Ids : Student(i) = s /\ attempt[i].status # "absent"}
Used(s, v) == {i \in Rows(s) : i[2] = v}
NextRow(s, v) == <<s, v, Cardinality(Used(s, v)) + 1>>

Exhausted(s, v) == Cardinality(Used(s, v)) >= MaxAttempts

\* The attempts a single-shot retry with key k may mean.
Submitted(s, k) ==
  {i \in Rows(s) : attempt[i].submit = k /\ attempt[i].status = "submitted"}
Made(s, k) ==
  {i \in Rows(s) : k \in {attempt[i].submit, attempt[i].start}
                   /\ attempt[i].status = "submitted"}

\* The newest attempt in progress, of which there is none or one.
Open(s, v) ==
  {i \in Used(s, v) : /\ attempt[i].status = "in_progress"
                      /\ \A j \in Used(s, v) : attempt[j].status = "in_progress" => j[3] <= i[3]}

StartKeyTaken(k) == k # NoKey /\ \E i \in Ids : attempt[i].start = k
SubmitKeyTaken(k, i) == k # NoKey /\ \E j \in Ids \ {i} : attempt[j].submit = k

\* FOR UPDATE OF a, FOR UPDATE on an attempt, and the advisory lock.
AssessmentLocked == \E t \in Calls : call[t].at \in {"insert", "grade"}

\* FAULTY: a save does not lock its attempt.
AttemptLockedToScore(i) ==
  \E t \in Calls : call[t].at \in {"submit", "grade"} /\ call[t].id = i

AttemptLocked(i) ==
  \E t \in Calls : call[t].at \in {"save", "submit", "grade"} /\ call[t].id = i

TurnTaken(s, k) ==
  \E t \in Calls : \/ call[t].at = "turn" /\ call[t].student = s /\ call[t].key = k
                   \/ call[t].at = "grade" /\ Student(call[t].id) = s /\ call[t].key = k

-----------------------------------------------------------------------------
Become(c, state) == call' = [call EXCEPT ![c] = state]

Tell(by, k, i) == told' = told \cup {[by |-> by, key |-> k, id |-> i]}

\* A submission is stored: its evidence goes to the learning component.
HandOver(c, by, k, i) == Become(c, [at |-> "handover", by |-> by, key |-> k, id |-> i])

\* The attempt's time is up; the refusal itself is committed.
Expire(c, i) ==
  /\ attempt' = [attempt EXCEPT ![i].status = "expired"]
  /\ Become(c, Idle)
  /\ UNCHANGED <<answer, result, told>>

-----------------------------------------------------------------------------
(* Start *)

\* FindDirectStart, and the same look-up again at the start of the
\* transaction; a found attempt of another student is refused.
LookUpStart(c) ==
  /\ call[c] = Idle
  /\ \E s \in Students, k \in StartKeys :
       LET known == {i \in Ids : attempt[i].start = k}
       IN \/ /\ \E i \in known : Student(i) = s /\ Tell("start", k, i)
             /\ UNCHANGED call
          \/ /\ known = {}
             /\ Become(c, [at |-> "start", student |-> s, key |-> k])
             /\ UNCHANGED told
  /\ UNCHANGED <<published, latest, attempt, late, answer, result, evidence>>

BeginStart(c) ==
  /\ call[c].at = "start" /\ ~AssessmentLocked
  /\ published # 0 /\ ~Exhausted(call[c].student, published)
  /\ Become(c, [at |-> "insert", key |-> call[c].key, id |-> NextRow(call[c].student, published)])
  /\ UNCHANGED <<published, latest, attempt, late, answer, result, evidence, told>>

FinishStart(c) ==
  /\ call[c].at = "insert" /\ ~StartKeyTaken(call[c].key)
  /\ attempt' = [attempt EXCEPT ![call[c].id] =
                   [status |-> "in_progress", start |-> call[c].key, submit |-> NoKey]]
  /\ Tell("start", call[c].key, call[c].id)
  /\ Become(c, Idle)
  /\ UNCHANGED <<published, latest, late, answer, result, evidence>>

-----------------------------------------------------------------------------
(* SaveAnswer: an option of the question, or any text *)

BeginSave(c) ==
  /\ call[c] = Idle
  /\ \E i \in Ids, q \in Questions, value \in {"right", "wrong", "text"} :
       /\ attempt[i].status = "in_progress" /\ ~AttemptLocked(i)
       /\ \/ i \in late /\ Expire(c, i)
          \/ /\ i \notin late
             /\ Become(c, [at |-> "save", id |-> i, question |-> q, value |-> value])
             /\ UNCHANGED <<attempt, answer, result, told>>
  /\ UNCHANGED <<published, latest, late, evidence>>

\* The value of the row is replaced, its is_correct is left alone.
FinishSave(c) ==
  /\ call[c].at = "save"
  /\ answer' = [answer EXCEPT ![call[c].id][call[c].question].value = call[c].value]
  /\ Become(c, Idle)
  /\ UNCHANGED <<published, latest, attempt, late, result, evidence, told>>

-----------------------------------------------------------------------------
(* Submit *)

SameSubmission(i, k) == attempt[i].status = "submitted" /\ attempt[i].submit = k

\* FAULTY: a retry gets the stored result and hands nothing over.
ReplayResult(c, k, i) ==
  /\ Become(c, Idle)
  /\ Tell("submit", k, i)

Replay(c, k, i) ==
  /\ HandOver(c, "submit", k, i)
  /\ UNCHANGED told

BeginSubmit(c) ==
  /\ call[c] = Idle
  /\ \E i \in Ids, k \in SubmitKeys :
       /\ ~AttemptLocked(i)
       /\ \/ /\ SameSubmission(i, k)
             /\ Replay(c, k, i)
             /\ UNCHANGED <<attempt, answer, result>>
          \/ attempt[i].status = "in_progress" /\ i \in late /\ Expire(c, i)
          \/ /\ attempt[i].status = "in_progress" /\ i \notin late
             /\ Become(c, [at |-> "submit", key |-> k, id |-> i])
             /\ UNCHANGED <<attempt, answer, result, told>>
  /\ UNCHANGED <<published, latest, late, evidence>>

\* is_correct = (selected_option_index = correct_option_index), which is null
\* for a text, with scored_at = now() next to it.
Scored(answers) ==
  [q \in Questions |->
     Answered(answers[q].value,
              IF answers[q].value \in {"right", "wrong"} THEN answers[q].value ELSE "null")]

\* assessment_answers_score_shape: a scored row has a correctness.
Scorable(answers) == \A q \in Questions : answers[q].value # "text"

Submission(k, i) == [attempt EXCEPT ![i].status = "submitted", ![i].submit = k]

FinishSubmit(c) ==
  LET i == call[c].id
  IN /\ call[c].at = "submit"
     /\ Scorable(answer[i]) /\ ~SubmitKeyTaken(call[c].key, i)
     /\ answer' = [answer EXCEPT ![i] = Scored(answer[i])]
     /\ result' = [result EXCEPT ![i] = Score(answer[i])]
     /\ attempt' = Submission(call[c].key, i)
     /\ HandOver(c, "submit", call[c].key, i)
     /\ UNCHANGED <<published, latest, late, evidence, told>>

\* A CHECK aborts the transaction.
SubmitBounces(c) ==
  /\ call[c].at = "submit" /\ ~Scorable(answer[call[c].id])
  /\ Tell("bounced", call[c].key, call[c].id)
  /\ Become(c, Idle)
  /\ UNCHANGED <<published, latest, attempt, late, answer, result, evidence>>

-----------------------------------------------------------------------------
(* SingleShotSubmit *)

PreCheck(c) ==
  /\ call[c] = Idle
  /\ \E s \in Students, k \in SubmitKeys \cup {NoKey}, sel \in Selections :
       \/ k # NoKey /\ \E i \in Submitted(s, k) : HandOver(c, "shot", k, i)
       \/ /\ k = NoKey \/ Submitted(s, k) = {}
          /\ Become(c, [at |-> "shot", student |-> s, key |-> k, sel |-> sel])
  /\ UNCHANGED <<published, latest, attempt, late, answer, result, evidence, told>>

\* The advisory lock of the student and the key, and the check again.
TakeTurn(c) ==
  /\ call[c].at = "shot"
  /\ LET s == call[c].student
         k == call[c].key
     IN \/ /\ k # NoKey /\ ~TurnTaken(s, k)
           /\ \E i \in Made(s, k) : HandOver(c, "shot", k, i)
        \/ /\ k = NoKey \/ (~TurnTaken(s, k) /\ Made(s, k) = {})
           /\ call' = [call EXCEPT ![c].at = "turn"]
  /\ UNCHANGED <<published, latest, attempt, late, answer, result, evidence, told>>

\* The assessment row is locked, then the newest attempt in progress; there is
\* a new attempt when there is none and the limit allows one.
BeginShot(c) ==
  /\ call[c].at = "turn" /\ ~AssessmentLocked /\ published # 0
  /\ LET s == call[c].student
         k == call[c].key
         grade(i) == [at |-> "grade", key |-> k, sel |-> call[c].sel, id |-> i]
     IN \/ \E i \in Open(s, published) :
             /\ ~AttemptLocked(i)
             /\ \/ i \in late /\ Expire(c, i)
                \/ /\ i \notin late /\ Become(c, grade(i))
                   /\ UNCHANGED <<attempt, answer, result, told>>
        \/ /\ Open(s, published) = {}
           /\ \/ /\ Exhausted(s, published) /\ k # NoKey
                 /\ \E i \in Made(s, k) : HandOver(c, "shot", k, i)
              \/ /\ ~Exhausted(s, published) /\ ~StartKeyTaken(k)
                 /\ Become(c, grade(NextRow(s, published)))
           /\ UNCHANGED <<attempt, answer, result, told>>
  /\ UNCHANGED <<published, latest, late, evidence>>

\* The rows the request answers are written with their correctness, the
\* others stay as they were saved.
Filled(answers, sel) ==
  [q \in Questions |-> IF sel[q] = "none" THEN answers[q] ELSE Answered(sel[q], sel[q])]

\* assessment_answers_value_shape: an option does not replace a text.
Fillable(answers, sel) ==
  \A q \in Questions : sel[q] # "none" => answers[q].value # "text"

\* FAULTY: the score is that of the request.
GradedRequest(answers, sel) == Score([q \in Questions |-> Answered(sel[q], sel[q])])

Graded(answers, sel) == Score(Filled(answers, sel))

FinishShot(c) ==
  LET i == call[c].id
      k == call[c].key
  IN /\ call[c].at = "grade"
     /\ Fillable(answer[i], call[c].sel) /\ ~SubmitKeyTaken(k, i)
     /\ answer' = [answer EXCEPT ![i] = Filled(answer[i], call[c].sel)]
     /\ result' = [result EXCEPT ![i] = Graded(answer[i], call[c].sel)]
     /\ attempt' = [attempt EXCEPT ![i] =
                      [status |-> "submitted", submit |-> k,
                       start |-> IF attempt[i].status = "absent" THEN k ELSE attempt[i].start]]
     /\ HandOver(c, "shot", k, i)
     /\ UNCHANGED <<published, latest, late, evidence, told>>

-----------------------------------------------------------------------------
(* The handover, after the commit: read the outcome, apply it with ON CONFLICT *)
(* DO NOTHING, answer.  It may fail; Submit then answers with the error,       *)
(* SingleShotSubmit with the result all the same.                              *)

Apply(c) ==
  /\ call[c].at = "handover"
  /\ evidence' = [evidence EXCEPT ![call[c].id] =
                    IF @ = NoEvidence THEN Outcome(answer[call[c].id]) ELSE @]
  /\ Tell(call[c].by, call[c].key, call[c].id)
  /\ Become(c, Idle)
  /\ UNCHANGED <<published, latest, attempt, late, answer, result>>

ApplyFails(c) ==
  /\ call[c].at = "handover"
  /\ \/ call[c].by = "submit" /\ UNCHANGED told
     \/ call[c].by = "shot" /\ Tell("shot", call[c].key, call[c].id)
  /\ Become(c, Idle)
  /\ UNCHANGED <<published, latest, attempt, late, answer, result, evidence>>

\* A refusal after a lock was taken, a lost connection or the end of the
\* process: the transaction rolls back and nobody answers.
Abort(c) ==
  /\ call[c] # Idle
  /\ Become(c, Idle)
  /\ UNCHANGED <<published, latest, attempt, late, answer, result, evidence, told>>

-----------------------------------------------------------------------------
\* SetWorkflow and SetPublication: an approved assessment is withdrawn before
\* a new version can be written and published.
Withdraw ==
  /\ published # 0 /\ ~AssessmentLocked
  /\ published' = 0
  /\ UNCHANGED <<latest, attempt, late, answer, result, evidence, call, told>>

SetPublication ==
  /\ published = 0 /\ ~AssessmentLocked
  /\ published' \in Versions \cap {latest, latest + 1}
  /\ latest' = published'
  /\ UNCHANGED <<attempt, late, answer, result, evidence, call, told>>

TimeUp ==
  /\ \E i \in Ids \ late : attempt[i].status = "in_progress" /\ late' = late \cup {i}
  /\ UNCHANGED <<published, latest, attempt, answer, result, evidence, call, told>>

Init ==
  /\ published = 1 /\ latest = 1
  /\ attempt = [i \in Ids |-> Absent]
  /\ late = {}
  /\ answer = [i \in Ids |-> [q \in Questions |-> NoAnswer]]
  /\ result = [i \in Ids |-> NoResult]
  /\ evidence = [i \in Ids |-> NoEvidence]
  /\ call = [c \in Calls |-> Idle]
  /\ told = {}

Next ==
  \/ \E c \in Calls :
       \/ LookUpStart(c) \/ BeginStart(c) \/ FinishStart(c)
       \/ BeginSave(c) \/ FinishSave(c)
       \/ BeginSubmit(c) \/ FinishSubmit(c) \/ SubmitBounces(c)
       \/ PreCheck(c) \/ TakeTurn(c) \/ BeginShot(c) \/ FinishShot(c)
       \/ Apply(c) \/ ApplyFails(c) \/ Abort(c)
  \/ Withdraw \/ SetPublication \/ TimeUp

Spec == Init /\ [][Next]_vars

-----------------------------------------------------------------------------
\* Rows have their types, and no student has more attempts at a version than
\* it allows, whichever way and however concurrently they were started.
TypeOK ==
  /\ attempt \in [Ids -> Attempts]
  /\ answer \in [Ids -> [Questions -> Answers]]
  /\ \A i \in Ids : i[3] > MaxAttempts => attempt[i] = Absent

\* An attempt that was submitted or has expired stays as it is, with its
\* answers and its result: no late save and no second submission reaches it.
FinalStays ==
  [][\A i \in Ids : attempt[i].status \in {"submitted", "expired"} =>
       /\ attempt'[i] = attempt[i] /\ answer'[i] = answer[i] /\ result'[i] = result[i]]_vars

\* A submitted attempt's result counts the answers stored for it, those saved
\* one by one and those that came with the submission.
ResultMatchesAnswers ==
  \A i \in Ids : attempt[i].status = "submitted" => result[i] = Score(answer[i])

\* ASSESSMENT_ATTEMPT_CORE_CONTRACT.md: retries with a key get the same attempt
\* or result, whichever requests with that key overlap, fail or come again.
KeyNamesOneAttempt ==
  \A x, y \in told :
    (x.key = y.key /\ x.key # NoKey /\ "bounced" \notin {x.by, y.by}) => x.id = y.id

\* A Submit that answered has handed its outcome over, also when an earlier
\* one stored the result and died before it did.
SubmitMeansRecorded ==
  \A x \in told : x.by = "submit" => evidence[x.id] # NoEvidence

\* The rows and the answers to requests tell one story: no attempt beyond the
\* allowed number, one attempt per key, the result of the stored answers.
AttemptsAgree == TypeOK /\ KeyNamesOneAttempt /\ ResultMatchesAnswers

-----------------------------------------------------------------------------
\* ASSESSMENT_ATTEMPT_CORE_CONTRACT.md says that submit "writes answer
\* correctness and exactly one result in one transaction": what it records as
\* correct for mastery is what the result counts as correct.
EvidenceMatchesResult ==
  \A i \in Ids : evidence[i] # NoEvidence =>
    Cardinality({q \in Questions : evidence[i][q].correct}) = result[i].correct

\* The same sentence: a submission in time is never turned down because of
\* what SaveAnswer let the student save.
SubmitNeverBounces == \A x \in told : x.by # "bounced"

=============================================================================
