---------------------- MODULE AssessmentAttemptProofs ----------------------
(* Proofs about AssessmentAttempt, for every set of students, versions,      *)
(* questions, keys and requests in flight, and every limit on attempts.      *)
EXTENDS AssessmentAttempt, FiniteSetTheorems, TLAPS

-----------------------------------------------------------------------------
(* The inductive invariant.  What the requests in flight hold is as much a   *)
(* part of it as the rows: a transaction writes what it found when it took   *)
(* its locks, and only those locks make that still true.                     *)

AnyKey == SubmitKeys \cup {NoKey}

CallStates ==
  {Idle}
  \cup [at : {"start"}, student : Students, key : StartKeys]
  \cup [at : {"insert"}, key : StartKeys, id : Ids]
  \cup [at : {"save"}, id : Ids, question : Questions, value : {"right", "wrong", "text"}]
  \cup [at : {"submit"}, key : SubmitKeys, id : Ids]
  \cup [at : {"shot", "turn"}, student : Students, key : AnyKey, sel : Selections]
  \cup [at : {"grade"}, key : AnyKey, sel : Selections, id : Ids]
  \cup [at : {"handover"}, by : {"submit", "shot"}, key : AnyKey, id : Ids]

Told == [by : {"start", "submit", "shot", "bounced"}, key : Keys, id : Ids]

\* Attempts are numbered without gaps, and not beyond the limit.
Numbered(s, v) ==
  \E n \in 0..MaxAttempts :
    /\ Used(s, v) = {i \in Ids : i[1] = s /\ i[2] = v /\ i[3] <= n}
    /\ IsFiniteSet(Used(s, v)) /\ Cardinality(Used(s, v)) = n

\* The row an insert will take: the next one, still free.
Free(i) == /\ attempt[i].status = "absent"
           /\ i = NextRow(i[1], i[2])
           /\ ~Exhausted(i[1], i[2])

RowOK(i) ==
  /\ attempt[i].status = "absent" => attempt[i] = Absent
  /\ attempt[i].status # "submitted" => attempt[i].submit = NoKey
  /\ attempt[i].start \in SubmitKeys => attempt[i].submit = attempt[i].start
  /\ attempt[i].status = "submitted" => result[i] = Score(answer[i])

Distinct(i, j) ==
  /\ attempt[i].start = attempt[j].start => attempt[i].start = NoKey
  /\ attempt[i].submit = attempt[j].submit => attempt[i].submit = NoKey

\* What a request in flight has found and relies on.
CallOK(x) ==
  /\ x.at = "insert" => Free(x.id)
  /\ x.at \in {"save", "submit"} => attempt[x.id].status = "in_progress"
  /\ x.at = "grade" => attempt[x.id].status = "in_progress" \/ Free(x.id)
  /\ x.at = "handover" => attempt[x.id].status = "submitted" /\ attempt[x.id].submit = x.key

\* Two requests never hold one lock.
Inserts(x) == x.at \in {"insert", "grade"}
HoldsRow(x) == x.at \in {"save", "submit", "grade"}

Apart(x, y) == /\ ~(Inserts(x) /\ Inserts(y))
               /\ HoldsRow(x) /\ HoldsRow(y) => x.id # y.id

\* What an answer says stays true.
ToldOK(r) ==
  /\ r.by = "start" => r.key \in StartKeys /\ attempt[r.id].start = r.key
  /\ r.by \in {"submit", "shot"} =>
       r.key \in AnyKey /\ attempt[r.id].status = "submitted" /\ attempt[r.id].submit = r.key
  /\ r.by = "submit" => evidence[r.id] # NoEvidence

Types ==
  /\ published \in Versions \cup {0}
  /\ attempt \in [Ids -> Attempts]
  /\ answer \in [Ids -> [Questions -> Answers]]
  /\ DOMAIN result = Ids /\ result = [i \in Ids |-> result[i]]
  /\ DOMAIN evidence = Ids /\ evidence = [i \in Ids |-> evidence[i]]
  /\ call \in [Calls -> CallStates]
  /\ told \subseteq Told

AttemptInv ==
  /\ Types
  /\ \A s \in Students, v \in Versions : Numbered(s, v)
  /\ \A i \in Ids : RowOK(i)
  /\ \A i, j \in Ids : i # j => Distinct(i, j)
  /\ \A t \in Calls : CallOK(call[t])
  /\ \A t, u \in Calls : t # u => Apart(call[t], call[u])
  /\ \A r \in told : ToldOK(r)

-----------------------------------------------------------------------------
(* Numbers of attempts. *)

LEMMA IdForm ==
  ASSUME NEW i \in Ids
  PROVE  i[3] \in Nat /\ i[3] >= 1 /\ i = <<i[1], i[2], i[3]>>
<1>1. PICK a \in Students, b \in Versions, m \in 1..(MaxAttempts + 1) : i = <<a, b, m>>
  BY DEF Ids
<1> QED BY <1>1, AttemptAssumption DEF AttemptAssumption

LEMMA NextIsFree ==
  ASSUME AttemptInv, NEW s \in Students, NEW v \in Versions, ~Exhausted(s, v)
  PROVE  /\ NextRow(s, v) \in Ids
         /\ NextRow(s, v)[1] = s /\ NextRow(s, v)[2] = v
         /\ Free(NextRow(s, v))
<1>1. PICK n \in 0..MaxAttempts :
        /\ Used(s, v) = {i \in Ids : i[1] = s /\ i[2] = v /\ i[3] <= n}
        /\ Cardinality(Used(s, v)) = n
  BY DEF AttemptInv, Numbered
<1>2. n \in Nat /\ n < MaxAttempts /\ n + 1 \in 1..(MaxAttempts + 1) /\ MaxAttempts \in Nat
  BY <1>1, AttemptAssumption DEF AttemptAssumption, Exhausted
<1>3. NextRow(s, v) = <<s, v, n + 1>>
  BY <1>1 DEF NextRow
<1>4. <<s, v, n + 1>> \in Ids
  BY <1>2 DEF Ids
<1>5. <<s, v, n + 1>> \notin Used(s, v)
  BY <1>1, <1>2
<1>6. attempt[<<s, v, n + 1>>].status = "absent"
  BY <1>4, <1>5 DEF Used, Rows, Student
<1> QED BY <1>3, <1>4, <1>6 DEF Free

\* Steps that make no row leave the numbers alone.
LEMMA SameRows ==
  ASSUME NEW s, NEW v,
         \A i \in Ids : attempt'[i].status = "absent" <=> attempt[i].status = "absent"
  PROVE  Used(s, v)' = Used(s, v)
BY DEF Used, Rows

LEMMA SameNumbers ==
  ASSUME \A i \in Ids : attempt'[i].status = "absent" <=> attempt[i].status = "absent"
  PROVE  /\ \A s, v : Numbered(s, v) => Numbered(s, v)'
         /\ \A i \in Ids : Free(i) => Free(i)'
<1>1. \A s, v : Used(s, v)' = Used(s, v)
  BY SameRows
<1>2. \A s, v : Numbered(s, v) => Numbered(s, v)'
  BY <1>1 DEF Numbered
<1>3. \A i \in Ids : Free(i) => Free(i)'
  BY <1>1 DEF Free, NextRow, Exhausted
<1> QED BY <1>2, <1>3

\* An insert makes the row it was promised.
LEMMA InsertNumbers ==
  ASSUME AttemptInv, NEW i \in Ids, Free(i), attempt'[i].status # "absent",
         \A j \in Ids \ {i} : attempt'[j] = attempt[j]
  PROVE  \A s \in Students, v \in Versions : Numbered(s, v)'
<1>1. SUFFICES ASSUME NEW s \in Students, NEW v \in Versions PROVE Numbered(s, v)'
  OBVIOUS
<1>2. PICK n \in 0..MaxAttempts :
        /\ Used(s, v) = {j \in Ids : j[1] = s /\ j[2] = v /\ j[3] <= n}
        /\ IsFiniteSet(Used(s, v)) /\ Cardinality(Used(s, v)) = n
  BY DEF AttemptInv, Numbered
<1>3. MaxAttempts \in Nat /\ n \in Nat
  BY AttemptAssumption DEF AttemptAssumption
<1>4. \A j \in Ids : j[3] \in Nat /\ j = <<j[1], j[2], j[3]>>
  BY IdForm
<1>5. CASE i[1] = s /\ i[2] = v
  <2>1. i = <<s, v, n + 1>> /\ n < MaxAttempts
    <3>1. i = NextRow(s, v) /\ ~Exhausted(s, v)
      BY <1>5 DEF Free
    <3> QED BY <1>2, <1>3, <3>1 DEF NextRow, Exhausted
  <2>2. Used(s, v)' = Used(s, v) \cup {i}
    BY <1>5 DEF Used, Rows, Student
  <2>3. Used(s, v)' = {j \in Ids : j[1] = s /\ j[2] = v /\ j[3] <= n + 1}
    BY <1>2, <1>3, <1>4, <2>1, <2>2
  <2>4. i \notin Used(s, v)
    BY DEF Used, Rows, Free
  <2>5. IsFiniteSet(Used(s, v) \cup {i}) /\ Cardinality(Used(s, v) \cup {i}) = n + 1
    BY <1>2, <2>4, FS_AddElement
  <2>6. n + 1 \in 0..MaxAttempts
    BY <1>3, <2>1
  <2> QED BY <2>2, <2>3, <2>5, <2>6 DEF Numbered
<1>6. CASE ~(i[1] = s /\ i[2] = v)
  <2>1. Used(s, v)' = Used(s, v)
    BY <1>6 DEF Used, Rows, Student
  <2> QED BY <1>2, <2>1 DEF Numbered
<1> QED BY <1>5, <1>6

-----------------------------------------------------------------------------
(* Frames: what every action has to show, and what follows for the rest. *)

\* A step of one request that writes no row.
LEMMA CallStep ==
  ASSUME AttemptInv, NEW c \in Calls, NEW x \in CallStates,
         call' = [call EXCEPT ![c] = x], CallOK(x),
         \A t \in Calls \ {c} : Apart(call[t], x) /\ Apart(x, call[t]),
         UNCHANGED <<published, attempt, answer, result, evidence>>,
         \/ told' = told
         \/ \E r \in Told : ToldOK(r) /\ told' = told \cup {r}
  PROVE  AttemptInv'
<1>1. /\ call'[c] = x
      /\ \A t \in Calls \ {c} : call'[t] = call[t]
  BY DEF AttemptInv, Types
<1>2. Types'
  BY DEF AttemptInv, Types
<1>3. \A s \in Students, v \in Versions : Numbered(s, v)'
  BY SameNumbers DEF AttemptInv
<1>4. /\ \A i \in Ids : RowOK(i)'
      /\ \A i, j \in Ids : i # j => Distinct(i, j)'
  BY DEF AttemptInv, RowOK, Distinct
<1>5. ASSUME NEW y, CallOK(y) PROVE CallOK(y)'
  BY <1>5 DEF CallOK, Free, NextRow, Exhausted, Used, Rows
<1>6. \A t \in Calls : CallOK(call[t])'
  <2>1. SUFFICES ASSUME NEW t \in Calls PROVE CallOK(call[t])'
    OBVIOUS
  <2>2. PICK y : y = call[t]
    OBVIOUS
  <2>3. CASE t = c
    <3>1. CallOK(x)'
      BY <1>5
    <3> QED BY <1>1, <2>3, <3>1 DEF CallOK
  <2>4. CASE t # c
    <3>1. CallOK(y)'
      BY <1>5, <2>2 DEF AttemptInv
    <3> QED BY <1>1, <2>2, <2>4, <3>1 DEF CallOK
  <2> QED BY <2>3, <2>4
<1>7. \A t, u \in Calls : t # u => Apart(call[t], call[u])'
  BY <1>1 DEF AttemptInv, Apart, Inserts, HoldsRow
<1>8. \A r \in told' : ToldOK(r)'
  BY DEF AttemptInv, ToldOK
<1> QED BY <1>2, <1>3, <1>4, <1>6, <1>7, <1>8 DEF AttemptInv

\* Nobody but c holds the row i.
Sole(c, i) == \A t \in Calls \ {c} : HoldsRow(call[t]) => call[t].id # i

\* The row i becomes row, with answers and a result of its own.
Writes(i, row) ==
  /\ attempt' = [attempt EXCEPT ![i] = row]
  /\ answer' \in [Ids -> [Questions -> Answers]]
  /\ DOMAIN result' = Ids /\ result' = [j \in Ids |-> result'[j]]
  /\ \A j \in Ids \ {i} : answer'[j] = answer[j] /\ result'[j] = result[j]
  /\ UNCHANGED <<published, evidence>>

\* Only the requests that have the right to it write a row.
MayWrite(c, i, row) ==
  /\ Sole(c, i)
  /\ row.status # "absent"
  /\ \/ attempt[i].status = "in_progress" /\ row.start = attempt[i].start
     \/ Free(i) /\ Inserts(call[c])

Unlike(i) == \A j \in Ids \ {i} : Distinct(i, j)

Rests(x) == ~Inserts(x) /\ ~HoldsRow(x)

Tells == \/ told' = told
         \/ \E r \in Told : ToldOK(r)' /\ told' = told \cup {r}

\* A step of one request that writes the row i it holds, or makes it.
LEMMA RowStep ==
  ASSUME AttemptInv, NEW c \in Calls, NEW i \in Ids, NEW row \in Attempts, NEW x \in CallStates,
         Become(c, x), Rests(x), CallOK(x)',
         Writes(i, row), MayWrite(c, i, row), RowOK(i)', Unlike(i)', Tells
  PROVE  AttemptInv'
<1> USE DEF Sole, MayWrite, Unlike, Rests, Tells
<1>0. /\ call'[c] = x
      /\ \A t \in Calls \ {c} : call'[t] = call[t]
      /\ attempt'[i] = row
      /\ \A j \in Ids \ {i} : attempt'[j] = attempt[j]
      /\ \A j \in Ids \ {i} : answer'[j] = answer[j] /\ result'[j] = result[j]
      /\ evidence' = evidence
  BY DEF AttemptInv, Types, Writes, Become
<1>1. Types'
  BY DEF AttemptInv, Types, Writes, Become
<1>2. /\ \A s \in Students, v \in Versions : Numbered(s, v)'
      /\ Free(i) \/ \A j \in Ids : Free(j) => Free(j)'
  <2>1. CASE Free(i)
    BY <1>0, <2>1, InsertNumbers
  <2>2. CASE attempt[i].status = "in_progress"
    <3>1. \A j \in Ids : attempt'[j].status = "absent" <=> attempt[j].status = "absent"
      BY <1>0, <2>2
    <3> QED BY <3>1, SameNumbers DEF AttemptInv
  <2> QED BY <2>1, <2>2
<1>3. \A j \in Ids : RowOK(j)'
  BY <1>0 DEF AttemptInv, RowOK
<1>4. \A j, k \in Ids : j # k => Distinct(j, k)'
  <2>1. ASSUME NEW j \in Ids \ {i}, NEW k \in Ids \ {i}, j # k PROVE Distinct(j, k)'
    BY <1>0, <2>1 DEF AttemptInv, Distinct
  <2>2. \A j \in Ids \ {i} : Distinct(j, i)'
    BY DEF Distinct
  <2> QED BY <2>1, <2>2
<1>5. \A t \in Calls : CallOK(call[t])'
  <2>1. SUFFICES ASSUME NEW t \in Calls PROVE CallOK(call[t])'
    OBVIOUS
  <2>2. CASE t = c
    BY <1>0, <2>2 DEF CallOK
  <2>3. CASE t # c
    <3>1. PICK y \in CallStates : y = call[t]
      BY DEF AttemptInv, Types
    <3>2. CallOK(y) /\ (HoldsRow(y) => y.id # i) /\ (Inserts(call[c]) => ~Inserts(y))
      BY <2>3, <3>1 DEF AttemptInv, Apart
    <3>3. attempt[i].status # "submitted"
      BY DEF Free
    <3>4. y.at \in {"insert", "save", "submit", "grade", "handover"} => y.id \in Ids
      BY <3>1 DEF CallStates, Idle
    <3>5. y.at = "insert" => Free(y.id)'
      BY <1>2, <3>2, <3>4 DEF CallOK, Inserts, Free
    <3>6. y.at \in {"save", "submit"} => attempt'[y.id].status = "in_progress"
      BY <1>0, <3>2, <3>4 DEF CallOK, HoldsRow
    <3>7. y.at = "grade" => attempt'[y.id].status = "in_progress" \/ Free(y.id)'
      BY <1>0, <1>2, <3>2, <3>4 DEF CallOK, HoldsRow, Inserts, Free
    <3>8. y.at = "handover" =>
            attempt'[y.id].status = "submitted" /\ attempt'[y.id].submit = y.key
      BY <1>0, <3>2, <3>3, <3>4 DEF CallOK
    <3>9. CallOK(y)'
      BY <3>5, <3>6, <3>7, <3>8 DEF CallOK
    <3> QED BY <1>0, <2>3, <3>1, <3>9 DEF CallOK
  <2> QED BY <2>2, <2>3
<1>6. \A t, u \in Calls : t # u => Apart(call[t], call[u])'
  BY <1>0 DEF AttemptInv, Apart
<1>7. ASSUME NEW r \in told PROVE ToldOK(r)'
  <2>1. r \in Told /\ ToldOK(r)
    BY <1>7 DEF AttemptInv, Types
  <2>2. CASE r.id # i
    BY <1>0, <2>1, <2>2 DEF ToldOK, Told
  <2>3. CASE r.id = i
    <3>1. r.by \notin {"submit", "shot"}
      BY <2>1, <2>3 DEF ToldOK, Free
    <3>2. r.by = "start" => attempt[i].status = "in_progress"
      <4>1. ASSUME r.by = "start", attempt[i] = Absent PROVE FALSE
        BY <2>1, <2>3, <4>1, AttemptAssumption DEF ToldOK, Absent, AttemptAssumption
      <4> QED BY <4>1 DEF AttemptInv, RowOK, Free
    <3> QED BY <1>0, <2>1, <2>3, <3>1, <3>2 DEF ToldOK, Free
  <2> QED BY <2>2, <2>3
<1>8. \A r \in told' : ToldOK(r)'
  BY <1>7
<1> QED BY <1>1, <1>2, <1>3, <1>4, <1>5, <1>6, <1>8 DEF AttemptInv

-----------------------------------------------------------------------------
(* Every action keeps AttemptInv. *)

\* A step of one request into a state that holds no lock.
LEMMA FreeStep ==
  ASSUME AttemptInv, NEW c \in Calls, NEW x \in CallStates,
         Become(c, x), ~Inserts(x), ~HoldsRow(x), CallOK(x),
         UNCHANGED <<published, attempt, answer, result, evidence>>,
         \/ told' = told
         \/ \E r \in Told : ToldOK(r) /\ told' = told \cup {r}
  PROVE  AttemptInv'
<1>1. \A t \in Calls \ {c} : Apart(call[t], x) /\ Apart(x, call[t])
  BY DEF Apart
<1> QED BY <1>1, CallStep DEF Become

LEMMA IdleStep ==
  ASSUME AttemptInv, NEW c \in Calls, Become(c, Idle),
         UNCHANGED <<published, attempt, answer, result, evidence>>,
         \/ told' = told
         \/ \E r \in Told : ToldOK(r) /\ told' = told \cup {r}
  PROVE  AttemptInv'
<1>1. Idle \in CallStates /\ ~Inserts(Idle) /\ ~HoldsRow(Idle) /\ CallOK(Idle)
  BY DEF CallStates, Idle, Inserts, HoldsRow, CallOK
<1> QED BY <1>1, FreeStep

LEMMA HandOverStep ==
  ASSUME AttemptInv, NEW c \in Calls, NEW by \in {"submit", "shot"}, NEW k \in AnyKey, NEW i \in Ids,
         HandOver(c, by, k, i), attempt[i].status = "submitted", attempt[i].submit = k,
         UNCHANGED <<published, attempt, answer, result, evidence, told>>
  PROVE  AttemptInv'
<1> DEFINE x == [at |-> "handover", by |-> by, key |-> k, id |-> i]
<1>1. x \in CallStates
  BY DEF CallStates
<1>2. ~Inserts(x) /\ ~HoldsRow(x) /\ CallOK(x)
  BY DEF Inserts, HoldsRow, CallOK
<1>3. Become(c, x)
  BY DEF HandOver
<1> HIDE DEF x
<1> QED BY <1>1, <1>2, <1>3, FreeStep

LEMMA ExpireStep ==
  ASSUME AttemptInv, NEW c \in Calls, NEW i \in Ids, Expire(c, i),
         attempt[i].status = "in_progress", ~AttemptLocked(i), UNCHANGED <<published, evidence>>
  PROVE  AttemptInv'
<1>1. PICK row \in Attempts : row = [attempt[i] EXCEPT !.status = "expired"]
  <2>1. attempt[i] \in Attempts
    BY DEF AttemptInv, Types
  <2> QED BY ONLY <2>1 DEF Attempts
<1>2. attempt[i] \in Attempts
  BY DEF AttemptInv, Types
<1>3. row.status = "expired" /\ row.start = attempt[i].start /\ row.submit = attempt[i].submit
  BY <1>1, <1>2 DEF Attempts
<1>4. attempt' = [attempt EXCEPT ![i] = row]
  BY <1>1 DEF Expire, AttemptInv, Types
<1>5. /\ attempt'[i] = row
      /\ \A j \in Ids \ {i} : attempt'[j] = attempt[j]
  BY <1>4 DEF AttemptInv, Types
<1>6. RowOK(i)'
  BY <1>3, <1>5 DEF AttemptInv, RowOK
<1>7. Unlike(i)'
  BY <1>3, <1>5 DEF AttemptInv, Distinct, Unlike
<1>8. MayWrite(c, i, row)
  BY <1>3 DEF AttemptLocked, HoldsRow, MayWrite, Sole
<1>9. Idle \in CallStates /\ Rests(Idle) /\ CallOK(Idle)' /\ Become(c, Idle)
  BY DEF CallStates, Idle, Inserts, HoldsRow, Rests, CallOK, Expire
<1>10. Writes(i, row)
  BY <1>4 DEF Writes, Expire, AttemptInv, Types
<1>11. Tells
  BY DEF Tells, Expire
<1> QED BY <1>6, <1>7, <1>8, <1>9, <1>10, <1>11, RowStep

LEMMA LookUpStartStep ==
  ASSUME AttemptInv, NEW c \in Calls, LookUpStart(c)
  PROVE  AttemptInv'
<1>1. PICK s \in Students, k \in StartKeys :
        \/ /\ \E i \in Ids : attempt[i].start = k /\ Tell("start", k, i)
           /\ UNCHANGED call
        \/ /\ Become(c, [at |-> "start", student |-> s, key |-> k])
           /\ UNCHANGED told
  BY DEF LookUpStart
<1>2. UNCHANGED <<published, attempt, answer, result, evidence>>
  BY DEF LookUpStart
<1>3. CASE Become(c, [at |-> "start", student |-> s, key |-> k]) /\ UNCHANGED told
  <2>1. PICK x \in CallStates : x = [at |-> "start", student |-> s, key |-> k]
    BY DEF CallStates
  <2>2. ~Inserts(x) /\ ~HoldsRow(x) /\ CallOK(x)
    BY <2>1 DEF Inserts, HoldsRow, CallOK
  <2> QED BY <1>2, <1>3, <2>1, <2>2, FreeStep
<1>4. CASE UNCHANGED call /\ \E i \in Ids : attempt[i].start = k /\ Tell("start", k, i)
  <2>1. PICK i \in Ids : attempt[i].start = k /\ Tell("start", k, i)
    BY <1>4
  <2>2. PICK r \in Told : r = [by |-> "start", key |-> k, id |-> i]
    BY DEF Told, Keys
  <2>3. ToldOK(r) /\ told' = told \cup {r}
    BY <2>1, <2>2 DEF ToldOK, Tell
  <2>4. PICK x \in CallStates : x = call[c]
    BY DEF AttemptInv, Types
  <2>5. call' = [call EXCEPT ![c] = x] /\ CallOK(x)
    BY <1>4, <2>4 DEF AttemptInv, Types
  <2>6. \A t \in Calls \ {c} : Apart(call[t], x) /\ Apart(x, call[t])
    BY <2>4 DEF AttemptInv
  <2> QED BY <1>2, <2>3, <2>5, <2>6, CallStep
<1> QED BY <1>1, <1>3, <1>4

LEMMA BeginStartStep ==
  ASSUME AttemptInv, NEW c \in Calls, BeginStart(c)
  PROVE  AttemptInv'
<1>1. /\ call[c].at = "start" /\ ~AssessmentLocked
      /\ published # 0 /\ ~Exhausted(call[c].student, published)
      /\ UNCHANGED <<published, attempt, answer, result, evidence, told>>
  BY DEF BeginStart
<1>2. PICK s \in Students, k \in StartKeys, v \in Versions :
        s = call[c].student /\ k = call[c].key /\ v = published
  <2>1. call[c] \in CallStates /\ published \in Versions
    BY <1>1 DEF AttemptInv, Types
  <2> QED BY <1>1, <2>1 DEF CallStates, Idle
<1>3. PICK i \in Ids : i = NextRow(s, v) /\ Free(i)
  BY <1>1, <1>2, NextIsFree
<1>4. PICK x \in CallStates : x = [at |-> "insert", key |-> k, id |-> i]
  BY DEF CallStates
<1>5. call' = [call EXCEPT ![c] = x]
  BY <1>2, <1>3, <1>4 DEF BeginStart, Become
<1>6. CallOK(x)
  BY <1>3, <1>4 DEF CallOK
<1>7. \A t \in Calls \ {c} : Apart(call[t], x) /\ Apart(x, call[t])
  BY <1>1, <1>4 DEF Apart, Inserts, HoldsRow, AssessmentLocked
<1> QED BY <1>1, <1>5, <1>6, <1>7, CallStep

LEMMA FinishStartStep ==
  ASSUME AttemptInv, NEW c \in Calls, FinishStart(c)
  PROVE  AttemptInv'
<1>1. PICK k \in StartKeys, i \in Ids : k = call[c].key /\ i = call[c].id
  <2>1. call[c] \in CallStates /\ call[c].at = "insert"
    BY DEF AttemptInv, Types, FinishStart
  <2> QED BY <2>1 DEF CallStates, Idle
<1>2. PICK row \in Attempts : row = [status |-> "in_progress", start |-> k, submit |-> NoKey]
  BY DEF Attempts, Keys
<1>3. /\ Inserts(call[c]) /\ Free(i) /\ ~StartKeyTaken(k)
      /\ attempt' = [attempt EXCEPT ![i] = row]
      /\ Become(c, Idle)
      /\ UNCHANGED <<published, answer, result, evidence>>
      /\ Tell("start", k, i)
  BY <1>1, <1>2 DEF FinishStart, AttemptInv, CallOK, Inserts
<1>4. k # NoKey /\ k \notin SubmitKeys
  BY AttemptAssumption DEF AttemptAssumption
<1>5. /\ attempt'[i] = row
      /\ \A j \in Ids \ {i} : attempt'[j] = attempt[j]
  BY <1>3 DEF AttemptInv, Types
<1>6. RowOK(i)'
  BY <1>2, <1>4, <1>5 DEF RowOK
<1>7. Unlike(i)'
  BY <1>2, <1>3, <1>4, <1>5 DEF Unlike, Distinct, StartKeyTaken
<1>8. MayWrite(c, i, row)
  BY <1>2, <1>3 DEF AttemptInv, Apart, Inserts, HoldsRow, CallOK, Free, MayWrite, Sole
<1>9. Idle \in CallStates /\ Rests(Idle) /\ CallOK(Idle)'
  BY DEF CallStates, Idle, Inserts, HoldsRow, Rests, CallOK
<1>10. PICK r \in Told : r = [by |-> "start", key |-> k, id |-> i]
  BY DEF Told, Keys
<1>11. Tells
  <2>1. ToldOK(r)' /\ told' = told \cup {r}
    BY <1>2, <1>3, <1>5, <1>10 DEF ToldOK, Tell
  <2> QED BY <2>1 DEF Tells
<1>12. Writes(i, row)
  BY <1>3 DEF Writes, AttemptInv, Types
<1> QED BY <1>3, <1>6, <1>7, <1>8, <1>9, <1>11, <1>12, RowStep

LEMMA BeginSaveStep ==
  ASSUME AttemptInv, NEW c \in Calls, BeginSave(c)
  PROVE  AttemptInv'
<1>1. PICK i \in Ids, q \in Questions, value \in {"right", "wrong", "text"} :
        /\ attempt[i].status = "in_progress" /\ ~AttemptLocked(i)
        /\ \/ Expire(c, i)
           \/ /\ Become(c, [at |-> "save", id |-> i, question |-> q, value |-> value])
              /\ UNCHANGED <<attempt, answer, result, told>>
  BY DEF BeginSave
<1>2. UNCHANGED <<published, evidence>>
  BY DEF BeginSave
<1>3. CASE Expire(c, i)
  BY <1>1, <1>2, <1>3, ExpireStep
<1>4. CASE /\ Become(c, [at |-> "save", id |-> i, question |-> q, value |-> value])
           /\ UNCHANGED <<attempt, answer, result, told>>
  <2>1. PICK x \in CallStates : x = [at |-> "save", id |-> i, question |-> q, value |-> value]
    BY DEF CallStates
  <2>2. CallOK(x)
    BY <1>1, <2>1 DEF CallOK
  <2>3. \A t \in Calls \ {c} : Apart(call[t], x) /\ Apart(x, call[t])
    BY <1>1, <2>1 DEF Apart, Inserts, HoldsRow, AttemptLocked
  <2> QED BY <1>2, <1>4, <2>1, <2>2, <2>3, CallStep DEF Become
<1> QED BY <1>1, <1>3, <1>4

LEMMA BeginSubmitStep ==
  ASSUME AttemptInv, NEW c \in Calls, BeginSubmit(c)
  PROVE  AttemptInv'
<1>1. PICK i \in Ids, k \in SubmitKeys :
        /\ ~AttemptLocked(i)
        /\ \/ /\ SameSubmission(i, k) /\ HandOver(c, "submit", k, i)
              /\ UNCHANGED <<attempt, answer, result, told>>
           \/ attempt[i].status = "in_progress" /\ Expire(c, i)
           \/ /\ attempt[i].status = "in_progress"
              /\ Become(c, [at |-> "submit", key |-> k, id |-> i])
              /\ UNCHANGED <<attempt, answer, result, told>>
  BY DEF BeginSubmit, Replay
<1>2. UNCHANGED <<published, evidence>>
  BY DEF BeginSubmit
<1>3. CASE /\ SameSubmission(i, k) /\ HandOver(c, "submit", k, i)
           /\ UNCHANGED <<attempt, answer, result, told>>
  BY <1>2, <1>3, HandOverStep DEF SameSubmission, AnyKey
<1>4. CASE attempt[i].status = "in_progress" /\ Expire(c, i)
  BY <1>1, <1>2, <1>4, ExpireStep
<1>5. CASE /\ attempt[i].status = "in_progress"
           /\ Become(c, [at |-> "submit", key |-> k, id |-> i])
           /\ UNCHANGED <<attempt, answer, result, told>>
  <2>1. PICK x \in CallStates : x = [at |-> "submit", key |-> k, id |-> i]
    BY DEF CallStates
  <2>2. CallOK(x)
    BY <1>5, <2>1 DEF CallOK
  <2>3. \A t \in Calls \ {c} : Apart(call[t], x) /\ Apart(x, call[t])
    BY <1>1, <2>1 DEF Apart, Inserts, HoldsRow, AttemptLocked
  <2> QED BY <1>2, <1>5, <2>1, <2>2, <2>3, CallStep DEF Become
<1> QED BY <1>1, <1>3, <1>4, <1>5

\* A submission finds the attempt with no other key of its student's.
LEMMA OpenKeys ==
  ASSUME AttemptInv, NEW i \in Ids, attempt[i].status = "in_progress"
  PROVE  attempt[i].submit = NoKey /\ attempt[i].start \notin SubmitKeys
BY AttemptAssumption DEF AttemptInv, RowOK, AttemptAssumption

LEMMA FinishSaveStep ==
  ASSUME AttemptInv, NEW c \in Calls, FinishSave(c)
  PROVE  AttemptInv'
<1>1. PICK i \in Ids, q \in Questions, value \in {"right", "wrong", "text"} :
        i = call[c].id /\ q = call[c].question /\ value = call[c].value
  <2>1. call[c] \in CallStates /\ call[c].at = "save"
    BY DEF AttemptInv, Types, FinishSave
  <2> QED BY <2>1 DEF CallStates, Idle
<1>2. PICK row \in Attempts : row = attempt[i]
  BY DEF AttemptInv, Types
<1>3. /\ attempt[i].status = "in_progress" /\ HoldsRow(call[c])
      /\ attempt' = attempt /\ attempt' = [attempt EXCEPT ![i] = row]
      /\ Become(c, Idle)
      /\ UNCHANGED <<published, result, evidence, told>>
  BY <1>1, <1>2 DEF FinishSave, AttemptInv, Types, CallOK, HoldsRow
<1>4. /\ answer' \in [Ids -> [Questions -> Answers]]
      /\ \A j \in Ids \ {i} : answer'[j] = answer[j]
  <2>1. answer[i] \in [Questions -> Answers] /\ answer[i][q] \in Answers
    BY DEF AttemptInv, Types
  <2>2. [answer[i][q] EXCEPT !.value = value] \in Answers
    BY <2>1 DEF Answers
  <2>3. [answer[i] EXCEPT ![q] = [answer[i][q] EXCEPT !.value = value]] \in [Questions -> Answers]
    BY <2>1, <2>2
  <2>4. answer' = [answer EXCEPT ![i] = [answer[i] EXCEPT ![q] = [answer[i][q] EXCEPT !.value = value]]]
    BY <1>1, <2>1 DEF FinishSave, AttemptInv, Types
  <2> QED BY <2>3, <2>4 DEF AttemptInv, Types
<1>5. Writes(i, row)
  BY <1>3, <1>4 DEF Writes, AttemptInv, Types
<1>6. RowOK(i)'
  BY <1>3 DEF AttemptInv, RowOK
<1>7. Unlike(i)'
  BY <1>3 DEF AttemptInv, Distinct, Unlike
<1>8. MayWrite(c, i, row)
  BY <1>1, <1>2, <1>3 DEF AttemptInv, Apart, MayWrite, Sole
<1>9. Idle \in CallStates /\ Rests(Idle) /\ CallOK(Idle)'
  BY DEF CallStates, Idle, Inserts, HoldsRow, Rests, CallOK
<1>10. Tells
  BY <1>3 DEF Tells
<1> QED BY <1>3, <1>5, <1>6, <1>7, <1>8, <1>9, <1>10, RowStep

LEMMA FinishSubmitStep ==
  ASSUME AttemptInv, NEW c \in Calls, FinishSubmit(c)
  PROVE  AttemptInv'
<1>1. PICK k \in SubmitKeys, i \in Ids : k = call[c].key /\ i = call[c].id
  <2>1. call[c] \in CallStates /\ call[c].at = "submit"
    BY DEF AttemptInv, Types, FinishSubmit
  <2> QED BY <2>1 DEF CallStates, Idle
<1>2. attempt[i] \in Attempts /\ attempt[i].status = "in_progress" /\ HoldsRow(call[c])
  BY <1>1 DEF FinishSubmit, AttemptInv, Types, CallOK, HoldsRow
<1>3. PICK row \in Attempts : row = [attempt[i] EXCEPT !.status = "submitted", !.submit = k]
  <2>1. k \in Keys
    BY DEF Keys
  <2> QED BY ONLY <1>2, <2>1 DEF Attempts
<1>4. /\ attempt' = [attempt EXCEPT ![i] = row]
      /\ row.status = "submitted" /\ row.start = attempt[i].start /\ row.submit = k
  <2>1. row.status = "submitted" /\ row.start = attempt[i].start /\ row.submit = k
    BY <1>2, <1>3 DEF Attempts
  <2> QED BY <1>1, <1>3, <2>1 DEF FinishSubmit, Submission, AttemptInv, Types
<1>5. PICK x \in CallStates : x = [at |-> "handover", by |-> "submit", key |-> k, id |-> i]
  BY DEF CallStates, AnyKey
<1>6. /\ Become(c, x)
      /\ ~SubmitKeyTaken(k, i)
      /\ answer' = [answer EXCEPT ![i] = Scored(answer[i])]
      /\ result' = [result EXCEPT ![i] = Score(answer[i])]
      /\ UNCHANGED <<published, evidence, told>>
  BY <1>1, <1>5 DEF FinishSubmit, HandOver
<1>7. /\ attempt'[i] = row
      /\ \A j \in Ids \ {i} : attempt'[j] = attempt[j]
  BY <1>4 DEF AttemptInv, Types
<1>8. Scored(answer[i]) \in [Questions -> Answers]
  <2>1. \A q \in Questions : answer[i][q].value \in {"none", "right", "wrong", "text"}
    BY DEF AttemptInv, Types, Answers
  <2> QED BY <2>1 DEF Scored, Answered, Answers
<1>9. /\ answer' \in [Ids -> [Questions -> Answers]]
      /\ DOMAIN result' = Ids /\ result' = [j \in Ids |-> result'[j]]
      /\ answer'[i] = Scored(answer[i]) /\ result'[i] = Score(answer[i])
      /\ \A j \in Ids \ {i} : answer'[j] = answer[j] /\ result'[j] = result[j]
  BY <1>6, <1>8 DEF AttemptInv, Types
<1>10. Score(Scored(answer[i])) = Score(answer[i])
  BY DEF Score, Scored, Answered
<1>11. RowOK(i)'
  <2>1. attempt[i].start \notin SubmitKeys
    BY <1>2, OpenKeys
  <2>2. result'[i] = Score(answer'[i])
    BY <1>9, <1>10
  <2>3. (Score(answer[i]))' = Score(answer'[i])
    BY DEF Score
  <2> QED BY <1>4, <1>7, <2>1, <2>2, <2>3 DEF RowOK
<1>12. Unlike(i)'
  BY <1>4, <1>6, <1>7 DEF AttemptInv, Distinct, SubmitKeyTaken, Unlike
<1>13. MayWrite(c, i, row)
  BY <1>1, <1>2, <1>4 DEF AttemptInv, Apart, MayWrite, Sole
<1>14. Rests(x) /\ CallOK(x)'
  BY <1>4, <1>5, <1>7 DEF Inserts, HoldsRow, Rests, CallOK
<1>15. Writes(i, row) /\ Tells
  BY <1>4, <1>6, <1>9 DEF Writes, Tells
<1> QED BY <1>6, <1>11, <1>12, <1>13, <1>14, <1>15, RowStep

LEMMA SubmitBouncesStep ==
  ASSUME AttemptInv, NEW c \in Calls, SubmitBounces(c)
  PROVE  AttemptInv'
<1>1. call[c] \in CallStates /\ call[c].at = "submit"
  BY DEF AttemptInv, Types, SubmitBounces
<1>2. PICK k \in SubmitKeys, i \in Ids : k = call[c].key /\ i = call[c].id
  BY <1>1 DEF CallStates, Idle
<1>3. PICK r \in Told : r = [by |-> "bounced", key |-> k, id |-> i]
  BY DEF Told, Keys
<1>4. ToldOK(r) /\ told' = told \cup {r}
  BY <1>2, <1>3 DEF ToldOK, SubmitBounces, Tell
<1>5. Become(c, Idle) /\ UNCHANGED <<published, attempt, answer, result, evidence>>
  BY DEF SubmitBounces
<1> QED BY <1>4, <1>5, IdleStep

LEMMA PreCheckStep ==
  ASSUME AttemptInv, NEW c \in Calls, PreCheck(c)
  PROVE  AttemptInv'
<1>1. UNCHANGED <<published, attempt, answer, result, evidence, told>>
  BY DEF PreCheck
<1>2. PICK s \in Students, k \in AnyKey, sel \in Selections :
        \/ \E i \in Submitted(s, k) : HandOver(c, "shot", k, i)
        \/ Become(c, [at |-> "shot", student |-> s, key |-> k, sel |-> sel])
  BY DEF PreCheck, AnyKey
<1>3. ASSUME NEW i \in Submitted(s, k), HandOver(c, "shot", k, i) PROVE AttemptInv'
  <2>1. i \in Ids /\ attempt[i].status = "submitted" /\ attempt[i].submit = k
    BY DEF Submitted, Rows
  <2> QED BY <1>1, <1>3, <2>1, HandOverStep
<1>4. CASE Become(c, [at |-> "shot", student |-> s, key |-> k, sel |-> sel])
  <2>1. PICK x \in CallStates : x = [at |-> "shot", student |-> s, key |-> k, sel |-> sel]
    BY DEF CallStates
  <2>2. ~Inserts(x) /\ ~HoldsRow(x) /\ CallOK(x)
    BY <2>1 DEF Inserts, HoldsRow, CallOK
  <2> QED BY <1>1, <1>4, <2>1, <2>2, FreeStep
<1> QED BY <1>2, <1>3, <1>4

\* A single-shot retry finds its attempt by the submit key: also the attempt
\* it finds by its start key was submitted with that key.
LEMMA MadeBySubmit ==
  ASSUME AttemptInv, NEW s, NEW k \in SubmitKeys, NEW i \in Made(s, k)
  PROVE  i \in Ids /\ attempt[i].status = "submitted" /\ attempt[i].submit = k
BY DEF Made, Rows, AttemptInv, RowOK

LEMMA TakeTurnStep ==
  ASSUME AttemptInv, NEW c \in Calls, TakeTurn(c)
  PROVE  AttemptInv'
<1>1. /\ call[c].at = "shot"
      /\ UNCHANGED <<published, attempt, answer, result, evidence, told>>
  BY DEF TakeTurn
<1>2. PICK y \in CallStates : y = call[c]
  BY DEF AttemptInv, Types
<1>3. PICK s \in Students, k \in AnyKey, sel \in Selections :
        /\ s = call[c].student /\ k = call[c].key /\ sel = call[c].sel
        /\ y = [at |-> "shot", student |-> s, key |-> k, sel |-> sel]
  BY <1>1, <1>2 DEF CallStates, Idle
<1>4. \/ k # NoKey /\ \E i \in Made(s, k) : HandOver(c, "shot", k, i)
      \/ call' = [call EXCEPT ![c].at = "turn"]
  BY <1>3 DEF TakeTurn
<1>5. CASE k # NoKey /\ \E i \in Made(s, k) : HandOver(c, "shot", k, i)
  BY <1>1, <1>5, MadeBySubmit, HandOverStep DEF AnyKey
<1>6. CASE call' = [call EXCEPT ![c].at = "turn"]
  <2>1. PICK x \in CallStates : x = [at |-> "turn", student |-> s, key |-> k, sel |-> sel]
    BY DEF CallStates
  <2>2. [y EXCEPT !.at = "turn"] = x
    BY <1>3, <2>1
  <2>3. Become(c, x)
    BY <1>2, <1>6, <2>2 DEF Become, AttemptInv, Types
  <2>4. ~Inserts(x) /\ ~HoldsRow(x) /\ CallOK(x)
    BY <2>1 DEF Inserts, HoldsRow, CallOK
  <2> QED BY <1>1, <2>3, <2>4, FreeStep
<1> QED BY <1>4, <1>5, <1>6

LEMMA BeginShotStep ==
  ASSUME AttemptInv, NEW c \in Calls, BeginShot(c)
  PROVE  AttemptInv'
<1>1. /\ call[c].at = "turn" /\ ~AssessmentLocked /\ published # 0
      /\ UNCHANGED <<published, evidence>>
  BY DEF BeginShot
<1>2. PICK s \in Students, k \in AnyKey, sel \in Selections, v \in Versions :
        s = call[c].student /\ k = call[c].key /\ sel = call[c].sel /\ v = published
  <2>1. call[c] \in CallStates /\ published \in Versions
    BY <1>1 DEF AttemptInv, Types
  <2> QED BY <1>1, <2>1 DEF CallStates, Idle
<1>3. \/ \E i \in Open(s, v) : ~AttemptLocked(i) /\ Expire(c, i)
      \/ \E i \in Open(s, v) :
           /\ ~AttemptLocked(i)
           /\ Become(c, [at |-> "grade", key |-> k, sel |-> sel, id |-> i])
           /\ UNCHANGED <<attempt, answer, result, told>>
      \/ /\ k # NoKey /\ \E i \in Made(s, k) : HandOver(c, "shot", k, i)
         /\ UNCHANGED <<attempt, answer, result, told>>
      \/ /\ ~Exhausted(s, v)
         /\ Become(c, [at |-> "grade", key |-> k, sel |-> sel, id |-> NextRow(s, v)])
         /\ UNCHANGED <<attempt, answer, result, told>>
  BY <1>2 DEF BeginShot
<1>4. \A i \in Open(s, v) : i \in Ids /\ attempt[i].status = "in_progress"
  BY DEF Open, Used, Rows
<1>5. ASSUME NEW i \in Ids, attempt[i].status = "in_progress" \/ Free(i),
             \A t \in Calls : HoldsRow(call[t]) => call[t].id # i,
             Become(c, [at |-> "grade", key |-> k, sel |-> sel, id |-> i]),
             UNCHANGED <<attempt, answer, result, told>>
      PROVE  AttemptInv'
  <2>1. PICK x \in CallStates : x = [at |-> "grade", key |-> k, sel |-> sel, id |-> i]
    BY DEF CallStates
  <2>2. CallOK(x)
    BY <1>5, <2>1 DEF CallOK
  <2>3. \A t \in Calls \ {c} : Apart(call[t], x) /\ Apart(x, call[t])
    BY <1>1, <1>5, <2>1 DEF Apart, Inserts, HoldsRow, AssessmentLocked
  <2> QED BY <1>1, <1>5, <2>1, <2>2, <2>3, CallStep DEF Become
<1>6. ASSUME NEW i \in Open(s, v), ~AttemptLocked(i), Expire(c, i) PROVE AttemptInv'
  BY <1>1, <1>4, <1>6, ExpireStep
<1>7. ASSUME NEW i \in Open(s, v), ~AttemptLocked(i),
             Become(c, [at |-> "grade", key |-> k, sel |-> sel, id |-> i]),
             UNCHANGED <<attempt, answer, result, told>>
      PROVE  AttemptInv'
  <2>1. \A t \in Calls : HoldsRow(call[t]) => call[t].id # i
    BY <1>7 DEF AttemptLocked, HoldsRow
  <2> QED BY <1>4, <1>5, <1>7, <2>1
<1>8. CASE /\ k # NoKey /\ \E i \in Made(s, k) : HandOver(c, "shot", k, i)
           /\ UNCHANGED <<attempt, answer, result, told>>
  BY <1>1, <1>8, MadeBySubmit, HandOverStep DEF AnyKey
<1>9. CASE /\ ~Exhausted(s, v)
           /\ Become(c, [at |-> "grade", key |-> k, sel |-> sel, id |-> NextRow(s, v)])
           /\ UNCHANGED <<attempt, answer, result, told>>
  <2>1. PICK i \in Ids : i = NextRow(s, v) /\ Free(i)
    BY <1>9, NextIsFree
  <2>2. \A t \in Calls : HoldsRow(call[t]) => call[t].id # i
    BY <1>1, <2>1 DEF AttemptInv, CallOK, HoldsRow, AssessmentLocked, Free
  <2> QED BY <1>5, <1>9, <2>1, <2>2
<1> QED BY <1>3, <1>6, <1>7, <1>8, <1>9

LEMMA FinishShotStep ==
  ASSUME AttemptInv, NEW c \in Calls, FinishShot(c)
  PROVE  AttemptInv'
<1>1. PICK k \in AnyKey, i \in Ids, sel \in Selections :
        k = call[c].key /\ i = call[c].id /\ sel = call[c].sel
  <2>1. call[c] \in CallStates /\ call[c].at = "grade"
    BY DEF AttemptInv, Types, FinishShot
  <2> QED BY <2>1 DEF CallStates, Idle
<1>2. /\ attempt[i] \in Attempts /\ Inserts(call[c]) /\ HoldsRow(call[c])
      /\ attempt[i].status = "in_progress" \/ Free(i)
  BY <1>1 DEF FinishShot, AttemptInv, Types, CallOK, HoldsRow, Inserts
<1>3. PICK from \in Keys : from = IF attempt[i].status = "absent" THEN k ELSE attempt[i].start
  BY <1>2 DEF Attempts, Keys, AnyKey
<1>4. PICK row \in Attempts : row = [status |-> "submitted", submit |-> k, start |-> from]
  BY DEF Attempts, Keys, AnyKey
<1>5. PICK x \in CallStates : x = [at |-> "handover", by |-> "shot", key |-> k, id |-> i]
  BY DEF CallStates
<1>6. /\ Become(c, x) /\ ~SubmitKeyTaken(k, i)
      /\ attempt' = [attempt EXCEPT ![i] = row]
      /\ answer' = [answer EXCEPT ![i] = Filled(answer[i], sel)]
      /\ result' = [result EXCEPT ![i] = Score(Filled(answer[i], sel))]
      /\ UNCHANGED <<published, evidence, told>>
  BY <1>1, <1>3, <1>4, <1>5 DEF FinishShot, HandOver, Graded
<1>7. /\ attempt'[i] = row
      /\ \A j \in Ids \ {i} : attempt'[j] = attempt[j]
  BY <1>6 DEF AttemptInv, Types
<1>8. Filled(answer[i], sel) \in [Questions -> Answers]
  <2>1. /\ \A q \in Questions : answer[i][q] \in Answers
        /\ \A q \in Questions : sel[q] \in {"none", "right", "wrong"}
    BY DEF AttemptInv, Types, Selections
  <2>2. \A q \in Questions : sel[q] # "none" => Answered(sel[q], sel[q]) \in Answers
    BY <2>1 DEF Answered, Answers
  <2> QED BY <2>1, <2>2 DEF Filled
<1>9. /\ answer' \in [Ids -> [Questions -> Answers]]
      /\ DOMAIN result' = Ids /\ result' = [j \in Ids |-> result'[j]]
      /\ answer'[i] = Filled(answer[i], sel) /\ result'[i] = Score(Filled(answer[i], sel))
      /\ \A j \in Ids \ {i} : answer'[j] = answer[j] /\ result'[j] = result[j]
  BY <1>6, <1>8 DEF AttemptInv, Types
<1>10. row.status = "submitted" /\ row.submit = k /\ row.start = from
  BY <1>4
<1>11. from \in SubmitKeys => from = k
  <2>1. CASE attempt[i].status = "in_progress"
    BY <1>3, <2>1, OpenKeys
  <2>2. CASE attempt[i].status = "absent"
    BY <1>3, <2>2
  <2> QED BY <1>2, <2>1, <2>2 DEF Free
<1>12. RowOK(i)'
  <2>1. result'[i] = Score(answer'[i])
    BY <1>9
  <2>2. Score(answer[i])' = Score(answer'[i])
    BY DEF Score
  <2> QED BY <1>7, <1>10, <1>11, <2>1, <2>2 DEF RowOK
<1>13. \A j \in Ids \ {i} : k # NoKey => attempt[j].submit # k /\ attempt[j].start # k
  <2>1. ASSUME NEW j \in Ids \ {i}, k # NoKey PROVE attempt[j].submit # k /\ attempt[j].start # k
    <3>1. attempt[j].submit # k
      BY <1>6, <2>1 DEF SubmitKeyTaken
    <3>2. k \in SubmitKeys
      BY <2>1 DEF AnyKey
    <3> QED BY <3>1, <3>2 DEF AttemptInv, RowOK
  <2> QED BY <2>1
<1>14. \A j \in Ids \ {i} : attempt[j].start = from => from = NoKey
  <2>1. CASE attempt[i].status = "absent"
    BY <1>3, <1>13, <2>1
  <2>2. CASE attempt[i].status # "absent"
    BY <1>3, <2>2 DEF AttemptInv, Distinct
  <2> QED BY <2>1, <2>2
<1>15. Unlike(i)'
  BY <1>7, <1>10, <1>13, <1>14 DEF Unlike, Distinct
<1>16. MayWrite(c, i, row)
  BY <1>1, <1>2, <1>3, <1>10 DEF AttemptInv, Apart, MayWrite, Sole
<1>17. Rests(x) /\ CallOK(x)'
  BY <1>5, <1>7, <1>10 DEF Inserts, HoldsRow, Rests, CallOK
<1>18. Writes(i, row) /\ Tells
  BY <1>6, <1>9 DEF Writes, Tells
<1> QED BY <1>6, <1>12, <1>15, <1>16, <1>17, <1>18, RowStep

\* What a request hands over, and what its answer will say.
LEMMA HandOverFound ==
  ASSUME AttemptInv, NEW c \in Calls, call[c].at = "handover"
  PROVE  \E by \in {"submit", "shot"}, k \in AnyKey, i \in Ids :
           /\ by = call[c].by /\ k = call[c].key /\ i = call[c].id
           /\ attempt[i].status = "submitted" /\ attempt[i].submit = k
<1>1. call[c] \in CallStates /\ CallOK(call[c])
  BY DEF AttemptInv, Types
<1> QED BY <1>1 DEF CallStates, Idle, CallOK

LEMMA ApplyStep ==
  ASSUME AttemptInv, NEW c \in Calls, Apply(c)
  PROVE  AttemptInv'
<1>1. PICK by \in {"submit", "shot"}, k \in AnyKey, i \in Ids :
        /\ by = call[c].by /\ k = call[c].key /\ i = call[c].id
        /\ attempt[i].status = "submitted" /\ attempt[i].submit = k
  BY HandOverFound DEF Apply
<1>2. /\ evidence' = [evidence EXCEPT ![i] = IF @ = NoEvidence THEN Outcome(answer[i]) ELSE @]
      /\ Tell(by, k, i) /\ Become(c, Idle)
      /\ UNCHANGED <<published, attempt, answer, result>>
  BY <1>1 DEF Apply
<1>3. Outcome(answer[i]) # NoEvidence
  <2>1. DOMAIN Outcome(answer[i]) = Questions /\ DOMAIN NoEvidence = {}
    BY DEF Outcome, NoEvidence
  <2> QED BY <2>1, AttemptAssumption DEF AttemptAssumption
<1>4. /\ evidence'[i] # NoEvidence
      /\ \A j \in Ids \ {i} : evidence'[j] = evidence[j]
      /\ DOMAIN evidence' = Ids /\ evidence' = [j \in Ids |-> evidence'[j]]
  BY <1>2, <1>3 DEF AttemptInv, Types
<1>5. PICK r \in Told : r = [by |-> by, key |-> k, id |-> i]
  BY DEF Told, Keys, AnyKey
<1>6. ToldOK(r)' /\ told' = told \cup {r}
  BY <1>1, <1>2, <1>4, <1>5 DEF ToldOK, Tell
<1>7. ASSUME NEW q \in told PROVE ToldOK(q)'
  <2>1. q \in Told /\ ToldOK(q)
    BY <1>7 DEF AttemptInv, Types
  <2>2. q.id \in Ids
    BY <2>1 DEF Told
  <2> QED BY <1>2, <1>4, <2>1, <2>2 DEF ToldOK
<1>8. /\ call'[c] = Idle
      /\ \A t \in Calls \ {c} : call'[t] = call[t]
      /\ call' \in [Calls -> CallStates]
  BY <1>2 DEF AttemptInv, Types, Become, CallStates
<1>9. Types'
  BY <1>2, <1>4, <1>6, <1>8 DEF AttemptInv, Types
<1>10. \A s \in Students, v \in Versions : Numbered(s, v)'
  BY <1>2, SameNumbers DEF AttemptInv
<1>11. /\ \A j \in Ids : RowOK(j)'
       /\ \A j, l \in Ids : j # l => Distinct(j, l)'
  BY <1>2 DEF AttemptInv, RowOK, Distinct
<1>12. \A t \in Calls : CallOK(call[t])'
  <2>1. ASSUME NEW t \in Calls \ {c} PROVE CallOK(call[t])'
    <3>1. PICK y : y = call[t]
      OBVIOUS
    <3>2. CallOK(y)'
      BY <1>2, <3>1 DEF AttemptInv, CallOK, Free, NextRow, Exhausted, Used, Rows
    <3> QED BY <1>8, <3>1, <3>2 DEF CallOK
  <2>2. CallOK(call[c])'
    BY <1>8 DEF CallOK, Idle
  <2> QED BY <2>1, <2>2
<1>13. \A t, u \in Calls : t # u => Apart(call[t], call[u])'
  BY <1>8 DEF AttemptInv, Apart, Inserts, HoldsRow, Idle
<1> QED BY <1>6, <1>7, <1>9, <1>10, <1>11, <1>12, <1>13 DEF AttemptInv

LEMMA ApplyFailsStep ==
  ASSUME AttemptInv, NEW c \in Calls, ApplyFails(c)
  PROVE  AttemptInv'
<1>1. PICK by \in {"submit", "shot"}, k \in AnyKey, i \in Ids :
        /\ by = call[c].by /\ k = call[c].key /\ i = call[c].id
        /\ attempt[i].status = "submitted" /\ attempt[i].submit = k
  BY HandOverFound DEF ApplyFails
<1>2. /\ Become(c, Idle) /\ UNCHANGED <<published, attempt, answer, result, evidence>>
      /\ told' = told \/ Tell("shot", k, i)
  BY <1>1 DEF ApplyFails
<1>3. CASE told' = told
  BY <1>2, <1>3, IdleStep
<1>4. CASE Tell("shot", k, i)
  <2>1. PICK r \in Told : r = [by |-> "shot", key |-> k, id |-> i]
    BY DEF Told, Keys, AnyKey
  <2>2. ToldOK(r) /\ told' = told \cup {r}
    BY <1>1, <1>4, <2>1 DEF ToldOK, Tell
  <2> QED BY <1>2, <2>2, IdleStep
<1> QED BY <1>2, <1>3, <1>4

\* Publication and the clock write nothing that the invariant reads, but for
\* the published version.
LEMMA OthersStep ==
  ASSUME AttemptInv, published' \in Versions \cup {0},
         UNCHANGED <<attempt, answer, result, evidence, call, told>>
  PROVE  AttemptInv'
<1>1. Types'
  BY DEF AttemptInv, Types
<1>2. \A s \in Students, v \in Versions : Numbered(s, v)'
  BY SameNumbers DEF AttemptInv
<1>3. /\ \A i \in Ids : RowOK(i)'
      /\ \A i, j \in Ids : i # j => Distinct(i, j)'
  BY DEF AttemptInv, RowOK, Distinct
<1>4. \A t \in Calls : CallOK(call[t])'
  BY DEF AttemptInv, CallOK, Free, NextRow, Exhausted, Used, Rows
<1>5. \A t, u \in Calls : t # u => Apart(call[t], call[u])'
  BY DEF AttemptInv, Apart, Inserts, HoldsRow
<1>6. \A r \in told' : ToldOK(r)'
  BY DEF AttemptInv, ToldOK
<1> QED BY <1>1, <1>2, <1>3, <1>4, <1>5, <1>6 DEF AttemptInv

LEMMA StepKeeps ==
  ASSUME AttemptInv, [Next]_vars
  PROVE  AttemptInv'
<1>1. CASE UNCHANGED vars
  <2>1. published' \in Versions \cup {0}
    BY <1>1 DEF vars, AttemptInv, Types
  <2> QED BY <1>1, <2>1, OthersStep DEF vars
<1>2. CASE Withdraw \/ SetPublication \/ TimeUp
  <2>1. published' \in Versions \cup {0}
    BY <1>2 DEF Withdraw, SetPublication, TimeUp, AttemptInv, Types
  <2> QED BY <1>2, <2>1, OthersStep DEF Withdraw, SetPublication, TimeUp
<1>3. ASSUME NEW c \in Calls, Abort(c) PROVE AttemptInv'
  BY <1>3, IdleStep DEF Abort
<1> QED BY <1>1, <1>2, <1>3, LookUpStartStep, BeginStartStep, FinishStartStep, BeginSaveStep,
           FinishSaveStep, BeginSubmitStep, FinishSubmitStep, SubmitBouncesStep, PreCheckStep,
           TakeTurnStep, BeginShotStep, FinishShotStep, ApplyStep, ApplyFailsStep DEF Next

LEMMA InitHolds == Init => AttemptInv
<1> SUFFICES ASSUME Init PROVE AttemptInv
  OBVIOUS
<1> USE AttemptAssumption DEF AttemptAssumption
<1>1. Absent \in Attempts /\ NoAnswer \in Answers /\ Absent.status = "absent"
  BY DEF Absent, Attempts, Keys, NoAnswer, Answers
<1>2. \A i \in Ids : attempt[i] = Absent
  BY DEF Init
<1>3. Types
  BY <1>1 DEF Init, Types, CallStates
<1>4. ASSUME NEW s \in Students, NEW v \in Versions PROVE Numbered(s, v)
  <2>1. Used(s, v) = {}
    BY <1>1, <1>2 DEF Used, Rows
  <2>2. \A i \in Ids : ~(i[3] <= 0)
    BY IdForm
  <2>3. Used(s, v) = {i \in Ids : i[1] = s /\ i[2] = v /\ i[3] <= 0}
    BY <2>1, <2>2
  <2>4. 0 \in 0..MaxAttempts
    OBVIOUS
  <2> QED BY <2>1, <2>3, <2>4, FS_EmptySet DEF Numbered
<1>5. /\ \A i \in Ids : RowOK(i)
      /\ \A i, j \in Ids : i # j => Distinct(i, j)
  BY <1>2 DEF RowOK, Distinct, Absent
<1>6. /\ \A t \in Calls : CallOK(call[t])
      /\ \A t, u \in Calls : t # u => Apart(call[t], call[u])
  BY DEF Init, Idle, CallOK, Apart, Inserts, HoldsRow
<1>7. \A r \in told : ToldOK(r)
  BY DEF Init
<1> QED BY <1>3, <1>4, <1>5, <1>6, <1>7 DEF AttemptInv

LEMMA AttemptInvariant == Spec => []AttemptInv
BY InitHolds, StepKeeps, PTL DEF Spec

-----------------------------------------------------------------------------
(* The properties. *)

\* No attempt beyond the allowed number, one attempt for the retries of a
\* key, and a result that counts the answers stored for it, however many
\* starts, saves, submissions and single-shot submissions overlap and fail.
THEOREM AttemptsCorrect == Spec => []AttemptsAgree
<1>1. AttemptInv => TypeOK
  <2> SUFFICES ASSUME AttemptInv, NEW i \in Ids, i[3] > MaxAttempts PROVE attempt[i] = Absent
    BY DEF TypeOK, AttemptInv, Types
  <2>1. PICK s \in Students, v \in Versions, m \in 1..(MaxAttempts + 1) : i = <<s, v, m>>
    BY DEF Ids
  <2>2. PICK n \in 0..MaxAttempts : Used(s, v) = {j \in Ids : j[1] = s /\ j[2] = v /\ j[3] <= n}
    BY DEF AttemptInv, Numbered
  <2>3. i \notin Used(s, v)
    BY <2>1, <2>2, AttemptAssumption DEF AttemptAssumption
  <2>4. attempt[i].status = "absent"
    BY <2>1, <2>3 DEF Used, Rows, Student
  <2> QED BY <2>4 DEF AttemptInv, RowOK
<1>2. AttemptInv => KeyNamesOneAttempt
  <2> SUFFICES ASSUME AttemptInv, NEW x \in told, NEW y \in told, x.key = y.key, x.key # NoKey,
                      x.by # "bounced", y.by # "bounced", x.id # y.id
               PROVE  FALSE
    BY DEF KeyNamesOneAttempt
  <2>1. x \in Told /\ y \in Told /\ ToldOK(x) /\ ToldOK(y)
    BY DEF AttemptInv, Types
  <2>2. /\ x.id \in Ids /\ x.by \in {"start", "submit", "shot"}
        /\ y.id \in Ids /\ y.by \in {"start", "submit", "shot"}
    BY <2>1 DEF Told
  <2>3. Distinct(x.id, y.id)
    BY <2>2 DEF AttemptInv
  <2>4. CASE x.by = "start" /\ y.by = "start"
    BY <2>1, <2>3, <2>4 DEF ToldOK, Distinct
  <2>5. CASE x.by # "start" /\ y.by # "start"
    BY <2>1, <2>2, <2>3, <2>5 DEF ToldOK, Distinct
  <2>6. CASE (x.by = "start") # (y.by = "start")
    BY <2>1, <2>2, <2>6, AttemptAssumption DEF ToldOK, AnyKey, AttemptAssumption
  <2> QED BY <2>4, <2>5, <2>6
<1>3. AttemptInv => ResultMatchesAnswers
  BY DEF AttemptInv, RowOK, ResultMatchesAnswers
<1> QED BY <1>1, <1>2, <1>3, AttemptInvariant, PTL DEF AttemptsAgree

\* A Submit that answered has handed its outcome over to the learning
\* component, also when an earlier one died between the two.
THEOREM SubmitRecords == Spec => []SubmitMeansRecorded
<1>1. AttemptInv => SubmitMeansRecorded
  BY DEF AttemptInv, ToldOK, SubmitMeansRecorded
<1> QED BY <1>1, AttemptInvariant, PTL

\* An attempt that was submitted or has expired stays as it is: whoever writes
\* a row holds the lock under which it found the attempt open, or makes it.
THEOREM FinalCorrect == Spec => FinalStays
<1> DEFINE Untouched(i) ==
             /\ attempt'[i] = attempt[i] /\ answer'[i] = answer[i] /\ result'[i] = result[i]
           Final == \A i \in Ids : attempt[i].status \in {"submitted", "expired"} => Untouched(i)
<1>1. ASSUME AttemptInv, [Next]_vars PROVE Final
  <2> SUFFICES ASSUME NEW i \in Ids, attempt[i].status \in {"submitted", "expired"}
               PROVE  Untouched(i)
    OBVIOUS
  <2>1. CASE UNCHANGED <<attempt, answer, result>>
    BY <2>1
  <2>2. ASSUME NEW j \in Ids, attempt[j].status \in {"in_progress", "absent"},
               NEW row, NEW answers, NEW counts,
               attempt' = [attempt EXCEPT ![j] = row] \/ attempt' = attempt,
               answer' = [answer EXCEPT ![j] = answers] \/ answer' = answer,
               result' = [result EXCEPT ![j] = counts] \/ result' = result
        PROVE  Untouched(i)
    BY <1>1, <2>2 DEF AttemptInv, Types
  <2>3. ASSUME NEW c \in Calls, NEW j \in Ids, attempt[j].status = "in_progress", Expire(c, j)
        PROVE  Untouched(i)
    BY <2>2, <2>3 DEF Expire
  <2>4. ASSUME NEW c \in Calls, call[c].at \in {"insert", "save", "submit", "grade"}
        PROVE  call[c].id \in Ids /\ attempt[call[c].id].status \in {"in_progress", "absent"}
    <3>1. call[c] \in CallStates /\ CallOK(call[c])
      BY <1>1 DEF AttemptInv, Types
    <3> QED BY <2>4, <3>1 DEF CallStates, Idle, CallOK, Free
  <2>5. ASSUME NEW c \in Calls, FinishStart(c) PROVE Untouched(i)
    BY <2>2, <2>4, <2>5 DEF FinishStart
  <2>6. ASSUME NEW c \in Calls, FinishSave(c) PROVE Untouched(i)
    <3>1. PICK j \in Ids : j = call[c].id /\ attempt[j].status \in {"in_progress", "absent"}
      BY <2>4, <2>6 DEF FinishSave
    <3>2. /\ UNCHANGED <<attempt, result>>
          /\ \A l \in Ids \ {j} : answer'[l] = answer[l]
      BY <1>1, <2>6, <3>1 DEF FinishSave, AttemptInv, Types
    <3> QED BY <3>1, <3>2
  <2>7. ASSUME NEW c \in Calls, FinishSubmit(c) PROVE Untouched(i)
    <3>1. PICK j \in Ids : j = call[c].id /\ attempt[j].status \in {"in_progress", "absent"}
      BY <2>4, <2>7 DEF FinishSubmit
    <3>2. \A l \in Ids \ {j} : /\ attempt'[l] = attempt[l]
                               /\ answer'[l] = answer[l] /\ result'[l] = result[l]
      BY <1>1, <2>7, <3>1 DEF FinishSubmit, Submission, AttemptInv, Types
    <3> QED BY <3>1, <3>2
  <2>8. ASSUME NEW c \in Calls, FinishShot(c) PROVE Untouched(i)
    <3>1. PICK j \in Ids : j = call[c].id /\ attempt[j].status \in {"in_progress", "absent"}
      BY <2>4, <2>8 DEF FinishShot
    <3>2. \A l \in Ids \ {j} : /\ attempt'[l] = attempt[l]
                               /\ answer'[l] = answer[l] /\ result'[l] = result[l]
      BY <1>1, <2>8, <3>1 DEF FinishShot, AttemptInv, Types
    <3> QED BY <3>1, <3>2
  <2>9. ASSUME NEW c \in Calls, BeginSave(c) \/ BeginSubmit(c) PROVE Untouched(i)
    BY <2>1, <2>3, <2>9 DEF BeginSave, BeginSubmit
  <2>10. ASSUME NEW c \in Calls, BeginShot(c) PROVE Untouched(i)
    <3>1. \A s, v : \A j \in Open(s, v) : j \in Ids /\ attempt[j].status = "in_progress"
      BY DEF Open, Used, Rows
    <3>2. \/ UNCHANGED <<attempt, answer, result>>
          \/ \E j \in Open(call[c].student, published) : Expire(c, j)
      BY <2>10 DEF BeginShot
    <3> QED BY <2>1, <2>3, <3>1, <3>2
  <2> QED BY <1>1, <2>1, <2>5, <2>6, <2>7, <2>8, <2>9, <2>10
    DEF Next, vars, LookUpStart, BeginStart, SubmitBounces, PreCheck, TakeTurn, Apply, ApplyFails,
        Abort, Withdraw, SetPublication, TimeUp
<1>2. AttemptInv /\ [Next]_vars => [Final]_vars
  BY <1>1
<1> QED BY <1>2, AttemptInvariant, PTL DEF Spec, FinalStays
=============================================================================
