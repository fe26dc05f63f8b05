-------------------------- MODULE LearnerTypeProofs --------------------------
(***************************************************************************)
(* The pages of a learner keep their types (LearnerPagesTypeOK).  The invariants *)
(* of LearnerPageProofs type six of them; the review library and the practice    *)
(* of a review need more, because their bounds are counts: of rows on a page,   *)
(* and of what was ever written to a card.                                   *)
(***************************************************************************)
EXTENDS LearnerPageProofs, FunctionTheorems

(***************************************************************************)
(* Counting: in a finite set of numbers each number of elements has one that  *)
(* so many are below.                                                      *)
(***************************************************************************)
Below(S, a) == {b \in S : b < a}

LEMMA BelowGrows ==
  ASSUME NEW S, IsFiniteSet(S), S \subseteq Nat, NEW a \in S, NEW b \in S, a < b
  PROVE  Cardinality(Below(S, a)) < Cardinality(Below(S, b))
<1>1. Below(S, a) \in SUBSET Below(S, b) /\ Below(S, a) # Below(S, b)
      /\ Below(S, b) \in SUBSET S
  <2>1. a \in Nat /\ b \in Nat /\ a \in Below(S, b) /\ a \notin Below(S, a)
    BY DEF Below
  <2>2. \A c \in Below(S, a) : c \in Below(S, b)
    BY <2>1 DEF Below
  <2> QED BY <2>1, <2>2 DEF Below
<1>2. IsFiniteSet(Below(S, b))
  BY <1>1, FS_Subset
<1>3. /\ IsFiniteSet(Below(S, a)) /\ Cardinality(Below(S, a)) <= Cardinality(Below(S, b))
      /\ Cardinality(Below(S, b)) # Cardinality(Below(S, a))
  BY <1>1, <1>2, FS_Subset
<1>4. Cardinality(Below(S, a)) \in Nat /\ Cardinality(Below(S, b)) \in Nat
  BY <1>2, <1>3, FS_CardinalityType
<1> QED BY <1>3, <1>4

LEMMA BelowWithin ==
  ASSUME NEW S, IsFiniteSet(S), S \subseteq Nat, NEW a \in S
  PROVE  Cardinality(Below(S, a)) \in 0..(Cardinality(S) - 1)
<1>1. Below(S, a) \in SUBSET S /\ Below(S, a) # S
  BY DEF Below
<1>2. /\ IsFiniteSet(Below(S, a)) /\ Cardinality(Below(S, a)) <= Cardinality(S)
      /\ Cardinality(S) # Cardinality(Below(S, a))
  BY <1>1, FS_Subset
<1>3. Cardinality(Below(S, a)) \in Nat /\ Cardinality(S) \in Nat
  BY <1>2, FS_CardinalityType
<1> QED BY <1>2, <1>3

LEMMA EachHasItsPlace ==
  ASSUME NEW S, IsFiniteSet(S), S \subseteq Nat, NEW k \in 0..(Cardinality(S) - 1)
  PROVE  \E a \in S : Cardinality(Below(S, a)) = k
<1> DEFINE n == Cardinality(S)
           T == 0..(n - 1)
           r == [a \in S |-> Cardinality(Below(S, a))]
<1>1. n \in Nat
  BY FS_CardinalityType
<1>2. r \in [S -> T]
  BY BelowWithin
<1>3. \A a, b \in S : r[a] = r[b] => a = b
  <2> SUFFICES ASSUME NEW a \in S, NEW b \in S, a # b PROVE r[a] # r[b]
    OBVIOUS
  <2>1. r[a] \in Int /\ r[b] \in Int /\ a \in Nat /\ b \in Nat
    BY <1>1, <1>2
  <2>2. a < b \/ b < a
    BY <2>1
  <2>3. r[a] < r[b] \/ r[b] < r[a]
    BY <2>2, BelowGrows
  <2> QED BY <2>1, <2>3
<1>4. IsFiniteSet(T) /\ Cardinality(T) = n
  <2>1. n - 1 \in Int /\ 0 \in Int
    BY <1>1
  <2>2. IsFiniteSet(T) /\ Cardinality(T) = IF 0 > n - 1 THEN 0 ELSE n - 1 - 0 + 1
    BY <2>1, FS_Interval
  <2> QED BY <1>1, <2>2
<1> HIDE DEF r, T
<1>5. r \in Injection(S, T)
  BY <1>2, <1>3, Fun_IsInj
<1>6. r \in Surjection(S, T)
  BY <1>4, <1>5, FS_Injection
<1>7. \A t \in T : \E a \in S : r[a] = t
  BY <1>6, Fun_SurjectionProperties
<1> QED BY <1>7 DEF r, T

(***************************************************************************)
(* The types of ReviewLibrary: a page of the list has as many rows as there    *)
(* are, and the table has no more rows than there are cards.                 *)
(***************************************************************************)
ReviewScreens ==
  [page : {"review"}, view : SelectedView, known : BOOLEAN, rows : ReviewRows,
   index : Cards, more : BOOLEAN, busy : BOOLEAN, failed : BOOLEAN,
   saving : Cards \cup {0}, lost : BOOLEAN, toggles : 0..MaxToggles]
ReviewTable(table) ==
  table \in ReviewRows /\ \A i, j \in DOMAIN table : table[i].card = table[j].card => i = j
ReviewCallTyped(c) ==
  /\ c.kind = "review" => c.view \in SelectedView /\ c.rows \in ReviewRows /\ c.more \in BOOLEAN
  /\ c.kind = "toggle" => c.card \in Cards

ReviewTyped ==
  /\ ReviewInv /\ screen \in ReviewScreens /\ ReviewTable(server)
  /\ \A c \in calls : ReviewCallTyped(c)

LEMMA ReviewBounds ==
  /\ MaxToggles \in Nat /\ ReviewPageSize \in Nat \ {0} /\ 0 \in 0..MaxToggles
  /\ IsFiniteSet(Cards) /\ Cardinality(Cards) \in Nat /\ Cards = 1..Cardinality(Cards)
  /\ <<>> \in ReviewRows /\ ReviewPages \subseteq Nat \ {0}
<1>1. MaxToggles \in Nat /\ ReviewPageSize \in Nat \ {0} /\ CardSubject \in Seq(SubjectsOfPaths)
  BY ReviewLibraryAssumption
<1>2. PICK n \in Nat : Cards = 1..n
  <2>1. Len(CardSubject) \in Nat /\ DOMAIN CardSubject = 1..Len(CardSubject)
    BY <1>1
  <2> QED BY <2>1 DEF Cards
<1>3. IsFiniteSet(Cards) /\ Cardinality(Cards) = n
  BY <1>2, FS_Interval
<1>4. <<>> \in ReviewRows
  <2>1. <<>> \in [1..0 -> ReviewRow]
    OBVIOUS
  <2>2. 0 \in 0..Cardinality(Cards)
    BY <1>3
  <2> QED BY <2>1, <2>2 DEF ReviewRows
<1> QED BY <1>1, <1>2, <1>3, <1>4 DEF ReviewPages

\* What a list of rows is.
LEMMA RowListIs ==
  /\ \A n \in 0..Cardinality(Cards) : \A list \in [1..n -> ReviewRow] : list \in ReviewRows
  /\ \A list \in ReviewRows : \E n \in 0..Cardinality(Cards) : list \in [1..n -> ReviewRow]
BY DEF ReviewRows

LEMMA PlaceAfterIs ==
  ASSUME NEW S, IsFiniteSet(S), S \subseteq Nat, NEW n \in 0..(Cardinality(S) - 1)
  PROVE  PlaceAfter(n, S) \in S
<1>1. \E a \in S : Cardinality(Below(S, a)) = n
  BY EachHasItsPlace
<1> QED BY <1>1 DEF PlaceAfter, Below

\* What the server lists is a part of its table.
LEMMA ListedTyped ==
  ASSUME NEW table, ReviewTable(table), NEW v \in SelectedView
  PROVE  ReviewRowsOf(v, table) \in ReviewRows /\ MoreThan(v, table) \in BOOLEAN
<1> DEFINE places == ReviewPlaces(v, table)
           before == (v.pageNo - 1) * ReviewPageSize
           left == Cardinality(places) - before
           n == IF left < ReviewPageSize THEN left ELSE ReviewPageSize
           m == IF n < 0 THEN 0 ELSE n
<1>1. PICK len \in 0..Cardinality(Cards) : table \in [1..len -> ReviewRow]
  BY RowListIs DEF ReviewTable
<1>2. /\ len \in Nat /\ places \subseteq 1..len /\ IsFiniteSet(1..len) /\ Cardinality(1..len) = len
  <2>1. len \in Nat
    BY <1>1, ReviewBounds
  <2> QED BY <1>1, <2>1, FS_Interval DEF ReviewPlaces
<1>3. IsFiniteSet(places) /\ Cardinality(places) \in 0..len
  BY <1>2, FS_Subset, FS_CardinalityType
<1>4. before \in Nat
  <2>1. PICK a \in Nat, b \in Nat : a = v.pageNo - 1 /\ b = ReviewPageSize
    <3>1. v.pageNo \in ReviewPages
      BY DEF SelectedView
    <3>2. v.pageNo \in Nat \ {0} /\ ReviewPageSize \in Nat
      BY <3>1, ReviewBounds
    <3> QED BY <3>2
  <2>2. a * b \in Nat
    OBVIOUS
  <2> QED BY <2>1, <2>2
<1> HIDE DEF before, places
<1>5. /\ n \in Int /\ n <= len /\ n <= left /\ m \in 0..Cardinality(Cards)
      /\ 1..n = 1..m
  BY <1>1, <1>2, <1>3, <1>4, ReviewBounds
<1>6. ASSUME NEW k \in 1..m PROVE table[PlaceAfter(before + k - 1, places)] \in ReviewRow
  <2>1. before + k - 1 \in 0..(Cardinality(places) - 1)
    BY <1>3, <1>4, <1>5
  <2>2. places \subseteq Nat
    BY <1>2
  <2>3. PICK a \in places : a = PlaceAfter(before + k - 1, places)
    BY <1>3, <2>1, <2>2, PlaceAfterIs
  <2>4. table[a] \in ReviewRow
    BY <1>1, <1>2
  <2> QED BY <2>3, <2>4
<1>7. ReviewRowsOf(v, table) = [k \in 1..m |-> table[PlaceAfter(before + k - 1, places)]]
  <2>1. ReviewRowsOf(v, table) = [k \in 1..n |-> table[PlaceAfter(before + k - 1, places)]]
    BY DEF ReviewRowsOf, before, places
  <2> QED BY <1>5, <2>1
<1> HIDE DEF m
<1>8. ReviewRowsOf(v, table) \in [1..m -> ReviewRow]
  BY <1>6, <1>7
<1> QED BY <1>5, <1>8, RowListIs DEF MoreThan

\* A table from which a card's row was taken, and that row, changed or not, put before it.
LEMMA TableTyped ==
  ASSUME NEW table, ReviewTable(table), NEW row \in ReviewRow, NEW saved, Has([card |-> row.card, saved |-> saved], table)
  PROVE  ReviewTable(Without(row.card, table)) /\ ReviewTable(<<row>> \o Without(row.card, table))
<1> DEFINE at == CHOOSE i \in DOMAIN table : table[i].card = row.card
           rest == Without(row.card, table)
           list == <<row>> \o rest
<1>1. PICK n \in 0..Cardinality(Cards) : table \in [1..n -> ReviewRow]
  BY RowListIs DEF ReviewTable
<1>2. n \in Nat /\ Cardinality(Cards) \in Nat /\ DOMAIN table = 1..n /\ Len(table) = n
  BY <1>1, ReviewBounds
<1>3. at \in 1..n /\ table[at].card = row.card
  <2>1. \E i \in DOMAIN table : table[i].card = row.card
    BY DEF Has
  <2> QED BY <1>2, <2>1
<1>4. rest = [i \in 1..(n - 1) |-> table[IF i < at THEN i ELSE i + 1]]
  BY <1>2 DEF Without
<1> HIDE DEF at, rest
<1>5. rest \in [1..(n - 1) -> ReviewRow]
  BY <1>1, <1>2, <1>3, <1>4
<1>6. /\ \A i, j \in 1..(n - 1) : rest[i].card = rest[j].card => i = j
      /\ \A i \in 1..(n - 1) : rest[i].card # row.card
  <2>1. \A i, j \in 1..n : table[i].card = table[j].card => i = j
    BY <1>2 DEF ReviewTable
  <2>2. ASSUME NEW i \in 1..(n - 1)
        PROVE  \E k \in 1..n : k # at /\ rest[i] = table[k] /\ k = IF i < at THEN i ELSE i + 1
    BY <1>2, <1>3, <1>4
  <2>3. ASSUME NEW i \in 1..(n - 1) PROVE rest[i].card # row.card
    <3>1. PICK k \in 1..n : k # at /\ rest[i] = table[k]
      BY <2>2
    <3> QED BY <1>3, <2>1, <3>1
  <2>4. ASSUME NEW i \in 1..(n - 1), NEW j \in 1..(n - 1), rest[i].card = rest[j].card PROVE i = j
    <3>1. PICK k \in 1..n : rest[i] = table[k] /\ k = IF i < at THEN i ELSE i + 1
      BY <2>2
    <3>2. PICK l \in 1..n : rest[j] = table[l] /\ l = IF j < at THEN j ELSE j + 1
      BY <2>2
    <3>3. k = l
      BY <2>1, <2>4, <3>1, <3>2
    <3> QED BY <1>2, <1>3, <3>1, <3>2, <3>3
  <2> QED BY <2>3, <2>4
<1>8. ReviewTable(rest)
  <2>1. n - 1 \in 0..Cardinality(Cards)
    BY <1>1, <1>2, <1>3
  <2> QED BY <1>5, <1>6, <2>1, RowListIs DEF ReviewTable
<1>9. /\ rest \in Seq(ReviewRow) /\ Len(rest) = n - 1
  BY <1>2, <1>3, <1>5
<1>10. /\ list \in Seq(ReviewRow) /\ Len(list) = n /\ list[1] = row
       /\ \A i \in 2..n : list[i] = rest[i - 1]
  BY <1>2, <1>3, <1>9
<1> HIDE DEF list
<1>11. list \in [1..n -> ReviewRow]
  BY <1>2, <1>10
<1>12. \A i, j \in 1..n : list[i].card = list[j].card => i = j
  <2> SUFFICES ASSUME NEW i \in 1..n, NEW j \in 1..n, i < j, list[i].card = list[j].card
               PROVE  FALSE
    BY <1>2
  <2>1. j - 1 \in 1..(n - 1) /\ list[j] = rest[j - 1]
    BY <1>2, <1>10
  <2>2. CASE i = 1
    BY <1>6, <1>10, <2>1, <2>2
  <2>3. CASE i # 1
    <3>1. i - 1 \in 1..(n - 1) /\ list[i] = rest[i - 1] /\ i - 1 # j - 1
      BY <1>2, <1>10, <2>3
    <3> QED BY <1>6, <2>1, <3>1
  <2> QED BY <2>2, <2>3
<1>13. ReviewTable(list)
  BY <1>1, <1>11, <1>12, RowListIs DEF ReviewTable
<1> QED BY <1>8, <1>13 DEF list, rest

\* Stars leave a table of cards.
LEMMA StarredTyped ==
  ASSUME NEW table, ReviewTable(table), NEW card \in Cards
  PROVE  ReviewTable(Saved(card, table)) /\ ReviewTable(Unsaved(card, table))
<1>1. PICK on \in ReviewRow : on = [card |-> card, saved |-> TRUE]
  BY DEF ReviewRow
<1>2. PICK off \in ReviewRow : off = [card |-> card, saved |-> FALSE]
  BY DEF ReviewRow
<1>3. on.card = card /\ off.card = card
  BY <1>1, <1>2
<1>4. Has(on, table) => ReviewTable(Without(card, table)) /\ ReviewTable(<<off>> \o Without(card, table))
  BY <1>1, <1>3, TableTyped
<1>5. Has(off, table) => ReviewTable(<<on>> \o Without(card, table))
  BY <1>2, <1>3, TableTyped
<1> QED BY <1>1, <1>2, <1>4, <1>5 DEF Saved, Unsaved

LEMMA ReviewTypedStart == ReviewInit => ReviewTyped
<1> SUFFICES ASSUME ReviewInit PROVE ReviewTyped
  OBVIOUS
<1>1. PICK view \in SelectedView :
        /\ screen = [page |-> "review", view |-> view, known |-> FALSE, rows |-> <<>>,
                     index |-> 1, more |-> FALSE, busy |-> view.path # "none",
                     failed |-> FALSE, saving |-> 0, lost |-> FALSE, toggles |-> 0]
        /\ calls = IF view.path = "none" THEN {} ELSE {ReviewRequest(view)}
  BY DEF ReviewInit
<1>2. 1 \in Cards
  <2>1. view.pageNo \in 1..Cardinality(Cards)
    BY DEF SelectedView, ReviewPages
  <2> QED BY <2>1, ReviewBounds
<1>3. PICK busy \in BOOLEAN : busy = (view.path # "none")
  OBVIOUS
<1>4. screen \in ReviewScreens
  <2>1. <<>> \in ReviewRows /\ 0 \in 0..MaxToggles /\ 0 \in Cards \cup {0} /\ FALSE \in BOOLEAN
    BY ReviewBounds
  <2> QED BY <1>1, <1>2, <1>3, <2>1, Zenon DEF ReviewScreens
<1>5. ReviewTable(server)
  <2>1. /\ server \in [Cards -> ReviewRow]
        /\ \A i, j \in Cards : server[i].card = server[j].card => i = j
    BY DEF ReviewInit
  <2>2. Cardinality(Cards) \in 0..Cardinality(Cards) /\ server \in [1..Cardinality(Cards) -> ReviewRow]
    BY <2>1, ReviewBounds
  <2> QED BY <2>1, <2>2, RowListIs DEF ReviewTable
<1>6. \A c \in calls : ReviewCallTyped(c)
  <2>1. ReviewCallTyped(ReviewRequest(view))
    BY ReviewBounds DEF ReviewCallTyped, ReviewRequest
  <2> QED BY <1>1, <2>1
<1> QED BY <1>4, <1>5, <1>6, ReviewStart DEF ReviewTyped

\* Another list, or the same again.
LEMMA LoadTyped ==
  ASSUME ReviewTyped, NEW p \in ReviewScreens, NEW over, LoadReview(p, over)
  PROVE  screen' \in ReviewScreens /\ \A c \in calls' : ReviewCallTyped(c)
<1>1. CASE p.view.path = "none"
  <2>1. /\ screen' = [p EXCEPT !.rows = <<>>, !.more = FALSE] /\ calls' \subseteq calls
    BY <1>1 DEF LoadReview
  <2>2. <<>> \in ReviewRows /\ FALSE \in BOOLEAN
    BY ReviewBounds
  <2>3. screen' \in ReviewScreens
    BY <2>1, <2>2, Zenon DEF ReviewScreens
  <2> QED BY <2>1, <2>3 DEF ReviewTyped
<1>2. CASE p.view.path # "none"
  <2>1. /\ screen' = [p EXCEPT !.busy = TRUE, !.failed = FALSE]
        /\ calls' \subseteq calls \cup {ReviewRequest(p.view)}
    BY <1>2 DEF LoadReview
  <2>2. screen' \in ReviewScreens
    BY <2>1, Zenon DEF ReviewScreens
  <2>3. p.view \in SelectedView
    BY DEF ReviewScreens
  <2>4. ReviewCallTyped(ReviewRequest(p.view))
    BY <2>3, ReviewBounds DEF ReviewRequest, ReviewCallTyped
  <2> QED BY <2>1, <2>2, <2>4 DEF ReviewTyped
<1> QED BY <1>1, <1>2

LEMMA ReviewChoiceTyped ==
  ASSUME ReviewTyped,
         \/ ReviewPathsArrive \/ ReviewSelects
         \/ \E tab \in ReviewTabs : ChooseReviewTab(tab)
         \/ \E by \in {-1, 1} : TurnReviewPage(by)
  PROVE  screen' \in ReviewScreens /\ server' = server /\ \A c \in calls' : ReviewCallTyped(c)
<1>0. screen \in ReviewScreens /\ screen.view \in SelectedView /\ 1 \in ReviewPages
  <2>1. screen \in ReviewScreens /\ screen.view \in SelectedView
    BY DEF ReviewTyped, ReviewScreens
  <2>2. screen.view.pageNo \in 1..Cardinality(Cards)
    BY <2>1 DEF SelectedView, ReviewPages
  <2> QED BY <2>1, <2>2, ReviewBounds DEF ReviewPages
<1>1. ASSUME NEW view \in SelectedView, Shows([screen EXCEPT !.view = view])
      PROVE  screen' \in ReviewScreens /\ server' = server /\ \A c \in calls' : ReviewCallTyped(c)
  <2>1. PICK p : p = [screen EXCEPT !.view = view]
    OBVIOUS
  <2>2. p \in ReviewScreens
    BY <1>0, <2>1, Zenon DEF ReviewScreens
  <2> QED BY <1>1, <2>1, <2>2, LoadTyped DEF Shows
<1>2. ASSUME NEW view \in SelectedView, Selected(view)
      PROVE  screen' \in ReviewScreens /\ server' = server /\ \A c \in calls' : ReviewCallTyped(c)
  <2>1. PICK first : first = [view EXCEPT !.pageNo = 1]
    OBVIOUS
  <2>2. first \in SelectedView
    BY <1>0, <2>1, Zenon DEF SelectedView
  <2> QED BY <1>1, <1>2, <2>1, <2>2 DEF Selected
<1>3. ASSUME ReviewPathsArrive
      PROVE  screen' \in ReviewScreens /\ server' = server /\ \A c \in calls' : ReviewCallTyped(c)
  <2>1. PICK known : known = [screen EXCEPT !.known = TRUE]
    OBVIOUS
  <2>2. known \in ReviewScreens
    BY <1>0, <2>1, Zenon DEF ReviewScreens
  <2>3. CASE screen' = known /\ UNCHANGED <<calls, server>>
    BY <2>2, <2>3 DEF ReviewTyped
  <2>4. CASE Shows([known EXCEPT !.view.subject = "all", !.view.pageNo = 1])
    <3>1. PICK view : view = [known.view EXCEPT !.subject = "all", !.pageNo = 1]
      OBVIOUS
    <3>2. known.view \in SelectedView /\ "all" \in SubjectsOfPaths \cup {"all"}
      BY <2>2 DEF ReviewScreens
    <3>3. view \in SelectedView
      BY <1>0, <3>1, <3>2, Zenon DEF SelectedView
    <3>4. PICK p : p = [known EXCEPT !.view = view]
      OBVIOUS
    <3>5. p \in ReviewScreens
      BY <2>2, <3>3, <3>4, Zenon DEF ReviewScreens
    <3>6. p = [known EXCEPT !.view.subject = "all", !.view.pageNo = 1]
      BY <2>2, <3>1, <3>4 DEF ReviewScreens
    <3> QED BY <2>4, <3>5, <3>6, LoadTyped DEF Shows
  <2> QED BY <1>3, <2>1, <2>3, <2>4 DEF ReviewPathsArrive
<1>4. ASSUME NEW path \in ReviewPaths \cup {"none"}, ChooseReviewPath(path)
      PROVE  screen' \in ReviewScreens /\ server' = server /\ \A c \in calls' : ReviewCallTyped(c)
  <2>1. PICK view : view = [screen.view EXCEPT !.path = path, !.subject = "all"]
    OBVIOUS
  <2>2. "all" \in SubjectsOfPaths \cup {"all"}
    OBVIOUS
  <2>3. view \in SelectedView
    BY <1>0, <2>1, <2>2, Zenon DEF SelectedView
  <2> QED BY <1>2, <1>4, <2>1, <2>3 DEF ChooseReviewPath
<1>5. ASSUME NEW subject \in SubjectsOfPaths \cup {"all"}, ChooseReviewSubject(subject)
      PROVE  screen' \in ReviewScreens /\ server' = server /\ \A c \in calls' : ReviewCallTyped(c)
  <2>1. PICK view : view = [screen.view EXCEPT !.subject = subject]
    OBVIOUS
  <2>2. view \in SelectedView
    BY <1>0, <2>1, Zenon DEF SelectedView
  <2> QED BY <1>2, <1>5, <2>1, <2>2 DEF ChooseReviewSubject
<1>6. ASSUME NEW tab \in ReviewTabs, ChooseReviewTab(tab)
      PROVE  screen' \in ReviewScreens /\ server' = server /\ \A c \in calls' : ReviewCallTyped(c)
  <2>1. PICK view : view = [screen.view EXCEPT !.tab = tab]
    OBVIOUS
  <2>2. view \in SelectedView
    BY <1>0, <2>1, Zenon DEF SelectedView
  <2> QED BY <1>2, <1>6, <2>1, <2>2 DEF ChooseReviewTab
<1>7. ASSUME NEW by \in {-1, 1}, TurnReviewPage(by)
      PROVE  screen' \in ReviewScreens /\ server' = server /\ \A c \in calls' : ReviewCallTyped(c)
  <2>1. PICK pageNo \in ReviewPages : pageNo = screen.view.pageNo + by
    BY <1>7 DEF TurnReviewPage
  <2>2. PICK view : view = [screen.view EXCEPT !.pageNo = pageNo]
    OBVIOUS
  <2>3. view \in SelectedView
    BY <1>0, <2>1, <2>2, Zenon DEF SelectedView
  <2>4. [screen EXCEPT !.view.pageNo = @ + by] = [screen EXCEPT !.view = view]
    BY <1>0, <2>1, <2>2 DEF ReviewScreens
  <2>5. Shows([screen EXCEPT !.view = view])
    BY <1>7, <2>4 DEF TurnReviewPage
  <2> QED BY <1>1, <2>3, <2>5
<1> QED BY <1>3, <1>4, <1>5, <1>6, <1>7 DEF ReviewSelects

LEMMA StarTyped ==
  ASSUME ReviewTyped, \/ QuestionCards
                      \/ \E c \in calls : SavedStored(c) \/ ToggleDone(c) \/ ToggleFails(c)
  PROVE  /\ screen' \in ReviewScreens /\ ReviewTable(server')
         /\ \A c \in calls' : ReviewCallTyped(c)
<1>0. /\ screen \in ReviewScreens /\ ReviewTable(server) /\ \A c \in calls : ReviewCallTyped(c)
      /\ 0 \in Cards \cup {0} /\ ReviewFields
  BY DEF ReviewTyped, ReviewInv
<1>1. \A i \in DOMAIN screen.rows : i \in Cards /\ screen.rows[i] \in ReviewRow
  <2>1. PICK n \in 0..Cardinality(Cards) : screen.rows \in [1..n -> ReviewRow]
    BY <1>0, RowListIs DEF ReviewScreens
  <2> QED BY <2>1, ReviewBounds
<1>2. ASSUME NEW by \in {-1, 1}, TurnQuestion(by)
      PROVE  /\ screen' \in ReviewScreens /\ ReviewTable(server')
             /\ \A c \in calls' : ReviewCallTyped(c)
  <2>1. PICK index \in Cards : index = screen.index + by
    BY <1>1, <1>2 DEF TurnQuestion
  <2>2. screen' = [screen EXCEPT !.index = index] /\ calls' = calls /\ server' = server
    BY <1>2, <2>1 DEF TurnQuestion
  <2>3. screen' \in ReviewScreens
    BY <1>0, <2>2, Zenon DEF ReviewScreens
  <2> QED BY <1>0, <2>2, <2>3
<1>3. CASE ToggleSaved
  <2>1. screen.rows[screen.index] \in ReviewRow
    BY <1>1, <1>3 DEF ToggleSaved, CardOnShow
  <2>2. PICK card \in Cards : card = screen.rows[screen.index].card
    BY <2>1 DEF ReviewRow
  <2>3. PICK toggles \in 0..MaxToggles : toggles = screen.toggles + 1
    <3>1. screen.toggles \in 0..MaxToggles /\ screen.toggles < MaxToggles
      BY <1>0, <1>3 DEF ReviewScreens, ToggleSaved
    <3> QED BY <3>1, ReviewBounds
  <2>4. PICK t : t = [kind |-> "toggle", card |-> card, saves |-> ~screen.rows[screen.index].saved,
                      n |-> screen.toggles, stage |-> "sent"]
    OBVIOUS
  <2>5. /\ screen' = [screen EXCEPT !.saving = card, !.toggles = toggles] /\ server' = server
        /\ calls' = calls \cup {t}
    BY <1>3, <2>2, <2>3, <2>4 DEF ToggleSaved
  <2>6. card \in Cards \cup {0}
    OBVIOUS
  <2>7. screen' \in ReviewScreens
    BY <1>0, <2>5, <2>6, Zenon DEF ReviewScreens
  <2>8. ReviewCallTyped(t)
    BY <2>4 DEF ReviewCallTyped
  <2> QED BY <1>0, <2>5, <2>7, <2>8
<1>4. ASSUME NEW c \in calls, SavedStored(c)
      PROVE  /\ screen' \in ReviewScreens /\ ReviewTable(server')
             /\ \A d \in calls' : ReviewCallTyped(d)
  <2>1. c.kind = "toggle" /\ c.card \in Cards /\ DOMAIN c = {"kind", "card", "saves", "n", "stage"}
    BY <1>0, <1>4 DEF SavedStored, ReviewCallTyped, ReviewFields
  <2>2. ReviewTable(server') /\ screen' = screen
    BY <1>0, <1>4, <2>1, StarredTyped DEF SavedStored
  <2>3. PICK d : d = [c EXCEPT !.stage = "stored"]
    OBVIOUS
  <2>4. d.kind = "toggle" /\ d.card = c.card
    BY <2>1, <2>3
  <2>5. calls' = (calls \ {c}) \cup {d}
    BY <1>4, <2>3 DEF SavedStored, Advances
  <2> QED BY <1>0, <2>1, <2>2, <2>4, <2>5 DEF ReviewCallTyped
<1>5. ASSUME NEW c \in calls, ToggleDone(c)
      PROVE  /\ screen' \in ReviewScreens /\ ReviewTable(server')
             /\ \A d \in calls' : ReviewCallTyped(d)
  <2>1. PICK p : p = [screen EXCEPT !.saving = 0]
    OBVIOUS
  <2>2. p \in ReviewScreens
    BY <1>0, <2>1, Zenon DEF ReviewScreens
  <2> QED BY <1>0, <1>5, <2>1, <2>2, LoadTyped DEF ToggleDone
<1>6. ASSUME NEW c \in calls, ToggleFails(c)
      PROVE  /\ screen' \in ReviewScreens /\ ReviewTable(server')
             /\ \A d \in calls' : ReviewCallTyped(d)
  <2>1. PICK lost \in BOOLEAN : lost = (screen.lost \/ c.stage = "stored")
    OBVIOUS
  <2>2. /\ screen' = [screen EXCEPT !.saving = 0, !.lost = lost]
        /\ calls' \subseteq calls /\ server' = server
    BY <1>0, <1>6, <2>1 DEF ToggleFails, Ended, ReviewFields
  <2>3. screen' \in ReviewScreens
    BY <1>0, <2>2, Zenon DEF ReviewScreens
  <2> QED BY <1>0, <2>2, <2>3
<1> QED BY <1>2, <1>3, <1>4, <1>5, <1>6 DEF QuestionCards

LEMMA ReviewAnswerTyped ==
  ASSUME ReviewTyped, NEW c \in calls, ReviewRead(c) \/ ReviewArrives(c) \/ ReviewFails(c)
  PROVE  screen' \in ReviewScreens /\ server' = server /\ \A d \in calls' : ReviewCallTyped(d)
<1>0. /\ screen \in ReviewScreens /\ ReviewTable(server) /\ \A d \in calls : ReviewCallTyped(d)
      /\ c.kind = "review" /\ DOMAIN c = {"kind", "view", "read", "rows", "more"}
      /\ c.view \in SelectedView /\ c.rows \in ReviewRows /\ c.more \in BOOLEAN
  <2>1. c.kind = "review" /\ ReviewFields /\ ReviewCallTyped(c)
    BY DEF ReviewRead, ReviewArrives, ReviewFails, ReviewTyped, ReviewInv
  <2> QED BY <2>1 DEF ReviewTyped, ReviewFields, ReviewCallTyped
<1>1. CASE ReviewRead(c)
  <2>1. PICK rows \in ReviewRows : rows = ReviewRowsOf(c.view, server)
    BY <1>0, ListedTyped
  <2>2. PICK more \in BOOLEAN : more = MoreThan(c.view, server)
    BY <1>0, ListedTyped
  <2>3. PICK d : d = [c EXCEPT !.read = TRUE, !.rows = rows, !.more = more]
    OBVIOUS
  <2>4. d.kind = "review" /\ d.view = c.view /\ d.rows = rows /\ d.more = more
    BY <1>0, <2>3
  <2>5. calls' = (calls \ {c}) \cup {d} /\ screen' = screen /\ server' = server
    BY <1>1, <2>1, <2>2, <2>3 DEF ReviewRead
  <2> QED BY <1>0, <2>4, <2>5 DEF ReviewCallTyped
<1>2. CASE ReviewArrives(c)
  <2>1. PICK rows \in ReviewRows, more \in BOOLEAN : rows = c.rows /\ more = c.more
    BY <1>0
  <2>2. /\ screen' = [screen EXCEPT !.rows = rows, !.index = 1, !.more = more, !.busy = FALSE]
        /\ calls' = calls \ {c} /\ server' = server
    BY <1>2, <2>1 DEF ReviewArrives, Ended
  <2>3. 1 \in Cards
    <3>1. screen.index \in Cards
      BY <1>0 DEF ReviewScreens
    <3> QED BY <3>1, ReviewBounds
  <2>4. screen' \in ReviewScreens
    BY <1>0, <2>2, <2>3, Zenon DEF ReviewScreens
  <2> QED BY <1>0, <2>2, <2>4
<1>3. CASE ReviewFails(c)
  <2>1. /\ screen' = [screen EXCEPT !.busy = FALSE, !.failed = TRUE]
        /\ calls' = calls \ {c} /\ server' = server
    BY <1>3 DEF ReviewFails, Ended
  <2>2. screen' \in ReviewScreens
    BY <1>0, <2>1, Zenon DEF ReviewScreens
  <2> QED BY <1>0, <2>1, <2>2
<1> QED BY <1>1, <1>2, <1>3

LEMMA ReviewTypedStep == ReviewTyped /\ [ReviewNext]_tabVars => ReviewTyped'
<1> SUFFICES ASSUME ReviewTyped, [ReviewNext]_tabVars PROVE ReviewTyped'
  OBVIOUS
<1>1. ReviewInv'
  BY ReviewStep DEF ReviewTyped
<1>2. /\ screen' \in ReviewScreens /\ ReviewTable(server')
      /\ \A c \in calls' : ReviewCallTyped(c)
  <2>1. CASE UNCHANGED tabVars
    BY <2>1 DEF tabVars, ReviewTyped
  <2>2. CASE ReviewNext
    <3>1. ReviewTable(server)
      BY DEF ReviewTyped
    <3> QED BY <2>2, <3>1, ReviewAnswerTyped, ReviewChoiceTyped, StarTyped DEF ReviewNext
  <2> QED BY <2>1, <2>2
<1> QED BY <1>1, <1>2 DEF ReviewTyped

LEMMA ReviewTypesHold == ReviewTyped => ReviewTypeOK
BY DEF ReviewTyped, ReviewScreens, ReviewTable, ReviewTypeOK


(***************************************************************************)
(* The types of ReviewPractice: a version is one more than the writes a card   *)
(* took, and each of them is this page's one answer, a handover or something    *)
(* begun elsewhere.                                                        *)
(***************************************************************************)
OnList(x, items) ==
  \E i \in DOMAIN items : x.card = items[i].card /\ x.version = items[i].version
\* Answers of another tab that are still to be recorded.
IsPending(c) == c.kind = "answer" /\ c.by = "tab" /\ c.stage \in {"sent", "seen", "writing"}
Pending(cs) == {c \in cs : IsPending(c)}
HandedOver(sv) == {a \in 1..NHandovers : \E e \in sv.evidence : e.of = <<0, a>>}
PageAnswered(q, sv) == \E s \in sv.submissions : s.by = "page" /\ s.card = q
Begun(q, sv) ==
  (IF PageAnswered(q, sv) THEN 1 ELSE 0) + Cardinality(HandedOver(sv)) + sv.elsewhere

ScreenCounts == screen.correct <= screen.answered
AnswersListed == \A c \in calls : c.kind = "answer" /\ c.by = "page" => OnList(c, screen.items)
RecordsListed == \A s \in server.submissions : s.by = "page" => OnList(s, screen.items)
VersionsCounted ==
  /\ server.elsewhere <= MaxElsewhere /\ IsFiniteSet(Pending(calls))
  /\ \A q \in ReviewCardIds :
       server.cards[q].version + Cardinality(Pending(calls)) <= 1 + Begun(q, server)

PracticeTyped ==
  PracticeInv /\ ScreenCounts /\ AnswersListed /\ RecordsListed /\ VersionsCounted

LEMMA HandedOverIs ==
  ASSUME NEW sv PROVE IsFiniteSet(HandedOver(sv)) /\ Cardinality(HandedOver(sv)) \in 0..NHandovers
<1>1. IsFiniteSet(1..NHandovers) /\ Cardinality(1..NHandovers) = NHandovers
  BY FS_Interval, PracticeAssumption
<1>2. IsFiniteSet(HandedOver(sv)) /\ Cardinality(HandedOver(sv)) <= NHandovers
  BY <1>1, FS_Subset DEF HandedOver
<1> QED BY <1>2, FS_CardinalityType, PracticeAssumption

LEMMA PendingMoves ==
  ASSUME NEW cs, IsFiniteSet(Pending(cs)), NEW c, NEW d, NEW new,
         new \subseteq (cs \ {c}) \cup {d}, d \in new /\ IsPending(d) => c \in Pending(cs)
  PROVE  IsFiniteSet(Pending(new)) /\ Cardinality(Pending(new)) <= Cardinality(Pending(cs))
<1> DEFINE P == Pending(cs)
<1>1. CASE c \in P
  <2>1. IsFiniteSet(P \ {c}) /\ Cardinality(P \ {c}) = Cardinality(P) - 1 /\ Cardinality(P) \in Nat
    BY <1>1, FS_RemoveElement, FS_CardinalityType
  <2>2. IsFiniteSet((P \ {c}) \cup {d}) /\ Cardinality((P \ {c}) \cup {d}) <= Cardinality(P)
    <3>1. PICK Q : Q = P \ {c}
      OBVIOUS
    <3>2. /\ IsFiniteSet(Q \cup {d})
          /\ Cardinality(Q \cup {d}) = IF d \in Q THEN Cardinality(Q) ELSE Cardinality(Q) + 1
      BY <2>1, <3>1, FS_AddElement
    <3> QED BY <2>1, <3>1, <3>2
  <2>3. Pending(new) \subseteq (P \ {c}) \cup {d}
    BY DEF Pending
  <2>4. /\ IsFiniteSet(Pending(new)) /\ Cardinality(Pending(new)) <= Cardinality((P \ {c}) \cup {d})
        /\ Cardinality(Pending(new)) \in Nat /\ Cardinality((P \ {c}) \cup {d}) \in Nat
    BY <2>2, <2>3, FS_Subset, FS_CardinalityType
  <2> QED BY <2>1, <2>2, <2>4
<1>2. CASE c \notin P
  <2>1. Pending(new) \subseteq P
    BY <1>2 DEF Pending
  <2> QED BY <2>1, FS_Subset
<1> QED BY <1>1, <1>2

\* Steps that write no card.
LEMMA NothingWritten ==
  ASSUME PracticeTyped, PracticeInv', screen'.items = screen.items, ScreenCounts', AnswersListed',
         IsFiniteSet(Pending(calls')), Cardinality(Pending(calls')) <= Cardinality(Pending(calls)),
         server'.submissions = server.submissions, server'.evidence = server.evidence,
         \A q \in ReviewCardIds : server'.cards[q].version = server.cards[q].version,
         server.elsewhere <= server'.elsewhere, server'.elsewhere <= MaxElsewhere
  PROVE  PracticeTyped'
<1>1. RecordsListed'
  BY DEF PracticeTyped, RecordsListed
<1>2. VersionsCounted'
  <2> SUFFICES ASSUME NEW q \in ReviewCardIds
               PROVE  server'.cards[q].version + Cardinality(Pending(calls'))
                        <= 1 + Begun(q, server')
    BY DEF VersionsCounted
  <2>1. /\ HandedOver(server') = HandedOver(server) /\ PageAnswered(q, server') = PageAnswered(q, server)
    BY DEF HandedOver, PageAnswered
  <2>2. /\ server.elsewhere \in Nat /\ server'.elsewhere \in Nat /\ server.cards[q].version \in Nat
        /\ Cardinality(HandedOver(server)) \in Nat
        /\ Cardinality(Pending(calls)) \in Nat /\ Cardinality(Pending(calls')) \in Nat
    BY HandedOverIs, FS_CardinalityType, PracticeAssumption
    DEF PracticeTyped, PracticeInv, PracticeTypes, EvidenceStores, CardRows, VersionsCounted
  <2>3. server.cards[q].version + Cardinality(Pending(calls)) <= 1 + Begun(q, server)
    BY DEF PracticeTyped, VersionsCounted
  <2> QED BY <2>1, <2>2, <2>3 DEF Begun
<1> QED BY <1>1, <1>2 DEF PracticeTyped

\* An answer goes on: it stays of the card it was.
LEMMA AnswerGoesOn ==
  ASSUME PracticeTyped, PracticeInv', screen'.items = screen.items, ScreenCounts', NEW c \in calls,
         NEW d, calls' \subseteq (calls \ {c}) \cup {d},
         d \in calls' /\ d.kind = "answer" =>
           /\ c.kind = "answer" /\ d.by = c.by /\ d.card = c.card /\ d.version = c.version
           /\ d.stage \in {"sent", "seen", "writing"} => c.stage \in {"sent", "seen", "writing"},
         server'.submissions = server.submissions, server'.evidence = server.evidence,
         server'.cards = server.cards,
         server.elsewhere <= server'.elsewhere, server'.elsewhere <= MaxElsewhere
  PROVE  PracticeTyped'
<1>1. AnswersListed'
  BY DEF PracticeTyped, AnswersListed, OnList
<1>2. IsFiniteSet(Pending(calls')) /\ Cardinality(Pending(calls')) <= Cardinality(Pending(calls))
  <2>1. d \in calls' /\ IsPending(d) => c \in Pending(calls)
    BY DEF Pending, IsPending
  <2> QED BY <2>1, PendingMoves DEF PracticeTyped, VersionsCounted
<1> QED BY <1>1, <1>2, NothingWritten

LEMMA CountsAsBefore ==
  ASSUME PracticeTyped
  PROVE  /\ server.elsewhere <= server.elsewhere /\ server.elsewhere <= MaxElsewhere
         /\ server.elsewhere \in Nat /\ IsFiniteSet(Pending(calls))
         /\ Cardinality(Pending(calls)) \in Nat
         /\ Cardinality(Pending(calls)) <= Cardinality(Pending(calls))
<1>1. IsFiniteSet(Pending(calls)) /\ server.elsewhere \in Nat /\ server.elsewhere <= MaxElsewhere
  BY DEF PracticeTyped, PracticeInv, PracticeTypes, EvidenceStores, VersionsCounted
<1>2. Cardinality(Pending(calls)) \in Nat
  BY <1>1, FS_CardinalityType
<1> QED BY <1>1, <1>2

LEMMA PracticePageTyped ==
  ASSUME PracticeTyped, PracticeInv',
         \/ SubmitReview \/ NextCard \/ \E option \in {"right", "wrong"} : SelectOption(option)
         \/ \E c \in calls : PracticeRead(c) \/ PracticeArrives(c) \/ PracticeFails(c)
                          \/ AnswerShown(c) \/ AnswerFails(c)
  PROVE  PracticeTyped'
<1>0. /\ screen \in PracticeScreens /\ server \in EvidenceStores /\ PracticeInv
      /\ calls \subseteq DueReads \cup AnswerCalls \cup HandoverCalls
      /\ ScreenCounts /\ AnswersListed /\ RecordsListed
  BY DEF PracticeTyped, PracticeInv, PracticeTypes
<1>1. CASE NextCard \/ \E option \in {"right", "wrong"} : SelectOption(option)
  <2>1. /\ screen'.items = screen.items /\ screen'.correct = screen.correct
        /\ screen'.answered = screen.answered /\ calls' = calls /\ server' = server
    BY <1>0, <1>1 DEF NextCard, SelectOption, PracticeScreens
  <2> QED BY <1>0, <2>1, NothingWritten, CountsAsBefore
          DEF ScreenCounts, AnswersListed
<1>2. CASE SubmitReview
  <2>1. PICK d : d = ReviewAnswer("page", CurrentItem, screen.selected = "right")
    OBVIOUS
  <2>2. /\ screen'.items = screen.items /\ screen'.correct = screen.correct
        /\ screen'.answered = screen.answered /\ calls' = calls \cup {d} /\ server' = server
        /\ screen.index \in DOMAIN screen.items
    BY <1>0, <1>2, <2>1 DEF SubmitReview, PracticeScreens, Practising
  <2>3. d.by = "page" /\ OnList(d, screen.items)
    BY <2>1, <2>2 DEF ReviewAnswer, CurrentItem, OnList
  <2>4. ScreenCounts' /\ AnswersListed'
    BY <1>0, <2>2, <2>3 DEF ScreenCounts, AnswersListed
  <2>5. Pending(calls') = Pending(calls)
    BY <2>2, <2>3 DEF Pending, IsPending
  <2> QED BY <2>2, <2>4, <2>5, NothingWritten, CountsAsBefore
<1>3. ASSUME NEW c \in calls, PracticeRead(c) \/ PracticeFails(c) PROVE PracticeTyped'
  <2>1. PICK d : d.kind # "answer" /\ calls' \subseteq (calls \ {c}) \cup {d}
    <3>1. CASE PracticeFails(c)
      <4>1. PICK d : d = [kind |-> "none"]
        OBVIOUS
      <4> QED BY <3>1, <4>1 DEF PracticeFails, Ended
    <3>2. CASE PracticeRead(c)
      <4>1. c \in DueReads
        BY <1>0, <3>2 DEF PracticeRead, AnswerCalls, HandoverCalls
      <4>2. PICK items : calls' = (calls \ {c}) \cup {[c EXCEPT !.read = TRUE, !.items = items]}
        BY <3>2 DEF PracticeRead
      <4>3. PICK d : d = [c EXCEPT !.read = TRUE, !.items = items]
        OBVIOUS
      <4> QED BY <4>1, <4>2, <4>3 DEF DueReads
    <3> QED BY <1>3, <3>1, <3>2
  <2>2. /\ screen'.items = screen.items /\ screen'.correct = screen.correct
        /\ screen'.answered = screen.answered /\ server' = server
    BY <1>0, <1>3 DEF PracticeRead, PracticeFails, PracticeScreens
  <2> QED BY <1>0, <2>1, <2>2, AnswerGoesOn, CountsAsBefore DEF ScreenCounts
<1>4. ASSUME NEW c \in calls, PracticeArrives(c) PROVE PracticeTyped'
  <2>1. /\ screen'.correct = screen.correct /\ screen'.answered = screen.answered
        /\ calls' = calls \ {c} /\ server' = server
    BY <1>0, <1>4 DEF PracticeArrives, PracticeScreens, Ended
  <2>2. DOMAIN screen.items = {}
    BY <1>0, <1>4 DEF PracticeInv, OneList, PracticeArrives
  <2>3. \A x : ~OnList(x, screen.items)
    BY <2>2 DEF OnList
  <2>4. ScreenCounts' /\ AnswersListed' /\ RecordsListed'
    BY <1>0, <2>1, <2>3 DEF ScreenCounts, AnswersListed, RecordsListed
  <2>5. Pending(calls') = Pending(calls)
    BY <1>4, <2>1 DEF Pending, IsPending, PracticeArrives
  <2> QED BY <2>1, <2>4, <2>5 DEF PracticeTyped, VersionsCounted
<1>5. ASSUME NEW c \in calls, AnswerShown(c) \/ AnswerFails(c) PROVE PracticeTyped'
  <2>1. /\ c \in AnswerCalls /\ c.kind = "answer" /\ c.right \in BOOLEAN
    BY <1>0, <1>5, AnswerHasForm DEF AnswerShown, AnswerFails, AnswerCalls
  <2>2. screen'.items = screen.items /\ ScreenCounts'
    <3>1. CASE AnswerFails(c)
      BY <1>0, <3>1 DEF AnswerFails, PracticeScreens, ScreenCounts
    <3>2. CASE AnswerShown(c)
      <4>1. /\ screen'.items = screen.items /\ screen'.answered = screen.answered + 1
            /\ screen'.correct = screen.correct + (IF c.right THEN 1 ELSE 0)
        BY <1>0, <3>2 DEF AnswerShown, PracticeScreens
      <4>2. screen.correct \in Nat /\ screen.answered \in Nat
        BY <1>0 DEF PracticeScreens
      <4> QED BY <1>0, <4>1, <4>2 DEF ScreenCounts
    <3> QED BY <1>5, <3>1, <3>2
  <2>3. PICK d : d = [c EXCEPT !.heard = FALSE]
    OBVIOUS
  <2>4. d.kind = "answer" /\ d.by = c.by /\ d.card = c.card /\ d.version = c.version /\ d.stage = c.stage
    BY <2>1, <2>3 DEF AnswerCalls
  <2>5. /\ calls' \subseteq (calls \ {c}) \cup {d} /\ server'.cards = server.cards
        /\ server'.submissions = server.submissions /\ server'.evidence = server.evidence
        /\ server.elsewhere <= server'.elsewhere /\ server'.elsewhere <= MaxElsewhere
    <3>1. CASE Ended(c) /\ UNCHANGED server
      BY <3>1, CountsAsBefore DEF Ended
    <3>2. CASE /\ server.elsewhere < MaxElsewhere
               /\ calls' = (calls \ {c}) \cup {[c EXCEPT !.heard = FALSE]}
               /\ server' = [server EXCEPT !.elsewhere = @ + 1]
      BY <1>0, <2>3, <3>2, CountsAsBefore, PracticeAssumption DEF EvidenceStores
    <3> QED BY <1>5, <3>1, <3>2 DEF AnswerShown, AnswerFails
  <2> QED BY <2>1, <2>2, <2>4, <2>5, AnswerGoesOn
<1> QED BY <1>1, <1>2, <1>3, <1>4, <1>5

LEMMA PracticeServerTyped ==
  ASSUME PracticeTyped, PracticeInv',
         \/ \E c \in calls : \/ AnswerLookedUp(c) \/ BeginAnswer(c)
                           \/ EvidenceRollsBack(c) \/ NobodyHears(c)
         \/ \E q \in ReviewCardIds : CardFallsDue(q)
         \/ \E a \in 1..NHandovers, right \in BOOLEAN : BeginHandover(a, right)
  PROVE  PracticeTyped'
<1>0. /\ screen' = screen /\ server \in EvidenceStores /\ ScreenCounts' /\ AnswersListed
      /\ calls \subseteq DueReads \cup AnswerCalls \cup HandoverCalls
  BY DEF PracticeTyped, PracticeInv, PracticeTypes, ScreenCounts, AnswerLookedUp, BeginAnswer,
         EvidenceRollsBack, NobodyHears, CardFallsDue, BeginHandover
<1>1. ASSUME NEW c \in calls, calls' = calls \ {c}, server' = server PROVE PracticeTyped'
  <2>1. PICK d : d = [kind |-> "none"]
    OBVIOUS
  <2> QED BY <1>0, <1>1, <2>1, AnswerGoesOn, CountsAsBefore
<1>2. ASSUME NEW c \in calls, c.kind = "answer", c.stage \in {"sent", "seen", "writing"}, NEW d,
             d.kind = c.kind, d.by = c.by, d.card = c.card, d.version = c.version,
             calls' = (calls \ {c}) \cup {d}, server' = server
      PROVE  PracticeTyped'
  BY <1>0, <1>2, AnswerGoesOn, CountsAsBefore
<1>3. ASSUME NEW c \in calls, AnswerLookedUp(c) PROVE PracticeTyped'
  <2>1. c \in AnswerCalls /\ c.kind = "answer" /\ c.stage = "sent" /\ server' = server
    BY <1>3, AnswerHasForm DEF AnswerLookedUp, PracticeTyped
  <2>2. PICK d, e : /\ d = [c EXCEPT !.stage = "stored"]
                    /\ e = [c EXCEPT !.stage = "seen", !.type = server.cards[c.card].type]
    OBVIOUS
  <2>3. /\ d.kind = c.kind /\ d.by = c.by /\ d.card = c.card /\ d.version = c.version
        /\ e.kind = c.kind /\ e.by = c.by /\ e.card = c.card /\ e.version = c.version
    BY <2>1, <2>2 DEF AnswerCalls
  <2>4. calls' = (calls \ {c}) \cup {d} \/ calls' = (calls \ {c}) \cup {e}
    BY <1>3, <2>2 DEF AnswerLookedUp, Advances
  <2> QED BY <1>2, <2>1, <2>3, <2>4
<1>4. ASSUME NEW c \in calls, BeginAnswer(c) PROVE PracticeTyped'
  <2>1. c \in AnswerCalls /\ c.kind = "answer" /\ c.stage = "seen" /\ server' = server
    BY <1>4, AnswerHasForm DEF BeginAnswer, PracticeTyped
  <2>2. PICK stage, base : calls' = (calls \ {c}) \cup {[c EXCEPT !.stage = stage, !.base = base]}
    BY <1>4 DEF BeginAnswer
  <2>3. PICK d : d = [c EXCEPT !.stage = stage, !.base = base]
    OBVIOUS
  <2>4. d.kind = c.kind /\ d.by = c.by /\ d.card = c.card /\ d.version = c.version
    BY <2>1, <2>3 DEF AnswerCalls
  <2> QED BY <1>2, <2>1, <2>2, <2>3, <2>4
<1>5. ASSUME NEW c \in calls, EvidenceRollsBack(c) \/ NobodyHears(c) PROVE PracticeTyped'
  <2>1. CASE calls' = calls \ {c} /\ server' = server
    BY <1>1, <2>1
  <2>2. CASE c.kind = "answer" /\ EvidenceRollsBack(c)
    <3>1. c \in AnswerCalls /\ c.stage = "writing" /\ server' = server
      BY <2>2, AnswerHasForm DEF EvidenceRollsBack, PracticeTyped
    <3>2. PICK d : d = [c EXCEPT !.stage = "refused"]
      OBVIOUS
    <3>3. d.kind = c.kind /\ d.by = c.by /\ d.card = c.card /\ d.version = c.version
      BY <3>1, <3>2 DEF AnswerCalls
    <3>4. calls' = (calls \ {c}) \cup {d}
      BY <2>2, <3>2 DEF EvidenceRollsBack, Advances
    <3> QED BY <1>2, <2>2, <3>1, <3>3, <3>4
  <2> QED BY <1>5, <2>1, <2>2 DEF EvidenceRollsBack, NobodyHears, Ended
<1>6. ASSUME NEW q \in ReviewCardIds, CardFallsDue(q) PROVE PracticeTyped'
  <2>1. PICK row : row = [server.cards[q] EXCEPT !.due = TRUE]
    OBVIOUS
  <2>2. row.version = server.cards[q].version
    BY <1>0, <2>1 DEF EvidenceStores, CardRows
  <2>3. server' = [server EXCEPT !.cards = [@ EXCEPT ![q] = row]]
    BY <1>0, <1>6, <2>1 DEF CardFallsDue, EvidenceStores, CardRows
  <2>4. /\ \A p \in ReviewCardIds : server'.cards[p].version = server.cards[p].version
        /\ server'.submissions = server.submissions /\ server'.evidence = server.evidence
        /\ server'.elsewhere = server.elsewhere /\ calls' = calls
    BY <1>0, <1>6, <2>2, <2>3 DEF EvidenceStores, CardFallsDue
  <2> QED BY <1>0, <2>4, NothingWritten, CountsAsBefore DEF AnswersListed
<1>7. ASSUME NEW a \in 1..NHandovers, NEW right \in BOOLEAN, BeginHandover(a, right)
      PROVE  PracticeTyped'
  <2>1. PICK d : d.kind = "handover" /\ calls' = calls \cup {d} /\ server' = server
    BY <1>7 DEF BeginHandover
  <2>2. AnswersListed' /\ Pending(calls') = Pending(calls)
    BY <1>0, <2>1 DEF AnswersListed, Pending, IsPending
  <2> QED BY <1>0, <2>1, <2>2, NothingWritten, CountsAsBefore
<1> QED BY <1>3, <1>4, <1>5, <1>6, <1>7

LEMMA PracticeWriteTyped ==
  ASSUME PracticeTyped, PracticeInv',
         \/ \E c \in calls : CommitAnswer(c) \/ CommitHandover(c)
         \/ \E item \in PracticeItem, right \in BOOLEAN : OtherTabAnswers(item, right)
         \/ \E q \in ReviewCardIds, saved \in BOOLEAN : SetSavedElsewhere(q, saved)
  PROVE  PracticeTyped'
<1>0. /\ screen' = screen /\ server \in EvidenceStores /\ ScreenCounts' /\ AnswersListed /\ RecordsListed
      /\ calls \subseteq DueReads \cup AnswerCalls \cup HandoverCalls
      /\ IsFiniteSet(Pending(calls)) /\ Cardinality(Pending(calls)) \in Nat
      /\ MaxElsewhere \in Nat /\ server.elsewhere \in Nat /\ server.elsewhere <= MaxElsewhere
  BY CountsAsBefore, PracticeAssumption
  DEF PracticeTyped, PracticeInv, PracticeTypes, ScreenCounts, CommitAnswer, CommitHandover,
      OtherTabAnswers, SetSavedElsewhere
<1>1. ASSUME NEW q \in ReviewCardIds
      PROVE  /\ server.cards[q].version \in Nat /\ Cardinality(HandedOver(server)) \in Nat
             /\ server.cards[q].version + Cardinality(Pending(calls)) <= 1 + Begun(q, server)
  BY <1>0, <1>1, HandedOverIs, PracticeAssumption
  DEF PracticeTyped, VersionsCounted, EvidenceStores, CardRows
<1>2. ASSUME NEW item \in PracticeItem, NEW right \in BOOLEAN, OtherTabAnswers(item, right)
      PROVE  PracticeTyped'
  <2>1. PICK d : d = ReviewAnswer("tab", item, right)
    OBVIOUS
  <2>2. /\ calls' = calls \cup {d} /\ d.by = "tab" /\ server.elsewhere < MaxElsewhere
        /\ server'.submissions = server.submissions /\ server'.evidence = server.evidence
        /\ server'.cards = server.cards /\ server'.elsewhere = server.elsewhere + 1
    BY <1>0, <1>2, <2>1 DEF OtherTabAnswers, ReviewAnswer, EvidenceStores
  <2>3. AnswersListed' /\ RecordsListed'
    BY <1>0, <2>2 DEF AnswersListed, RecordsListed
  <2>4. /\ IsFiniteSet(Pending(calls')) /\ Cardinality(Pending(calls')) \in Nat
        /\ Cardinality(Pending(calls')) <= Cardinality(Pending(calls)) + 1
    <3>1. Pending(calls') \subseteq Pending(calls) \cup {d}
      BY <2>2 DEF Pending
    <3>2. PICK P : P = Pending(calls)
      OBVIOUS
    <3>3. /\ IsFiniteSet(P \cup {d})
          /\ Cardinality(P \cup {d}) = IF d \in P THEN Cardinality(P) ELSE Cardinality(P) + 1
      BY <1>0, <3>2, FS_AddElement
    <3>4. Cardinality(P \cup {d}) <= Cardinality(P) + 1 /\ Cardinality(P \cup {d}) \in Nat
      BY <1>0, <3>2, <3>3, FS_CardinalityType
    <3>5. /\ IsFiniteSet(Pending(calls')) /\ Cardinality(Pending(calls')) \in Nat
          /\ Cardinality(Pending(calls')) <= Cardinality(P \cup {d})
      BY <3>1, <3>2, <3>3, FS_Subset, FS_CardinalityType
    <3> QED BY <1>0, <3>2, <3>4, <3>5
  <2>5. VersionsCounted'
    <3>1. /\ HandedOver(server') = HandedOver(server)
          /\ \A q \in ReviewCardIds : PageAnswered(q, server') = PageAnswered(q, server)
      BY <2>2 DEF HandedOver, PageAnswered
    <3>2. \A q \in ReviewCardIds : Begun(q, server') = Begun(q, server) + 1
      BY <1>0, <1>1, <2>2, <3>1 DEF Begun
    <3>3. \A q \in ReviewCardIds : Begun(q, server) \in Nat
      BY <1>0, <1>1 DEF Begun
    <3>4. ASSUME NEW q \in ReviewCardIds
          PROVE  server'.cards[q].version + Cardinality(Pending(calls')) <= 1 + Begun(q, server')
      <4>1. server'.cards[q].version = server.cards[q].version
        BY <2>2
      <4> QED BY <1>0, <1>1, <2>4, <3>2, <3>3, <4>1
    <3>5. server'.elsewhere <= MaxElsewhere
      BY <1>0, <2>2
    <3> QED BY <2>4, <3>4, <3>5 DEF VersionsCounted
  <2> QED BY <1>0, <2>3, <2>5 DEF PracticeTyped
<1>3. ASSUME NEW x \in ReviewCardIds, NEW saved \in BOOLEAN, SetSavedElsewhere(x, saved)
      PROVE  PracticeTyped'
  <2>1. PICK old \in CardRows : old = server.cards[x]
    BY <1>0 DEF EvidenceStores
  <2>2. PICK row : row = [old EXCEPT !.saved = saved, !.version = @ + 1]
    OBVIOUS
  <2>3. row.version = old.version + 1
    BY <2>2 DEF CardRows
  <2>7. /\ server'.submissions = server.submissions /\ server'.evidence = server.evidence
        /\ server'.elsewhere = server.elsewhere + 1 /\ calls' = calls
        /\ server.elsewhere < MaxElsewhere
        /\ server'.cards = [server.cards EXCEPT ![x] = row]
    BY <1>0, <1>3, <2>1, <2>2 DEF SetSavedElsewhere, EvidenceStores, CardRows
  <2>8. \A q \in ReviewCardIds : server'.cards[q].version
              = server.cards[q].version + (IF q = x THEN 1 ELSE 0)
    BY <1>0, <1>1, <2>1, <2>3, <2>7 DEF EvidenceStores
  <2>4. /\ server'.submissions = server.submissions /\ server'.evidence = server.evidence
        /\ server'.elsewhere = server.elsewhere + 1 /\ calls' = calls
        /\ server.elsewhere < MaxElsewhere
        /\ \A q \in ReviewCardIds : server'.cards[q].version
              = server.cards[q].version + (IF q = x THEN 1 ELSE 0)
    BY <2>7, <2>8
  <2>5. AnswersListed' /\ RecordsListed'
    BY <1>0, <2>4 DEF AnswersListed, RecordsListed
  <2>6. VersionsCounted'
    <3>1. /\ HandedOver(server') = HandedOver(server)
          /\ \A q \in ReviewCardIds : PageAnswered(q, server') = PageAnswered(q, server)
      BY <2>4 DEF HandedOver, PageAnswered
    <3>2. \A q \in ReviewCardIds : Begun(q, server') = Begun(q, server) + 1
      BY <1>0, <1>1, <2>4, <3>1 DEF Begun
    <3>3. \A q \in ReviewCardIds : Begun(q, server) \in Nat
      BY <1>0, <1>1 DEF Begun
    <3> QED BY <1>0, <1>1, <2>4, <3>2, <3>3 DEF VersionsCounted
  <2> QED BY <1>0, <2>5, <2>6 DEF PracticeTyped
<1>4. ASSUME NEW c \in calls, CommitHandover(c) PROVE PracticeTyped'
  <2>1. /\ c \in HandoverCalls /\ c.card \in ReviewCardIds /\ c.attempt \in 1..NHandovers
        /\ \A e \in server.evidence : e.of # <<0, c.attempt>>
    BY <1>0, <1>4 DEF CommitHandover, DueReads, AnswerCalls, HandoverCalls, PracticeTyped,
       PracticeInv, OneWriter, CallFitsStore
  <2>2. PICK row, e : /\ row = CardAfter(server.cards[c.card], c.right)
                      /\ e = [of |-> <<0, c.attempt>>, right |-> c.right]
    OBVIOUS
  <2>3. row.version = server.cards[c.card].version + 1
    BY <1>0, <2>1, <2>2, CardAfterForm DEF EvidenceStores, HandoverCalls
  <2>4. /\ server'.submissions = server.submissions /\ server'.evidence = server.evidence \cup {e}
        /\ server'.elsewhere = server.elsewhere /\ calls' = calls \ {c}
        /\ server'.cards = [server.cards EXCEPT ![c.card] = row]
    BY <1>0, <1>4, <2>2 DEF CommitHandover, EvidenceStores, Ended
  <2>5. \A q \in ReviewCardIds : server'.cards[q].version
           = server.cards[q].version + (IF q = c.card THEN 1 ELSE 0)
    BY <1>0, <1>1, <2>3, <2>4 DEF EvidenceStores
  <2>6. AnswersListed' /\ RecordsListed' /\ Pending(calls') = Pending(calls)
    BY <1>0, <1>4, <2>4 DEF AnswersListed, RecordsListed, Pending, IsPending, CommitHandover
  <2>7. /\ Cardinality(HandedOver(server')) = Cardinality(HandedOver(server)) + 1
        /\ \A q \in ReviewCardIds : PageAnswered(q, server') = PageAnswered(q, server)
    <3>1. HandedOver(server') = HandedOver(server) \cup {c.attempt} /\ c.attempt \notin HandedOver(server)
      BY <2>1, <2>2, <2>4 DEF HandedOver
    <3>2. Cardinality(HandedOver(server) \cup {c.attempt}) = Cardinality(HandedOver(server)) + 1
      BY <3>1, HandedOverIs, FS_AddElement
    <3> QED BY <2>4, <3>1, <3>2 DEF PageAnswered
  <2>8. VersionsCounted'
    <3>1. \A q \in ReviewCardIds : Begun(q, server') = Begun(q, server) + 1
      BY <1>0, <1>1, <2>4, <2>7 DEF Begun
    <3>2. \A q \in ReviewCardIds : Begun(q, server) \in Nat
      BY <1>0, <1>1 DEF Begun
    <3>3. ASSUME NEW q \in ReviewCardIds
          PROVE  server'.cards[q].version + Cardinality(Pending(calls')) <= 1 + Begun(q, server')
      <4>1. server'.cards[q].version <= server.cards[q].version + 1
            /\ server'.cards[q].version \in Nat
        BY <1>1, <2>5
      <4> QED BY <1>0, <1>1, <2>6, <3>1, <3>2, <4>1
    <3> QED BY <1>0, <2>4, <2>6, <3>3 DEF VersionsCounted
  <2> QED BY <1>0, <2>6, <2>8 DEF PracticeTyped
<1>5. ASSUME NEW c \in calls, CommitAnswer(c) PROVE PracticeTyped'
  <2>1. /\ c \in AnswerCalls /\ c.kind = "answer" /\ c.stage = "writing" /\ c.card \in ReviewCardIds
        /\ c.version = server.cards[c.card].version /\ c.by \in {"page", "tab"}
        /\ c.by = "page" => OnList(c, screen.items)
    BY <1>0, <1>5, AnswerHasForm
    DEF CommitAnswer, AnswerCalls, AnswerFits, SameVersion, PracticeTyped, AnswersListed
  <2>2. PICK row, e : /\ row = CardAfter(server.cards[c.card], c.right)
                      /\ e = [of |-> <<c.card, c.version>>, right |-> c.right]
    OBVIOUS
  <2>3. PICK s, d : /\ s = [by |-> c.by, card |-> c.card, version |-> c.version, right |-> c.right,
                             type |-> c.type, was |-> server.cards[c.card].type]
                    /\ d = [c EXCEPT !.stage = "stored"]
    OBVIOUS
  <2>4. row.version = server.cards[c.card].version + 1
    BY <1>0, <2>1, <2>2, CardAfterForm DEF EvidenceStores, AnswerCalls
  <2>5. /\ server'.submissions = server.submissions \cup {s}
        /\ server'.evidence = server.evidence \cup {e} /\ server'.elsewhere = server.elsewhere
        /\ server'.cards = [server.cards EXCEPT ![c.card] = row]
    BY <1>0, <1>5, <2>2, <2>3 DEF CommitAnswer, EvidenceStores
  <2>6. \A q \in ReviewCardIds : server'.cards[q].version
           = server.cards[q].version + (IF q = c.card THEN 1 ELSE 0)
    BY <1>0, <1>1, <2>4, <2>5 DEF EvidenceStores
  <2>7. /\ d.kind = "answer" /\ d.by = c.by /\ d.card = c.card /\ d.version = c.version
        /\ d.stage = "stored" /\ calls' = (calls \ {c}) \cup {d}
        /\ s.by = c.by /\ s.card = c.card /\ s.version = c.version
    BY <1>5, <2>1, <2>3 DEF AnswerCalls, CommitAnswer, Advances
  <2>8. AnswersListed' /\ RecordsListed'
    BY <1>0, <2>1, <2>5, <2>7 DEF AnswersListed, RecordsListed, OnList
  <2>9. HandedOver(server') = HandedOver(server)
    <3>1. e.of[1] # 0
      BY <2>1, <2>2 DEF ReviewCardIds
    <3>2. \A a : e.of # <<0, a>>
      BY <3>1
    <3> QED BY <2>5, <3>2 DEF HandedOver
  <2>10. Pending(calls') = Pending(calls) \ {c}
    BY <2>7 DEF Pending, IsPending
  <2>11. CASE c.by = "tab"
    <3>1. c \in Pending(calls)
      BY <2>1, <2>11 DEF Pending, IsPending
    <3>2. IsFiniteSet(Pending(calls')) /\ Cardinality(Pending(calls')) = Cardinality(Pending(calls)) - 1
      BY <1>0, <2>10, <3>1, FS_RemoveElement
    <3>3. \A q \in ReviewCardIds : PageAnswered(q, server') = PageAnswered(q, server)
      BY <2>5, <2>7, <2>11 DEF PageAnswered
    <3>4. VersionsCounted'
      BY <1>0, <1>1, <2>5, <2>6, <2>9, <3>2, <3>3 DEF VersionsCounted, Begun
    <3> QED BY <1>0, <2>8, <3>4 DEF PracticeTyped
  <2>12. CASE c.by = "page"
    <3>1. Pending(calls') = Pending(calls)
      BY <2>10, <2>12 DEF Pending, IsPending
    <3>2. \A q \in ReviewCardIds : q # c.card => PageAnswered(q, server') = PageAnswered(q, server)
      BY <2>5, <2>7 DEF PageAnswered
    <3>3. PageAnswered(c.card, server')
      BY <2>5, <2>7, <2>12 DEF PageAnswered
    <3>4. ~PageAnswered(c.card, server)
      <4> SUFFICES ASSUME NEW t \in server.submissions, t.by = "page", t.card = c.card PROVE FALSE
        BY DEF PageAnswered
      <4>1. t.version = c.version
        BY <1>0, <2>1, <2>12 DEF RecordsListed, OnList, PracticeTyped, PracticeInv, OneList, NoCardTwice
      <4>2. t.version < c.version /\ t.version \in Nat
        BY <1>0, <2>1 DEF PracticeTyped, PracticeInv, RecordedIsOver, EvidenceStores, Submissions
      <4> QED BY <4>1, <4>2
    <3>5. VersionsCounted'
      BY <1>0, <1>1, <2>5, <2>6, <2>9, <3>1, <3>2, <3>3, <3>4 DEF VersionsCounted, Begun
    <3> QED BY <1>0, <2>8, <3>5 DEF PracticeTyped
  <2> QED BY <2>1, <2>11, <2>12
<1> QED BY <1>2, <1>3, <1>4, <1>5

LEMMA PracticeTypedStep == PracticeTyped /\ [PracticeNext]_tabVars => PracticeTyped'
<1> SUFFICES ASSUME PracticeTyped, [PracticeNext]_tabVars PROVE PracticeTyped'
  OBVIOUS
<1>1. PracticeInv'
  BY PracticeStep DEF PracticeTyped
<1>2. CASE UNCHANGED tabVars
  BY <1>1, <1>2, NothingWritten, CountsAsBefore DEF tabVars, PracticeTyped, ScreenCounts, AnswersListed
<1>3. CASE PracticeNext
  BY <1>1, <1>3, PracticePageTyped, PracticeServerTyped, PracticeWriteTyped DEF PracticeNext
<1> QED BY <1>2, <1>3

LEMMA PracticeTypedStart == PracticeInit => PracticeTyped
<1> SUFFICES ASSUME PracticeInit PROVE PracticeTyped
  OBVIOUS
<1>1. PICK due \in SUBSET ReviewCardIds :
        server = [cards |-> [q \in ReviewCardIds |-> [type |-> "error_recovery", version |-> 1,
                                                     due |-> q \in due, saved |-> FALSE]],
                  submissions |-> {}, evidence |-> {}, progress |-> [count |-> 0, right |-> 0],
                  elsewhere |-> 0]
  BY DEF PracticeInit
<1>2. /\ server.submissions = {} /\ server.evidence = {} /\ server.elsewhere = 0
      /\ \A q \in ReviewCardIds : server.cards[q].version = 1
      /\ screen.correct = 0 /\ screen.answered = 0 /\ \A c \in calls : c.kind = "practice"
  BY <1>1 DEF PracticeInit
<1>3. Pending(calls) = {} /\ Cardinality(HandedOver(server)) \in Nat
  BY <1>2, HandedOverIs, PracticeAssumption DEF Pending, IsPending
<1>4. VersionsCounted
  <2>1. \A q \in ReviewCardIds : ~PageAnswered(q, server)
    BY <1>2 DEF PageAnswered
  <2>2. IsFiniteSet(Pending(calls)) /\ Cardinality(Pending(calls)) = 0
    BY <1>3, FS_EmptySet
  <2> QED BY <1>2, <1>3, <2>1, <2>2, PracticeAssumption DEF VersionsCounted, Begun
<1> QED BY <1>2, <1>4, PracticeStart DEF PracticeTyped, ScreenCounts, AnswersListed, RecordsListed

\* A list that names no card twice is no longer than there are cards.
LEMMA ListIsShort ==
  ASSUME NEW n \in Nat, NEW items \in [1..n -> VersionedItem], NoCardTwice(items)
  PROVE  n <= NCards
<1> SUFFICES ASSUME ~(n <= NCards) PROVE FALSE
  OBVIOUS
<1> DEFINE card == [i \in 1..n |-> items[i].card]
<1>1. /\ IsFiniteSet(1..n) /\ Cardinality(1..n) = n
      /\ IsFiniteSet(1..NCards) /\ Cardinality(1..NCards) = NCards
  BY FS_Interval, PracticeAssumption
<1>2. card \in [1..n -> 1..NCards]
  BY DEF VersionedItem, ReviewCardIds
<1>3. Cardinality(1..NCards) < Cardinality(1..n)
  BY <1>1, PracticeAssumption
<1> HIDE DEF card
<1>4. PICK i, j \in 1..n : i # j /\ card[i] = card[j]
  BY <1>1, <1>2, <1>3, FS_PigeonHole
<1> QED BY <1>4 DEF card, NoCardTwice

\* What the list names is of a version that was, so it is bounded as the versions are.
LEMMA PracticeTypesHold == PracticeTyped => PracticeTypeOK
<1> SUFFICES ASSUME PracticeTyped PROVE PracticeTypeOK
  OBVIOUS
<1>0. /\ screen \in PracticeScreens /\ server \in EvidenceStores
      /\ OneList /\ RecordedIsOver /\ CountedIsRecorded /\ ScreenCounts
      /\ NCards \in Nat \ {0} /\ NHandovers \in Nat /\ MaxElsewhere \in Nat
  BY PracticeAssumption DEF PracticeTyped, PracticeInv, PracticeTypes
<1>1. ASSUME NEW q \in ReviewCardIds
      PROVE  server.cards[q] \in CardRow
  <2>1. /\ server.cards[q] \in CardRows /\ server.elsewhere \in Nat /\ server.elsewhere <= MaxElsewhere
        /\ Cardinality(HandedOver(server)) \in 0..NHandovers /\ Cardinality(Pending(calls)) \in Nat
        /\ server.cards[q].version + Cardinality(Pending(calls)) <= 1 + Begun(q, server)
    BY <1>0, <1>1, HandedOverIs, CountsAsBefore DEF EvidenceStores, PracticeTyped, VersionsCounted
  <2>2. server.cards[q].version \in Nat \ {0}
    BY <2>1 DEF CardRows
  <2>3. server.cards[q].version \in CardVersions
    BY <1>0, <2>1, <2>2 DEF Begun, CardVersions
  <2> QED BY <2>1, <2>3 DEF CardRows, CardRow
<1>2. ASSUME NEW q \in ReviewCardIds, NEW v \in Nat \ {0}, v <= server.cards[q].version
      PROVE  v \in CardVersions
  BY <1>0, <1>1, <1>2 DEF CardRow, CardVersions
<1>3. PICK n \in Nat : screen.items \in [1..n -> VersionedItem]
  BY <1>0 DEF PracticeScreens, ItemLists
<1>4. screen.items \in Seq(PracticeItem) /\ DOMAIN screen.items = 1..n
  <2>1. ASSUME NEW i \in 1..n PROVE screen.items[i] \in PracticeItem
    <3>1. screen.items[i] \in VersionedItem
      BY <1>3
    <3>2. screen.items[i].version <= server.cards[screen.items[i].card].version
      BY <1>0, <1>3 DEF OneList, OfThePast
    <3>3. /\ screen.items[i].card \in ReviewCardIds /\ screen.items[i].version \in Nat \ {0}
      BY <3>1 DEF VersionedItem
    <3>4. screen.items[i].version \in CardVersions
      BY <1>2, <3>2, <3>3
    <3> QED BY <3>1, <3>4 DEF VersionedItem, PracticeItem
  <2> QED BY <1>3, <2>1
<1>5. /\ screen.index \in 1..(NCards + 1) /\ screen.answered \in 0..NCards
      /\ screen.correct \in 0..NCards /\ screen.answered <= screen.index
      /\ screen.correct <= screen.answered
  <2>1. n <= NCards
    BY <1>0, <1>3, ListIsShort DEF OneList
  <2>2. screen.index \in Nat \ {0} /\ screen.answered \in Nat /\ screen.correct \in Nat
    BY <1>0 DEF PracticeScreens
  <2>3. screen.answered <= n
    BY <1>0, <1>4, <2>2 DEF CountedIsRecorded
  <2>4. screen.answered = screen.index - 1 \/ screen.answered = screen.index
    BY <1>0, <2>2 DEF CountedIsRecorded
  <2> QED BY <1>0, <2>1, <2>2, <2>3, <2>4 DEF ScreenCounts
<1>6. screen \in [page : {"practice"}, items : Seq(PracticeItem), index : 1..(NCards + 1),
          selected : {"none", "right", "wrong"}, result : {"none", "right", "wrong"},
          answered : 0..NCards, correct : 0..NCards, busy : BOOLEAN, submitting : BOOLEAN,
          error : BOOLEAN]
  BY <1>0, <1>4, <1>5 DEF PracticeScreens
<1>7. server.submissions \subseteq ReviewSubmission
  <2> SUFFICES ASSUME NEW s \in server.submissions PROVE s \in ReviewSubmission
    OBVIOUS
  <2>1. s \in Submissions /\ s.version < server.cards[s.card].version
    BY <1>0 DEF EvidenceStores, RecordedIsOver
  <2>2. s.card \in ReviewCardIds /\ s.version \in Nat \ {0}
    BY <2>1 DEF Submissions
  <2>3. server.cards[s.card].version \in Nat
    BY <1>1, <2>2 DEF CardRow, CardVersions
  <2>4. s.version \in CardVersions
    BY <1>2, <2>1, <2>2, <2>3
  <2> QED BY <2>1, <2>4 DEF Submissions, ReviewSubmission
<1>8. server.evidence \subseteq EvidenceRow
  <2> SUFFICES ASSUME NEW e \in server.evidence PROVE e \in EvidenceRow
    OBVIOUS
  <2>1. e \in Evidence /\ (e.of[1] # 0 => e.of[2] < server.cards[e.of[1]].version)
    BY <1>0 DEF EvidenceStores, RecordedIsOver
  <2>2. CASE e.of \in {0} \X (1..NHandovers)
    BY <2>1, <2>2 DEF Evidence, EvidenceRow
  <2>3. CASE e.of \in ReviewCardIds \X (Nat \ {0})
    <3>1. PICK q \in ReviewCardIds, v \in Nat \ {0} : e.of = <<q, v>>
      BY <2>3
    <3>2. v < server.cards[q].version
      BY <1>0, <2>1, <3>1 DEF ReviewCardIds
    <3>3. server.cards[q].version \in Nat
      BY <1>1 DEF CardRow, CardVersions
    <3>4. v \in CardVersions
      BY <1>2, <3>2, <3>3
    <3> QED BY <2>1, <3>1, <3>4 DEF Evidence, EvidenceRow
  <2> QED BY <2>1, <2>2, <2>3 DEF Evidence
<1>9. server.elsewhere \in 0..MaxElsewhere
  BY <1>0, CountsAsBefore
<1>10. server.cards \in [ReviewCardIds -> CardRow]
  BY <1>0, <1>1 DEF EvidenceStores
<1>11. server \in
         [cards : [ReviewCardIds -> CardRow], submissions : SUBSET ReviewSubmission,
          evidence : SUBSET EvidenceRow, progress : [count : Nat, right : Nat],
          elsewhere : 0..MaxElsewhere]
  BY <1>0, <1>7, <1>8, <1>9, <1>10 DEF EvidenceStores, Counts
<1> QED BY <1>5, <1>6, <1>11 DEF PracticeTypeOK

(***************************************************************************)
(* The pages together: the invariants of LearnerPageProofs type the others,    *)
(* and one page is mounted, which no step changes.                           *)
(***************************************************************************)
LearnerTypes ==
  \/ AttemptPageInv \/ PlayerInv \/ PlanInv \/ SignInInv
  \/ SpaceInv \/ ReviewTyped \/ GoalInv \/ PracticeTyped

LEMMA TypesMount ==
  /\ LearnerTypes => LearnerInv
  /\ ReviewTyped => Mounted("review")
  /\ PracticeTyped => Mounted("practice")
BY InvariantsMount DEF LearnerTypes, LearnerInv, ReviewTyped, PracticeTyped

LEMMA LearnerTypesStart == Init => LearnerTypes
BY AttemptPageStart, PlayerStart, PlanStart, SignInStart, SpaceStart, ReviewTypedStart, GoalsStart,
   PracticeTypedStart DEF Init, LearnerTypes

LEMMA LearnerTypesStep == LearnerTypes /\ [Next]_tabVars => LearnerTypes'
<1> SUFFICES ASSUME LearnerTypes, [Next]_tabVars PROVE LearnerTypes'
  OBVIOUS
<1>1. CASE AttemptPageInv
  <2>1. [AttemptPageNext]_tabVars
    BY <1>1, InvariantsMount DEF Next, Mounted
  <2> QED BY <1>1, <2>1, AttemptPageStep DEF LearnerTypes
<1>2. CASE PlayerInv
  <2>1. [PlayerNext]_tabVars
    BY <1>2, InvariantsMount DEF Next, Mounted
  <2> QED BY <1>2, <2>1, PlayerStep DEF LearnerTypes
<1>3. CASE PlanInv
  <2>1. [StudyPlanNext]_tabVars
    BY <1>3, InvariantsMount DEF Next, Mounted
  <2> QED BY <1>3, <2>1, PlanStep DEF LearnerTypes
<1>4. CASE SignInInv
  <2>1. [SignInNext]_tabVars
    BY <1>4, InvariantsMount DEF Next, Mounted
  <2> QED BY <1>4, <2>1, SignInStep DEF LearnerTypes
<1>5. CASE SpaceInv
  <2>1. [SpaceNext]_tabVars
    BY <1>5, InvariantsMount DEF Next, Mounted
  <2> QED BY <1>5, <2>1, SpaceStep DEF LearnerTypes
<1>6. CASE ReviewTyped
  <2>1. [ReviewNext]_tabVars
    BY <1>6, TypesMount DEF Next, Mounted
  <2> QED BY <1>6, <2>1, ReviewTypedStep DEF LearnerTypes
<1>7. CASE GoalInv
  <2>1. [GoalsNext]_tabVars
    BY <1>7, InvariantsMount DEF Next, Mounted
  <2> QED BY <1>7, <2>1, GoalsStep DEF LearnerTypes
<1>8. CASE PracticeTyped
  <2>1. [PracticeNext]_tabVars
    BY <1>8, TypesMount DEF Next, Mounted
  <2> QED BY <1>8, <2>1, PracticeTypedStep DEF LearnerTypes
<1> QED BY <1>1, <1>2, <1>3, <1>4, <1>5, <1>6, <1>7, <1>8 DEF LearnerTypes

\* An attempt page shows answers and an index of its paper: OfAttempt.
LEMMA AttemptTypesHold == AttemptPageInv => AttemptPageTypeOK
<1> SUFFICES ASSUME AttemptPageInv PROVE AttemptPageTypeOK
  OBVIOUS
<1>1. screen \in AttemptScreens /\ OfAttempt(screen) /\ calls \subseteq AttemptCall
  BY DEF AttemptPageInv, AttemptTypes
<1>2. screen \in
         [page : {"attempt"}, scope : Assessments, visit : 1..MaxVisits,
          loading : BOOLEAN, shown : BOOLEAN, answers : Answers(screen.scope), result : BOOLEAN,
          busy : BOOLEAN, index : 1..(NQuestions[screen.scope] + 1), saving : BOOLEAN,
          draft : BOOLEAN, action : BOOLEAN, confirm : BOOLEAN,
          timer : {"none", "set", "clear"}, timerDraft : BOOLEAN, torn : BOOLEAN]
  BY <1>1 DEF AttemptScreens, OfAttempt, Answers
<1>3. DOMAIN server = Assessments /\ \A a \in Assessments :
         server[a] \in [status : AttemptStatus, answers : Answers(a),
                        clock : {"running", "last", "over"}]
  BY DEF AttemptPageInv, AttemptTypes, AttemptRows, Answers
<1> QED BY <1>1, <1>2, <1>3 DEF AttemptPageTypeOK

\* Every page of a learner keeps its types, for any papers, courses, plans, spaces, cards
\* and any bounds: what the handlers of the web client leave in the state of a page is
\* always a page that can be rendered, a page of the review has no more rows than fit it,
\* and the counters of a practice stay within its cards (ReviewPracticePage.tsx).
THEOREM LearnerTypesCorrect == Spec => []LearnerPagesTypeOK
<1>1. LearnerTypes => LearnerPagesTypeOK
  <2> SUFFICES ASSUME LearnerTypes PROVE LearnerPagesTypeOK
    OBVIOUS
  <2>1. AttemptPageTypeOK
    BY InvariantsMount, TypesMount, AttemptTypesHold DEF LearnerTypes, AttemptPageTypeOK, Mounted
  <2>2. PlayerTypeOK
    <3>1. PlayerInv => PlayerTypeOK
      BY DEF PlayerInv, PlayerTypes, PlayerScreens, PlayerTypeOK
    <3> QED BY <3>1, InvariantsMount, TypesMount DEF LearnerTypes, PlayerTypeOK, Mounted
  <2>3. StudyPlanTypeOK
    <3>1. PlanInv => StudyPlanTypeOK
      BY DEF PlanInv, PlanTypes, PlanScreens, PlanServers, PlanOrNone, StudyPlanTypeOK
    <3> QED BY <3>1, InvariantsMount, TypesMount DEF LearnerTypes, StudyPlanTypeOK, Mounted
  <2>4. SignInTypeOK
    <3>1. SignInInv => SignInTypeOK
      BY DEF SignInInv, SignInTypes, SignInScreens, SignInServers, SignInTypeOK
    <3> QED BY <3>1, InvariantsMount, TypesMount DEF LearnerTypes, SignInTypeOK, Mounted
  <2>5. SpaceTypeOK
    <3>1. SpaceInv => SpaceTypeOK
      BY DEF SpaceInv, SpaceTypes, SpaceScreens, RowsOfSpace, SpaceTypeOK
    <3> QED BY <3>1, InvariantsMount, TypesMount DEF LearnerTypes, SpaceTypeOK, Mounted
  <2>6. ReviewTypeOK
    BY InvariantsMount, TypesMount, ReviewTypesHold DEF LearnerTypes, ReviewTypeOK, Mounted
  <2>7. GoalsTypeOK
    <3>1. GoalInv => GoalsTypeOK
      BY DEF GoalInv, GoalTypes, GoalScreens, GoalSubject, GoalsTypeOK
    <3> QED BY <3>1, InvariantsMount, TypesMount DEF LearnerTypes, GoalsTypeOK, Mounted
  <2>8. PracticeTypeOK
    BY InvariantsMount, TypesMount, PracticeTypesHold DEF LearnerTypes, PracticeTypeOK, Mounted
  <2> QED BY <2>1, <2>2, <2>3, <2>4, <2>5, <2>6, <2>7, <2>8 DEF LearnerPagesTypeOK
<1> QED BY <1>1, LearnerTypesStart, LearnerTypesStep, PTL DEF Spec
=============================================================================
