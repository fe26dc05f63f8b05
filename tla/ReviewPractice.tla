--------------------------- MODULE ReviewPractice ---------------------------
(***************************************************************************)
(* apps/web/src/features/learning/pages/ReviewPracticePage.tsx: the cards of   *)
(* a learner that are due, answered one after the other, and the two writers   *)
(* of evidence behind it, ApplyReviewAnswer() and ApplyAssessmentEvidence()    *)
(* (internal/learning).                                                      *)
(*                                                                         *)
(* A card's version stands for its updated_at, which every write of the row    *)
(* changes.  All cards are of one skill: what matters is whose evidence the    *)
(* progress of that skill counts.  A writer is two steps: it takes the         *)
(* learner's advisory lock, checks and reads (Begin), and it commits.         *)
(***************************************************************************)
EXTENDS BrowserTab, Functions

CONSTANTS
  NCards,                 \* the cards are 1..NCards
  NHandovers,             \* attempts 1..NHandovers hand over an outcome, on card 1
  MaxElsewhere            \* bound: answers given and stars set in another tab, and
                          \* answers of this one that go on when nobody hears them

ASSUME PracticeAssumption ==
  NCards \in Nat \ {0} /\ NHandovers \in Nat /\ MaxElsewhere \in Nat

ReviewCardIds == 1..NCards
CardTypes == {"error_recovery", "mastery_review"}
CardVersions == 1..(1 + NCards + NHandovers + MaxElsewhere)
CardRow == [type : CardTypes, version : CardVersions, due : BOOLEAN, saved : BOOLEAN]
ReviewSubmission ==
  [by : {"page", "tab"}, card : ReviewCardIds, version : CardVersions, right : BOOLEAN,
   type : CardTypes, was : CardTypes]
\* Of a card at a version, or of an attempt.
EvidenceRow ==
  [of : (ReviewCardIds \X CardVersions) \cup ({0} \X (1..NHandovers)), right : BOOLEAN]
PracticeItem == [card : ReviewCardIds, version : CardVersions]

PracticeTypeOK ==
  Mounted("practice") =>
    /\ screen \in
         [page : {"practice"}, items : Seq(PracticeItem), index : 1..(NCards + 1),
          selected : {"none", "right", "wrong"}, result : {"none", "right", "wrong"},
          answered : 0..NCards, correct : 0..NCards, busy : BOOLEAN, submitting : BOOLEAN,
          error : BOOLEAN]
    /\ screen.correct <= screen.answered /\ screen.answered <= screen.index
    /\ server \in
         [cards : [ReviewCardIds -> CardRow], submissions : SUBSET ReviewSubmission,
          evidence : SUBSET EvidenceRow, progress : [count : Nat, right : Nat],
          elsewhere : 0..MaxElsewhere]

PracticeInit ==
  /\ screen = [page |-> "practice", items |-> <<>>, index |-> 1, selected |-> "none",
               result |-> "none", answered |-> 0, correct |-> 0, busy |-> TRUE,
               submitting |-> FALSE, error |-> FALSE]
  /\ calls = {[kind |-> "practice", stage |-> "sent", read |-> FALSE, items |-> <<>>]}
  /\ \E due \in SUBSET ReviewCardIds :
       server = [cards |-> [q \in ReviewCardIds |-> [type |-> "error_recovery", version |-> 1,
                                                     due |-> q \in due, saved |-> FALSE]],
                 submissions |-> {}, evidence |-> {}, progress |-> [count |-> 0, right |-> 0],
                 elsewhere |-> 0]

(***************************************************************************)
(* The page.  Its address, and with it the list it asks for, does not change  *)
(* while it is mounted.                                                      *)
(***************************************************************************)
\* Due cards, by their date and no more than a page; those whose question has no
\* right option are left out.
DueCards(cards) ==
  LET due == {q \in ReviewCardIds : cards[q].due}
  IN {[i \in DOMAIN f |-> [card |-> f[i], version |-> cards[f[i]].version]] :
        f \in UNION {Injection(1..n, due) : n \in 0..Cardinality(due)}}

PracticeRead(c) ==
  /\ c.kind = "practice" /\ ~c.read
  /\ \E items \in DueCards(server.cards) :
       calls' = (calls \ {c}) \cup {[c EXCEPT !.read = TRUE, !.items = items]}
  /\ UNCHANGED <<screen, server>>

PracticeArrives(c) ==
  /\ c.kind = "practice" /\ c.read
  /\ screen' = [screen EXCEPT !.items = c.items, !.busy = FALSE]
  /\ Ended(c) /\ UNCHANGED server

\* The page then says that no card is due.
PracticeFails(c) ==
  /\ c.kind = "practice"
  /\ screen' = [screen EXCEPT !.busy = FALSE, !.error = TRUE]
  /\ Ended(c) /\ UNCHANGED server

Practising == ~screen.busy /\ screen.index \in DOMAIN screen.items
CurrentItem == screen.items[screen.index]

SelectOption(option) ==
  /\ Practising /\ screen.result = "none" /\ ~screen.submitting /\ option # screen.selected
  /\ screen' = [screen EXCEPT !.selected = option]
  /\ UNCHANGED <<calls, server>>

\* The key of a submission is kept by card, version and option: it is as good as
\* the three of them, within one tab.
ReviewAnswer(by, item, right) ==
  [kind |-> "answer", by |-> by, card |-> item.card, version |-> item.version, right |-> right,
   type |-> "error_recovery", base |-> [count |-> 0, right |-> 0], stage |-> "sent",
   heard |-> by = "page"]

SubmitReview ==
  /\ Practising /\ screen.selected # "none" /\ screen.result = "none" /\ ~screen.submitting
  /\ screen' = [screen EXCEPT !.submitting = TRUE, !.error = FALSE]
  /\ calls' = calls \cup {ReviewAnswer("page", CurrentItem, screen.selected = "right")}
  /\ UNCHANGED server

AnswerShown(c) ==
  /\ c.kind = "answer" /\ c.heard /\ c.stage = "stored"
  /\ screen' = [screen EXCEPT !.submitting = FALSE, !.answered = @ + 1,
                              !.result = IF c.right THEN "right" ELSE "wrong",
                              !.correct = @ + IF c.right THEN 1 ELSE 0]
  /\ Ended(c) /\ UNCHANGED server

\* A refusal, or a connection that is lost: the server may be at it still, and what
\* it answers is heard by nobody.
AnswerFails(c) ==
  /\ c.kind = "answer" /\ c.heard
  /\ screen' = [screen EXCEPT !.submitting = FALSE, !.error = TRUE]
  /\ \/ c.stage \in {"sent", "stored", "refused"} /\ Ended(c) /\ UNCHANGED server
     \/ /\ c.stage \in {"seen", "writing"} /\ server.elsewhere < MaxElsewhere
        /\ calls' = (calls \ {c}) \cup {[c EXCEPT !.heard = FALSE]}
        /\ server' = [server EXCEPT !.elsewhere = @ + 1]

NextCard ==
  /\ Practising /\ screen.result # "none"
  /\ screen' = [screen EXCEPT !.index = @ + 1, !.selected = "none", !.result = "none",
                              !.error = FALSE]
  /\ UNCHANGED <<calls, server>>

(***************************************************************************)
(* The server: a review answer.                                              *)
(***************************************************************************)
\* lockStudentEvidenceTx(): held to the end of the transaction.
EvidenceLocked == \E c \in calls : c.stage = "writing"
EvidenceUnlocked == ~EvidenceLocked

\* FAULTY: the writers do not wait for each other, only for the row of the card.
BeginsAtOnce(c) == \A d \in calls : d.stage = "writing" => d.card # c.card

MayBegin(c) == EvidenceUnlocked

Counted(evidence) ==
  [count |-> Cardinality(evidence), right |-> Cardinality({e \in evidence : e.right})]

Recorded(c) ==
  \E s \in server.submissions :
    s.by = c.by /\ s.card = c.card /\ s.version = c.version /\ s.right = c.right

SameVersion(c) == server.cards[c.card].due /\ server.cards[c.card].version = c.version

\* SubmitReviewAnswer(): a submission with this key is answered again; if there is
\* none, the type of the card, read here, makes the type of the evidence.
AnswerLookedUp(c) ==
  /\ c.kind = "answer" /\ c.stage = "sent"
  /\ IF Recorded(c) THEN Advances(c, "stored")
     ELSE calls' = (calls \ {c}) \cup
            {[c EXCEPT !.stage = "seen", !.type = server.cards[c.card].type]}
  /\ UNCHANGED <<screen, server>>

\* ApplyReviewAnswer(): the key again, then the version and the date of the card.
BeginAnswer(c) ==
  /\ c.kind = "answer" /\ c.stage = "seen" /\ MayBegin(c)
  /\ calls' = (calls \ {c}) \cup
       {[c EXCEPT !.stage = IF Recorded(c) THEN "stored"
                            ELSE IF SameVersion(c) THEN "writing" ELSE "refused",
                  !.base = Counted(server.evidence)]}
  /\ UNCHANGED <<screen, server>>

WithOne(base, right) ==
  [count |-> base.count + 1, right |-> base.right + IF right THEN 1 ELSE 0]

CardAfter(row, right) ==
  [row EXCEPT !.type = IF right THEN "mastery_review" ELSE "error_recovery",
              !.version = @ + 1, !.due = FALSE]

CommitAnswer(c) ==
  /\ c.kind = "answer" /\ c.stage = "writing"
  /\ server' = [server EXCEPT
       !.cards[c.card] = CardAfter(@, c.right),
       !.submissions = @ \cup {[by |-> c.by, card |-> c.card, version |-> c.version,
                                right |-> c.right, type |-> c.type,
                                was |-> server.cards[c.card].type]},
       !.evidence = @ \cup {[of |-> <<c.card, c.version>>, right |-> c.right]},
       !.progress = WithOne(c.base, c.right)]
  /\ Advances(c, "stored") /\ UNCHANGED screen

\* The transaction fails, or its process dies: the connection breaks.
EvidenceRollsBack(c) ==
  /\ c.stage = "writing"
  /\ IF c.kind = "answer" THEN Advances(c, "refused") ELSE Ended(c)
  /\ UNCHANGED <<screen, server>>

(***************************************************************************)
(* The server: everybody else.                                               *)
(***************************************************************************)
\* Another tab answers what it read just now, or at some time before; what it shows
\* is not modelled.
OtherTabAnswers(item, right) ==
  /\ server.elsewhere < MaxElsewhere /\ item.version <= server.cards[item.card].version
  /\ calls' = calls \cup {ReviewAnswer("tab", item, right)}
  /\ server' = [server EXCEPT !.elsewhere = @ + 1] /\ UNCHANGED screen

NobodyHears(c) ==
  /\ c.kind = "answer" /\ ~c.heard /\ c.stage \in {"stored", "refused"}
  /\ Ended(c) /\ UNCHANGED <<screen, server>>

\* SetSavedReview() from the library: it waits for the row, and a star that is set
\* already does not change the version.
SetSavedElsewhere(q, saved) ==
  /\ server.elsewhere < MaxElsewhere /\ server.cards[q].saved # saved
  /\ \A c \in calls : c.stage = "writing" => c.card # q
  /\ server' = [server EXCEPT !.elsewhere = @ + 1, !.cards[q].saved = saved,
                              !.cards[q].version = @ + 1]
  /\ UNCHANGED <<screen, calls>>

CardFallsDue(q) ==
  /\ ~server.cards[q].due
  /\ server' = [server EXCEPT !.cards[q].due = TRUE] /\ UNCHANGED <<screen, calls>>

\* ApplyAssessmentEvidence(), at any time after the attempt and as often as it is
\* repeated: what was inserted before is not inserted again.
BeginHandover(a, right) ==
  LET c == [kind |-> "handover", attempt |-> a, card |-> 1, right |-> right,
            base |-> Counted(server.evidence), stage |-> "writing"]
  IN /\ MayBegin(c) /\ \A e \in server.evidence : e.of # <<0, a>>
     /\ calls' = calls \cup {c} /\ UNCHANGED <<screen, server>>

CommitHandover(c) ==
  /\ c.kind = "handover" /\ c.stage = "writing"
  /\ server' = [server EXCEPT
       !.cards[c.card] = CardAfter(@, c.right),
       !.evidence = @ \cup {[of |-> <<0, c.attempt>>, right |-> c.right]},
       !.progress = WithOne(c.base, c.right)]
  /\ Ended(c) /\ UNCHANGED screen

PracticeNext ==
  \/ \E option \in {"right", "wrong"} : SelectOption(option)
  \/ SubmitReview \/ NextCard
  \/ \E c \in calls :
       \/ PracticeRead(c) \/ PracticeArrives(c) \/ PracticeFails(c)
       \/ AnswerShown(c) \/ AnswerFails(c) \/ AnswerLookedUp(c) \/ BeginAnswer(c)
       \/ CommitAnswer(c) \/ EvidenceRollsBack(c) \/ NobodyHears(c) \/ CommitHandover(c)
  \/ \E item \in PracticeItem, right \in BOOLEAN : OtherTabAnswers(item, right)
  \/ \E q \in ReviewCardIds, saved \in BOOLEAN : SetSavedElsewhere(q, saved)
  \/ \E q \in ReviewCardIds : CardFallsDue(q)
  \/ \E a \in 1..NHandovers, right \in BOOLEAN : BeginHandover(a, right)

PracticeSpec == PracticeInit /\ [][PracticeNext]_tabVars

(***************************************************************************)
(* Properties                                                              *)
(***************************************************************************)
\* A card is answered once for every time it was due, whichever tab asks and however
\* often it asks again, and what is recorded as the recovery of a mistake was one
\* when it was recorded, although the type of the card is read long before the lock.
AnsweredOnce ==
  Mounted("practice") =>
    /\ \A s, t \in server.submissions : s.card = t.card /\ s.version = t.version => s = t
    /\ \A s \in server.submissions : s.type = s.was

\* The progress of a skill is that of its evidence: answers and outcomes of attempts
\* that are written at the same time do not overwrite each other.
ProgressIsOfEvidence ==
  Mounted("practice") => server.progress = Counted(server.evidence)

\* The result on the screen is the one that was recorded for the card on the screen,
\* with the option that is selected there, and the page counts no answer that the
\* server did not.
ResultIsRecorded ==
  Mounted("practice") =>
    /\ screen.result # "none" =>
         \E s \in server.submissions :
           /\ s.by = "page" /\ s.card = CurrentItem.card /\ s.version = CurrentItem.version
           /\ screen.selected = screen.result /\ s.right = (screen.result = "right")
    /\ screen.answered <= Cardinality({s \in server.submissions : s.by = "page"})
=============================================================================
