---------------------------- MODULE QuestionForm ----------------------------
(***************************************************************************)
(* The form for a new question (QuestionBankAdminPage.tsx): its scope, its     *)
(* options, the image that is pasted or uploaded, and what is sent.           *)
(*                                                                         *)
(* An option is known by its place in the form; which places hold a text is   *)
(* kept, the texts are not.  A question is sent with the places its options,  *)
(* their labels and the correct answer came from.                            *)
(***************************************************************************)
EXTENDS BrowserTab

CONSTANTS
  Places,        \* how many options the form has (four in the code)
  MainSkills,    \* the main skills of two subjects
  SubSkills,     \* their sub-skills
  ScopeOf,       \* the subject of a main skill, and the main skill of a sub-skill
  MaxUploads     \* bound: images uploaded

ASSUME QuestionFormAssumption ==
  /\ Places \in 2..4 /\ MaxUploads \in Nat
  /\ "" \notin MainSkills \cup SubSkills
  /\ DOMAIN ScopeOf = MainSkills \cup SubSkills
  /\ \A skill \in SubSkills : ScopeOf[skill] \in MainSkills

FormSubjects == {ScopeOf[skill] : skill \in MainSkills}
QuestionType == {"mcq", "true_false", "essay"}
FormFields ==
  [subject : FormSubjects \cup {""}, main : MainSkills \cup {""}, sub : SubSkills \cup {""},
   type : QuestionType, filled : SUBSET (1..Places), ticked : 1..Places,
   embedded : BOOLEAN, labels : BOOLEAN, texts : BOOLEAN]
EmptyForm == [subject |-> "", main |-> "", sub |-> "", type |-> "mcq", filled |-> {},
              ticked |-> 1, embedded |-> FALSE, labels |-> TRUE, texts |-> TRUE]

NothingCreated == [subject |-> "", main |-> "", sub |-> "", options |-> <<>>,
                   labels |-> <<>>, correct |-> 0, meant |-> 0]

QuestionFormTypeOK ==
  Mounted("questionform") =>
    /\ screen.form \in FormFields /\ screen.image \in 0..MaxUploads
    /\ screen.uploads \in 0..MaxUploads /\ screen.pending \in {"", "media", "create"}
    /\ server.correct \in 0..Places

QuestionFormInit ==
  /\ screen = [page |-> "questionform", form |-> EmptyForm, image |-> 0, uploads |-> 0,
               pending |-> ""]
  /\ calls = {} /\ server = NothingCreated

(***************************************************************************)
(* Filling the form: nothing in it is disabled while it is sent, but a field  *)
(* that is changed then is lost, so that the model changes none (BOUND).      *)
(***************************************************************************)
FormStays == server = NothingCreated /\ \A c \in calls : c.kind # "create"

Fills(form) ==
  /\ FormStays /\ screen' = [screen EXCEPT !.form = form] /\ UNCHANGED <<calls, server>>

Rescoped(form, main) == [form EXCEPT !.main = main, !.sub = ""]

ChooseSubject(subject) ==
  Fills([screen.form EXCEPT !.subject = subject, !.main = "", !.sub = ""])
ChooseMainSkill(main) ==
  ScopeOf[main] = screen.form.subject /\ Fills(Rescoped(screen.form, main))
ChooseSubSkill(sub) ==
  ScopeOf[sub] = screen.form.main /\ Fills([screen.form EXCEPT !.sub = sub])
ChooseType(type) == Fills([screen.form EXCEPT !.type = type])

\* Its options are not on the screen for an essay.
UpdateOption(place) ==
  /\ screen.form.type # "essay"
  /\ \/ Fills([screen.form EXCEPT !.filled = @ \cup {place}])
     \/ Fills([screen.form EXCEPT !.filled = @ \ {place}])
TickCorrect(place) ==
  screen.form.type # "essay" /\ Fills([screen.form EXCEPT !.ticked = place])

\* The options are part of the image: their texts are hidden by default.
ToggleEmbedded ==
  Fills([screen.form EXCEPT !.embedded = ~@, !.texts = screen.form.embedded])
TogglePresentation ==
  \/ Fills([screen.form EXCEPT !.labels = ~@])
  \/ Fills([screen.form EXCEPT !.texts = ~@])

(***************************************************************************)
(* The image: pasted at any time, or uploaded.  The button that sends the     *)
(* question waits for the action that began last, and the end of any enables it. *)
(***************************************************************************)
UploadImage ==
  /\ screen.uploads < MaxUploads
  /\ screen' = [screen EXCEPT !.pending = "media", !.uploads = @ + 1]
  /\ calls' = calls \cup {[kind |-> "media", n |-> screen.uploads + 1]}
  /\ UNCHANGED server

UploadEnds(c) ==
  /\ c.kind = "media" /\ Ended(c) /\ UNCHANGED server
  /\ \E image \in {screen.image, c.n} :
       screen' = [screen EXCEPT !.pending = "", !.image = image]

RemoveImage ==
  /\ screen.image # 0
  /\ screen' = [screen EXCEPT !.image = 0] /\ UNCHANGED <<calls, server>>

(***************************************************************************)
(* Sending: text choices are compacted, choices of an image keep their place. *)
(***************************************************************************)
KeepsPlaces(form) == form.embedded \/ (~form.texts /\ form.labels)
ImageOptions(form) == [i \in 1..(IF form.type = "true_false" THEN 2 ELSE Places) |-> i]
TextOptions(form) ==
  CHOOSE rows \in [1..Cardinality(form.filled) -> form.filled] :
    \A i, j \in DOMAIN rows : i < j => rows[i] < rows[j]

SentOptions(form) ==
  IF form.type = "essay" THEN <<>>
  ELSE IF KeepsPlaces(form) THEN ImageOptions(form) ELSE TextOptions(form)

\* selectedLabels are taken from optionLabels for an essay as well.
SentLabels(form) == IF KeepsPlaces(form) THEN ImageOptions(form) ELSE TextOptions(form)

\* Counted from one here; 0 is none, as for an essay and for a blank choice.
SentCorrect(form) ==
  IF form.type = "essay" THEN 0
  ELSE IF KeepsPlaces(form) THEN form.ticked
  ELSE IF form.ticked \in form.filled
    THEN Cardinality({place \in form.filled : place <= form.ticked})
  ELSE 0

Sendable(form) ==
  /\ form.subject # "" /\ form.main # ""
  /\ form.type # "essay" => /\ Len(SentOptions(form)) >= 2
                            /\ SentCorrect(form) \in 1..Len(SentOptions(form))
  /\ form.labels \/ form.texts
  /\ ~form.labels /\ form.embedded => 1..Len(ImageOptions(form)) \subseteq form.filled

CreateQuestion ==
  /\ screen.pending = "" /\ FormStays /\ Sendable(screen.form)
  /\ screen' = [screen EXCEPT !.pending = "create"]
  /\ calls' = calls \cup
       {[kind |-> "create", subject |-> screen.form.subject, main |-> screen.form.main,
         sub |-> screen.form.sub, options |-> SentOptions(screen.form),
         labels |-> SentLabels(screen.form), correct |-> SentCorrect(screen.form),
         meant |-> IF screen.form.type = "essay" THEN 0 ELSE screen.form.ticked]}
  /\ UNCHANGED server

\* The form starts anew, with the image that is still being uploaded.
QuestionCreated(c) ==
  /\ c.kind = "create" /\ Ended(c)
  /\ server' = [NothingCreated EXCEPT !.subject = c.subject, !.main = c.main, !.sub = c.sub,
                  !.options = c.options, !.labels = c.labels, !.correct = c.correct,
                  !.meant = c.meant]
  /\ screen' = [screen EXCEPT !.form = EmptyForm, !.image = 0, !.pending = ""]

CreateRefused(c) ==
  /\ c.kind = "create" /\ Ended(c) /\ UNCHANGED server
  /\ screen' = [screen EXCEPT !.pending = ""]

QuestionFormNext ==
  \/ \E subject \in FormSubjects : ChooseSubject(subject)
  \/ \E skill \in MainSkills : ChooseMainSkill(skill)
  \/ \E skill \in SubSkills : ChooseSubSkill(skill)
  \/ \E type \in QuestionType : ChooseType(type)
  \/ \E place \in 1..Places : UpdateOption(place) \/ TickCorrect(place)
  \/ ToggleEmbedded \/ TogglePresentation \/ UploadImage \/ RemoveImage \/ CreateQuestion
  \/ \E c \in calls : UploadEnds(c) \/ QuestionCreated(c) \/ CreateRefused(c)

QuestionFormSpec == QuestionFormInit /\ [][QuestionFormNext]_tabVars

(***************************************************************************)
(* Properties                                                              *)
(***************************************************************************)
\* Whatever was left blank and however the options are shown, the answer that is
\* stored as correct is the one the author ticked, and each option has its own
\* label: "text choices are compacted; image choices retain their original
\* positions" (QuestionBankAdminPage.tsx:233).
AnswerIsMeant ==
  server.options # <<>> =>
    /\ server.options[server.correct] = server.meant
    /\ server.labels = server.options

\* A question is linked only to skills of its own subject, and to a sub-skill only
\* under its main skill, however often the scope was changed.
SkillsFit ==
  /\ server.main # "" => ScopeOf[server.main] = server.subject
  /\ server.sub # "" => ScopeOf[server.sub] = server.main

\* The question that is created is the one on the form: the marked option is the
\* right one and its skills fit (QuestionBankAdminPage.tsx).
CreatedAsMeant == Mounted("questionform") => AnswerIsMeant /\ SkillsFit
=============================================================================
