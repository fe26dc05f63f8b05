---------------------------- MODULE MCStaffPages ----------------------------
(* The pages of administrators, directors and supervisors, and the parts of   *)
(* the site they edit, instantiated together: the tab shows one of them.      *)
EXTENDS TaxonomyAdmin, ContentEditors, ContentAdmin, SchoolDirector, SchoolsAdmin,
        SupervisorRoster, HomepageEditor, AnnouncementAds, PlatformFonts,
        QuestionBankAdmin, QuestionImport, QuestionForm, UsersAdmin,
        AssessmentSessions, TLC

\* TaxonomyAdmin: two subjects of one path.
PathOfSubject == [s1 |-> "p1", s2 |-> "p1"]

\* QuestionForm: three main skills, two of one subject; one has a sub-skill.
ScopeOfSkill == [m1 |-> "s1", m2 |-> "s1", m3 |-> "s2", b1 |-> "m1"]

Init ==
  \/ TaxonomyInit \/ EditorInit \/ ContentInit \/ DirectorInit \/ SchoolsInit
  \/ RosterInit \/ HomepageInit \/ AdsInit \/ FontsInit \/ QuestionBankInit
  \/ ImportInit \/ QuestionFormInit \/ UsersAdminInit \/ SessionsInit

Next ==
  \/ Mounted("taxonomy") /\ TaxonomyNext
  \/ Mounted("editor") /\ EditorNext
  \/ Mounted("content") /\ ContentNext
  \/ Mounted("director") /\ DirectorNext
  \/ Mounted("schools") /\ SchoolsNext
  \/ Mounted("roster") /\ RosterNext
  \/ Mounted("homepage") /\ HomepageNext
  \/ Mounted("ads") /\ AdsNext
  \/ Mounted("fonts") /\ FontsNext
  \/ Mounted("questions") /\ QuestionBankNext
  \/ Mounted("import") /\ ImportNext
  \/ Mounted("questionform") /\ QuestionFormNext
  \/ Mounted("users") /\ UsersAdminNext
  \/ Mounted("sessions") /\ SessionsNext

Spec == Init /\ [][Next]_tabVars

-----------------------------------------------------------------------------
\* Every page keeps its types.
StaffPagesTypeOK ==
  /\ TaxonomyTypeOK /\ EditorTypeOK /\ ContentTypeOK /\ DirectorTypeOK
  /\ SchoolsTypeOK /\ RosterTypeOK /\ HomepageTypeOK /\ AdsTypeOK /\ FontsTypeOK
  /\ QuestionBankTypeOK /\ QuestionImportTypeOK /\ QuestionFormTypeOK
  /\ UsersAdminTypeOK /\ SessionsTypeOK

\* Late and reordered answers notwithstanding, the rows of a list that is not
\* loading belong to the view on the screen: the topics of the subject, the
\* filter and page of the content and of the question bank, the school of the
\* director, of the administrator and of the supervisor's roster.
RowsAreOfTheView ==
  /\ TopicsAreTheSubjects /\ RowsMatchView /\ RowsOfFilter
  /\ RowsOfThisVisit /\ UnhurriedRows /\ RosterOfScope

\* What was written stays on the screen, what was edited is not overwritten by
\* an older answer, and what the site shows is what the editors stored:
\* taxonomy, content editors, staff assignments, homepage, announcements, fonts.
\* An ad that the browser refused to store is with its editor alone.
EditsAreKept ==
  /\ SettledShowsWrites /\ LinksKept /\ NoBlindOverwrite /\ AssignmentsStayRead
  /\ HomepageIsNeverLost /\ AdsStayTrue /\ AppliedIsEdited

\* What a form sends is what was meant: a director's assessment, which is created
\* once however often its form is sent; a batch of questions as its dry run checked
\* it; a new question with its options and skills.
SentAsMeant == OneAssessmentPerForm /\ ImportIsChecked /\ CreatedAsMeant

\* The accounts and the assessment sessions on the screen are those of the server
\* once the page awaits nothing, as far as it heard what became of its commands:
\* no list that was read before a command stays, or comes, after the answer to it
\* (UsersAdminPage.tsx, AssessmentSessionPanel.tsx).
TablesAreTrue == TableIsTrue /\ SessionsAreTrue
=============================================================================
