---------------------------- MODULE LearningSpace ----------------------------
(***************************************************************************)
(* apps/web/src/features/learning/pages/LearningSpacePage.tsx, as it is at     *)
(* /learning: what a subject offers to a learner, by tab.  The address says    *)
(* what is selected, the page reads the space of the subject, the placements   *)
(* of the tab and a topic that the space does not list, and it starts the      *)
(* attempt of a placement.                                                 *)
(*                                                                         *)
(* A tab of a subject holds one placement, named by both.  Left out: levels,   *)
(* aliases of ids, the filters that hide some cards of a list, the tab inside  *)
(* the dialog of a topic, the messages, and a session that begins or ends      *)
(* while the page is there.                                                 *)
(***************************************************************************)
EXTENDS BrowserTab

CONSTANTS
  PathSubjects,               \* the subjects of each path of the taxonomy
  AllowedTabs, FirstTab,      \* what the settings of each subject show, and the first of it
  SpaceTopics, ListedTopics,  \* the topics of each subject, and the ones its space lists
  OpenPlacements,             \* those with accessAllowed for this learner
  PlacementAttempts,          \* how often a placement may be started
  MaxStartKeys,
  SpaceAddresses              \* the links, bookmarks and entries of the history, by path,
                              \* subject, tab and topic

SpacePaths == DOMAIN PathSubjects
SpaceSubjects == UNION {PathSubjects[p] : p \in SpacePaths}
SpaceTabs == {"courses", "foundation", "questions", "exams", "library"}
TopicsOfSpace == UNION {SpaceTopics[s] : s \in SpaceSubjects}

ASSUME LearningSpaceAssumption ==
  /\ \A s \in SpaceSubjects : /\ FirstTab[s] \in AllowedTabs[s] /\ AllowedTabs[s] \subseteq SpaceTabs
                              /\ ListedTopics[s] \subseteq SpaceTopics[s]
  /\ \A p, q \in SpacePaths : p # q => PathSubjects[p] \cap PathSubjects[q] = {}
  /\ OpenPlacements \subseteq SpaceSubjects \X {"questions", "exams"}
  /\ PlacementAttempts \in Nat /\ MaxStartKeys \in Nat
  /\ SpaceAddresses \subseteq
       [path : SpacePaths \cup {"none"}, subject : SpaceSubjects \cup {"none"},
        tab : SpaceTabs, topic : TopicsOfSpace \cup {"none"}]

Placements == SpaceSubjects \X {"questions", "exams"}
NoPlace == <<"none", "none">>
NoRows == [place |-> NoPlace, canStart |-> FALSE]
StartKeys == 1..MaxStartKeys
Wait == {"idle", "busy", "error"}
NoTopic == [subject |-> "none", topic |-> "none", state |-> "idle"]

SpaceTypeOK ==
  Mounted("space") =>
    /\ screen \in
         [page : {"space"}, away : BOOLEAN, user : BOOLEAN, taxonomy : BOOLEAN,
          path : SpacePaths \cup {"none"}, subject : SpaceSubjects \cup {"none"},
          tab : SpaceTabs, topic : TopicsOfSpace \cup {"none"},
          space : SpaceSubjects \cup {"none"}, spaceState : Wait,
          rows : [place : Placements \cup {NoPlace}, canStart : BOOLEAN],
          rowsScope : Placements \cup {NoPlace}, rowsState : Wait,
          deep : [subject : SpaceSubjects \cup {"none"}, topic : TopicsOfSpace \cup {"none"},
                  state : Wait],
          starting : Placements \cup {NoPlace}, keys : [Placements -> 0..MaxStartKeys],
          made : 0..MaxStartKeys, opened : SUBSET StartKeys]
    /\ server \in [Placements -> SUBSET StartKeys]

(***************************************************************************)
(* What is selected.                                                       *)
(***************************************************************************)
\* currentSubject: without a path, it may be of any.
SubjectKnown(p) ==
  p.taxonomy /\ p.subject \in IF p.path = "none" THEN SpaceSubjects ELSE PathSubjects[p.path]

\* The condition of all requests for a subject: it is one of the selected path.
SubjectInScope(p) == p.path # "none" /\ SubjectKnown(p)
PlaceOf(p) == <<p.subject, p.tab>>

\* FAULTY: placements are asked for on every tab.
PlacesWantedAnywhere(p) == SubjectInScope(p)

PlacesWanted(p) == SubjectInScope(p) /\ PlaceOf(p) \in Placements
VisibleSpace(p) == p.space # "none" /\ p.space = p.subject
TopicId(p) == IF p.tab = "foundation" THEN p.topic ELSE "none"
Listed(p) == VisibleSpace(p) /\ TopicId(p) \in ListedTopics[p.subject]
DeepWanted(p) == p.user /\ SubjectInScope(p) /\ VisibleSpace(p) /\ TopicId(p) # "none" /\ ~Listed(p)

\* selectedTopic: the dialog of the topic is open.
TopicShown(p) ==
  VisibleSpace(p) /\ (Listed(p) \/ p.deep = [subject |-> p.subject, topic |-> TopicId(p), state |-> "idle"])

SpaceReads(kind) == {c \in calls : c.kind = kind}

(***************************************************************************)
(* The effects: what a change of the address, of the taxonomy or of the space *)
(* makes the page ask for.  "again" names the request that is tried again.     *)
(***************************************************************************)
SpaceDeps(p) == <<p.path, p.subject, SubjectInScope(p)>>
PlaceDeps(p) == <<p.path, PlaceOf(p), SubjectInScope(p)>>
TopicDeps(p) == <<p.path, p.subject, TopicId(p), SubjectInScope(p), VisibleSpace(p)>>

\* isTabAllowed
TabAllowed(p, tab) == SubjectKnown(p) => tab \in AllowedTabs[p.subject]

\* A tab that the settings of the subject hide gives way to the first that they show.
OnAllowedTab(p) ==
  IF ~TabAllowed(p, p.tab)
  THEN [p EXCEPT !.tab = FirstTab[p.subject], !.topic = "none"] ELSE p

SpaceEffect(p) ==
  [p EXCEPT !.space = "none", !.spaceState = IF SubjectInScope(p) THEN "busy" ELSE "idle"]

PlaceEffect(p) ==
  IF PlacesWanted(p)
  THEN [p EXCEPT !.rows = NoRows, !.rowsState = "busy", !.rowsScope = PlaceOf(p)]
  ELSE [p EXCEPT !.rows = NoRows, !.rowsState = IF @ = "busy" THEN "idle" ELSE @]

TopicEffect(p) ==
  IF DeepWanted(p)
  THEN [p EXCEPT !.deep = [subject |-> p.subject, topic |-> TopicId(p), state |-> "busy"]] ELSE p

SpaceRequest(p) ==
  IF SubjectInScope(p) THEN {[kind |-> "space", subject |-> p.subject]} ELSE {}
PlaceRequest(p) ==
  IF PlacesWanted(p)
  THEN {[kind |-> "places", scope |-> PlaceOf(p), read |-> FALSE, canStart |-> FALSE]} ELSE {}
TopicRequest(p) ==
  IF DeepWanted(p) THEN {[kind |-> "topic", subject |-> p.subject, topic |-> TopicId(p)]} ELSE {}

\* The cleanup of an effect aborts its request, or no longer listens to it.  A space
\* that is asked for again while its request is under way is waited for by that one.
AbortedRead(kind) == SpaceReads(kind)

\* The effects of one render, after the state or the address became p.
Effects(old, p, again) ==
  LET space  == again = "space" \/ SpaceDeps(p) # SpaceDeps(old)
      places == again = "places" \/ PlaceDeps(p) # PlaceDeps(old)
      p1     == IF space THEN SpaceEffect(p) ELSE p
      p2     == IF places THEN PlaceEffect(p1) ELSE p1
      topic  == again = "topic" \/ TopicDeps(p2) # TopicDeps(old)
  IN IF topic THEN TopicEffect(p2) ELSE p2

\* What is asked for and what is aborted, when the effects of a render led to first and
\* those of the next one to last.
RendersTo(first, last, over, again) ==
  LET space  == again = "space" \/ SpaceDeps(first) # SpaceDeps(screen) \/ SpaceDeps(last) # SpaceDeps(first)
      places == again = "places" \/ PlaceDeps(first) # PlaceDeps(screen) \/ PlaceDeps(last) # PlaceDeps(first)
      topic  == again = "topic" \/ TopicDeps(first) # TopicDeps(screen) \/ TopicDeps(last) # TopicDeps(first)
  IN /\ screen' = last
     /\ calls' = (calls \ (over \cup (IF space THEN AbortedRead("space") ELSE {})
                               \cup (IF places THEN AbortedRead("places") ELSE {})
                               \cup (IF topic THEN AbortedRead("topic") ELSE {})))
                 \cup (IF space THEN SpaceRequest(last) ELSE {})
                 \cup (IF places THEN PlaceRequest(last) ELSE {})
                 \cup (IF topic THEN TopicRequest(last) ELSE {})
     /\ UNCHANGED server

\* The last effect of a render may change the tab; the effects of the next one then ask
\* anew, and what the first ones asked for is aborted.  (The quantifiers make TLC
\* evaluate each page once.)
Renders(new, over, again) ==
  \E p \in {new} : \E first \in {Effects(screen, p, again)} :
  \E last \in {IF TabAllowed(p, p.tab) THEN first ELSE Effects(first, OnAllowedTab(first), "none")} :
    RendersTo(first, last, over, again)

(***************************************************************************)
(* Opening the page: by an address that may already name everything.         *)
(***************************************************************************)
SpaceOpened(user, at) ==
  [page |-> "space", away |-> FALSE, user |-> user, taxonomy |-> FALSE, path |-> at.path,
   subject |-> at.subject, tab |-> at.tab, topic |-> at.topic,
   space |-> "none", spaceState |-> "idle", rows |-> NoRows,
   rowsScope |-> NoPlace, rowsState |-> "idle", deep |-> NoTopic, starting |-> NoPlace,
   keys |-> [p \in Placements |-> 0], made |-> 0, opened |-> {}]

SpaceInit ==
  /\ \E user \in BOOLEAN, at \in SpaceAddresses : screen = SpaceOpened(user, at)
  /\ calls = {[kind |-> "taxonomy"]}
  /\ server = [p \in Placements |-> {}]

SpaceTaxonomyArrives(c) ==
  /\ c.kind = "taxonomy" /\ ~screen.away
  /\ Renders([screen EXCEPT !.taxonomy = TRUE], {c}, "none")

\* Nothing can be selected then, and nothing says why.
SpaceTaxonomyFails(c) == c.kind = "taxonomy" /\ Ended(c) /\ UNCHANGED <<screen, server>>

(***************************************************************************)
(* The address.                                                            *)
(***************************************************************************)
ChangeSpacePath(path) ==
  /\ ~screen.away /\ path # screen.path /\ (screen.taxonomy \/ path = "none")
  /\ Renders([screen EXCEPT !.path = path, !.subject = "none", !.topic = "none"], {}, "none")

ChangeSubject(subject) ==
  /\ ~screen.away /\ screen.path # "none" /\ subject # screen.subject
  /\ subject = "none" \/ (screen.taxonomy /\ subject \in PathSubjects[screen.path])
  /\ Renders([screen EXCEPT !.subject = subject, !.topic = "none"], {}, "none")

ChangeTab(tab) ==
  /\ ~screen.away /\ TabAllowed(screen, tab)
  /\ tab # screen.tab \/ screen.topic # "none"
  /\ Renders([screen EXCEPT !.tab = tab, !.topic = "none"], {}, "none")

\* Back and forward.
WalkHistory(at) ==
  /\ ~screen.away
  /\ Renders([screen EXCEPT !.path = at.path, !.subject = at.subject, !.tab = at.tab,
                             !.topic = at.topic], {}, "none")

\* A topic of the list, of the training tab, or of the dialog that is open.
OpenTopic(topic) ==
  /\ ~screen.away /\ VisibleSpace(screen)
  /\ topic \in ListedTopics[screen.subject] \cup (IF TopicShown(screen) THEN {screen.topic} ELSE {})
  /\ Renders([screen EXCEPT !.tab = "foundation", !.topic = topic], {}, "none")

CloseTopic ==
  /\ ~screen.away /\ TopicShown(screen)
  /\ Renders([screen EXCEPT !.topic = "none"], {}, "none")

(***************************************************************************)
(* The answers.                                                            *)
(***************************************************************************)
SpaceArrives(c) ==
  /\ c.kind = "space"
  /\ Renders([screen EXCEPT !.space = c.subject, !.spaceState = "idle"], {c}, "none")

SpaceFails(c) ==
  /\ c.kind = "space"
  /\ Renders([screen EXCEPT !.space = "none", !.spaceState = "error"], {c}, "none")

RetrySpace == ~screen.away /\ screen.spaceState = "error" /\ Renders(screen, {}, "space")

\* An attempt that was started counts, whether the learner was taken to it or not.
MayStart(place, user) ==
  place \in OpenPlacements /\ (user => Cardinality(server[place]) < PlacementAttempts)

PlacesRead(c) ==
  /\ c.kind = "places" /\ ~c.read
  /\ calls' = (calls \ {c}) \cup
       {[c EXCEPT !.read = TRUE, !.canStart = MayStart(c.scope, screen.user)]}
  /\ UNCHANGED <<screen, server>>

PlacesArrive(c) ==
  /\ c.kind = "places" /\ c.read
  /\ Renders([screen EXCEPT !.rows = [place |-> c.scope, canStart |-> c.canStart],
                             !.rowsState = "idle"], {c}, "none")

PlacesFail(c) ==
  /\ c.kind = "places" /\ Renders([screen EXCEPT !.rowsState = "error"], {c}, "none")

RetryPlaces ==
  /\ ~screen.away /\ VisibleSpace(screen) /\ PlacesWanted(screen)
  /\ screen.rowsState = "error" /\ screen.rowsScope = PlaceOf(screen)
  /\ Renders(screen, {}, "places")

\* A topic of another subject is refused.
DeepTopicArrives(c) ==
  /\ c.kind = "topic"
  /\ Renders([screen EXCEPT !.deep =
                [subject |-> c.subject, topic |-> c.topic,
                 state |-> IF c.topic \in SpaceTopics[c.subject] THEN "idle" ELSE "error"]],
             {c}, "none")

DeepTopicFails(c) ==
  /\ c.kind = "topic" /\ Renders([screen EXCEPT !.deep.state = "error"], {c}, "none")

RetryTopic ==
  /\ ~screen.away /\ DeepWanted(screen)
  /\ screen.deep = [subject |-> screen.subject, topic |-> TopicId(screen), state |-> "error"]
  /\ Renders(screen, {}, "topic")

(***************************************************************************)
(* Starting the attempt of a placement.  The key is kept in the tab until an  *)
(* answer took the learner to the attempt: the server gives the same attempt   *)
(* for the same key.                                                       *)
(***************************************************************************)
RowsShown ==
  /\ ~screen.away /\ VisibleSpace(screen) /\ PlacesWanted(screen)
  /\ screen.rowsState = "idle" /\ screen.rowsScope = PlaceOf(screen) /\ screen.rows # NoRows

\* The page is unmounted: its requests are aborted, and a start goes on unheard.
LeavesTo(p) ==
  /\ screen' = [p EXCEPT !.away = TRUE]
  /\ calls' = {[c EXCEPT !.gone = TRUE] :
                 c \in {d \in SpaceReads("start") : d.stage \in {"sent", "stored"}}}
  /\ UNCHANGED server

\* Who is not signed in is sent to sign in.
HandleStartPlacement ==
  /\ RowsShown /\ screen.rows.canStart
  /\ IF ~screen.user THEN LeavesTo(screen)
     ELSE LET place == screen.rows.place
          IN /\ screen.starting = NoPlace
             /\ screen' = [screen EXCEPT !.starting = place]
             /\ calls' = calls \cup {[kind |-> "start", place |-> place, path |-> screen.path,
                                      scope |-> PlaceOf(screen), key |-> 0, stage |-> "token",
                                      gone |-> FALSE]}
             /\ UNCHANGED server

\* placementMounted and currentPlacementScope
StillHere(c) == ~c.gone /\ c.path = screen.path /\ c.scope = PlaceOf(screen)

StartKey(place) == IF screen.keys[place] # 0 THEN screen.keys[place] ELSE screen.made + 1

StartSends(c) ==
  /\ c.kind = "start" /\ c.stage = "token"
  /\ IF StillHere(c)
     THEN LET key == StartKey(c.place)
          IN /\ key \in StartKeys
             /\ screen' = [screen EXCEPT !.keys[c.place] = key,
                             !.made = IF key > @ THEN key ELSE @]
             /\ calls' = (calls \ {c}) \cup {[c EXCEPT !.stage = "sent", !.key = key]}
     ELSE screen' = [screen EXCEPT !.starting = NoPlace] /\ Ended(c)
  /\ UNCHANGED server

AttemptStored(c) ==
  /\ c.kind = "start" /\ c.stage = "sent"
  /\ c.key \in server[c.place] \/ Cardinality(server[c.place]) < PlacementAttempts
  /\ server' = [server EXCEPT ![c.place] = @ \cup {c.key}]
  /\ Advances(c, "stored") /\ UNCHANGED screen

\* In another tab, or under another subject, the answer is not followed.
AttemptStarts(c) ==
  /\ c.kind = "start" /\ c.stage = "stored"
  /\ IF StillHere(c)
     THEN LeavesTo([screen EXCEPT !.keys[c.place] = 0, !.starting = NoPlace,
                                  !.opened = @ \cup {c.key}])
     ELSE /\ screen' = IF c.gone THEN screen ELSE [screen EXCEPT !.starting = NoPlace]
          /\ Ended(c) /\ UNCHANGED server

StartFails(c) ==
  /\ c.kind = "start"
  /\ screen' = IF c.gone THEN screen ELSE [screen EXCEPT !.starting = NoPlace]
  /\ Ended(c) /\ UNCHANGED server

(***************************************************************************)
(* The parts of the page, and leaving it for a course or another page.       *)
(***************************************************************************)
LeaveSpace == ~screen.away /\ LeavesTo(screen)

ComeBack(user, at) ==
  /\ screen.away
  /\ screen' = [SpaceOpened(user, at) EXCEPT
                  !.keys = screen.keys, !.made = screen.made, !.opened = screen.opened]
  /\ calls' = calls \cup {[kind |-> "taxonomy"]}
  /\ UNCHANGED server

SpaceSelectors ==
  \/ \E path \in SpacePaths \cup {"none"} : ChangeSpacePath(path)
  \/ \E s \in SpaceSubjects \cup {"none"} : ChangeSubject(s)
TabButtons == \E tab \in SpaceTabs : ChangeTab(tab)
FoundationTopics == screen.tab = "foundation" /\ \E topic \in TopicsOfSpace : OpenTopic(topic)
PlacementRows == RetryPlaces \/ HandleStartPlacement
TrainingTopics == \E topic \in TopicsOfSpace : OpenTopic(topic)
TrainingTab == screen.tab = "questions" /\ (PlacementRows \/ TrainingTopics)
ExamsTab == screen.tab = "exams" /\ PlacementRows

SpaceNext ==
  \/ SpaceSelectors \/ TabButtons \/ FoundationTopics \/ TrainingTab \/ ExamsTab
  \/ CloseTopic \/ RetrySpace \/ RetryTopic \/ LeaveSpace
  \/ \E at \in SpaceAddresses : WalkHistory(at) \/ \E user \in BOOLEAN : ComeBack(user, at)
  \/ \E c \in calls :
       \/ SpaceTaxonomyArrives(c) \/ SpaceTaxonomyFails(c) \/ SpaceArrives(c) \/ SpaceFails(c)
       \/ PlacesRead(c) \/ PlacesArrive(c) \/ PlacesFail(c)
       \/ DeepTopicArrives(c) \/ DeepTopicFails(c) \/ StartSends(c)
       \/ AttemptStored(c) \/ AttemptStarts(c) \/ StartFails(c)

SpaceSpec == SpaceInit /\ [][SpaceNext]_tabVars

(***************************************************************************)
(* Properties                                                              *)
(***************************************************************************)
\* What the learner can press belongs to the subject and the tab on the screen, in
\* whatever order the answers for the selections of before arrive.
SpaceOfSelection ==
  Mounted("space") =>
    /\ RowsShown => screen.rows.place = PlaceOf(screen)
    /\ TopicShown(screen) => TopicId(screen) \in SpaceTopics[screen.subject]

\* Of all attempts that this tab made the server start, at most one for a placement
\* is one that the learner was never taken to: lost answers, retries, changes of the
\* selection during a start and returns to the page do not use up attempts.
NoAttemptIsWasted ==
  Mounted("space") => \A p \in Placements : Cardinality(server[p] \ screen.opened) <= 1
=============================================================================
