--------------------------- MODULE HomepageEditor ---------------------------
(***************************************************************************)
(* The editor of the public home page (features/presentation/               *)
(* HomepageManager.tsx) and the other pages of the tab that show its          *)
(* settings (useHomepageSettings.ts).                                         *)
(*                                                                         *)
(* The settings are one document, sent as a whole.  The model keeps which    *)
(* version a draft started from ("base"; Default is the one the program       *)
(* brings along) and in which of its parts it holds changes nobody saved.     *)
(***************************************************************************)
EXTENDS BrowserTab

CONSTANTS
  MaxEdits,     \* bound: changes and uploads
  MaxVersions   \* bound: how often the settings are stored, here or elsewhere

ASSUME HomepageEditorAssumption == MaxEdits \in Nat \ {0} /\ MaxVersions \in Nat \ {0}

HomepageParts == {"brand", "hero", "gallery", "testimonials", "sections"}
Default == -1
Versions == 0..MaxVersions                  \* 0: nothing was stored yet

HomepageTypeOK ==
  Mounted("homepage") =>
    /\ screen \in
         [page : {"homepage"}, present : BOOLEAN, loading : BOOLEAN, loadFailed : BOOLEAN,
          catalog : {"loading", "ready", "failed"}, saving : BOOLEAN,
          base : Versions \cup {Default}, edits : SUBSET HomepageParts, changed : 0..MaxEdits,
          visitor : Versions \cup {Default}, patched : Versions]
    /\ server \in [version : Versions, blind : BOOLEAN]

(***************************************************************************)
(* The page asks for the settings and for the catalogue of courses and       *)
(* lessons; the visitor's pages ask for the settings themselves.              *)
(***************************************************************************)
Reading(kind) == [kind |-> kind, version |-> Default, base |-> Default, part |-> "brand"]

HomepageInit ==
  /\ server \in [version : {0, 1}, blind : {FALSE}]
  /\ screen = [page |-> "homepage", present |-> TRUE, loading |-> TRUE, loadFailed |-> FALSE,
               catalog |-> "loading", saving |-> FALSE, base |-> Default, edits |-> {},
               changed |-> 0, visitor |-> Default, patched |-> 0]
  /\ calls = {Reading("settings"), Reading("catalog"), Reading("visitor")}

SettingsRead(c) ==
  /\ c.kind \in {"settings", "visitor"} /\ c.version = Default
  /\ calls' = (calls \ {c}) \cup {[c EXCEPT !.version = server.version]}
  /\ UNCHANGED <<screen, server>>

\* Nothing stored: the defaults stay, and publishing them is what is wanted.
SettingsArrive(c) ==
  /\ c.kind = "settings" /\ c.version # Default
  /\ screen' = [screen EXCEPT !.loading = FALSE, !.base = c.version]
  /\ Ended(c) /\ UNCHANGED server

SettingsFail(c) ==
  /\ c.kind = "settings"
  /\ screen' = [screen EXCEPT !.loading = FALSE, !.loadFailed = TRUE]
  /\ Ended(c) /\ UNCHANGED server

CatalogAnswers(c) ==
  /\ c.kind = "catalog" /\ Ended(c) /\ UNCHANGED server
  /\ screen' \in {[screen EXCEPT !.catalog = "ready"], [screen EXCEPT !.catalog = "failed"]}

(***************************************************************************)
(* Editing: the whole form is disabled while a save is under way, and the    *)
(* menu, the counters, the fonts and the featured lists always are.           *)
(***************************************************************************)
FormOpen == screen.present /\ ~screen.loading /\ ~screen.saving

Edit(part) ==
  /\ FormOpen /\ screen.changed < MaxEdits
  /\ screen' = [screen EXCEPT !.edits = @ \cup {part}, !.changed = @ + 1]
  /\ UNCHANGED <<calls, server>>

EditBrand == Edit("brand")
EditHero == Edit("hero")
EditHeroTexts == Edit("hero")
EditGallery == Edit("gallery")
PickPreset == Edit("hero") \/ Edit("gallery")
EditTestimonials == Edit("testimonials")
EditSections == Edit("sections")

\* A file was chosen for the logo, the hero, the gallery or a testimonial: it is
\* read into the draft later, whatever happens meanwhile.
ChooseImage(part) ==
  /\ FormOpen /\ screen.changed < MaxEdits
  /\ screen' = [screen EXCEPT !.changed = @ + 1]
  /\ calls' = calls \cup {[Reading("file") EXCEPT !.version = screen.changed, !.part = part]}
  /\ UNCHANGED server

ImageRead(c) ==
  /\ c.kind = "file" /\ Ended(c) /\ UNCHANGED server
  /\ screen' \in {screen, [screen EXCEPT !.edits = @ \cup {c.part}]}

(***************************************************************************)
(* Saving.                                                                 *)
(***************************************************************************)
\* FAULTY: the settings that were brought along can be saved after a failed read.
MaySaveAfterFailure == ~screen.saving /\ screen.catalog = "ready"

MaySave == ~screen.saving /\ ~screen.loadFailed /\ screen.catalog = "ready"

HandleSave ==
  /\ screen.present /\ ~screen.loading /\ MaySave
  /\ screen' = [screen EXCEPT !.saving = TRUE]
  /\ calls' = calls \cup {[Reading("save") EXCEPT !.base = screen.base]}
  /\ UNCHANGED server

\* "blind": the stored document was overwritten from a draft that never saw one.
SaveStored(c) ==
  /\ c.kind = "save" /\ c.version = Default /\ server.version < MaxVersions
  /\ server' = [version |-> server.version + 1,
                blind |-> server.blind \/ (c.base = Default /\ server.version # 0)]
  /\ calls' = (calls \ {c}) \cup {[c EXCEPT !.version = server.version + 1]}
  /\ UNCHANGED screen

\* HOMEPAGE_SETTINGS_UPDATED: every page of the tab merges the answer over what
\* it has, and remembers it for a read that is still under way.
Broadcast(p, version) == [p EXCEPT !.visitor = version, !.patched = version]

HomepageSaved(c) ==
  /\ c.kind = "save" /\ c.version # Default
  /\ screen' = [Broadcast(screen, c.version) EXCEPT
                  !.saving = FALSE, !.base = c.version, !.edits = {}]
  /\ Ended(c) /\ UNCHANGED server

\* An answer that speaks of the session signs the administrator out.
SaveFails(c) ==
  /\ c.kind = "save" /\ Ended(c) /\ UNCHANGED server
  /\ \E signedOut \in BOOLEAN :
       screen' = [screen EXCEPT !.saving = FALSE, !.present = ~signedOut]

VisitorShows(c) == IF screen.patched # 0 THEN screen.patched ELSE c.version

VisitorArrives(c) ==
  /\ c.kind = "visitor" /\ c.version # Default
  /\ screen' = [screen EXCEPT !.visitor = VisitorShows(c)]
  /\ Ended(c) /\ UNCHANGED server

VisitorFails(c) == c.kind = "visitor" /\ Ended(c) /\ UNCHANGED <<screen, server>>

AnotherAdminSaves ==
  /\ server.version < MaxVersions
  /\ server' = [server EXCEPT !.version = @ + 1] /\ UNCHANGED <<screen, calls>>

HomepageNext ==
  \/ EditBrand \/ EditHero \/ EditHeroTexts \/ EditGallery \/ PickPreset
  \/ EditTestimonials \/ EditSections
  \/ \E part \in HomepageParts \ {"sections"} : ChooseImage(part)
  \/ HandleSave \/ AnotherAdminSaves
  \/ \E c \in calls :
       \/ SettingsRead(c) \/ SettingsArrive(c) \/ SettingsFail(c) \/ CatalogAnswers(c)
       \/ ImageRead(c) \/ SaveStored(c) \/ HomepageSaved(c) \/ SaveFails(c)
       \/ VisitorArrives(c) \/ VisitorFails(c)

HomepageSpec == HomepageInit /\ [][HomepageNext]_tabVars

(***************************************************************************)
(* Properties                                                              *)
(***************************************************************************)
\* A home page that is stored is never overwritten by the settings the program
\* brings along, as it would be if they could be saved after a failed read.  And
\* "keep the newer fields" (useHomepageSettings.ts:34): once a save was announced
\* in the tab, its other pages never show an older document, also when their own
\* first read is answered after the save.
HomepageIsNeverLost ==
  Mounted("homepage") =>
    /\ ~server.blind
    /\ screen.patched # 0 => screen.visitor >= screen.patched
=============================================================================
