---------------------------- MODULE PlatformFonts ----------------------------
(***************************************************************************)
(* The fonts of the platform: the page that edits them                       *)
(* (features/presentation/PlatformFontsManager.tsx) and the bootstrap that    *)
(* applies the stored ones in every page (PlatformFontBootstrap.tsx).         *)
(*                                                                         *)
(* A setting of fonts is kept as the stored version it started from and the  *)
(* set of changes made to it, each with a number of its own.                  *)
(***************************************************************************)
EXTENDS BrowserTab

CONSTANTS
  MaxFontChanges,    \* bound: changes and uploads
  MaxFontVersions    \* bound: how often the settings are stored

ASSUME PlatformFontsAssumption ==
  MaxFontChanges \in Nat \ {0} /\ MaxFontVersions \in Nat \ {0}

BuiltIn == -1                                  \* DEFAULT_PLATFORM_FONT_SETTINGS
FontVersions == 0..MaxFontVersions
FontSettings == [base : FontVersions \cup {BuiltIn}, edits : SUBSET (1..MaxFontChanges)]
FontsFrom(version) == [base |-> version, edits |-> {}]
PlatformDefault == FontsFrom(BuiltIn)

FontsTypeOK ==
  Mounted("fonts") =>
    /\ screen \in
         [page : {"fonts"}, present : BOOLEAN, loading : BOOLEAN, saving : BOOLEAN,
          fonts : FontSettings, applied : FontSettings, changed : 0..MaxFontChanges,
          events : 0..(MaxFontChanges + MaxFontVersions)]
    /\ server \in FontVersions

\* "asked": how many announcements the bootstrap had heard of when it asked.
FontCall(kind) == [kind |-> kind, version |-> BuiltIn, asked |-> 0, n |-> 0,
                   fonts |-> PlatformDefault]

\* The bootstrap waits for an idle moment, at most 2.5 seconds.
FontsInit ==
  /\ server \in {0, 1}
  /\ screen = [page |-> "fonts", present |-> TRUE, loading |-> TRUE, saving |-> FALSE,
               fonts |-> PlatformDefault, applied |-> PlatformDefault, changed |-> 0,
               events |-> 0]
  /\ calls = {FontCall("manager"), FontCall("idle")}

(***************************************************************************)
(* Reading the stored settings: by the manager, and by the bootstrap unless  *)
(* something was announced by then.                                          *)
(***************************************************************************)
FontsIdle(c) ==
  /\ c.kind = "idle"
  /\ IF screen.events > 0
       THEN Ended(c)
       ELSE calls' = (calls \ {c}) \cup {FontCall("bootstrap")}
  /\ UNCHANGED <<screen, server>>

FontsRead(c) ==
  /\ c.kind \in {"manager", "bootstrap"} /\ c.version = BuiltIn
  /\ calls' = (calls \ {c}) \cup {[c EXCEPT !.version = server]}
  /\ UNCHANGED <<screen, server>>

\* A failed read is shown as the defaults: both of them apply those.
FontsArrive(c) ==
  /\ c.kind = "manager"
  /\ \E read \in {c.version, BuiltIn} :
       screen' = IF ~screen.present THEN screen
                 ELSE [screen EXCEPT !.loading = FALSE, !.fonts = FontsFrom(read),
                                     !.applied = FontsFrom(read)]
  /\ Ended(c) /\ UNCHANGED server

StillWanted(c) == screen.events = c.asked

BootstrapArrives(c) ==
  /\ c.kind = "bootstrap"
  /\ \E read \in {c.version, BuiltIn} :
       screen' = IF StillWanted(c) THEN [screen EXCEPT !.applied = FontsFrom(read)] ELSE screen
  /\ Ended(c) /\ UNCHANGED server

(***************************************************************************)
(* Changes are applied and announced at once; nothing is closed while a save *)
(* is under way.                                                            *)
(***************************************************************************)
UpdateFonts(p, fonts) ==
  [p EXCEPT !.fonts = fonts, !.applied = fonts, !.events = @ + 1]

FontsOpen == screen.present /\ ~screen.loading

\* A family, a size, a weight or a colour of the text or of the headings.
ChangeFont ==
  /\ FontsOpen /\ screen.changed < MaxFontChanges
  /\ screen' = [UpdateFonts(screen, [screen.fonts EXCEPT !.edits = @ \cup {screen.changed + 1}])
                  EXCEPT !.changed = @ + 1]
  /\ UNCHANGED <<calls, server>>

ResetToDefault ==
  /\ FontsOpen /\ screen.changed < MaxFontChanges
  /\ screen' = [UpdateFonts(screen, PlatformDefault) EXCEPT !.changed = @ + 1]
  /\ UNCHANGED <<calls, server>>

\* handleFontUpload continues after the file was read, with the settings of the
\* render in which it was chosen.
ChooseFontFile ==
  /\ FontsOpen /\ screen.changed < MaxFontChanges
  /\ screen' = [screen EXCEPT !.changed = @ + 1]
  /\ calls' = calls \cup {[FontCall("file") EXCEPT !.n = screen.changed + 1,
                                                  !.fonts = screen.fonts]}
  /\ UNCHANGED server

FontFileRead(c) ==
  /\ c.kind = "file" /\ Ended(c) /\ UNCHANGED server
  /\ \/ screen' = UpdateFonts(screen, [c.fonts EXCEPT !.edits = @ \cup {c.n}])
     \/ UNCHANGED screen

(***************************************************************************)
(* Saving: the answer replaces what is edited by then and is announced, also *)
(* when the page was left.                                                   *)
(***************************************************************************)
SaveFonts ==
  /\ FontsOpen /\ ~screen.saving
  /\ screen' = [screen EXCEPT !.saving = TRUE]
  /\ calls' = calls \cup {FontCall("save")}
  /\ UNCHANGED server

FontsStored(c) ==
  /\ c.kind = "save" /\ c.version = BuiltIn /\ server < MaxFontVersions
  /\ server' = server + 1
  /\ calls' = (calls \ {c}) \cup {[c EXCEPT !.version = server + 1]}
  /\ UNCHANGED screen

FontsSaved(c) ==
  /\ c.kind = "save" /\ c.version # BuiltIn
  /\ screen' = [UpdateFonts(screen, FontsFrom(c.version)) EXCEPT !.saving = FALSE]
  /\ Ended(c) /\ UNCHANGED server

FontsSaveFails(c) ==
  /\ c.kind = "save"
  /\ screen' = [screen EXCEPT !.saving = FALSE]
  /\ Ended(c) /\ UNCHANGED server

LeaveFonts ==
  /\ screen.present
  /\ screen' = [screen EXCEPT !.present = FALSE]
  /\ UNCHANGED <<calls, server>>

FontButtons == ResetToDefault \/ SaveFonts

FontsNext ==
  \/ FontButtons \/ ChangeFont \/ ChooseFontFile \/ LeaveFonts
  \/ \E c \in calls :
       \/ FontsIdle(c) \/ FontsRead(c) \/ FontsArrive(c) \/ BootstrapArrives(c)
       \/ FontFileRead(c) \/ FontsStored(c) \/ FontsSaved(c) \/ FontsSaveFails(c)

FontsSpec == FontsInit /\ [][FontsNext]_tabVars

(***************************************************************************)
(* Properties                                                              *)
(***************************************************************************)
\* Once something was changed or saved, the site shows the fonts that the editor
\* shows: no answer of a read that was asked for before, by the bootstrap or by
\* the page, replaces them in the document and leaves the form as it is.  Before
\* the first change the two reads may show two versions.
AppliedIsEdited ==
  Mounted("fonts") /\ FontsOpen /\ screen.events > 0 => screen.applied = screen.fonts
=============================================================================
