--------------------------- MODULE AnnouncementAds ---------------------------
(***************************************************************************)
(* Announcements (features/presentation): the list that an administrator     *)
(* edits (AnnouncementAdsAdminPage), which lives in the browser's local       *)
(* storage and is shared by its tabs (useAnnouncementAds), and the overlay    *)
(* that shows the ads to visitors (AnnouncementAdsOverlay).                    *)
(*                                                                         *)
(* "server" is the browser's storage.  It may refuse to keep what it is given  *)
(* (it is full, or the browser keeps it from the page): the code goes on as if  *)
(* nothing had happened.  The overlay and the page of the administrator each    *)
(* have a list, read from it.  Ads are numbers, the one with the highest        *)
(* priority first; all are for this visitor and run now.                        *)
(***************************************************************************)
EXTENDS BrowserTab

CONSTANTS
  Ads,            \* the ads there may be, ordered by priority
  DefaultAds,     \* those the program brings along
  MaxAdChanges    \* bound: changes of the list, and of the visitor's session

ASSUME AnnouncementAdsAssumption ==
  /\ Ads \subseteq Nat /\ IsFiniteSet(Ads)
  /\ DefaultAds \subseteq Ads /\ DefaultAds # {} /\ MaxAdChanges \in Nat

Frequencies == {"always", "session", "once"}
Modes == {"modal", "banner"}
AdRecords == [freq : Frequencies, mode : Modes, active : BOOLEAN]
Defaults == [a \in DefaultAds |-> [freq |-> "session", mode |-> "modal", active |-> TRUE]]
IsList(list) == DOMAIN list \subseteq Ads /\ \A a \in DOMAIN list : list[a] \in AdRecords

AdsTypeOK ==
  Mounted("ads") =>
    /\ DOMAIN screen = {"page", "site", "list", "edited", "unsaved", "closed", "index",
                        "delayed", "preview", "session", "refused", "made"}
    /\ IsList(screen.list) /\ IsList(screen.edited) /\ IsList(server.list)
    /\ screen.unsaved \in BOOLEAN
    /\ screen.index \in 0..Cardinality(Ads) /\ screen.preview \in Ads \cup {-1}
    /\ screen.session \cup screen.refused \cup server.once \subseteq Ads
    /\ screen.made \in 0..MaxAdChanges

(***************************************************************************)
(* The list in the storage.                                                *)
(***************************************************************************)
\* loadAds: an empty list counts as none.
LoadAds(list) == IF DOMAIN list = {} THEN Defaults ELSE list

\* The event on which every hook of the tab reads the list again: the overlay's and
\* that of the administrator's page.
RereadAds(p, list) ==
  [p EXCEPT !.list = LoadAds(list), !.edited = LoadAds(list), !.unsaved = FALSE]

(***************************************************************************)
(* The overlay.                                                            *)
(***************************************************************************)
IsDismissed(p, store, a) ==
  p.list[a].freq # "always" /\ a \in p.session \cup store.once

VisibleAds(p, store) ==
  {a \in DOMAIN p.list :
     p.preview = a \/ (~IsDismissed(p, store, a) /\ p.list[a].active)}

\* The ad at the index, or the last one when the list is shorter by now.
ActiveAd(p, store) ==
  LET ads == VisibleAds(p, store)
      before(a) == Cardinality({b \in ads : b < a})
      at == IF p.index < Cardinality(ads) THEN p.index ELSE Cardinality(ads) - 1
  IN IF ads = {} THEN -1 ELSE CHOOSE a \in ads : before(a) = at

Displayed ==
  /\ ~screen.closed /\ ~screen.delayed /\ ActiveAd(screen, server) # -1
  /\ screen.site \/ screen.preview # -1

\* The delay starts anew when another ad becomes the active one, or a preview
\* begins or ends.
ShowsAds(p, store) ==
  screen' = [p EXCEPT !.delayed = IF ActiveAd(p, store) # ActiveAd(screen, server)
                                       \/ p.preview # screen.preview
                                    THEN TRUE ELSE @]

AdsInit ==
  /\ server \in {[list |-> << >>, once |-> {}], [list |-> Defaults, once |-> {}]}
  /\ screen = [page |-> "ads", site |-> FALSE, list |-> LoadAds(server.list),
               edited |-> LoadAds(server.list), unsaved |-> FALSE, closed |-> FALSE,
               index |-> 0, delayed |-> TRUE, preview |-> -1, session |-> {},
               refused |-> {}, made |-> 0]
  /\ calls = {}

(***************************************************************************)
(* The administrator: every change is stored at once, on top of the list      *)
(* that the handler was made with.                                          *)
(***************************************************************************)
\* FAULTY: a list that could not be stored is announced all the same.
StoreAnnounced(p, list, here, saved) ==
  LET store == IF saved THEN [server EXCEPT !.list = list] ELSE server
  IN /\ server' = store
     /\ ShowsAds([p EXCEPT !.list = list, !.edited = list, !.unsaved = ~saved], store)

\* setAds() and saveAds(), which announces the list when it was stored.  When it was
\* not, only the page that made it has it, if that page is still here; "unsaved"
\* remembers that it has.
Store(p, list, here, saved) ==
  LET store == [server EXCEPT !.list = list]
  IN IF saved
     THEN server' = store /\ ShowsAds(RereadAds(p, list), store)
     ELSE /\ screen' = IF here THEN [p EXCEPT !.edited = list, !.unsaved = TRUE] ELSE p
          /\ UNCHANGED server

Administers == ~screen.site /\ screen.made < MaxAdChanges
Counted == [screen EXCEPT !.made = @ + 1]
Changed(list, a, r) == [b \in DOMAIN list \cup {a} |-> IF b = a THEN r ELSE list[b]]
AdsWithout(list, a) == [b \in DOMAIN list \ {a} |-> list[b]]

CreateAd ==
  /\ Administers
  /\ \E a \in Ads \ DOMAIN screen.edited, freq \in Frequencies, mode \in Modes, saved \in BOOLEAN :
       Store(Counted, Changed(screen.edited, a, [freq |-> freq, mode |-> mode, active |-> TRUE]),
             TRUE, saved)
  /\ UNCHANGED calls

UpdateAd ==
  /\ Administers
  /\ \E a \in DOMAIN screen.edited, r \in AdRecords, saved \in BOOLEAN :
       r # screen.edited[a] /\ Store(Counted, Changed(screen.edited, a, r), TRUE, saved)
  /\ UNCHANGED calls

DeleteAd ==
  /\ Administers
  /\ \E a \in DOMAIN screen.edited, saved \in BOOLEAN :
       Store(Counted, AdsWithout(screen.edited, a), TRUE, saved)
  /\ UNCHANGED calls

\* The picture is put into the list as it was when the file was chosen.  "here":
\* the page that chose it has not been left since.
ChooseAdImage ==
  /\ Administers /\ DOMAIN screen.edited # {}
  /\ screen' = Counted
  /\ calls' = calls \cup {[kind |-> "image", list |-> screen.edited, here |-> TRUE]}
  /\ UNCHANGED server

AdImageRead(c) ==
  c.kind = "image" /\ (\E saved \in BOOLEAN : Store(screen, c.list, c.here, saved)) /\ Ended(c)

PreviewAd ==
  /\ ~screen.site
  /\ \E a \in DOMAIN screen.edited :
       ShowsAds([screen EXCEPT !.closed = FALSE, !.preview = a, !.index = 0], server)
  /\ UNCHANGED <<calls, server>>

\* saveAds() in another tab: an ad of the stored list is changed, added or gone.
\* The event reaches this tab later.
AnotherTabStores ==
  /\ screen.made < MaxAdChanges
  /\ \E a \in Ads, r \in AdRecords :
       server' \in {[server EXCEPT !.list = Changed(LoadAds(server.list), a, r)],
                    [server EXCEPT !.list = AdsWithout(LoadAds(server.list), a)]}
  /\ screen' = Counted
  /\ calls' = calls \cup {[kind |-> "storage", list |-> << >>, here |-> FALSE]}

StorageEvent(c) ==
  /\ c.kind = "storage" /\ Ended(c) /\ UNCHANGED server
  /\ ShowsAds(RereadAds(screen, server.list), server)

(***************************************************************************)
(* The visitor.                                                            *)
(***************************************************************************)
DelayOver ==
  /\ screen.delayed /\ ActiveAd(screen, server) # -1
  /\ screen' = [screen EXCEPT !.delayed = FALSE] /\ UNCHANGED <<calls, server>>

\* Every ad is dismissed by itself, and the storage may refuse to keep it ("kept"
\* are those it keeps).  "refused" remembers the ads that were closed while they
\* were to be shown once, as far as that was kept.
Dismiss(p, ads) ==
  \E kept \in SUBSET ads :
    LET once == {a \in kept : p.list[a].freq = "once"}
        session == {a \in kept : p.list[a].freq = "session"}
        store == [server EXCEPT !.once = @ \cup once]
    IN /\ server' = store
       /\ ShowsAds([p EXCEPT !.session = @ \cup session, !.refused = @ \cup once], store)

\* closeOverlay dismisses every ad that waits, not only the one on the screen.
CloseOverlay ==
  LET p == [screen EXCEPT !.preview = -1, !.closed = TRUE]
  IN /\ Displayed
     /\ IF screen.preview = -1 THEN Dismiss(p, VisibleAds(screen, server))
                               ELSE ShowsAds(p, server) /\ UNCHANGED server
     /\ UNCHANGED calls

\* The button of a banner.
SkipActiveAd ==
  LET ad == ActiveAd(screen, server)
      last == Cardinality(VisibleAds(screen, server)) - 2
      p == [screen EXCEPT !.index = IF @ > last THEN IF last < 0 THEN 0 ELSE last ELSE @,
                          !.preview = IF @ = ad THEN -1 ELSE @]
  IN /\ Displayed /\ screen.list[ad].mode = "banner"
     /\ IF screen.preview = -1 THEN Dismiss(p, {ad}) ELSE ShowsAds(p, server) /\ UNCHANGED server
     /\ UNCHANGED calls

\* FAULTY: the next button does not stop at the last ad.
TurnAdPastEnd ==
  /\ Displayed /\ screen.list[ActiveAd(screen, server)].mode = "modal"
  /\ \E i \in {screen.index - 1, screen.index + 1} :
       i >= 0 /\ ShowsAds([screen EXCEPT !.index = i], server)
  /\ UNCHANGED <<calls, server>>

TurnAd ==
  /\ Displayed /\ screen.list[ActiveAd(screen, server)].mode = "modal"
  /\ \E i \in {screen.index - 1, screen.index + 1} :
       /\ i \in 0..(Cardinality(VisibleAds(screen, server)) - 1)
       /\ ShowsAds([screen EXCEPT !.index = i], server)
  /\ UNCHANGED <<calls, server>>

\* To a page of the site or back to the dashboard, where no ad is shown.  The page of
\* the administrator is another one when it comes back, with a list it reads; what
\* the one before was about to store, it stores.
Navigate ==
  /\ ~Displayed \/ screen.site
  /\ screen' = [screen EXCEPT !.site = ~@, !.edited = LoadAds(server.list), !.unsaved = FALSE]
  /\ calls' = {[c EXCEPT !.here = FALSE] : c \in calls}
  /\ UNCHANGED server

\* The page is loaded again, in this session or in a new one.
PageLoad ==
  /\ screen.made < MaxAdChanges
  /\ \E kept \in {screen.session, {}} :
       screen' = [RereadAds(Counted, server.list) EXCEPT !.closed = FALSE, !.index = 0,
                                 !.delayed = TRUE, !.preview = -1, !.session = kept]
  /\ calls' = {} /\ UNCHANGED server

\* The page of the administrator: the templates with their buttons, the form of the
\* selected ad, and the part of the form with the picture, a file or an address.
AdTemplates == CreateAd
AdForm == UpdateAd \/ DeleteAd \/ PreviewAd
AdImage == ChooseAdImage \/ UpdateAd

\* The overlay, in the two forms an ad may have.
AdBanner == SkipActiveAd \/ CloseOverlay \/ Navigate
AdModal == CloseOverlay \/ TurnAd \/ Navigate

AdsNext ==
  \/ AdTemplates \/ AdForm \/ AdImage \/ AdBanner \/ AdModal
  \/ AnotherTabStores \/ DelayOver \/ PageLoad
  \/ \E c \in calls : AdImageRead(c) \/ StorageEvent(c)

AdsSpec == AdsInit /\ [][AdsNext]_tabVars

(***************************************************************************)
(* Properties                                                              *)
(***************************************************************************)
\* What visitors are shown is the stored list, also after the last ad was deleted and
\* after changes of other tabs, unless the event of such a change is still on its
\* way: a change that the storage refused reaches no visitor.  The page of the
\* administrator shows it as well, unless it holds a change that was refused.  And
\* what a visitor closed while it was to be shown once, and the storage kept, does
\* not come back, in no later session and after no change but one to "always".
AdsStayTrue ==
  Mounted("ads") =>
    /\ (\A c \in calls : c.kind # "storage") =>
         /\ screen.list = LoadAds(server.list)
         /\ ~screen.unsaved => screen.edited = screen.list
    /\ Displayed /\ screen.preview = -1 =>
         LET ad == ActiveAd(screen, server)
         IN screen.list[ad].freq # "always" => ad \notin screen.refused

\* "The preview of the ad was opened on the site" (AnnouncementAdsAdminPage.tsx:184):
\* what the overlay shows during a preview is the ad that is previewed.
PreviewShowsIt ==
  Mounted("ads") /\ Displayed /\ screen.preview # -1 =>
    ActiveAd(screen, server) = screen.preview
=============================================================================
