--------------------------- MODULE StaffTypeProofs ---------------------------
(***************************************************************************)
(* The pages of administrators, directors and supervisors keep their types   *)
(* (StaffPagesTypeOK).  The types are inductive only with the invariants of    *)
(* StaffPageProofs, and with counts that tie the bounded numbers together:     *)
(* what the server stored and what is on its way was begun.                    *)
(***************************************************************************)
EXTENDS StaffPageProofs

\* How many elements a finite set has after one came, left, or was replaced.
LEMMA CountsOf ==
  ASSUME NEW P, IsFiniteSet(P)
  PROVE  /\ Cardinality(P) \in Nat
         /\ \A Q : Q \subseteq P => IsFiniteSet(Q) /\ Cardinality(Q) \in 0..Cardinality(P)
         /\ \A Q, d : Q \subseteq P \cup {d} =>
              IsFiniteSet(Q) /\ Cardinality(Q) \in 0..(Cardinality(P) + 1)
         /\ \A Q : \A c \in P : Q \subseteq P \ {c} =>
              IsFiniteSet(Q) /\ Cardinality(Q) \in 0..(Cardinality(P) - 1)
         /\ \A Q, d : \A c \in P : Q \subseteq (P \ {c}) \cup {d} =>
              IsFiniteSet(Q) /\ Cardinality(Q) \in 0..Cardinality(P)
<1>1. Cardinality(P) \in Nat
  BY FS_CardinalityType
<1>2. ASSUME NEW R, IsFiniteSet(R), NEW Q, Q \subseteq R
      PROVE  IsFiniteSet(Q) /\ Cardinality(Q) \in 0..Cardinality(R)
  <2>1. IsFiniteSet(Q) /\ Cardinality(Q) <= Cardinality(R)
    BY <1>2, FS_Subset
  <2> QED BY <1>2, <2>1, FS_CardinalityType
<1>3. ASSUME NEW R, IsFiniteSet(R), NEW d
      PROVE  IsFiniteSet(R \cup {d}) /\ Cardinality(R \cup {d}) \in 0..(Cardinality(R) + 1)
  <2>1. IsFiniteSet(R \cup {d}) /\ Cardinality(R) \in Nat
    BY <1>3, FS_AddElement, FS_CardinalityType
  <2>2. Cardinality(R \cup {d}) \in {Cardinality(R), Cardinality(R) + 1}
    BY <1>3, FS_AddElement
  <2> QED BY <2>1, <2>2
<1>4. ASSUME NEW c \in P
      PROVE  IsFiniteSet(P \ {c}) /\ Cardinality(P \ {c}) = Cardinality(P) - 1
  BY <1>4, FS_RemoveElement
<1>5. ASSUME NEW Q, NEW d, Q \subseteq P \cup {d}
      PROVE  IsFiniteSet(Q) /\ Cardinality(Q) \in 0..(Cardinality(P) + 1)
  <2>1. IsFiniteSet(Q) /\ Cardinality(Q) \in 0..Cardinality(P \cup {d})
    BY <1>2, <1>3, <1>5
  <2>2. Cardinality(P \cup {d}) \in 0..(Cardinality(P) + 1)
    BY <1>3
  <2> QED BY <1>1, <2>1, <2>2
<1>6. ASSUME NEW Q, NEW c \in P, Q \subseteq P \ {c}
      PROVE  IsFiniteSet(Q) /\ Cardinality(Q) \in 0..(Cardinality(P) - 1)
  BY <1>2, <1>4, <1>6
<1>7. ASSUME NEW Q, NEW d, NEW c \in P, Q \subseteq (P \ {c}) \cup {d}
      PROVE  IsFiniteSet(Q) /\ Cardinality(Q) \in 0..Cardinality(P)
  <2>1. /\ IsFiniteSet((P \ {c}) \cup {d})
        /\ Cardinality((P \ {c}) \cup {d}) \in 0..(Cardinality(P) - 1 + 1)
    BY <1>1, <1>3, <1>4
  <2>2. IsFiniteSet(Q) /\ Cardinality(Q) \in 0..Cardinality((P \ {c}) \cup {d})
    BY <1>2, <1>7, <2>1
  <2> QED BY <1>1, <2>1, <2>2
<1>8. \A Q : Q \subseteq P => IsFiniteSet(Q) /\ Cardinality(Q) \in 0..Cardinality(P)
  BY <1>2
<1> QED BY <1>1, <1>5, <1>6, <1>7, <1>8, Zenon

(***************************************************************************)
(* The types of AnnouncementAds.                                             *)
(***************************************************************************)
AdsPageTyped(p) ==
  /\ IsList(p.list) /\ IsList(p.edited) /\ p.unsaved \in BOOLEAN /\ p.index \in 0..Cardinality(Ads) /\ p.preview \in Ads \cup {-1}
  /\ p.session \subseteq Ads /\ p.refused \subseteq Ads /\ p.made \in 0..MaxAdChanges
AdsStoreTyped(sv) == IsList(sv.list) /\ sv.once \subseteq Ads
AdsCallTyped(c) == c.kind = "image" => IsList(c.list)

AdsTyped ==
  /\ AdsInv /\ AdsPageTyped(screen) /\ AdsStoreTyped(server)
  /\ \A c \in calls : AdsCallTyped(c)

LEMMA AdsBounds ==
  /\ MaxAdChanges \in Nat /\ 0 \in 0..MaxAdChanges /\ Cardinality(Ads) \in Nat
  /\ 0 \in 0..Cardinality(Ads) /\ IsFiniteSet(Ads)
<1>1. MaxAdChanges \in Nat /\ IsFiniteSet(Ads)
  BY AnnouncementAdsAssumption DEF AnnouncementAdsAssumption
<1>2. Cardinality(Ads) \in Nat
  BY <1>1, FS_CardinalityType
<1> QED BY <1>1, <1>2

LEMMA ListLoadedTyped ==
  ASSUME NEW list, IsList(list) PROVE IsList(LoadAds(list))
<1>1. CASE DOMAIN list = {}
  <2>1. LoadAds(list) = Defaults
    BY <1>1 DEF LoadAds
  <2>2. "session" \in Frequencies /\ "modal" \in Modes /\ TRUE \in BOOLEAN
    BY DEF Frequencies, Modes
  <2>3. PICK r : r = [freq |-> "session", mode |-> "modal", active |-> TRUE]
    OBVIOUS
  <2>4. r \in AdRecords
    BY <2>2, <2>3, Zenon DEF AdRecords
  <2>5. Defaults = [a \in DefaultAds |-> r]
    BY <2>3 DEF Defaults
  <2>6. DefaultAds \subseteq Ads
    BY AnnouncementAdsAssumption DEF AnnouncementAdsAssumption
  <2> QED BY <2>1, <2>4, <2>5, <2>6 DEF IsList
<1>2. CASE DOMAIN list # {}
  BY <1>2 DEF LoadAds
<1> QED BY <1>1, <1>2

LEMMA ListChangedTyped ==
  ASSUME NEW list, IsList(list), NEW a \in Ads, NEW r \in AdRecords
  PROVE  IsList(Changed(list, a, r))
BY DEF IsList, Changed

LEMMA ListShortenedTyped ==
  ASSUME NEW list, IsList(list), NEW a PROVE IsList(AdsWithout(list, a))
BY DEF IsList, AdsWithout

LEMMA AdsTypedStart == AdsInit => AdsTyped
<1> SUFFICES ASSUME AdsInit PROVE AdsTyped
  OBVIOUS
<1>1. PICK list : server = [list |-> list, once |-> {}] /\ list \in {<< >>, Defaults}
  BY DEF AdsInit
<1>2. DOMAIN << >> = {}
  OBVIOUS
<1>3. IsList(<< >>)
  BY <1>2 DEF IsList
<1>4. LoadAds(<< >>) = Defaults
  BY <1>2 DEF LoadAds
<1>5. IsList(list)
  BY <1>1, <1>3, <1>4, ListLoadedTyped
<1>6. AdsStoreTyped(server) /\ server.list = list
  BY <1>1, <1>5 DEF AdsStoreTyped
<1>7. IsList(LoadAds(server.list))
  BY <1>5, <1>6, ListLoadedTyped
<1>8. /\ screen.list = LoadAds(server.list) /\ screen.edited = LoadAds(server.list)
      /\ screen.unsaved = FALSE /\ screen.index = 0 /\ screen.preview = -1
      /\ screen.session = {} /\ screen.refused = {} /\ screen.made = 0 /\ calls = {}
  BY DEF AdsInit
<1>9. AdsPageTyped(screen)
  BY <1>7, <1>8, AdsBounds DEF AdsPageTyped
<1> QED BY <1>6, <1>8, <1>9, AdsStart DEF AdsTyped

LEMMA AdsTypedStep == AdsTyped /\ [AdsNext]_tabVars => AdsTyped'
<1> SUFFICES ASSUME AdsTyped, [AdsNext]_tabVars PROVE AdsTyped'
  OBVIOUS
<1>0. /\ AdsInv /\ AdsInv' /\ AdsPageTyped(screen) /\ AdsStoreTyped(server)
      /\ \A c \in calls : AdsCallTyped(c)
      /\ DOMAIN screen = AdsFields /\ DOMAIN server = {"list", "once"}
  BY AdsStep DEF AdsTyped, AdsInv, AdsHold
<1>1. CASE UNCHANGED tabVars
  BY <1>0, <1>1 DEF tabVars, AdsTyped
\* A step shows the ads of the page as it became, and of the store.
<1>2. ASSUME NEW p, NEW store, ShowsAds(p, store), server' = store, DOMAIN p = AdsFields,
             AdsPageTyped(p), AdsStoreTyped(store), calls' \subseteq calls
      PROVE  AdsTyped'
  <2>1. \A f \in AdsFields \ {"delayed"} : screen'[f] = p[f]
    BY <1>2, AdsAreShown
  <2>2. /\ screen'.list = p.list /\ screen'.edited = p.edited /\ screen'.unsaved = p.unsaved
        /\ screen'.index = p.index /\ screen'.preview = p.preview
        /\ screen'.session = p.session /\ screen'.refused = p.refused /\ screen'.made = p.made
    BY <2>1 DEF AdsFields
  <2>3. AdsPageTyped(screen')
    BY <1>2, <2>2 DEF AdsPageTyped
  <2> QED BY <1>0, <1>2, <2>3 DEF AdsTyped
<1>3. ASSUME AdsPageTyped(screen'), AdsStoreTyped(server'),
             NEW d, AdsCallTyped(d), calls' \subseteq calls \cup {d}
      PROVE  AdsTyped'
  BY <1>0, <1>3 DEF AdsTyped
<1>4. ASSUME AdsPageTyped(screen'), AdsStoreTyped(server'), calls' \subseteq calls
      PROVE  AdsTyped'
  BY <1>0, <1>4 DEF AdsTyped
<1>5. ASSUME screen.made < MaxAdChanges
      PROVE  DOMAIN Counted = AdsFields /\ AdsPageTyped(Counted)
  <2>1. PICK made : made = screen.made + 1
    OBVIOUS
  <2>2. screen.made \in 0..MaxAdChanges
    BY <1>0 DEF AdsPageTyped
  <2>3. made \in 0..MaxAdChanges
    BY <1>5, <2>1, <2>2, AdsBounds
  <2>4. Counted = [screen EXCEPT !.made = made]
    BY <2>1 DEF Counted
  <2> QED BY <1>0, <2>3, <2>4 DEF AdsPageTyped, AdsFields
\* What is stored, or what only the page of the administrator has.
<1>6. ASSUME NEW p, DOMAIN p = AdsFields, AdsPageTyped(p), NEW list, IsList(list),
             NEW here, NEW saved, Store(p, list, here, saved), calls' \subseteq calls
      PROVE  AdsTyped'
  <2> DEFINE store == [server EXCEPT !.list = list]
             q == RereadAds(p, list)
             own == [p EXCEPT !.edited = list, !.unsaved = TRUE]
  <2>1. CASE saved
    <3>1. server' = store /\ ShowsAds(q, store)
      BY <1>6, <2>1 DEF Store
    <3>2. AdsStoreTyped(store)
      BY <1>0, <1>6 DEF AdsStoreTyped
    <3>3. DOMAIN q = AdsFields /\ AdsPageTyped(q)
      BY <1>6, ListLoadedTyped DEF RereadAds, AdsPageTyped, AdsFields
    <3> HIDE DEF store, q
    <3> QED BY <1>2, <1>6, <3>1, <3>2, <3>3
  <2>2. CASE ~saved
    <3>1. screen' \in {p, own} /\ server' = server
      BY <1>6, <2>2 DEF Store
    <3>2. AdsPageTyped(own)
      BY <1>6 DEF AdsPageTyped, AdsFields
    <3> HIDE DEF own
    <3> QED BY <1>0, <1>4, <1>6, <3>1, <3>2
  <2> QED BY <2>1, <2>2
<1>7. /\ IsList(screen.list) /\ DOMAIN screen.list \subseteq Ads
      /\ IsList(screen.edited) /\ DOMAIN screen.edited \subseteq Ads
  BY <1>0 DEF AdsPageTyped, IsList
<1>8. CASE CreateAd
  <2>1. PICK a \in Ads, freq \in Frequencies, mode \in Modes, saved \in BOOLEAN :
          Store(Counted,
                Changed(screen.edited, a, [freq |-> freq, mode |-> mode, active |-> TRUE]),
                TRUE, saved)
    BY <1>8 DEF CreateAd
  <2>2. PICK r : r = [freq |-> freq, mode |-> mode, active |-> TRUE]
    OBVIOUS
  <2>3. r \in AdRecords
    BY <2>1, <2>2, Zenon DEF AdRecords
  <2>4. /\ IsList(Changed(screen.edited, a, r))
        /\ Store(Counted, Changed(screen.edited, a, r), TRUE, saved)
    BY <1>7, <2>1, <2>2, <2>3, ListChangedTyped
  <2>5. calls' \subseteq calls /\ screen.made < MaxAdChanges
    BY <1>8 DEF CreateAd, Administers
  <2> QED BY <1>5, <1>6, <2>4, <2>5
<1>9. CASE UpdateAd
  <2>1. PICK a \in DOMAIN screen.edited, r \in AdRecords, saved \in BOOLEAN :
          Store(Counted, Changed(screen.edited, a, r), TRUE, saved)
    BY <1>9 DEF UpdateAd
  <2>2. IsList(Changed(screen.edited, a, r))
    BY <1>7, <2>1, ListChangedTyped
  <2>3. calls' \subseteq calls /\ screen.made < MaxAdChanges
    BY <1>9 DEF UpdateAd, Administers
  <2> QED BY <1>5, <1>6, <2>1, <2>2, <2>3
<1>10. CASE DeleteAd
  <2>1. PICK a \in DOMAIN screen.edited, saved \in BOOLEAN :
          Store(Counted, AdsWithout(screen.edited, a), TRUE, saved)
    BY <1>10 DEF DeleteAd
  <2>2. IsList(AdsWithout(screen.edited, a))
    BY <1>7, ListShortenedTyped
  <2>3. calls' \subseteq calls /\ screen.made < MaxAdChanges
    BY <1>10 DEF DeleteAd, Administers
  <2> QED BY <1>5, <1>6, <2>1, <2>2, <2>3
<1>11. CASE ChooseAdImage
  <2> DEFINE d == [kind |-> "image", list |-> screen.edited, here |-> TRUE]
  <2>1. AdsCallTyped(d)
    BY <1>7 DEF AdsCallTyped
  <2>2. screen' = Counted /\ calls' \subseteq calls \cup {d} /\ server' = server
        /\ screen.made < MaxAdChanges
    BY <1>11 DEF ChooseAdImage, Administers
  <2> HIDE DEF d
  <2> QED BY <1>0, <1>3, <1>5, <2>1, <2>2
<1>12. ASSUME NEW c \in calls, AdImageRead(c) PROVE AdsTyped'
  <2>1. PICK saved \in BOOLEAN : Store(screen, c.list, c.here, saved)
    BY <1>12 DEF AdImageRead
  <2>2. IsList(c.list) /\ calls' \subseteq calls
    BY <1>0, <1>12 DEF AdImageRead, Ended, AdsCallTyped
  <2> QED BY <1>0, <1>6, <2>1, <2>2
<1>13. CASE PreviewAd
  <2>1. PICK a \in DOMAIN screen.edited :
          ShowsAds([screen EXCEPT !.closed = FALSE, !.preview = a, !.index = 0], server)
    BY <1>13 DEF PreviewAd
  <2>2. a \in Ads \cup {-1}
    BY <1>7, <2>1
  <2> DEFINE q == [screen EXCEPT !.closed = FALSE, !.preview = a, !.index = 0]
  <2>3. DOMAIN q = AdsFields /\ AdsPageTyped(q)
    BY <1>0, <2>2, AdsBounds DEF AdsPageTyped, AdsFields
  <2>4. ShowsAds(q, server) /\ calls' \subseteq calls /\ server' = server
    BY <1>13, <2>1 DEF PreviewAd
  <2> HIDE DEF q
  <2> QED BY <1>0, <1>2, <2>3, <2>4
<1>14. IsList(LoadAds(server.list)) /\ IsList(server.list)
  BY <1>0, ListLoadedTyped DEF AdsStoreTyped
<1>15. CASE AnotherTabStores
  <2>1. PICK a \in Ads, r \in AdRecords :
          server' \in {[server EXCEPT !.list = Changed(LoadAds(server.list), a, r)],
                       [server EXCEPT !.list = AdsWithout(LoadAds(server.list), a)]}
    BY <1>15 DEF AnotherTabStores
  <2>2. PICK list : /\ server' = [server EXCEPT !.list = list]
                    /\ list \in {Changed(LoadAds(server.list), a, r),
                                 AdsWithout(LoadAds(server.list), a)}
    BY <2>1
  <2>3. IsList(list)
    BY <1>14, <2>1, <2>2, ListChangedTyped, ListShortenedTyped
  <2>4. AdsStoreTyped(server')
    BY <1>0, <2>2, <2>3 DEF AdsStoreTyped
  <2> DEFINE d == [kind |-> "storage", list |-> << >>, here |-> FALSE]
  <2>5. AdsCallTyped(d)
    BY DEF AdsCallTyped
  <2>6. screen' = Counted /\ calls' \subseteq calls \cup {d} /\ screen.made < MaxAdChanges
    BY <1>15 DEF AnotherTabStores
  <2> HIDE DEF d
  <2> QED BY <1>3, <1>5, <2>4, <2>5, <2>6
<1>16. ASSUME NEW c \in calls, StorageEvent(c) PROVE AdsTyped'
  <2> DEFINE q == RereadAds(screen, server.list)
  <2>1. DOMAIN q = AdsFields /\ AdsPageTyped(q)
    BY <1>0, <1>14 DEF RereadAds, AdsPageTyped, AdsFields
  <2>2. ShowsAds(q, server) /\ calls' \subseteq calls /\ server' = server
    BY <1>16 DEF StorageEvent, Ended
  <2> HIDE DEF q
  <2> QED BY <1>0, <1>2, <2>1, <2>2
\* The visitor, and who comes and goes.
<1>17. CASE DelayOver \/ Navigate
  <2>1. CASE DelayOver
    <3>1. AdsPageTyped(screen')
      BY <1>0, <2>1 DEF DelayOver, AdsPageTyped, AdsFields
    <3> QED BY <1>0, <1>4, <2>1, <3>1 DEF DelayOver
  <2>2. CASE Navigate
    <3>1. PICK site : screen' = [screen EXCEPT !.site = site, !.edited = LoadAds(server.list),
                                               !.unsaved = FALSE]
      BY <2>2 DEF Navigate
    <3>2. AdsPageTyped(screen')
      BY <1>0, <1>14, <3>1 DEF AdsPageTyped, AdsFields
    <3>3. \A d \in calls' : AdsCallTyped(d)
      <4>1. ASSUME NEW d \in calls' PROVE AdsCallTyped(d)
        <5>1. PICK c \in calls : d = [c EXCEPT !.here = FALSE]
          BY <2>2, <4>1 DEF Navigate
        <5>2. DOMAIN c = {"kind", "list", "here"}
          BY <1>0 DEF AdsInv, AdsHold, AdsCalls, AdsCallFields
        <5> QED BY <1>0, <5>1, <5>2 DEF AdsCallTyped
      <4> QED BY <4>1
    <3> QED BY <1>0, <2>2, <3>2, <3>3 DEF Navigate, AdsTyped
  <2> QED BY <1>17, <2>1, <2>2
<1>18. ASSUME NEW p, NEW ads, DOMAIN p = AdsFields, AdsPageTyped(p), ads \subseteq Ads,
              Dismiss(p, ads), calls' \subseteq calls
       PROVE  AdsTyped'
  <2>0. PICK kept \in SUBSET ads :
          LET once == {a \in kept : p.list[a].freq = "once"}
              session == {a \in kept : p.list[a].freq = "session"}
              store == [server EXCEPT !.once = @ \cup once]
          IN /\ server' = store
             /\ ShowsAds([p EXCEPT !.session = @ \cup session, !.refused = @ \cup once], store)
    BY <1>18 DEF Dismiss
  <2>1. PICK once : once = {a \in kept : p.list[a].freq = "once"}
    OBVIOUS
  <2>2. PICK session : session = {a \in kept : p.list[a].freq = "session"}
    OBVIOUS
  <2>3. once \subseteq Ads /\ session \subseteq Ads
    BY <1>18, <2>1, <2>2
  <2> DEFINE store == [server EXCEPT !.once = @ \cup once]
             q == [p EXCEPT !.session = @ \cup session, !.refused = @ \cup once]
  <2>4. server' = store /\ ShowsAds(q, store)
    BY <2>0, <2>1, <2>2
  <2>5. AdsStoreTyped(store)
    BY <1>0, <2>3 DEF AdsStoreTyped
  <2>6. DOMAIN q = AdsFields /\ q.list = p.list /\ q.index = p.index /\ q.preview = p.preview
        /\ q.edited = p.edited /\ q.unsaved = p.unsaved
        /\ q.session = p.session \cup session /\ q.refused = p.refused \cup once
        /\ q.made = p.made
    BY <1>18 DEF AdsFields
  <2>7. AdsPageTyped(q)
    BY <1>18, <2>3, <2>6 DEF AdsPageTyped
  <2> HIDE DEF store, q
  <2> QED BY <1>2, <1>18, <2>4, <2>5, <2>6, <2>7
<1>19. VisibleAds(screen, server) \subseteq Ads
       /\ Cardinality(VisibleAds(screen, server)) \in 0..Cardinality(Ads)
  <2>1. VisibleAds(screen, server) \subseteq Ads
    BY <1>0, <1>7, VisibleAreAds
  <2>2. /\ IsFiniteSet(VisibleAds(screen, server))
        /\ Cardinality(VisibleAds(screen, server)) <= Cardinality(Ads)
    BY <2>1, AdsBounds, FS_Subset
  <2>3. Cardinality(VisibleAds(screen, server)) \in Nat
    BY <2>2, FS_CardinalityType
  <2> QED BY <2>1, <2>2, <2>3, AdsBounds
<1>20. CASE CloseOverlay
  <2> DEFINE q == [screen EXCEPT !.preview = -1, !.closed = TRUE]
  <2>1. DOMAIN q = AdsFields /\ AdsPageTyped(q)
    BY <1>0 DEF AdsPageTyped, AdsFields
  <2>2. calls' \subseteq calls /\ (\/ Dismiss(q, VisibleAds(screen, server))
                                   \/ ShowsAds(q, server) /\ server' = server)
    BY <1>20 DEF CloseOverlay
  <2> HIDE DEF q
  <2> QED BY <1>0, <1>2, <1>18, <1>19, <2>1, <2>2
<1>21. CASE SkipActiveAd
  <2> DEFINE ad == ActiveAd(screen, server)
             last == Cardinality(VisibleAds(screen, server)) - 2
  <2>1. PICK index : index = IF screen.index > last THEN IF last < 0 THEN 0 ELSE last
                             ELSE screen.index
    OBVIOUS
  <2>2. PICK preview : preview = IF screen.preview = ad THEN -1 ELSE screen.preview
    OBVIOUS
  <2> DEFINE q == [screen EXCEPT !.index = index, !.preview = preview]
  <2>3. calls' \subseteq calls /\ (\/ Dismiss(q, {ad})
                                   \/ ShowsAds(q, server) /\ server' = server)
    BY <1>21, <2>1, <2>2 DEF SkipActiveAd
  <2>4. ad \in Ads
    BY <1>0, <1>19, <1>21, ActiveIsVisible DEF SkipActiveAd, Displayed
  <2>5. screen.index \in 0..Cardinality(Ads) /\ screen.preview \in Ads \cup {-1}
    BY <1>0 DEF AdsPageTyped
  <2> HIDE DEF ad
  <2>6. preview \in Ads \cup {-1}
    BY <2>2, <2>5
  <2>7. PICK n : n = Cardinality(VisibleAds(screen, server))
    OBVIOUS
  <2>8. n \in 0..Cardinality(Ads) /\ last = n - 2
    BY <1>19, <2>7
  <2> HIDE DEF last
  <2>9. index \in 0..Cardinality(Ads)
    BY <2>1, <2>5, <2>8, AdsBounds
  <2>10. DOMAIN q = AdsFields /\ AdsPageTyped(q)
    BY <1>0, <2>6, <2>9 DEF AdsPageTyped, AdsFields
  <2>11. {ad} \subseteq Ads
    BY <2>4
  <2> HIDE DEF q
  <2> QED BY <1>0, <1>2, <1>18, <2>3, <2>10, <2>11
<1>22. CASE TurnAd
  <2>1. PICK i \in {screen.index - 1, screen.index + 1} :
          /\ i \in 0..(Cardinality(VisibleAds(screen, server)) - 1)
          /\ ShowsAds([screen EXCEPT !.index = i], server)
    BY <1>22 DEF TurnAd
  <2>2. PICK n : n = Cardinality(VisibleAds(screen, server))
    OBVIOUS
  <2>3. n \in 0..Cardinality(Ads) /\ i \in 0..(n - 1)
    BY <1>19, <2>1, <2>2
  <2>4. i \in 0..Cardinality(Ads)
    BY <2>3, AdsBounds
  <2> DEFINE q == [screen EXCEPT !.index = i]
  <2>5. DOMAIN q = AdsFields /\ AdsPageTyped(q)
    BY <1>0, <2>4 DEF AdsPageTyped, AdsFields
  <2>6. ShowsAds(q, server) /\ calls' \subseteq calls /\ server' = server
    BY <1>22, <2>1 DEF TurnAd
  <2> HIDE DEF q
  <2> QED BY <1>0, <1>2, <2>5, <2>6
<1>23. CASE PageLoad
  <2>1. PICK kept \in {screen.session, {}} :
          screen' = [RereadAds(Counted, server.list) EXCEPT !.closed = FALSE, !.index = 0,
                                    !.delayed = TRUE, !.preview = -1, !.session = kept]
    BY <1>23 DEF PageLoad
  <2>2. kept \subseteq Ads
    BY <1>0, <2>1 DEF AdsPageTyped
  <2>3. DOMAIN Counted = AdsFields /\ AdsPageTyped(Counted)
    BY <1>5, <1>23 DEF PageLoad
  <2>4. PICK p : p = Counted
    OBVIOUS
  <2>5. /\ screen'.list = LoadAds(server.list) /\ screen'.index = 0 /\ screen'.preview = -1
        /\ screen'.edited = LoadAds(server.list) /\ screen'.unsaved = FALSE
        /\ screen'.session = kept /\ screen'.refused = p.refused /\ screen'.made = p.made
    BY <2>1, <2>3, <2>4 DEF RereadAds, AdsFields
  <2>6. AdsPageTyped(p)
    BY <2>3, <2>4
  <2>7. AdsPageTyped(screen')
    BY <1>14, <2>2, <2>5, <2>6, AdsBounds DEF AdsPageTyped
  <2>8. calls' \subseteq calls /\ server' = server
    BY <1>23 DEF PageLoad
  <2> QED BY <1>0, <1>4, <2>7, <2>8
<1>24. CASE AdsNext
  <2>1. \/ CreateAd \/ UpdateAd \/ DeleteAd \/ PreviewAd \/ ChooseAdImage
        \/ CloseOverlay \/ SkipActiveAd \/ TurnAd \/ DelayOver \/ Navigate \/ PageLoad
        \/ AnotherTabStores
        \/ \E c \in calls : AdImageRead(c) \/ StorageEvent(c)
    BY <1>24 DEF AdsNext, AdTemplates, AdForm, AdImage, AdBanner, AdModal
  <2> QED BY <1>8, <1>9, <1>10, <1>11, <1>12, <1>13, <1>15, <1>16, <1>17, <1>20, <1>21, <1>22, <1>23,
             <2>1
<1> QED BY <1>1, <1>24

SessionScreens ==
  [page : {"sessions"}, rows : SessionList, busy : BOOLEAN, saving : BOOLEAN,
   failed : BOOLEAN, lost : BOOLEAN, writes : 0..MaxSessionWrites]

SessionsTyped ==
  /\ SessionsInv /\ screen \in SessionScreens /\ server \in SessionList
  /\ \A c \in SessionReads : c.rows \in SessionList
  /\ \A c \in calls : c.kind = "status" => c.next \in SessionStatuses

LEMMA SessionsTypedStart == SessionsInit => SessionsTyped
<1> SUFFICES ASSUME SessionsInit PROVE SessionsTyped
  OBVIOUS
<1>1. NoSessions \in SessionList
  BY DEF NoSessions, SessionList
<1>2. 0 \in 0..MaxSessionWrites
  BY AssessmentSessionsAssumption DEF AssessmentSessionsAssumption
<1> HIDE DEF NoSessions
<1>3. screen \in SessionScreens
  BY <1>1, <1>2, Zenon DEF SessionsInit, SessionScreens
<1>4. server \in SessionList /\ calls = {ListRequest} /\ ListRequest.rows = NoSessions
      /\ ListRequest.kind = "list"
  BY <1>1 DEF SessionsInit, ListRequest
<1> QED BY <1>1, <1>3, <1>4, SessionsStart DEF SessionsTyped, SessionReads

LEMMA SessionsTypedStep == SessionsTyped /\ [SessionsNext]_tabVars => SessionsTyped'
<1> SUFFICES ASSUME SessionsTyped, [SessionsNext]_tabVars PROVE SessionsTyped'
  OBVIOUS
<1>1. SessionsInv'
  BY SessionsStep DEF SessionsTyped
<1>2. CASE UNCHANGED tabVars
  BY <1>1, <1>2 DEF tabVars, SessionsTyped, SessionReads
<1>3. ASSUME NEW d, OrdersSession(d), d.kind # "list",
             d.kind = "status" => d.next \in SessionStatuses
      PROVE  SessionsTyped'
  <2>1. PICK writes : writes = screen.writes + 1
    OBVIOUS
  <2>2. screen \in SessionScreens /\ screen.writes \in 0..MaxSessionWrites
        /\ screen.writes < MaxSessionWrites
    BY <1>3 DEF OrdersSession, SessionsTyped, SessionScreens
  <2>3. writes \in 0..MaxSessionWrites
    BY <2>1, <2>2, AssessmentSessionsAssumption DEF AssessmentSessionsAssumption
  <2>4. screen' = [screen EXCEPT !.saving = TRUE, !.writes = writes]
    BY <1>3, <2>1 DEF OrdersSession
  <2>5. screen' \in SessionScreens
    BY <2>2, <2>3, <2>4, Zenon DEF SessionScreens
  <2>6. calls' = calls \cup {d} /\ server' = server
    BY <1>3 DEF OrdersSession
  <2> QED BY <1>1, <1>3, <2>5, <2>6 DEF SessionsTyped, SessionReads
<1>4. ASSUME NEW c \in calls,
             SessionsRead(c) \/ SessionStored(c) \/ SessionStatusStored(c)
      PROVE  SessionsTyped'
  <2>1. screen' = screen /\ server' \in SessionList
    <3>1. CASE SessionsRead(c)
      BY <3>1 DEF SessionsRead, SessionsTyped
    <3>2. ASSUME NEW r, NEW status \in SessionStatuses,
                 server' = [server EXCEPT ![r] = status]
          PROVE  server' \in SessionList
      BY <3>2 DEF SessionsTyped, SessionList
    <3>3. CASE SessionStored(c) \/ SessionStatusStored(c)
      BY <3>2, <3>3 DEF SessionStored, SessionStatusStored, SessionsTyped, SessionStatuses
    <3> QED BY <1>4, <3>1, <3>3 DEF SessionsRead, SessionStored, SessionStatusStored
  <2>2. PICK d : calls' = (calls \ {c}) \cup {d} /\ d.kind = c.kind
                 /\ (d.kind = "list" => d.rows \in SessionList)
                 /\ (d.kind = "status" => d.next = c.next)
    <3>1. CASE SessionsRead(c)
      <4> DEFINE d == [c EXCEPT !.read = TRUE, !.rows = server]
      <4>1. DOMAIN c = {"kind", "read", "rows"} /\ c.kind = "list"
        BY <3>1 DEF SessionsRead, SessionsTyped, SessionsInv, SessionCalls
      <4>2. d.kind = "list" /\ d.rows = server
        BY <4>1
      <4>3. calls' = (calls \ {c}) \cup {d}
        BY <3>1 DEF SessionsRead
      <4> HIDE DEF d
      <4> QED BY <4>1, <4>2, <4>3 DEF SessionsTyped
    <3>2. CASE SessionStored(c) \/ SessionStatusStored(c)
      <4> DEFINE d == [c EXCEPT !.stage = "stored"]
      <4>1. d.kind = c.kind /\ c.kind # "list" /\ d.next = c.next
        BY <3>2 DEF SessionStored, SessionStatusStored, SessionsTyped, SessionsInv, SessionCalls
      <4>2. calls' = (calls \ {c}) \cup {d}
        BY <3>2 DEF SessionStored, SessionStatusStored, Advances
      <4> HIDE DEF d
      <4> QED BY <4>1, <4>2
    <3> QED BY <1>4, <3>1, <3>2
  <2> QED BY <1>1, <2>1, <2>2 DEF SessionsTyped, SessionReads
<1>5. ASSUME NEW c \in calls,
             \/ SessionsArrive(c) \/ SessionsFail(c) \/ SessionWritten(c) \/ SessionWriteFails(c)
      PROVE  SessionsTyped'
  <2>1. screen' \in SessionScreens /\ server' = server
    <3>1. screen \in SessionScreens
      BY DEF SessionsTyped
    <3>2. CASE SessionsArrive(c)
      <4>1. PICK rows \in SessionList : screen' = [screen EXCEPT !.rows = rows, !.busy = FALSE]
        BY <3>2 DEF SessionsArrive, SessionsTyped, SessionReads
      <4>2. screen' \in SessionScreens
        BY <3>1, <4>1, Zenon DEF SessionScreens
      <4> QED BY <3>2, <4>2 DEF SessionsArrive
    <3>3. CASE SessionsFail(c)
      <4>1. screen' = [screen EXCEPT !.busy = FALSE, !.failed = TRUE]
        BY <3>3 DEF SessionsFail
      <4>2. screen' \in SessionScreens
        BY <3>1, <4>1, Zenon DEF SessionScreens
      <4> QED BY <3>3, <4>2 DEF SessionsFail
    <3>4. CASE SessionWritten(c)
      <4>1. screen' = [[screen EXCEPT !.saving = FALSE] EXCEPT !.busy = TRUE, !.failed = FALSE]
        BY <3>4 DEF SessionWritten, ReloadSessions
      <4>2. screen' \in SessionScreens
        BY <3>1, <4>1, Zenon DEF SessionScreens
      <4> QED BY <3>4, <4>2 DEF SessionWritten, ReloadSessions
    <3>5. CASE SessionWriteFails(c)
      <4>1. PICK lost : lost = (screen.lost \/ c.stage = "stored")
        OBVIOUS
      <4>2. lost \in BOOLEAN
        BY <4>1
      <4>3. screen' = [screen EXCEPT !.saving = FALSE, !.lost = lost]
        BY <3>5, <4>1 DEF SessionWriteFails
      <4>4. screen' \in SessionScreens
        BY <3>1, <4>2, <4>3, Zenon DEF SessionScreens
      <4> QED BY <3>5, <4>4 DEF SessionWriteFails
    <3> QED BY <1>5, <3>2, <3>3, <3>4, <3>5
  <2>2. \A d \in calls' : d \in calls \/ d = ListRequest
    BY <1>5 DEF SessionsArrive, SessionsFail, SessionWritten, SessionWriteFails, Ended, ReloadSessions
  <2>3. ListRequest.kind = "list" /\ ListRequest.rows \in SessionList
    BY DEF ListRequest, NoSessions, SessionList
  <2> QED BY <1>1, <2>1, <2>2, <2>3 DEF SessionsTyped, SessionReads
<1>6. CASE CreateSessionForm \/ SessionButtons
  <2>1. CASE CreateSessionForm
    <3> DEFINE d == [kind |-> "create", stage |-> "sent"]
    <3>1. OrdersSession(d) /\ d.kind = "create"
      BY <2>1 DEF CreateSessionForm
    <3> HIDE DEF d
    <3> QED BY <1>3, <3>1
  <2>2. CASE SessionButtons
    <3>1. PICK r \in SessionRows, next \in SessionStatuses :
            OrdersSession([kind |-> "status", row |-> r, stage |-> "sent", next |-> next])
      BY <2>2 DEF SessionButtons, SessionStatuses
    <3> DEFINE d == [kind |-> "status", row |-> r, stage |-> "sent", next |-> next]
    <3>2. OrdersSession(d) /\ d.kind = "status" /\ d.next = next
      BY <3>1
    <3> HIDE DEF d
    <3> QED BY <1>3, <3>2
  <2> QED BY <1>6, <2>1, <2>2
<1> QED BY <1>2, <1>4, <1>5, <1>6 DEF SessionsNext

(***************************************************************************)
(* The types of UsersAdmin.                                                  *)
(***************************************************************************)
UsersScreens ==
  [page : {"users"}, view : UserViews, rows : UserSets, pages : {1, 2}, busy : BOOLEAN,
   failed : BOOLEAN, since : SUBSET (0..MaxOrdered), dialog : {"none", "create", "edit", "delete"},
   who : Accounts \cup {"nobody"}, form : UserRows, submitting : BOOLEAN,
   ordered : 0..MaxOrdered]
UsersServers == [users : UserSets, foreign : 0..MaxForeign]
OrderStages == {"sent", "admitted", "done", "refused"}
OrderTyped(c) ==
  /\ c.target \in Accounts /\ c.role \in Roles \cup {"same"} /\ c.stage \in OrderStages
  /\ c.n \in (-MaxOrdered)..MaxOrdered
UserLists ==
  [kind : {"users"}, view : UserViews, stage : {"asked", "read"}, rows : UserSets,
   pages : {1, 2}, since : SUBSET (0..MaxOrdered)]
UserCallTyped(c) == IF c.kind = "users" THEN c \in UserLists ELSE OrderTyped(c)

\* A dialog on an account is open for one.
UsersTyped ==
  /\ UsersAdminInv /\ screen \in UsersScreens /\ server \in UsersServers
  /\ screen.dialog \in {"edit", "delete"} => screen.who \in Accounts
  /\ \A c \in calls : UserCallTyped(c)

LEMMA UsersBounds ==
  /\ 0 \in 0..MaxOrdered /\ MaxOrdered \in Nat /\ 0 \in 0..MaxForeign /\ MaxForeign \in Nat
  /\ \A role \in Roles, active \in BOOLEAN : Account(role, active) \in UserRows
  /\ NoUserForm \in UserRows /\ "admin" \in Roles /\ "student" \in Roles
<1>1. MaxOrdered \in Nat /\ MaxForeign \in Nat
  BY UsersAssumption DEF UsersAssumption
<1> QED BY <1>1 DEF Account, NoUserForm, UserRows, Roles

\* What a set of accounts is.
LEMMA UserSetIs ==
  ASSUME NEW A, A \subseteq Accounts, NEW f \in [A -> UserRows]
  PROVE  f \in UserSets
BY Zenon DEF UserSets

LEMMA UserSetHas ==
  ASSUME NEW f \in UserSets
  PROVE  DOMAIN f \subseteq Accounts /\ \A a \in DOMAIN f : f[a] \in UserRows
<1>1. PICK A \in SUBSET Accounts : f \in [A -> UserRows]
  BY Zenon DEF UserSets
<1> QED BY <1>1

LEMMA RowsForTyped ==
  ASSUME NEW users \in UserSets, NEW view
  PROVE  RowsFor(view, users) \in UserSets /\ PagesFor(view, users) \in {1, 2}
<1> DEFINE A == OnPage(view, users)
<1>1. A \subseteq DOMAIN users
  BY DEF OnPage, Matching
<1> HIDE DEF A
<1>2. [a \in A |-> users[a]] \in [A -> UserRows] /\ A \subseteq Accounts
  BY <1>1, UserSetHas
<1> QED BY <1>2, UserSetIs DEF RowsFor, PagesFor, A

LEMMA AfterTyped ==
  ASSUME NEW users \in UserSets, NEW c, c.target \in Accounts, c.role \in Roles \cup {"same"}
  PROVE  After(c, users) \in UserSets
<1>1. Given(c, users) \in UserRows
  <2>1. PICK old : old = IF c.target \in DOMAIN users THEN users[c.target] ELSE Account("student", TRUE)
    OBVIOUS
  <2>2. old \in UserRows
    BY <2>1, UserSetHas, UsersBounds
  <2>3. old.role \in Roles /\ old.active \in BOOLEAN
    BY <2>2 DEF UserRows
  <2>4. PICK role : role = IF c.role = "same" THEN old.role ELSE c.role
    OBVIOUS
  <2>5. PICK yes \in BOOLEAN : yes = (c.active = "yes")
    OBVIOUS
  <2>6. PICK active : active = IF c.active = "same" THEN old.active ELSE yes
    OBVIOUS
  <2>7. role \in Roles /\ active \in BOOLEAN
    BY <2>3, <2>4, <2>6
  <2>8. Given(c, users) = Account(role, active)
    BY <2>1, <2>4, <2>5, <2>6 DEF Given
  <2> QED BY <2>7, <2>8, UsersBounds
<1> DEFINE A == (DOMAIN users \cup {c.target}) \ (IF c.kind = "delete" THEN {c.target} ELSE {})
<1>2. A \subseteq Accounts /\ \A a \in A : a # c.target => users[a] \in UserRows
  BY UserSetHas
<1>3. After(c, users) = [a \in A |-> IF a = c.target THEN Given(c, users) ELSE users[a]]
  BY DEF After
<1> HIDE DEF A
<1>4. After(c, users) \in [A -> UserRows]
  BY <1>1, <1>2, <1>3
<1> QED BY <1>2, <1>4, UserSetIs

\* What is asked for is a list, and no accounts are a set of them.
LEMMA NoAccounts == <<>> \in UserSets
<1>1. <<>> \in [{} -> UserRows]
  OBVIOUS
<1> QED BY <1>1, UserSetIs

LEMMA ReadTyped ==
  ASSUME NEW view \in UserViews PROVE UserCallTyped(Read(view))
<1>1. {} \in SUBSET (0..MaxOrdered)
  OBVIOUS
<1>2. Read(view) \in UserLists
  BY <1>1, NoAccounts, Zenon DEF Read, UserLists
<1> QED BY <1>2 DEF Read, UserCallTyped

\* A list that misses a command, or is not told of it, is a list.
LEMMA MissesTyped ==
  ASSUME NEW n \in 0..MaxOrdered, NEW list,
         NEW q, q = Misses(list, n) \/ q = NotTold(list, n)
  PROVE  /\ list \in UserLists => q \in UserLists
         /\ list \in UsersScreens => q \in UsersScreens /\ q.dialog = list.dialog /\ q.who = list.who
<1>1. PICK since : q = [list EXCEPT !.since = since]
                   /\ since \in {list.since \cup {n}, (list.since \ {n}) \cup {0}, list.since}
  BY DEF Misses, NotTold
<1>2. 0 \in 0..MaxOrdered
  BY UsersBounds
<1>3. list.since \in SUBSET (0..MaxOrdered) => since \in SUBSET (0..MaxOrdered)
  BY <1>1, <1>2
<1>4. list \in UserLists => q \in UserLists
  <2> SUFFICES ASSUME list \in UserLists PROVE q \in UserLists
    OBVIOUS
  <2>1. since \in SUBSET (0..MaxOrdered)
    BY <1>3 DEF UserLists
  <2> QED BY <1>1, <2>1, Zenon DEF UserLists
<1>5. list \in UsersScreens => q \in UsersScreens /\ q.dialog = list.dialog /\ q.who = list.who
  <2> SUFFICES ASSUME list \in UsersScreens
               PROVE  q \in UsersScreens /\ q.dialog = list.dialog /\ q.who = list.who
    OBVIOUS
  <2>1. since \in SUBSET (0..MaxOrdered)
    BY <1>3 DEF UsersScreens
  <2>2. q \in UsersScreens
    BY <1>1, <2>1, Zenon DEF UsersScreens
  <2>3. q.dialog = list.dialog /\ q.who = list.who
    BY <1>1 DEF UsersScreens
  <2> QED BY <2>2, <2>3
<1> QED BY <1>4, <1>5

LEMMA UsersTypedStart == UsersAdminInit => UsersTyped
<1> SUFFICES ASSUME UsersAdminInit PROVE UsersTyped
  OBVIOUS
<1>1. <<>> \in UserSets /\ {} \in SUBSET (0..MaxOrdered)
  BY NoAccounts
<1>2. FirstView \in UserViews
  BY DEF FirstView, UserViews
<1>3. 1 \in {1, 2} /\ "none" \in {"none", "create", "edit", "delete"}
      /\ "nobody" \in Accounts \cup {"nobody"}
  OBVIOUS
<1> HIDE DEF FirstView, NoUserForm
<1>4. screen \in UsersScreens
  BY <1>1, <1>2, <1>3, UsersBounds, Zenon DEF UsersAdminInit, UsersScreens
<1>5. PICK users : users = [a \in Accounts |-> Account("admin", TRUE)]
  OBVIOUS
<1>6. users \in UserSets
  <2>1. users \in [Accounts -> UserRows]
    BY <1>5, UsersBounds
  <2> QED BY <2>1, UserSetIs
<1>7. server \in UsersServers
  BY <1>5, <1>6, UsersBounds, Zenon DEF UsersAdminInit, UsersServers
<1>8. screen.dialog = "none" /\ calls = {Read(FirstView)}
  BY DEF UsersAdminInit
<1>9. \A c \in calls : UserCallTyped(c)
  BY <1>2, <1>8, ReadTyped
<1> QED BY <1>4, <1>7, <1>8, <1>9, UsersAdminStart DEF UsersTyped

LEMMA UsersTypedStep == UsersTyped /\ [UsersAdminNext]_tabVars => UsersTyped'
<1> SUFFICES ASSUME UsersTyped, [UsersAdminNext]_tabVars PROVE UsersTyped'
  OBVIOUS
<1> DEFINE HasWho(p) == p.dialog \in {"edit", "delete"} => p.who \in Accounts
<1>0. /\ UsersAdminInv' /\ screen \in UsersScreens /\ server \in UsersServers
      /\ (\A c \in calls : UserCallTyped(c))
      /\ (\A c \in AccountOrders : OrderTyped(c) /\ DOMAIN c = OrderFields /\ c.kind # "users")
      /\ (\A c \in Reads : c \in UserLists)
      /\ server.users \in UserSets /\ HasWho(screen)
  BY UsersAdminStep
     DEF UsersTyped, UsersAdminInv, TableInv, OrdersAre, UsersServers, UserCallTyped, AccountOrders, Reads
<1>1. CASE UNCHANGED tabVars
  BY <1>0, <1>1 DEF tabVars, UsersTyped
<1>2. ASSUME NEW p, screen' = p, p \in UsersScreens, HasWho(p), server' \in UsersServers,
             \A c \in calls' : c \in calls \/ UserCallTyped(c)
      PROVE  UsersTyped'
  BY <1>0, <1>2 DEF UsersTyped
\* The list is asked for, by a changed page.
<1>4. ASSUME NEW p, p \in UsersScreens, HasWho(p), NEW over, ListUsers(p, over), server' = server
      PROVE  UsersTyped'
  <2>1. screen' = [p EXCEPT !.busy = TRUE, !.failed = FALSE]
    BY <1>4 DEF ListUsers
  <2>2. screen' \in UsersScreens
    BY <1>4, <2>1, Zenon DEF UsersScreens
  <2>3. screen'.dialog = p.dialog /\ screen'.who = p.who /\ p.view \in UserViews
    BY <1>4, <2>1 DEF UsersScreens
  <2>4. \A c \in calls' : c \in calls \/ UserCallTyped(c)
    BY <1>4, <2>3, ReadTyped DEF ListUsers
  <2> QED BY <1>0, <1>2, <1>4, <2>2, <2>3, <2>4
<1>5. ASSUME NEW c \in Reads, UsersRead(c) \/ UsersArrive(c) \/ UsersFail(c) PROVE UsersTyped'
  <2>0. c \in UserLists
    BY <1>0, <1>5
  <2>1. CASE UsersRead(c)
    <3>1. PICK rows, pages : /\ rows = RowsFor(c.view, server.users)
                             /\ pages = PagesFor(c.view, server.users)
      OBVIOUS
    <3>2. rows \in UserSets /\ pages \in {1, 2} /\ "read" \in {"asked", "read"}
      BY <1>0, <3>1, RowsForTyped
    <3>3. PICK d : d = [c EXCEPT !.stage = "read", !.rows = rows, !.pages = pages]
      OBVIOUS
    <3>4. d \in UserLists
      BY <2>0, <3>2, <3>3, Zenon DEF UserLists
    <3>5. UserCallTyped(d)
      BY <3>4 DEF UserLists, UserCallTyped
    <3>6. calls' = (calls \ {c}) \cup {d} /\ screen' = screen /\ server' = server
      BY <2>1, <3>1, <3>3 DEF UsersRead
    <3> QED BY <1>0, <1>2, <3>5, <3>6
  <2>2. CASE UsersArrive(c) \/ UsersFail(c)
    <3>1. PICK rows, pages, since : rows = c.rows /\ pages = c.pages /\ since = c.since
      OBVIOUS
    <3>2. rows \in UserSets /\ pages \in {1, 2} /\ since \in SUBSET (0..MaxOrdered)
      BY <2>0, <3>1 DEF UserLists
    <3>3. PICK p : p = screen'
      OBVIOUS
    <3>4. \/ p = [screen EXCEPT !.busy = FALSE, !.rows = rows, !.pages = pages, !.since = since]
          \/ p = [screen EXCEPT !.busy = FALSE, !.failed = TRUE]
      BY <2>2, <3>1, <3>3 DEF UsersArrive, UsersFail
    <3>5. p \in UsersScreens
      BY <1>0, <3>2, <3>4, Zenon DEF UsersScreens
    <3>6. HasWho(p)
      BY <1>0, <3>4 DEF UsersScreens
    <3> QED BY <1>0, <1>2, <2>2, <3>3, <3>5, <3>6 DEF UsersArrive, UsersFail, Ended
  <2> QED BY <1>5, <2>1, <2>2
<1>6. ASSUME NEW filter \in {"all", "admins"}, FilterUsers(filter) PROVE UsersTyped'
  <2>1. PICK view : view = [filter |-> filter, number |-> 1]
    OBVIOUS
  <2>2. view \in UserViews
    BY <2>1 DEF UserViews
  <2>3. PICK p : p = [screen EXCEPT !.view = view]
    OBVIOUS
  <2>4. p \in UsersScreens
    BY <1>0, <2>2, <2>3, Zenon DEF UsersScreens
  <2>5. HasWho(p)
    BY <1>0, <2>3 DEF UsersScreens
  <2> QED BY <1>4, <1>6, <2>1, <2>3, <2>4, <2>5 DEF FilterUsers
<1>7. ASSUME NEW number \in {1, 2}, TurnPage(number) PROVE UsersTyped'
  <2>1. PICK view : view = [screen.view EXCEPT !.number = number]
    OBVIOUS
  <2>2. view \in UserViews
    <3>1. screen.view \in UserViews
      BY <1>0 DEF UsersScreens
    <3> QED BY <2>1, <3>1, Zenon DEF UserViews
  <2>3. PICK p : p = [screen EXCEPT !.view.number = number]
    OBVIOUS
  <2>4. p = [screen EXCEPT !.view = view]
    BY <2>1, <2>3
  <2>5. p \in UsersScreens
    BY <1>0, <2>2, <2>4, Zenon DEF UsersScreens
  <2>6. HasWho(p)
    BY <1>0, <2>4 DEF UsersScreens
  <2> QED BY <1>4, <1>7, <2>3, <2>5, <2>6 DEF TurnPage
<1>8. CASE PressReloadUsers
  BY <1>0, <1>4, <1>8 DEF PressReloadUsers
\* The dialogs.
<1>9. ASSUME NEW p, screen' = p, calls' = calls, server' = server,
             NEW u \in Accounts, NEW form \in UserRows,
             \/ p = [screen EXCEPT !.dialog = "create", !.form = form]
             \/ p = [screen EXCEPT !.dialog = "edit", !.who = u, !.form = form]
             \/ p = [screen EXCEPT !.dialog = "delete", !.who = u]
             \/ p = [screen EXCEPT !.dialog = "none", !.who = "nobody"]
             \/ p = [screen EXCEPT !.form = form]
      PROVE  UsersTyped'
  <2>1. u \in Accounts \cup {"nobody"} /\ "nobody" \in Accounts \cup {"nobody"}
        /\ \A dialog \in {"none", "create", "edit", "delete"} :
             dialog \in {"none", "create", "edit", "delete"}
    OBVIOUS
  <2>2. p \in UsersScreens
    <3>1. CASE p = [screen EXCEPT !.dialog = "create", !.form = form]
      BY <1>0, <1>9, <3>1, Zenon DEF UsersScreens
    <3>2. CASE p = [screen EXCEPT !.dialog = "edit", !.who = u, !.form = form]
      BY <1>0, <1>9, <2>1, <3>2, Zenon DEF UsersScreens
    <3>3. CASE p = [screen EXCEPT !.dialog = "delete", !.who = u]
      BY <1>0, <2>1, <3>3, Zenon DEF UsersScreens
    <3>4. CASE p = [screen EXCEPT !.dialog = "none", !.who = "nobody"]
      BY <1>0, <2>1, <3>4, Zenon DEF UsersScreens
    <3>5. CASE p = [screen EXCEPT !.form = form]
      BY <1>0, <1>9, <3>5, Zenon DEF UsersScreens
    <3> QED BY <1>9, <3>1, <3>2, <3>3, <3>4, <3>5
  <2>3. HasWho(p)
    BY <1>0, <1>9 DEF UsersScreens
  <2> QED BY <1>0, <1>2, <1>9, <2>2, <2>3
<1>10. \A u \in DOMAIN screen.rows : u \in Accounts /\ screen.rows[u] \in UserRows
  <2>1. screen.rows \in UserSets
    BY <1>0 DEF UsersScreens
  <2> QED BY <2>1, UserSetHas
<1>11. Me \in Accounts
  BY DEF Accounts
<1>12. CASE OpenCreate \/ CloseUserDialog
  BY <1>9, <1>11, <1>12, UsersBounds DEF OpenCreate, CloseUserDialog
<1>13. ASSUME NEW u \in Accounts, OpenEdit(u) \/ OpenDelete(u) PROVE UsersTyped'
  BY <1>9, <1>10, <1>13, UsersBounds DEF OpenEdit, OpenDelete
<1>14. ASSUME NEW role \in Roles, NEW active \in BOOLEAN, EditUserForm(role, active)
       PROVE  UsersTyped'
  BY <1>9, <1>11, <1>14, UsersBounds DEF EditUserForm
\* A command is sent.
<1>15. ASSUME NEW p, NEW submitting \in BOOLEAN, p = screen \/ p = [screen EXCEPT !.submitting = submitting],
              NEW kind \in {"create", "update", "delete"}, NEW target \in Accounts, NEW role \in Roles \cup {"same"}, NEW active,
              Sends(p, kind, target, role, active)
       PROVE  UsersTyped'
  <2> DEFINE d == Order(kind, Me, target, role, active, screen.ordered + 1)
  <2>2. PICK ordered : ordered = screen.ordered + 1
    OBVIOUS
  <2>3. ordered \in 0..MaxOrdered
    <3>1. screen.ordered \in 0..MaxOrdered /\ screen.ordered < MaxOrdered
      BY <1>0, <1>15 DEF UsersScreens, Sends
    <3> QED BY <2>2, <3>1, UsersBounds
  <2>1. UserCallTyped(d)
    <3>1. d.n \in (-MaxOrdered)..MaxOrdered
      BY <2>2, <2>3, UsersBounds DEF Order
    <3> QED BY <1>15, <3>1 DEF Order, OrderTyped, OrderStages, UserCallTyped
  <2>4. p \in UsersScreens /\ p.ordered = screen.ordered /\ p.dialog = screen.dialog /\ p.who = screen.who
    <3>1. p \in UsersScreens
      BY <1>0, <1>15, Zenon DEF UsersScreens
    <3> QED BY <1>0, <1>15, <3>1 DEF UsersScreens
  <2>5. PICK q : q = [p EXCEPT !.ordered = ordered]
    OBVIOUS
  <2>6. q \in UsersScreens
    BY <2>3, <2>4, <2>5, Zenon DEF UsersScreens
  <2>7. HasWho(q)
    BY <1>0, <2>4, <2>5 DEF UsersScreens
  <2>8. screen' = q /\ calls' = calls \cup {d} /\ server' = server
    BY <1>15, <2>2, <2>4, <2>5 DEF Sends
  <2> HIDE DEF d
  <2> QED BY <1>0, <1>2, <2>1, <2>6, <2>7, <2>8
<1>16. ASSUME NEW u \in Accounts, HandleCreate(u) \/ ToggleStatus(u) PROVE UsersTyped'
  <2>1. screen.form.role \in Roles
    BY <1>0 DEF UsersScreens, UserRows
  <2> QED BY <1>15, <1>16, <2>1 DEF HandleCreate, ToggleStatus
<1>17. CASE HandleUpdate \/ HandleDelete
  <2>1. screen.form.role \in Roles
    BY <1>0 DEF UsersScreens, UserRows
  <2>2. screen.who \in Accounts
    BY <1>0, <1>17 DEF HandleUpdate, HandleDelete
  <2> QED BY <1>15, <1>17, <2>1, <2>2 DEF HandleUpdate, HandleDelete
\* The answer to a command.
<1>18. ASSUME NEW c, NEW succeeded, NEW p, p = AfterOrder(c, succeeded)
       PROVE  p \in UsersScreens /\ HasWho(p)
  <2>1. PICK free : free = IF FromDialog(c) THEN [screen EXCEPT !.submitting = FALSE] ELSE screen
    OBVIOUS
  <2>2. free \in UsersScreens
    BY <1>0, <2>1, Zenon DEF UsersScreens
  <2>3. HasWho(free)
    BY <1>0, <2>1 DEF UsersScreens
  <2>4. p = free \/ p = [free EXCEPT !.dialog = "none", !.who = "nobody"]
    BY <1>18, <2>1 DEF AfterOrder
  <2>5. "none" \in {"none", "create", "edit", "delete"} /\ "nobody" \in Accounts \cup {"nobody"}
    OBVIOUS
  <2>6. p \in UsersScreens
    BY <2>2, <2>4, <2>5, Zenon DEF UsersScreens
  <2>7. HasWho(p)
    BY <2>2, <2>3, <2>4 DEF UsersScreens
  <2> QED BY <2>6, <2>7
<1>19. ASSUME NEW c \in AccountOrders, OrderDone(c) PROVE UsersTyped'
  <2>1. PICK p : p = AfterOrder(c, TRUE)
    OBVIOUS
  <2> QED BY <1>4, <1>18, <1>19, <2>1 DEF OrderDone
\* The lists that were read are told of a command, or are not.
<1>20. ASSUME NEW n \in 0..MaxOrdered, NEW c \in ListsRead
       PROVE  UserCallTyped(Misses(c, n)) /\ UserCallTyped(NotTold(c, n))
  <2>1. c \in UserLists
    BY <1>0, <1>20 DEF ListsRead
  <2>2. Misses(c, n) \in UserLists /\ NotTold(c, n) \in UserLists
    BY <1>20, <2>1, MissesTyped
  <2> QED BY <2>2 DEF UserLists, UserCallTyped
<1>21. ASSUME NEW c \in AccountOrders, OrderFails(c) PROVE UsersTyped'
  <2>1. PICK p : p = AfterOrder(c, FALSE)
    OBVIOUS
  <2>2. c.n \in 0..MaxOrdered /\ c.n \in (-MaxOrdered)..MaxOrdered /\ c \in AccountOrders
    <3>1. c.n \in (-MaxOrdered)..MaxOrdered
      BY <1>0, <1>21 DEF OrderTyped
    <3> QED BY <1>21, <3>1, UsersBounds DEF OrderFails, Mine
  <2>3. PICK q : q = NotTold(p, c.n)
    OBVIOUS
  <2>4. q \in UsersScreens /\ HasWho(q)
    <3>1. p \in UsersScreens /\ HasWho(p)
      BY <1>18, <2>1
    <3>2. q \in UsersScreens /\ q.dialog = p.dialog /\ q.who = p.who
      BY <2>2, <2>3, <3>1, MissesTyped
    <3> QED BY <3>1, <3>2
  <2>5. PICK n : n = -c.n
    OBVIOUS
  <2>6. PICK e : e = [c EXCEPT !.n = n]
    OBVIOUS
  <2>7. UserCallTyped(e)
    <3>1. n \in (-MaxOrdered)..MaxOrdered
      BY <2>2, <2>5, UsersBounds
    <3> QED BY <1>0, <2>2, <2>6, <3>1 DEF OrderTyped, OrderFields, UserCallTyped
  <2>8. \A d \in calls' : d \in calls \/ d = e \/ \E b \in ListsRead : d = NotTold(b, c.n)
    BY <1>21, <2>5, <2>6 DEF OrderFails
  <2>9. \A d \in calls' : d \in calls \/ UserCallTyped(d)
    BY <1>20, <2>2, <2>7, <2>8
  <2>10. screen' = q /\ server' = server
    BY <1>21, <2>1, <2>3 DEF OrderFails
  <2> QED BY <1>0, <1>2, <2>4, <2>9, <2>10
\* The server.
<1>22. ASSUME NEW c \in AccountOrders, NEW stage \in OrderStages, NEW d,
              d = [c EXCEPT !.stage = stage]
       PROVE  UserCallTyped(d)
  BY <1>0, <1>22 DEF OrderTyped, OrderFields, UserCallTyped
<1>23. ASSUME NEW c \in AccountOrders, NEW stage \in OrderStages, screen' = screen, server' = server,
              \/ calls' = (calls \ {c}) \cup {[c EXCEPT !.stage = stage]}
              \/ calls' = calls \ {c}
       PROVE  UsersTyped'
  BY <1>0, <1>2, <1>22, <1>23
<1>24. ASSUME NEW c \in AccountOrders, OrderAdmitted(c) \/ OrderRuns(c) PROVE UsersTyped'
  <2>1. CASE ~OrderCarriedOut(c)
    <3>1. PICK stage \in OrderStages : \/ calls' = (calls \ {c}) \cup {[c EXCEPT !.stage = stage]}
                                       \/ calls' = calls \ {c}
      BY <1>24, <2>1 DEF OrderAdmitted, OrderRuns, Refuses, Advances, Ended, OrderStages
    <3>2. screen' = screen /\ server' = server
      BY <1>24, <2>1 DEF OrderAdmitted, OrderRuns
    <3> QED BY <1>23, <3>1, <3>2
  <2>2. CASE OrderCarriedOut(c)
    <3>1. PICK n : n = IF c \in Mine THEN c.n ELSE 0
      OBVIOUS
    <3>2. n \in 0..MaxOrdered
      <4>1. c.n \in (-MaxOrdered)..MaxOrdered
        BY <1>0, <1>24 DEF OrderTyped
      <4> QED BY <3>1, <4>1, UsersBounds DEF Mine
    <3>3. PICK users : users = After(c, server.users)
      OBVIOUS
    <3>4. users \in UserSets
      BY <1>0, <1>24, <3>3, AfterTyped DEF OrderTyped
    <3>5. server' = [server EXCEPT !.users = users]
      BY <2>2, <3>3 DEF OrderCarriedOut
    <3>6. server' \in UsersServers
      BY <1>0, <3>4, <3>5, Zenon DEF UsersServers
    <3>7. PICK q : q = Misses(screen, n)
      OBVIOUS
    <3>8. q \in UsersScreens /\ HasWho(q)
      BY <1>0, <3>2, <3>7, MissesTyped
    <3>9. PICK e : e = [c EXCEPT !.stage = "done"]
      OBVIOUS
    <3>10. UserCallTyped(e)
      BY <1>22, <1>24, <3>9 DEF OrderStages
    <3>11. \A d \in calls' : d \in calls \/ d = e \/ \E b \in ListsRead : d = Misses(b, n)
      BY <2>2, <3>1, <3>9 DEF OrderCarriedOut
    <3>12. \A d \in calls' : d \in calls \/ UserCallTyped(d)
      BY <1>20, <3>2, <3>10, <3>11
    <3>13. screen' = q
      BY <2>2, <3>1, <3>7 DEF OrderCarriedOut
    <3> QED BY <1>2, <3>6, <3>8, <3>12, <3>13
  <2> QED BY <2>1, <2>2
<1>25. ASSUME NEW kind \in {"update", "delete", "bulk"}, NEW role \in {"same", "student"},
              NEW active \in {"same", "no"}, ForeignOrder(kind, role, active)
       PROVE  UsersTyped'
  <2> DEFINE d == Order(kind, Other, Me, role, active, 0)
  <2>1. UserCallTyped(d)
    <3>1. 0 \in (-MaxOrdered)..MaxOrdered
      BY UsersBounds
    <3> QED BY <1>11, <1>25, <3>1 DEF Order, OrderTyped, OrderStages, Roles, UserCallTyped
  <2>2. PICK foreign : foreign = server.foreign + 1
    OBVIOUS
  <2>3. server.foreign \in 0..MaxForeign /\ server.foreign < MaxForeign
    BY <1>0, <1>25 DEF ForeignOrder, UsersServers
  <2>4. foreign \in 0..MaxForeign
    BY <2>2, <2>3, UsersBounds
  <2>5. server' = [server EXCEPT !.foreign = foreign] /\ screen' = screen /\ calls' = calls \cup {d}
    BY <1>25, <2>2 DEF ForeignOrder
  <2>6. server' \in UsersServers
    BY <1>0, <2>4, <2>5, Zenon DEF UsersServers
  <2> HIDE DEF d
  <2> QED BY <1>0, <1>2, <2>1, <2>5, <2>6
<1>26. UsersAdminNext => UsersTyped'
  BY <1>5, <1>6, <1>7, <1>8, <1>12, <1>13, <1>14, <1>16, <1>17, <1>19, <1>21, <1>24, <1>25
     DEF UsersAdminNext, UserRow, UserForm, CreateForm, EditForm, DeleteForm
<1> QED BY <1>1, <1>26

(***************************************************************************)
(* The types of TaxonomyAdmin.                                               *)
(***************************************************************************)
TaxonomyTabs == {"foundation", "skills", "other"}
TopicRows == [of : Subjects \cup {None}, at : Age]
TaxonomyScreens ==
  [page : {"taxonomy"}, data : [Parts -> Age], busy : BOOLEAN,
   pending : Dialogs \cup {None, "toggle"}, error : BOOLEAN,
   path : Paths \cup {None}, subject : Subjects \cup {None},
   tab : TaxonomyTabs, dialog : Dialogs \cup {None},
   topics : TopicRows, editor : BOOLEAN,
   made : 0..MaxWrites, confirmed : [Counters -> Nat]]
TaxonomyCallTyped(c) ==
  /\ c.kind = "load" => c.taxonomy \in Age /\ c.lists \in Age
  /\ c.kind = "topics" => c.at \in Age

\* The writes of each part that are under way; with those that were stored they
\* are no more than were begun.
WritesOf(cs, x) == {c \in cs : c.kind \in {"write", "topic"} /\ c.part = x}
EachCounted(made, cs, sv) ==
  \A x \in Counters : IsFiniteSet(WritesOf(cs, x)) /\ sv[x] + Cardinality(WritesOf(cs, x)) <= made

TaxonomyTyped ==
  /\ TaxonomyInv /\ screen \in TaxonomyScreens /\ EachCounted(screen.made, calls, server)
  /\ \A c \in calls : TaxonomyCallTyped(c)

LEMMA TaxonomyBounds ==
  /\ MaxWrites \in Nat /\ 0 \in 0..MaxWrites /\ 0 \in Age /\ Emptied \in Age
  /\ "taxonomy" \in Counters /\ "lists" \in Counters /\ Subjects \subseteq Counters
  /\ NoTopics \in TopicRows /\ None \in Dialogs \cup {None} /\ None \in Paths \cup {None}
  /\ None \in Subjects \cup {None} /\ None \in Dialogs \cup {None, "toggle"}
  /\ 0..MaxWrites \subseteq Age
<1>1. MaxWrites \in Nat \ {0}
  BY TaxonomyAssumption
<1>2. 0 \in Age /\ Emptied \in Age /\ 0..MaxWrites \subseteq Age
  BY <1>1 DEF Age, Emptied
<1>3. None \in Subjects \cup {None}
  OBVIOUS
<1>4. NoTopics \in TopicRows
  BY <1>2, <1>3, Zenon DEF NoTopics, TopicRows
<1>5. "taxonomy" \in Counters /\ "lists" \in Counters /\ Subjects \subseteq Counters
  BY DEF Counters, Parts
<1> QED BY <1>1, <1>2, <1>4, <1>5

\* A pair of ages is what the page keeps of a load.
LEMMA LoadedData ==
  ASSUME NEW a \in Age, NEW b \in Age
  PROVE  [taxonomy |-> a, lists |-> b] \in [Parts -> Age]
BY DEF Parts

\* What the server holds is bounded by what was begun.
LEMMA CountersBounded ==
  ASSUME TaxonomyInv, EachCounted(screen.made, calls, server), NEW x \in Counters
  PROVE  server[x] \in 0..MaxWrites
<1>1. server[x] \in Nat /\ screen.made \in 0..MaxWrites
  BY DEF TaxonomyInv, TaxonomyShape, WritesCounted
<1>2. Cardinality(WritesOf(calls, x)) \in Nat
      /\ server[x] + Cardinality(WritesOf(calls, x)) <= screen.made
  BY FS_CardinalityType DEF EachCounted
<1> QED BY <1>1, <1>2, TaxonomyBounds

LEMMA TaxonomyTypedStart == TaxonomyInit => TaxonomyTyped
<1> SUFFICES ASSUME TaxonomyInit PROVE TaxonomyTyped
  OBVIOUS
<1>1. PICK path \in Paths \cup {None}, tab \in {"foundation", "skills", "other"} :
        \E subject \in {None} \cup {s \in Subjects : PathOf[s] = path} :
          /\ screen = [page |-> "taxonomy", data |-> [part \in Parts |-> Emptied], busy |-> TRUE,
                       pending |-> None, error |-> FALSE, path |-> path, subject |-> subject,
                       tab |-> tab, dialog |-> None, topics |-> NoTopics, editor |-> FALSE,
                       made |-> 0, confirmed |-> [x \in Parts \cup Subjects |-> 0]]
          /\ calls = {FreshLoad} \cup
                       {TopicsCall(s) : s \in {subject} \ (IF tab = "other" THEN {subject} ELSE {None})}
          /\ server = [x \in Parts \cup Subjects |-> 0]
  BY DEF TaxonomyInit
<1>2. PICK subject \in {None} \cup {s \in Subjects : PathOf[s] = path} :
          /\ screen = [page |-> "taxonomy", data |-> [part \in Parts |-> Emptied], busy |-> TRUE,
                       pending |-> None, error |-> FALSE, path |-> path, subject |-> subject,
                       tab |-> tab, dialog |-> None, topics |-> NoTopics, editor |-> FALSE,
                       made |-> 0, confirmed |-> [x \in Parts \cup Subjects |-> 0]]
          /\ calls = {FreshLoad} \cup
                       {TopicsCall(s) : s \in {subject} \ (IF tab = "other" THEN {subject} ELSE {None})}
          /\ server = [x \in Parts \cup Subjects |-> 0]
  BY <1>1
<1>3. PICK data : data = [part \in Parts |-> Emptied]
  OBVIOUS
<1>4. data \in [Parts -> Age]
  BY <1>3, TaxonomyBounds
<1>5. PICK confirmed : confirmed = [x \in Parts \cup Subjects |-> 0]
  OBVIOUS
<1>6. confirmed \in [Counters -> Nat]
  BY <1>5 DEF Counters
<1>7. subject \in Subjects \cup {None} /\ tab \in TaxonomyTabs
  BY DEF TaxonomyTabs
<1>8. screen = [page |-> "taxonomy", data |-> data, busy |-> TRUE, pending |-> None,
                error |-> FALSE, path |-> path, subject |-> subject, tab |-> tab,
                dialog |-> None, topics |-> NoTopics, editor |-> FALSE, made |-> 0,
                confirmed |-> confirmed]
  BY <1>2, <1>3, <1>5
<1>9. screen \in TaxonomyScreens
  BY <1>4, <1>6, <1>7, <1>8, TaxonomyBounds, Zenon DEF TaxonomyScreens
<1>10. \A c \in calls : \/ c.kind = "load" /\ c.taxonomy = Emptied /\ c.lists = Emptied
                        \/ c.kind = "topics" /\ c.at = Emptied
  BY <1>2 DEF FreshLoad, TopicsCall
<1>11. \A c \in calls : TaxonomyCallTyped(c)
  BY <1>10, TaxonomyBounds DEF TaxonomyCallTyped
<1>12. \A x : WritesOf(calls, x) = {}
  BY <1>10 DEF WritesOf
<1>13. screen.made = 0 /\ \A x \in Counters : server[x] = 0
  BY <1>2, <1>8 DEF Counters
<1>14. IsFiniteSet({}) /\ Cardinality({}) = 0
  BY FS_EmptySet
<1>15. EachCounted(screen.made, calls, server)
  BY <1>12, <1>13, <1>14 DEF EachCounted
<1> QED BY <1>9, <1>11, <1>15, TaxonomyStart DEF TaxonomyTyped

\* A load begins: the page goes on with the ages it has, or with those that the
\* load before had brought.
LEMMA RestartTyped ==
  ASSUME NEW p \in TaxonomyScreens, NEW over, Restart(p, over),
         \A c \in calls : TaxonomyCallTyped(c)
  PROVE  /\ screen' \in TaxonomyScreens /\ screen'.made = p.made
         /\ calls' \subseteq (calls \ over) \cup {FreshLoad}
<1> DEFINE left == {c \in Loads : c.here}
<1>1. PICK data : data = IF left = {} THEN p.data
                         ELSE [taxonomy |-> (CHOOSE c \in left : TRUE).taxonomy, lists |-> Emptied]
  OBVIOUS
<1>2. data \in [Parts -> Age]
  <2>1. CASE left = {}
    BY <1>1, <2>1 DEF TaxonomyScreens
  <2>2. CASE left # {}
    <3>1. PICK c : c = CHOOSE d \in left : TRUE
      OBVIOUS
    <3>2. c \in left
      BY <2>2, <3>1
    <3>3. c.taxonomy \in Age
      BY <3>2 DEF Loads, TaxonomyCallTyped
    <3>4. data = [taxonomy |-> c.taxonomy, lists |-> Emptied]
      BY <1>1, <2>2, <3>1
    <3> QED BY <3>3, <3>4, LoadedData, TaxonomyBounds
  <2> QED BY <2>1, <2>2
<1>3. screen' = [p EXCEPT !.busy = TRUE, !.error = FALSE, !.data = data]
  BY <1>1 DEF Restart
<1>4. screen' \in TaxonomyScreens
  BY <1>2, <1>3, Zenon DEF TaxonomyScreens
<1>5. screen'.made = p.made
  BY <1>3 DEF TaxonomyScreens
<1> QED BY <1>4, <1>5 DEF Restart

LEMMA FreshCalls ==
  /\ TaxonomyCallTyped(FreshLoad) /\ FreshLoad.kind = "load"
  /\ \A s : TaxonomyCallTyped(TopicsCall(s)) /\ TopicsCall(s).kind = "topics"
BY TaxonomyBounds DEF FreshLoad, TopicsCall, TaxonomyCallTyped

LEMMA TaxonomyTypedStep == TaxonomyTyped /\ [TaxonomyNext]_tabVars => TaxonomyTyped'
<1> SUFFICES ASSUME TaxonomyTyped, [TaxonomyNext]_tabVars PROVE TaxonomyTyped'
  OBVIOUS
<1>0. /\ TaxonomyInv /\ TaxonomyInv' /\ screen \in TaxonomyScreens
      /\ EachCounted(screen.made, calls, server)
      /\ \A c \in calls : TaxonomyCallTyped(c) /\ TaxonomyCall(c)
      /\ \A x \in Counters : server[x] \in 0..MaxWrites
  BY TaxonomyStep, CountersBounded DEF TaxonomyTyped, TaxonomyInv, TaxonomyShape
<1>01. /\ screen.made \in 0..MaxWrites /\ screen.subject \in Subjects \cup {None}
       /\ screen.path \in Paths \cup {None} /\ screen.tab \in TaxonomyTabs
       /\ screen.topics \in TopicRows /\ screen.editor \in BOOLEAN
       /\ screen.confirmed \in [Counters -> Nat]
  BY <1>0 DEF TaxonomyScreens
<1>02. \A x \in Counters : /\ IsFiniteSet(WritesOf(calls, x)) /\ server[x] \in Nat
                           /\ Cardinality(WritesOf(calls, x)) \in Nat
                           /\ server[x] + Cardinality(WritesOf(calls, x)) <= screen.made
  BY <1>0, FS_CardinalityType DEF EachCounted
<1>1. CASE UNCHANGED tabVars
  BY <1>0, <1>1 DEF tabVars, TaxonomyTyped
\* No write begins or ends.
<1>2. ASSUME NEW p \in TaxonomyScreens, screen' = p, p.made = screen.made, server' = server,
             NEW d, TaxonomyCallTyped(d), d.kind \in {"load", "topics"},
             calls' \subseteq calls \cup {d}
      PROVE  TaxonomyTyped'
  <2>1. ASSUME NEW x \in Counters
        PROVE  /\ IsFiniteSet(WritesOf(calls', x))
               /\ server'[x] + Cardinality(WritesOf(calls', x)) <= screen'.made
    <3>1. WritesOf(calls', x) \subseteq WritesOf(calls, x)
      BY <1>2 DEF WritesOf
    <3>2. /\ IsFiniteSet(WritesOf(calls', x))
          /\ Cardinality(WritesOf(calls', x)) \in 0..Cardinality(WritesOf(calls, x))
      BY <1>02, <2>1, <3>1, CountsOf
    <3>3. /\ server'[x] = server[x] /\ screen'.made = screen.made /\ screen.made \in Nat
          /\ server[x] \in Nat /\ Cardinality(WritesOf(calls, x)) \in Nat
          /\ server[x] + Cardinality(WritesOf(calls, x)) <= screen.made
      BY <1>01, <1>02, <1>2, <2>1
    <3> QED BY <3>2, <3>3
  <2>2. \A c \in calls' : TaxonomyCallTyped(c)
    BY <1>0, <1>2
  <2>3. EachCounted(screen'.made, calls', server')
    BY <2>1 DEF EachCounted
  <2> QED BY <1>0, <1>2, <2>2, <2>3 DEF TaxonomyTyped
<1>3. ASSUME NEW p \in TaxonomyScreens, screen' = p, p.made = screen.made, server' = server,
             calls' \subseteq calls
      PROVE  TaxonomyTyped'
  <2>1. calls' \subseteq calls \cup {FreshLoad}
    BY <1>3
  <2> QED BY <1>2, <1>3, <2>1, FreshCalls
\* A write begins.
<1>4. ASSUME NEW p \in TaxonomyScreens, p.made = screen.made, NEW d, d.kind \in {"write", "topic"},
             Begin(p, d)
      PROVE  TaxonomyTyped'
  <2>1. PICK made : made = screen.made + 1
    OBVIOUS
  <2>2. made \in 0..MaxWrites
    BY <1>01, <1>4, <2>1, TaxonomyBounds DEF Begin
  <2>3. screen' = [p EXCEPT !.made = made] /\ calls' = calls \cup {d} /\ server' = server
    BY <1>4, <2>1 DEF Begin
  <2>4. screen' \in TaxonomyScreens
    BY <1>4, <2>2, <2>3, Zenon DEF TaxonomyScreens
  <2>5. screen'.made = made
    BY <1>4, <2>3 DEF TaxonomyScreens
  <2>6. ASSUME NEW x \in Counters
        PROVE  /\ IsFiniteSet(WritesOf(calls', x))
               /\ server'[x] + Cardinality(WritesOf(calls', x)) <= screen'.made
    <3>1. WritesOf(calls', x) \subseteq WritesOf(calls, x) \cup {d}
      BY <2>3 DEF WritesOf
    <3>2. /\ IsFiniteSet(WritesOf(calls', x))
          /\ Cardinality(WritesOf(calls', x)) \in 0..(Cardinality(WritesOf(calls, x)) + 1)
      BY <1>02, <2>6, <3>1, CountsOf
    <3>3. /\ server'[x] = server[x] /\ screen'.made = screen.made + 1 /\ screen.made \in Nat
          /\ server[x] \in Nat /\ Cardinality(WritesOf(calls, x)) \in Nat
          /\ server[x] + Cardinality(WritesOf(calls, x)) <= screen.made
      BY <1>01, <1>02, <2>1, <2>3, <2>5, <2>6
    <3> QED BY <3>2, <3>3
  <2>7. \A c \in calls' : TaxonomyCallTyped(c)
    BY <1>0, <1>4, <2>3 DEF TaxonomyCallTyped
  <2>8. EachCounted(screen'.made, calls', server')
    BY <2>6 DEF EachCounted
  <2> QED BY <1>0, <2>4, <2>7, <2>8 DEF TaxonomyTyped
\* A write is over; the server took it or not.
<1>5. ASSUME NEW c \in calls, c.kind \in {"write", "topic"}, NEW p \in TaxonomyScreens, screen' = p,
             p.made = screen.made, Stored(c) \/ server' = server,
             NEW d, TaxonomyCallTyped(d), d.kind \in {"load", "topics"},
             calls' \subseteq (calls \ {c}) \cup {d}
      PROVE  TaxonomyTyped'
  <2>1. c.part \in Counters
    BY <1>0, <1>5, TaxonomyBounds DEF TaxonomyCall, Parts
  <2>2. server \in [Counters -> Nat]
    BY <1>0 DEF TaxonomyInv, TaxonomyShape
  <2>3. ASSUME NEW x \in Counters
        PROVE  /\ IsFiniteSet(WritesOf(calls', x))
               /\ server'[x] + Cardinality(WritesOf(calls', x)) <= screen'.made
    <3>1. /\ screen'.made = screen.made /\ screen.made \in Nat
          /\ server[x] \in Nat /\ Cardinality(WritesOf(calls, x)) \in Nat
          /\ server[x] + Cardinality(WritesOf(calls, x)) <= screen.made
      BY <1>01, <1>02, <1>5, <2>3
    <3>2. CASE x = c.part
      <4>1. WritesOf(calls', x) \subseteq WritesOf(calls, x) \ {c} /\ c \in WritesOf(calls, x)
        BY <1>5, <3>2 DEF WritesOf
      <4>2. /\ IsFiniteSet(WritesOf(calls', x))
            /\ Cardinality(WritesOf(calls', x)) \in 0..(Cardinality(WritesOf(calls, x)) - 1)
        BY <1>02, <2>3, <4>1, CountsOf
      <4>3. server'[x] \in {server[x], server[x] + 1}
        BY <1>5, <2>2, <2>3, <3>2 DEF Stored
      <4> QED BY <3>1, <4>2, <4>3
    <3>3. CASE x # c.part
      <4>1. WritesOf(calls', x) \subseteq WritesOf(calls, x)
        BY <1>5 DEF WritesOf
      <4>2. /\ IsFiniteSet(WritesOf(calls', x))
            /\ Cardinality(WritesOf(calls', x)) \in 0..Cardinality(WritesOf(calls, x))
        BY <1>02, <2>3, <4>1, CountsOf
      <4>3. server'[x] = server[x]
        BY <1>5, <2>1, <2>2, <2>3, <3>3 DEF Stored
      <4> QED BY <3>1, <4>2, <4>3
    <3> QED BY <3>2, <3>3
  <2>4. \A e \in calls' : TaxonomyCallTyped(e)
    BY <1>0, <1>5
  <2>5. EachCounted(screen'.made, calls', server')
    BY <2>3 DEF EachCounted
  <2> QED BY <1>0, <1>5, <2>4, <2>5 DEF TaxonomyTyped
\* Loads.
<1>6. CASE PressReload
  <2>1. screen' \in TaxonomyScreens /\ screen'.made = screen.made
        /\ calls' \subseteq calls \cup {FreshLoad} /\ server' = server
    BY <1>0, <1>6, RestartTyped DEF PressReload
  <2> QED BY <1>2, <2>1, FreshCalls
<1>7. ASSUME NEW c \in calls, ServerReads(c) \/ TaxonomyArrives(c) PROVE TaxonomyTyped'
  <2>1. c.kind = "load" /\ DOMAIN c = {"kind", "taxonomy", "lists", "here"}
        /\ c.taxonomy \in Age /\ c.lists \in Age
    BY <1>0, <1>7 DEF ServerReads, TaxonomyArrives, TaxonomyCall, TaxonomyCallTyped
  <2>2. server["taxonomy"] \in Age /\ server["lists"] \in Age
    BY <1>0, TaxonomyBounds
  <2>3. PICK d : /\ calls' = (calls \ {c}) \cup {d}
                 /\ \/ d = [c EXCEPT !.taxonomy = server["taxonomy"], !.lists = server["lists"]]
                    \/ d = [c EXCEPT !.here = TRUE]
    BY <1>7 DEF ServerReads, TaxonomyArrives
  <2>4. d.kind = "load" /\ d.taxonomy \in Age /\ d.lists \in Age
    BY <2>1, <2>2, <2>3
  <2>5. TaxonomyCallTyped(d)
    BY <2>4 DEF TaxonomyCallTyped
  <2>6. screen' = screen /\ server' = server /\ calls' \subseteq calls \cup {d}
    BY <1>7, <2>3 DEF ServerReads, TaxonomyArrives
  <2> QED BY <1>0, <1>2, <2>4, <2>5, <2>6
<1>8. ASSUME NEW c \in calls, LoadArrives(c) PROVE TaxonomyTyped'
  <2>1. PICK lists \in {c.lists, Emptied}, first \in Paths :
          screen' = [screen EXCEPT !.busy = FALSE,
                       !.data = [taxonomy |-> c.taxonomy, lists |-> lists],
                       !.path = IF screen.path = None THEN first ELSE screen.path]
    BY <1>8 DEF LoadArrives
  <2>2. c.taxonomy \in Age /\ c.lists \in Age
    BY <1>0, <1>8 DEF LoadArrives, TaxonomyCallTyped
  <2>3. lists \in Age
    BY <2>1, <2>2, TaxonomyBounds
  <2>4. PICK data : data = [taxonomy |-> c.taxonomy, lists |-> lists]
    OBVIOUS
  <2>5. data \in [Parts -> Age]
    BY <2>2, <2>3, <2>4, LoadedData
  <2>6. PICK path : path = IF screen.path = None THEN first ELSE screen.path
    OBVIOUS
  <2>7. path \in Paths \cup {None}
    BY <1>01, <2>1, <2>6
  <2>8. screen' = [screen EXCEPT !.busy = FALSE, !.data = data, !.path = path]
    BY <2>1, <2>4, <2>6
  <2>9. screen' \in TaxonomyScreens
    BY <1>0, <2>5, <2>7, <2>8, Zenon DEF TaxonomyScreens
  <2>10. screen'.made = screen.made
    BY <1>0, <2>8 DEF TaxonomyScreens
  <2> QED BY <1>3, <1>8, <2>9, <2>10 DEF LoadArrives, Ended
<1>9. ASSUME NEW c \in calls, LoadFails(c) PROVE TaxonomyTyped'
  <2>1. screen' = [screen EXCEPT !.busy = FALSE, !.error = TRUE]
    BY <1>9 DEF LoadFails
  <2>2. screen' \in TaxonomyScreens
    BY <1>0, <2>1, Zenon DEF TaxonomyScreens
  <2>3. screen'.made = screen.made
    BY <1>0, <2>1 DEF TaxonomyScreens
  <2> QED BY <1>3, <1>9, <2>2, <2>3 DEF LoadFails, Ended
\* Topics.
<1>10. ASSUME NEW p \in TaxonomyScreens, NEW s, NEW rest, TopicsLoad(p, s, rest)
       PROVE  /\ screen' \in TaxonomyScreens /\ screen'.made = p.made
              /\ calls' \subseteq rest \cup {TopicsCall(s)}
  <2>1. CASE p.subject # s
    BY <1>10, <2>1 DEF TopicsLoad
  <2>2. CASE p.subject = s
    <3>1. screen' = [p EXCEPT !.topics = NoTopics] /\ calls' \subseteq rest \cup {TopicsCall(s)}
      BY <1>10, <2>2 DEF TopicsLoad
    <3>2. screen' \in TaxonomyScreens
      BY <1>10, <3>1, TaxonomyBounds, Zenon DEF TaxonomyScreens
    <3>3. screen'.made = p.made
      BY <1>10, <3>1 DEF TaxonomyScreens
    <3> QED BY <3>1, <3>2, <3>3
  <2> QED BY <2>1, <2>2
<1>11. ASSUME NEW path \in Paths \cup {None}, NEW subject \in Subjects \cup {None},
              NEW tab \in TaxonomyTabs, Rescope(path, subject, tab)
       PROVE  TaxonomyTyped'
  <2>1. PICK moved : moved = (<<path, subject>> # <<screen.path, screen.subject>>)
    OBVIOUS
  <2>2. PICK topics : topics = IF moved THEN NoTopics ELSE screen.topics
    OBVIOUS
  <2>3. PICK editor : editor = (screen.editor /\ ~moved)
    OBVIOUS
  <2>4. topics \in TopicRows /\ editor \in BOOLEAN
    BY <1>01, <2>1, <2>2, <2>3, TaxonomyBounds
  <2>5. PICK p : p = [screen EXCEPT !.path = path, !.subject = subject, !.tab = tab,
                                    !.topics = topics, !.editor = editor]
    OBVIOUS
  <2>6. p \in TaxonomyScreens
    BY <1>0, <1>11, <2>4, <2>5, Zenon DEF TaxonomyScreens
  <2>7. p.made = screen.made
    BY <1>0, <2>5 DEF TaxonomyScreens
  <2>8. server' = server /\ (\/ TopicsLoad(p, subject, calls)
                             \/ screen' = p /\ calls' \subseteq calls)
    BY <1>11, <2>1, <2>2, <2>3, <2>5 DEF Rescope
  <2>9. CASE screen' = p /\ calls' \subseteq calls
    BY <1>3, <2>6, <2>7, <2>8, <2>9
  <2>10. CASE TopicsLoad(p, subject, calls)
    BY <1>2, <1>10, <2>6, <2>7, <2>8, <2>10, FreshCalls
  <2> QED BY <2>8, <2>9, <2>10
<1>12. ASSUME NEW c \in calls, ServerReadsTopics(c) PROVE TaxonomyTyped'
  <2>1. c.kind = "topics" /\ DOMAIN c = {"kind", "subject", "at"} /\ c.subject \in Subjects
    BY <1>0, <1>12 DEF ServerReadsTopics, TaxonomyCall, TaxonomyInv, TopicsHold, TopicsOf
  <2>2. server[c.subject] \in Age
    BY <1>0, <2>1, TaxonomyBounds
  <2>3. PICK d : d = [c EXCEPT !.at = server[c.subject]]
    OBVIOUS
  <2>4. d.kind = "topics" /\ d.at \in Age
    BY <2>1, <2>2, <2>3
  <2>5. TaxonomyCallTyped(d)
    BY <2>4 DEF TaxonomyCallTyped
  <2>6. screen' = screen /\ server' = server /\ calls' \subseteq calls \cup {d}
    BY <1>12, <2>3 DEF ServerReadsTopics
  <2> QED BY <1>0, <1>2, <2>4, <2>5, <2>6
<1>13. ASSUME NEW c \in calls, TopicsArrive(c) PROVE TaxonomyTyped'
  <2>1. PICK topics \in {NoTopics} \cup
                        {[of |-> c.subject, at |-> c.at] : x \in {c.at} \ {Emptied}} :
          screen' = IF TopicsCurrent(c) THEN [screen EXCEPT !.topics = topics] ELSE screen
    BY <1>13 DEF TopicsArrive
  <2>2. c.subject \in Subjects \cup {None} /\ c.at \in Age
    BY <1>0, <1>13 DEF TopicsArrive, TaxonomyInv, TopicsHold, TopicsOf, TaxonomyCallTyped
  <2>3. [of |-> c.subject, at |-> c.at] \in TopicRows
    BY <2>2, Zenon DEF TopicRows
  <2>4. topics \in TopicRows
    BY <2>1, <2>3, TaxonomyBounds
  <2>5. [screen EXCEPT !.topics = topics] \in TaxonomyScreens
    BY <1>0, <2>4, Zenon DEF TaxonomyScreens
  <2>6. [screen EXCEPT !.topics = topics].made = screen.made
    BY <1>0 DEF TaxonomyScreens
  <2> QED BY <1>0, <1>3, <1>13, <2>1, <2>5, <2>6 DEF TopicsArrive, Ended
\* Writes.
<1>14. ASSUME NEW p \in TaxonomyScreens, p.made = screen.made,
              NEW key \in Dialogs \cup {None, "toggle"}, NEW part, NEW style, NEW dialog,
              Run(p, key, part, style, dialog)
       PROVE  TaxonomyTyped'
  <2>1. PICK q : q = [p EXCEPT !.pending = key, !.error = FALSE]
    OBVIOUS
  <2>2. q \in TaxonomyScreens
    BY <1>14, <2>1, Zenon DEF TaxonomyScreens
  <2>3. q.made = screen.made
    BY <1>14, <2>1 DEF TaxonomyScreens
  <2>4. PICK w : w = Write(part, style, dialog)
    OBVIOUS
  <2>5. w.kind \in {"write", "topic"}
    BY <2>4 DEF Write
  <2>6. Begin(q, w)
    BY <1>14, <2>1, <2>4 DEF Run
  <2> QED BY <1>4, <2>2, <2>3, <2>5, <2>6
<1>15. ASSUME NEW part, NEW dialog, RunInline(part, dialog) PROVE TaxonomyTyped'
  <2>1. PICK q : q = [screen EXCEPT !.busy = TRUE]
    OBVIOUS
  <2>2. q \in TaxonomyScreens
    BY <1>0, <2>1, Zenon DEF TaxonomyScreens
  <2>3. q.made = screen.made
    BY <1>0, <2>1 DEF TaxonomyScreens
  <2>4. PICK w : w = Write(part, "inline", dialog)
    OBVIOUS
  <2>5. w.kind \in {"write", "topic"}
    BY <2>4 DEF Write
  <2>6. Begin(q, w)
    BY <1>15, <2>1, <2>4 DEF RunInline
  <2> QED BY <1>4, <2>2, <2>3, <2>5, <2>6
<1>16. ASSUME NEW p \in TaxonomyScreens, NEW c
       PROVE  /\ Closed(p, c) \in TaxonomyScreens /\ Closed(p, c).made = p.made
              /\ Unpended(p, c) \in TaxonomyScreens /\ Unpended(p, c).made = p.made
  <2>1. [p EXCEPT !.dialog = None] \in TaxonomyScreens
    BY <1>16, TaxonomyBounds, Zenon DEF TaxonomyScreens
  <2>2. [p EXCEPT !.pending = None] \in TaxonomyScreens
    BY <1>16, TaxonomyBounds, Zenon DEF TaxonomyScreens
  <2>3. [p EXCEPT !.dialog = None].made = p.made /\ [p EXCEPT !.pending = None].made = p.made
    BY <1>16 DEF TaxonomyScreens
  <2>4. Closed(p, c) \in {p, [p EXCEPT !.dialog = None]}
    BY Zenon DEF Closed
  <2>5. Unpended(p, c) \in {p, [p EXCEPT !.pending = None]}
    BY Zenon DEF Unpended
  <2>6. Closed(p, c) \in TaxonomyScreens /\ Closed(p, c).made = p.made
    BY <1>16, <2>1, <2>3, <2>4
  <2>7. Unpended(p, c) \in TaxonomyScreens /\ Unpended(p, c).made = p.made
    BY <1>16, <2>2, <2>3, <2>5
  <2> QED BY <2>6, <2>7
<1>17. ASSUME NEW c \in calls, c.kind \in {"write", "topic"}
       PROVE  Confirm(screen, c) \in TaxonomyScreens /\ Confirm(screen, c).made = screen.made
  <2>1. PICK n : n = server[c.part] + 1
    OBVIOUS
  <2>2. c.part \in Counters
    BY <1>0, <1>17, TaxonomyBounds DEF TaxonomyCall, Parts
  <2>3. n \in Nat
    BY <1>02, <2>1, <2>2
  <2>4. PICK confirmed : confirmed = [screen.confirmed EXCEPT ![c.part] = n]
    OBVIOUS
  <2>5. confirmed \in [Counters -> Nat]
    BY <1>01, <2>3, <2>4
  <2>6. Confirm(screen, c) = [screen EXCEPT !.confirmed = confirmed]
    BY <2>1, <2>4 DEF Confirm
  <2>7. Confirm(screen, c) \in TaxonomyScreens
    BY <1>0, <2>5, <2>6, Zenon DEF TaxonomyScreens
  <2> QED BY <1>0, <2>6, <2>7 DEF TaxonomyScreens
<1>18. ASSUME NEW c \in calls, WriteConfirmed(c) PROVE TaxonomyTyped'
  <2>1. PICK p : p = Unpended(Closed(Confirm(screen, c), c), c)
    OBVIOUS
  <2>2. c.kind \in {"write", "topic"}
    BY <1>18 DEF WriteConfirmed
  <2>3. p \in TaxonomyScreens /\ p.made = screen.made
    BY <1>16, <1>17, <2>1, <2>2
  <2>4. Restart(p, {c}) /\ Stored(c)
    BY <1>18, <2>1 DEF WriteConfirmed
  <2>5. screen' \in TaxonomyScreens /\ screen'.made = p.made
        /\ calls' \subseteq (calls \ {c}) \cup {FreshLoad}
    BY <1>0, <2>3, <2>4, RestartTyped
  <2> QED BY <1>5, <2>2, <2>3, <2>4, <2>5, FreshCalls
<1>19. ASSUME NEW c \in calls, WriteFails(c) PROVE TaxonomyTyped'
  <2>1. PICK q : q = Unpended(screen, c)
    OBVIOUS
  <2>2. q \in TaxonomyScreens /\ q.made = screen.made
    BY <1>0, <1>16, <2>1
  <2>3. PICK failed : failed = [q EXCEPT !.error = TRUE]
    OBVIOUS
  <2>4. failed \in TaxonomyScreens
    BY <2>2, <2>3, Zenon DEF TaxonomyScreens
  <2>5. failed.made = screen.made
    BY <2>2, <2>3 DEF TaxonomyScreens
  <2>6. PICK idle : idle = [failed EXCEPT !.busy = FALSE]
    OBVIOUS
  <2>7. idle \in TaxonomyScreens
    BY <2>4, <2>6, Zenon DEF TaxonomyScreens
  <2>8. idle.made = screen.made
    BY <2>4, <2>5, <2>6 DEF TaxonomyScreens
  <2>9. screen' \in {failed, idle, Closed(failed, c)} /\ c.kind = "write"
        /\ (Stored(c) \/ server' = server) /\ calls' = calls \ {c}
    BY <1>19, <2>1, <2>3, <2>6 DEF WriteFails, Ended
  <2>10. screen' \in TaxonomyScreens /\ screen'.made = screen.made
    BY <1>16, <2>4, <2>5, <2>7, <2>8, <2>9
  <2>11. calls' \subseteq (calls \ {c}) \cup {FreshLoad}
    BY <2>9
  <2> QED BY <1>5, <2>9, <2>10, <2>11, FreshCalls
<1>20. ASSUME NEW c \in calls, TopicSaved(c) PROVE TaxonomyTyped'
  <2>1. c.kind \in {"write", "topic"} /\ Stored(c)
    BY <1>20 DEF TopicSaved
  <2>2. PICK p : p = Confirm(screen, c)
    OBVIOUS
  <2>3. p \in TaxonomyScreens /\ p.made = screen.made
    BY <1>17, <2>1, <2>2
  <2>4. PICK q : q = [p EXCEPT !.editor = FALSE]
    OBVIOUS
  <2>5. q \in TaxonomyScreens
    BY <2>3, <2>4, Zenon DEF TaxonomyScreens
  <2>6. q.made = screen.made
    BY <2>3, <2>4 DEF TaxonomyScreens
  <2>7. TopicsLoad(q, c.part, calls \ {c})
    BY <1>20, <2>2, <2>4 DEF TopicSaved
  <2>8. screen' \in TaxonomyScreens /\ screen'.made = q.made
        /\ calls' \subseteq (calls \ {c}) \cup {TopicsCall(c.part)}
    BY <1>10, <2>5, <2>7
  <2> QED BY <1>5, <2>1, <2>6, <2>8, FreshCalls
<1>21. ASSUME NEW c \in calls, TopicFails(c) PROVE TaxonomyTyped'
  <2>1. c.kind \in {"write", "topic"} /\ (Stored(c) \/ server' = server) /\ screen' = screen
        /\ calls' \subseteq (calls \ {c}) \cup {FreshLoad}
    BY <1>21 DEF TopicFails, Ended
  <2> QED BY <1>0, <1>5, <2>1, FreshCalls
\* Dialogs and buttons.
<1>22. ASSUME NEW d, d \in Dialogs, OpenDialog(d) \/ CloseDialog(d) PROVE TaxonomyTyped'
  <2>1. d \in Dialogs \cup {None}
    BY <1>22
  <2>2. \/ screen' = [screen EXCEPT !.dialog = d]
        \/ screen' = [screen EXCEPT !.dialog = None]
    BY <1>22 DEF OpenDialog, CloseDialog
  <2>3. screen' \in TaxonomyScreens
    BY <1>0, <2>1, <2>2, TaxonomyBounds, Zenon DEF TaxonomyScreens
  <2>4. screen'.made = screen.made
    BY <1>0, <2>2 DEF TaxonomyScreens
  <2> QED BY <1>3, <1>22, <2>3, <2>4 DEF OpenDialog, CloseDialog
<1>23. /\ Dialogs \subseteq Dialogs \cup {None, "toggle"} /\ "toggle" \in Dialogs \cup {None, "toggle"}
       /\ "path" \in Dialogs /\ "level" \in Dialogs /\ "subject" \in Dialogs /\ "skill" \in Dialogs
       /\ "package" \in Dialogs /\ "mock" \in Dialogs /\ "library" \in Dialogs
       /\ "delete" \in Dialogs
  BY DEF Dialogs
<1>24. ASSUME NEW row \in Dialogs, PatchStatus(screen, row) PROVE TaxonomyTyped'
  BY <1>0, <1>14, <1>23, <1>24 DEF PatchStatus
<1>25. CASE PathDialog \/ LevelDialog \/ SubjectDialog \/ SkillDialog \/ PackageDialog
  <2>1. ASSUME NEW key \in Dialogs, NEW part, NEW style, Run(screen, key, part, style, key)
        PROVE  TaxonomyTyped'
    BY <1>0, <1>14, <1>23, <2>1
  <2>2. CASE PathDialog \/ LevelDialog
    BY <1>22, <1>23, <2>1, <2>2 DEF PathDialog, LevelDialog, SavePath, SaveLevel
  <2>3. CASE SubjectDialog \/ SkillDialog
    BY <1>22, <1>23, <2>1, <2>3 DEF SubjectDialog, SkillDialog, SaveSubject, SaveSkill
  <2>4. CASE PackageDialog
    BY <1>22, <1>23, <2>1, <2>4 DEF PackageDialog, CreatePathPackage
  <2> QED BY <1>25, <2>2, <2>3, <2>4
<1>26. CASE MockDialog \/ LibraryDialog
  BY <1>15, <1>22, <1>23, <1>26 DEF MockDialog, LibraryDialog
<1>27. CASE DeleteDialog
  <2>1. PICK p : p = [screen EXCEPT !.dialog = None]
    OBVIOUS
  <2>2. p \in TaxonomyScreens
    BY <1>0, <2>1, TaxonomyBounds, Zenon DEF TaxonomyScreens
  <2>3. p.made = screen.made
    BY <1>0, <2>1 DEF TaxonomyScreens
  <2>4. CASE CloseDialog("delete")
    BY <1>22, <1>23, <2>4
  <2>5. CASE \E row \in {"path", "level", "subject", "skill"} : PatchStatus(p, row)
    <3>1. PICK row \in Dialogs : PatchStatus(p, row)
      BY <1>23, <2>5
    <3> QED BY <1>14, <1>23, <2>2, <2>3, <3>1 DEF PatchStatus
  <2> QED BY <1>27, <2>1, <2>4, <2>5 DEF DeleteDialog
<1>28. CASE PageHeader \/ PathCard \/ SubjectsTab \/ LevelsTab
  BY <1>22, <1>23, <1>24, <1>28 DEF PageHeader, PathCard, SubjectsTab, LevelsTab
<1>29. CASE MockExamsTab \/ PackagesTab \/ LibraryTab \/ SettingsTab
  BY <1>15, <1>22, <1>23, <1>29 DEF MockExamsTab, PackagesTab, LibraryTab, SettingsTab
<1>30. CASE PathSettingsTab \/ SkillsTab
  <2>1. TogglePathSetting => TaxonomyTyped'
    BY <1>0, <1>14, <1>23 DEF TogglePathSetting
  <2> QED BY <1>22, <1>23, <1>24, <1>30, <2>1 DEF PathSettingsTab, SkillsTab
<1>31. ASSUME NEW p \in Paths, SelectPath(p) PROVE TaxonomyTyped'
  BY <1>01, <1>11, <1>31, TaxonomyBounds DEF SelectPath
<1>32. ASSUME NEW s \in Subjects, OpenSubject(s) PROVE TaxonomyTyped'
  BY <1>01, <1>11, <1>32 DEF OpenSubject, TaxonomyTabs
<1>33. CASE LeaveSubject
  BY <1>01, <1>11, <1>33, TaxonomyBounds DEF LeaveSubject
<1>34. ASSUME NEW tab \in TaxonomyTabs, SubjectTabs(tab) PROVE TaxonomyTyped'
  BY <1>01, <1>11, <1>34 DEF SubjectTabs
<1>35. CASE FoundationTab
  <2>1. PICK editor : editor = ~screen.editor
    OBVIOUS
  <2>2. editor \in BOOLEAN
    BY <1>01, <2>1
  <2>3. CASE screen' = [screen EXCEPT !.editor = editor] /\ calls' = calls /\ server' = server
    <3>1. screen' \in TaxonomyScreens
      BY <1>0, <2>2, <2>3, Zenon DEF TaxonomyScreens
    <3>2. screen'.made = screen.made
      BY <1>0, <2>3 DEF TaxonomyScreens
    <3> QED BY <1>3, <2>3, <3>1, <3>2
  <2> DEFINE d == [kind |-> "topic", part |-> screen.subject, n |-> screen.made + 1]
  <2>4. d.kind \in {"write", "topic"}
    OBVIOUS
  <2>5. CASE Begin(screen, d)
    <3> HIDE DEF d
    <3> QED BY <1>0, <1>4, <2>4, <2>5
  <2> QED BY <1>35, <2>1, <2>3, <2>5 DEF FoundationTab
<1>36. CASE TaxonomyNext
  <2>1. ASSUME NEW c \in calls,
               \/ ServerReads(c) \/ TaxonomyArrives(c) \/ LoadArrives(c) \/ LoadFails(c)
               \/ ServerReadsTopics(c) \/ TopicsArrive(c)
               \/ WriteConfirmed(c) \/ WriteFails(c)
               \/ TopicSaved(c) \/ TopicFails(c)
        PROVE  TaxonomyTyped'
    BY <1>7, <1>8, <1>9, <1>12, <1>13, <1>18, <1>19, <1>20, <1>21, <2>1
  <2>2. ASSUME \E tab \in {"foundation", "skills", "other"} : SubjectTabs(tab) PROVE TaxonomyTyped'
    BY <1>34, <2>2 DEF TaxonomyTabs
  <2> QED BY <1>6, <1>25, <1>26, <1>27, <1>28, <1>29, <1>30, <1>31, <1>32, <1>33, <1>35, <1>36, <2>1, <2>2
          DEF TaxonomyNext
<1> QED BY <1>1, <1>36

\* What was announced is stored, and so no more than was begun.
LEMMA ConfirmedBounded == TaxonomyTyped => screen.confirmed \in [Counters -> 0..MaxWrites]
<1> SUFFICES ASSUME TaxonomyTyped PROVE screen.confirmed \in [Counters -> 0..MaxWrites]
  OBVIOUS
<1>1. /\ screen.confirmed \in [Counters -> Nat] /\ server \in [Counters -> Nat]
      /\ \A x \in Counters : screen.confirmed[x] <= server[x]
      /\ \A x \in Counters : server[x] \in 0..MaxWrites
  BY CountersBounded DEF TaxonomyTyped, TaxonomyInv, TaxonomyShape
<1>2. \A x \in Counters : screen.confirmed[x] \in 0..MaxWrites
  BY <1>1, TaxonomyBounds
<1> QED BY <1>1, <1>2

(***************************************************************************)
(* The types of ContentAdmin.                                                *)
(***************************************************************************)
ContentRowSets == [view : ContentViews \cup {Nowhere}, age : StoredWrites, more : BOOLEAN]
ContentScreens ==
  [page : {"content"}, teacher : BOOLEAN, view : ContentViews, typed : Searches,
   pause : BOOLEAN, loaded : ContentViews \cup {Nowhere}, loading : BOOLEAN,
   rows : ContentRowSets, editor : ContentEditor,
   mutating : [Tabs -> ContentRows \cup {"none"}], made : 0..MaxChanges,
   confirmed : StoredWrites]

ContentCallTyped(c) ==
  /\ c.kind = "list" => c.age \in StoredWrites \cup {-1}
  /\ c.kind = "row" =>
       c.tab \in Tabs /\ c.steps \in 1..2 /\ DOMAIN c = {"kind", "n", "tab", "steps"}
  /\ c.kind = "editor" => c.editor \in ContentEditor \ {"none"}

\* The requests that are still to be stored, and those of them that are two.
Writing(cs) == {c \in cs : c.kind \in {"row", "editor"}}
Doubled(cs) == {c \in cs : c.kind = "row" /\ c.steps = 2}

\* A write begun in the page is stored at most twice.
ContentWritesCounted ==
  /\ IsFiniteSet(Writing(calls)) /\ IsFiniteSet(Doubled(calls)) /\ server \in Nat
  /\ server + Cardinality(Writing(calls)) + Cardinality(Doubled(calls)) <= 2 * screen.made

ContentTyped ==
  /\ ContentInv /\ screen \in ContentScreens /\ \A c \in calls : ContentCallTyped(c)
  /\ ContentWritesCounted

LEMMA ContentBounds ==
  /\ MaxChanges \in Nat /\ MaxPage \in Nat /\ 1 \in 1..MaxPage /\ 0 \in StoredWrites
  /\ 0 \in 0..MaxChanges /\ "courses" \in Tabs /\ NoRows \in ContentRowSets
<1>1. MaxChanges \in Nat \ {0} /\ MaxPage \in Nat \ {0} /\ "courses" \in Tabs
  BY ContentAdminAssumption DEF ContentAdminAssumption
<1>2. 0 \in StoredWrites
  BY <1>1 DEF StoredWrites
<1>3. Nowhere \in ContentViews \cup {Nowhere} /\ FALSE \in BOOLEAN
  OBVIOUS
<1>4. NoRows \in ContentRowSets
  BY <1>2, <1>3, Zenon DEF NoRows, ContentRowSets
<1> QED BY <1>1, <1>2, <1>4

\* The writes that are stored are few enough.
LEMMA StoredIsBounded ==
  ASSUME ContentWritesCounted, screen \in ContentScreens
  PROVE  server \in StoredWrites
<1>1. Cardinality(Writing(calls)) \in Nat /\ Cardinality(Doubled(calls)) \in Nat
  BY FS_CardinalityType DEF ContentWritesCounted
<1>2. screen.made \in 0..MaxChanges
  BY DEF ContentScreens
<1> QED BY <1>1, <1>2, ContentBounds DEF ContentWritesCounted, StoredWrites

LEMMA ContentTypedStart == ContentInit => ContentTyped
<1> SUFFICES ASSUME ContentInit PROVE ContentTyped
  OBVIOUS
<1>1. PICK teacher \in BOOLEAN, search \in Searches, tab \in Tabs :
        LET w == [tab |-> tab, page |-> 1, filter |-> "all", search |-> search]
        IN /\ screen = [page |-> "content", teacher |-> teacher, view |-> w, typed |-> search,
                        pause |-> FALSE, loaded |-> Nowhere, loading |-> ~teacher,
                        rows |-> NoRows, editor |-> "none",
                        mutating |-> [t \in Tabs |-> "none"], made |-> 0, confirmed |-> 0]
           /\ calls = IF teacher THEN {} ELSE {FreshList(w)}
  BY DEF ContentInit, TabsFor
<1>2. PICK v : v = [tab |-> tab, page |-> 1, filter |-> "all", search |-> search]
  OBVIOUS
<1>3. v \in ContentViews
  BY <1>2, ContentBounds DEF ContentViews, Filters
<1>4. PICK loading : loading = ~teacher
  OBVIOUS
<1>5. loading \in BOOLEAN
  BY <1>4
<1>6. PICK mutating : mutating = [t \in Tabs |-> "none"]
  OBVIOUS
<1>7. mutating \in [Tabs -> ContentRows \cup {"none"}]
  BY <1>6
<1>8. "none" \in ContentEditor /\ Nowhere \in ContentViews \cup {Nowhere}
  BY DEF ContentEditor
<1>9. screen = [page |-> "content", teacher |-> teacher, view |-> v, typed |-> search,
                pause |-> FALSE, loaded |-> Nowhere, loading |-> loading, rows |-> NoRows,
                editor |-> "none", mutating |-> mutating, made |-> 0, confirmed |-> 0]
  BY <1>1, <1>2, <1>4, <1>6
<1>10. screen \in ContentScreens
  BY <1>3, <1>5, <1>7, <1>8, <1>9, ContentBounds, Zenon DEF ContentScreens
<1>11. \A c \in calls : c.kind = "list" /\ c.age = -1
  BY <1>1 DEF FreshList
<1>12. Writing(calls) = {} /\ Doubled(calls) = {}
  BY <1>11 DEF Writing, Doubled
<1>13. IsFiniteSet({}) /\ Cardinality({}) = 0 /\ server = 0 /\ screen.made = 0
  BY <1>9, FS_EmptySet DEF ContentInit
<1>14. ContentWritesCounted
  BY <1>12, <1>13 DEF ContentWritesCounted
<1> QED BY <1>10, <1>11, <1>14, ContentStart DEF ContentTyped, ContentCallTyped

\* The list is asked for again: it is no write.
LEMMA RefetchTyped ==
  ASSUME NEW p \in ContentScreens, NEW over, Refetch(p, over)
  PROVE  /\ screen' \in ContentScreens /\ screen'.made = p.made
         /\ calls' \subseteq (calls \ over) \cup {FreshList(p.view)}
<1>1. PICK loading \in BOOLEAN : loading = ~Waiting(p)
  OBVIOUS
<1>2. screen' = [p EXCEPT !.rows = NoRows, !.loaded = Nowhere, !.loading = loading]
  BY <1>1 DEF Refetch
<1>3. Nowhere \in ContentViews \cup {Nowhere}
  OBVIOUS
<1>4. screen' \in ContentScreens
  BY <1>2, <1>3, ContentBounds, Zenon DEF ContentScreens
<1>5. screen'.made = p.made
  BY <1>2 DEF ContentScreens
<1> QED BY <1>4, <1>5 DEF Refetch

LEMMA FreshListForm ==
  ASSUME NEW v
  PROVE  ContentCallTyped(FreshList(v)) /\ FreshList(v).kind = "list"
BY DEF FreshList, ContentCallTyped

LEMMA ContentTypedStep == ContentTyped /\ [ContentNext]_tabVars => ContentTyped'
<1> SUFFICES ASSUME ContentTyped, [ContentNext]_tabVars PROVE ContentTyped'
  OBVIOUS
<1> DEFINE W == Writing(calls)
           D == Doubled(calls)
<1>0. /\ ContentInv' /\ screen \in ContentScreens /\ \A c \in calls : ContentCallTyped(c)
      /\ IsFiniteSet(W) /\ IsFiniteSet(D) /\ server \in Nat /\ Cardinality(W) \in Nat
      /\ Cardinality(D) \in Nat /\ server + Cardinality(W) + Cardinality(D) <= 2 * screen.made
      /\ screen.made \in 0..MaxChanges /\ screen.view \in ContentViews
      /\ server \in StoredWrites
  <2>1. IsFiniteSet(W) /\ IsFiniteSet(D) /\ screen \in ContentScreens /\ server \in StoredWrites
    BY StoredIsBounded DEF ContentTyped, ContentWritesCounted
  <2>2. Cardinality(W) \in Nat /\ Cardinality(D) \in Nat
    BY <2>1, FS_CardinalityType
  <2>3. screen.made \in 0..MaxChanges /\ screen.view \in ContentViews
    BY <2>1 DEF ContentScreens
  <2> QED BY <2>1, <2>2, <2>3, ContentStep DEF ContentTyped, ContentWritesCounted
<1>1. CASE UNCHANGED tabVars
  BY <1>0, <1>1 DEF tabVars, ContentTyped, ContentWritesCounted
\* No write begins, is stored or ends.
<1>2. ASSUME NEW p, screen' = p, p \in ContentScreens, p.made = screen.made, server' = server,
             NEW d, d.kind = "list", ContentCallTyped(d), calls' \subseteq calls \cup {d}
      PROVE  ContentTyped'
  <2>1. Writing(calls') \subseteq W /\ Doubled(calls') \subseteq D
    BY <1>2 DEF Writing, Doubled
  <2>2. /\ IsFiniteSet(Writing(calls')) /\ Cardinality(Writing(calls')) \in 0..Cardinality(W)
        /\ IsFiniteSet(Doubled(calls')) /\ Cardinality(Doubled(calls')) \in 0..Cardinality(D)
    BY <1>0, <2>1, CountsOf
  <2>3. server' + Cardinality(Writing(calls')) + Cardinality(Doubled(calls')) <= 2 * screen'.made
    BY <1>0, <1>2, <2>2
  <2>4. \A c \in calls' : ContentCallTyped(c)
    BY <1>0, <1>2
  <2> QED BY <1>0, <1>2, <2>2, <2>3, <2>4 DEF ContentTyped, ContentWritesCounted
<1>3. ASSUME NEW p, screen' = p, p \in ContentScreens, p.made = screen.made, server' = server,
             calls' \subseteq calls
      PROVE  ContentTyped'
  <2>1. calls' \subseteq calls \cup {FreshList(screen.view)}
    BY <1>3
  <2> QED BY <1>2, <1>3, <2>1, FreshListForm
<1>4. ASSUME NEW p \in ContentScreens, p.made = screen.made, NEW v \in ContentViews, ShowView(p, v)
      PROVE  ContentTyped'
  <2>1. CASE v = screen.view
    BY <1>3, <1>4, <2>1 DEF ShowView
  <2>2. CASE v # screen.view
    <3>1. PICK q : q = [p EXCEPT !.view = v]
      OBVIOUS
    <3>2. q \in ContentScreens
      BY <1>4, <3>1, Zenon DEF ContentScreens
    <3>3. q.made = screen.made
      BY <1>4, <3>1 DEF ContentScreens
    <3>4. Refetch(q, {}) /\ server' = server
      BY <1>4, <2>2, <3>1 DEF ShowView
    <3>5. screen' \in ContentScreens /\ screen'.made = screen.made
          /\ calls' \subseteq calls \cup {FreshList(q.view)}
      BY <3>2, <3>3, <3>4, RefetchTyped
    <3> QED BY <1>2, <3>4, <3>5, FreshListForm
  <2> QED BY <2>1, <2>2
\* Views.
<1>5. ASSUME NEW t \in Tabs, NEW f \in Filters, NEW s \in Searches, NEW n \in 1..MaxPage, NEW v,
             \/ v = [screen.view EXCEPT !.tab = t, !.page = n]
             \/ v = [screen.view EXCEPT !.tab = t]
             \/ v = [screen.view EXCEPT !.filter = f, !.page = n]
             \/ v = [screen.view EXCEPT !.search = s, !.page = n]
             \/ v = [screen.view EXCEPT !.page = n]
      PROVE  v \in ContentViews
  BY <1>0, <1>5, Zenon DEF ContentViews
<1>6. /\ "courses" \in Tabs /\ 1 \in 1..MaxPage /\ "all" \in Filters /\ screen.typed \in Searches
      /\ screen.view.page \in 1..MaxPage /\ screen.view.tab \in Tabs
      /\ \A teacher : TabsFor(teacher) \subseteq Tabs
  BY <1>0, ContentBounds DEF ContentScreens, ContentViews, Filters, TabsFor
<1>7. ASSUME NEW t \in Tabs, ChooseTab(t) \/ AddressTab(t) PROVE ContentTyped'
  BY <1>0, <1>4, <1>5, <1>6, <1>7 DEF ChooseTab, AddressTab
<1>8. ASSUME NEW f \in Filters, ChooseFilter(f) PROVE ContentTyped'
  BY <1>0, <1>4, <1>5, <1>6, <1>8 DEF ChooseFilter
<1>9. ASSUME NEW s \in Searches, TypeSearch(s) PROVE ContentTyped'
  <2>1. PICK p : p = [screen EXCEPT !.typed = s, !.pause = TRUE]
    OBVIOUS
  <2>2. p \in ContentScreens
    BY <1>0, <2>1, Zenon DEF ContentScreens
  <2>3. p.made = screen.made
    BY <1>0, <2>1 DEF ContentScreens
  <2> QED BY <1>3, <1>9, <2>1, <2>2, <2>3 DEF TypeSearch
<1>10. CASE PauseOver
  <2>1. PICK p : p = [screen EXCEPT !.pause = FALSE]
    OBVIOUS
  <2>2. p \in ContentScreens
    BY <1>0, <2>1, Zenon DEF ContentScreens
  <2>3. p.made = screen.made
    BY <1>0, <2>1 DEF ContentScreens
  <2> QED BY <1>4, <1>5, <1>6, <1>10, <2>1, <2>2, <2>3 DEF PauseOver
<1>11. CASE Paging
  <2>1. PICK n \in 1..MaxPage : ShowView(screen, [screen.view EXCEPT !.page = n])
    <3>1. \/ screen.view.page > 1 /\ ShowView(screen, [screen.view EXCEPT !.page = screen.view.page - 1])
          \/ screen.view.page < MaxPage
             /\ ShowView(screen, [screen.view EXCEPT !.page = screen.view.page + 1])
      BY <1>11 DEF Paging
    <3>2. /\ screen.view.page > 1 => screen.view.page - 1 \in 1..MaxPage
          /\ screen.view.page < MaxPage => screen.view.page + 1 \in 1..MaxPage
      BY <1>6, ContentBounds
    <3> QED BY <3>1, <3>2
  <2> QED BY <1>0, <1>4, <1>5, <1>6, <2>1
<1>12. CASE PressRefresh
  <2>1. screen' \in ContentScreens /\ screen'.made = screen.made
        /\ calls' \subseteq calls \cup {FreshList(screen.view)} /\ server' = server
    BY <1>0, <1>12, RefetchTyped DEF PressRefresh
  <2> QED BY <1>2, <2>1, FreshListForm
\* The list.
<1>13. ASSUME NEW c \in calls, ListRead(c) PROVE ContentTyped'
  <2>1. DOMAIN c = {"kind", "view", "age"}
    BY <1>13 DEF ListRead, ContentTyped, ContentInv, ContentHolds, ContentCall
  <2>2. PICK d : d = [c EXCEPT !.age = server]
    OBVIOUS
  <2>3. d.kind = "list" /\ d.age = server
    BY <1>13, <2>1, <2>2 DEF ListRead
  <2>4. ContentCallTyped(d)
    BY <1>0, <2>3 DEF ContentCallTyped
  <2>5. calls' \subseteq calls \cup {d} /\ screen' = screen /\ server' = server
    BY <1>13, <2>2 DEF ListRead
  <2> QED BY <1>0, <1>2, <2>3, <2>4, <2>5
<1>14. ASSUME NEW c \in calls, ListArrives(c) \/ ListFails(c) PROVE ContentTyped'
  <2>1. c.view = screen.view
    BY <1>14 DEF ListArrives, ListFails, ContentTyped, ContentInv, ContentHolds, ContentCall
  <2>2. c.view \in ContentViews \cup {Nowhere} /\ c.age \in StoredWrites \cup {-1}
    BY <1>0, <1>14, <2>1 DEF ListArrives, ListFails, ContentCallTyped
  <2>3. PICK rows \in ContentRowSets :
          screen' = [screen EXCEPT !.loading = FALSE, !.loaded = c.view, !.rows = rows]
    <3>1. CASE ListArrives(c)
      <4>1. PICK more \in BOOLEAN :
              screen' = [screen EXCEPT !.loading = FALSE, !.loaded = c.view,
                           !.rows = [view |-> c.view, age |-> c.age, more |-> more]]
        BY <3>1 DEF ListArrives
      <4>2. PICK rows : rows = [view |-> c.view, age |-> c.age, more |-> more]
        OBVIOUS
      <4>3. c.age \in StoredWrites
        BY <2>2, <3>1 DEF ListArrives
      <4>4. rows \in ContentRowSets
        BY <2>2, <4>2, <4>3, Zenon DEF ContentRowSets
      <4> QED BY <4>1, <4>2, <4>4
    <3>2. CASE ListFails(c)
      BY <3>2, ContentBounds DEF ListFails
    <3> QED BY <1>14, <3>1, <3>2
  <2>4. screen' \in ContentScreens
    BY <1>0, <2>2, <2>3, Zenon DEF ContentScreens
  <2>5. screen'.made = screen.made
    BY <1>0, <2>3 DEF ContentScreens
  <2> QED BY <1>3, <1>14, <2>4, <2>5 DEF ListArrives, ListFails, Ended
\* A write begins.
<1>15. ASSUME screen.made < MaxChanges, NEW p \in ContentScreens, p.made = screen.made + 1,
              screen' = p, server' = server, NEW d, d.kind \in {"row", "editor"},
              ContentCallTyped(d), calls' = calls \cup {d}
       PROVE  ContentTyped'
  <2>1. Writing(calls') \subseteq W \cup {d} /\ Doubled(calls') \subseteq D \cup {d}
    BY <1>15 DEF Writing, Doubled
  <2>2. IsFiniteSet(Writing(calls')) /\ Cardinality(Writing(calls')) \in 0..(Cardinality(W) + 1)
    BY <1>0, <2>1, CountsOf
  <2>5. IsFiniteSet(Doubled(calls')) /\ Cardinality(Doubled(calls')) \in 0..(Cardinality(D) + 1)
    BY <1>0, <2>1, CountsOf
  <2>6. /\ screen'.made = screen.made + 1 /\ server' = server
        /\ server + Cardinality(W) + Cardinality(D) <= 2 * screen.made
        /\ screen.made \in Nat /\ server \in Nat
    BY <1>0, <1>15
  <2>3. server' + Cardinality(Writing(calls')) + Cardinality(Doubled(calls')) <= 2 * screen'.made
    <3> HIDE DEF W, D
    <3> QED BY <1>0, <2>2, <2>5, <2>6
  <2>4. \A c \in calls' : ContentCallTyped(c)
    BY <1>0, <1>15
  <2> QED BY <1>0, <1>15, <2>2, <2>3, <2>4, <2>5, <2>6 DEF ContentTyped, ContentWritesCounted
<1>16. ASSUME screen.made < MaxChanges PROVE screen.made + 1 \in 0..MaxChanges
  BY <1>0, <1>16, ContentBounds
<1>17. ASSUME NEW r \in ContentRows, NEW t, NEW steps \in 1..2, RowAction(r, t, steps)
       PROVE  ContentTyped'
  <2>1. t \in Tabs
    BY <1>6, <1>17 DEF RowAction, MayAct
  <2>2. PICK made : made = screen.made + 1
    OBVIOUS
  <2>3. made \in 0..MaxChanges /\ screen.made < MaxChanges
    BY <1>16, <1>17, <2>2 DEF RowAction
  <2>4. PICK mutating : mutating = [screen.mutating EXCEPT ![t] = r]
    OBVIOUS
  <2>5. mutating \in [Tabs -> ContentRows \cup {"none"}]
    BY <1>0, <2>1, <2>4 DEF ContentScreens
  <2>6. PICK p : p = [screen EXCEPT !.made = made, !.mutating = mutating]
    OBVIOUS
  <2>7. p \in ContentScreens
    BY <1>0, <2>3, <2>5, <2>6, Zenon DEF ContentScreens
  <2>8. p.made = made
    BY <1>0, <2>6 DEF ContentScreens
  <2>9. screen' = p
    BY <1>17, <2>2, <2>4, <2>6 DEF RowAction
  <2> DEFINE d == [kind |-> "row", n |-> screen.made, tab |-> t, steps |-> steps]
  <2>10. ContentCallTyped(d) /\ d.kind = "row"
    BY <2>1 DEF ContentCallTyped
  <2>11. calls' = calls \cup {d} /\ server' = server
    BY <1>17 DEF RowAction
  <2> HIDE DEF d
  <2> QED BY <1>15, <2>2, <2>3, <2>7, <2>8, <2>9, <2>10, <2>11
<1>18. CASE EditorSaves
  <2>1. PICK made : made = screen.made + 1
    OBVIOUS
  <2>2. made \in 0..MaxChanges /\ screen.made < MaxChanges
    BY <1>16, <1>18, <2>1 DEF EditorSaves
  <2>3. PICK p : p = [screen EXCEPT !.made = made]
    OBVIOUS
  <2>4. p \in ContentScreens
    BY <1>0, <2>2, <2>3, Zenon DEF ContentScreens
  <2>5. p.made = made /\ screen.editor \in ContentEditor \ {"none"}
    BY <1>0, <1>18, <2>3 DEF ContentScreens, EditorSaves
  <2> DEFINE d == [kind |-> "editor", n |-> screen.made, editor |-> screen.editor]
  <2>6. ContentCallTyped(d) /\ d.kind = "editor"
    BY <2>5 DEF ContentCallTyped
  <2>7. calls' = calls \cup {d} /\ server' = server /\ screen' = p
    BY <1>18, <2>1, <2>3 DEF EditorSaves
  <2> HIDE DEF d
  <2> QED BY <1>15, <2>1, <2>2, <2>4, <2>5, <2>6, <2>7
\* Editors open and close.
<1>19. ASSUME NEW editor \in ContentEditor, screen' = [screen EXCEPT !.editor = editor],
              calls' = calls, server' = server
       PROVE  ContentTyped'
  <2>1. screen' \in ContentScreens
    BY <1>0, <1>19, Zenon DEF ContentScreens
  <2>2. screen'.made = screen.made
    BY <1>0, <1>19 DEF ContentScreens
  <2> QED BY <1>3, <1>19, <2>1, <2>2
<1>20. CASE OpenEditor \/ LeaveEditor
  BY <1>6, <1>19, <1>20 DEF OpenEditor, LeaveEditor, Creating, ContentEditor
<1>21. ASSUME NEW r \in ContentRows, NEW t, EditRow(r, t) PROVE ContentTyped'
  BY <1>6, <1>19, <1>21 DEF EditRow, MayAct, ContentEditor
<1>22. ASSUME NEW r \in ContentRows,
              CourseActions(r) \/ LessonActions(r) \/ LibraryActions(r) \/ TopicActions(r)
       PROVE  ContentTyped'
  <2>1. CASE \E t : EditRow(r, t)
    BY <1>21, <2>1
  <2>2. CASE \E t : RowAction(r, t, 1)
    BY <1>17, <2>2
  <2>3. CASE \E t : RowAction(r, t, 2)
    BY <1>17, <2>3
  <2>4. CASE PrepareCourse(r)
    <3>1. PICK n \in 1..2 : RowAction(r, "courses", n)
      BY <2>4 DEF PrepareCourse
    <3> QED BY <1>17, <3>1
  <2>5. CourseActions(r) => ContentTyped'
    BY <2>1, <2>2, <2>4 DEF CourseActions, SetCourseWorkflow, TogglePublication
  <2>6. LessonActions(r) => ContentTyped'
    BY <2>1, <2>2 DEF LessonActions, SetLessonWorkflow
  <2>7. LibraryActions(r) => ContentTyped'
    BY <2>1, <2>2 DEF LibraryActions, SetLibraryWorkflow
  <2>8. TopicActions(r) => ContentTyped'
    BY <2>1 DEF TopicActions
  <2> QED BY <1>22, <2>5, <2>6, <2>7, <2>8
\* A write is stored: one of two requests, or the last.
<1>23. ASSUME NEW c \in calls, FirstStepDone(c) PROVE ContentTyped'
  <2>1. PICK d : d = [c EXCEPT !.steps = 1]
    OBVIOUS
  <2>2. c.kind = "row" /\ c.steps = 2 /\ c.tab \in Tabs /\ DOMAIN c = {"kind", "n", "tab", "steps"}
    BY <1>0, <1>23 DEF FirstStepDone, ContentCallTyped
  <2>3. d.kind = "row" /\ d.steps = 1 /\ d.tab \in Tabs /\ DOMAIN d = {"kind", "n", "tab", "steps"}
    BY <2>1, <2>2
  <2>4. calls' = (calls \ {c}) \cup {d} /\ screen' = screen /\ server' = server + 1
    BY <1>23, <2>1 DEF FirstStepDone
  <2>5. Writing(calls') \subseteq (W \ {c}) \cup {d} /\ c \in W
        /\ Doubled(calls') \subseteq D \ {c} /\ c \in D
    BY <2>2, <2>3, <2>4 DEF Writing, Doubled
  <2>6. IsFiniteSet(Writing(calls')) /\ Cardinality(Writing(calls')) \in 0..Cardinality(W)
    BY <1>0, <2>5, CountsOf
  <2>7. IsFiniteSet(Doubled(calls')) /\ Cardinality(Doubled(calls')) \in 0..(Cardinality(D) - 1)
    BY <1>0, <2>5, CountsOf
  <2>8. server' + Cardinality(Writing(calls')) + Cardinality(Doubled(calls')) <= 2 * screen'.made
    BY <1>0, <2>4, <2>6, <2>7
  <2>9. \A e \in calls' : ContentCallTyped(e)
    BY <1>0, <2>3, <2>4 DEF ContentCallTyped
  <2>10. server' \in Nat /\ screen' \in ContentScreens
    BY <1>0, <2>4
  <2> QED BY <1>0, <2>6, <2>7, <2>8, <2>9, <2>10 DEF ContentTyped, ContentWritesCounted
<1>24. ASSUME NEW c \in calls, c.kind \in {"row", "editor"}, NEW p \in ContentScreens,
              p.made = screen.made, screen' = p, server' \in {server, server + 1},
              NEW v, calls' \subseteq (calls \ {c}) \cup {FreshList(v)}
       PROVE  ContentTyped'
  <2>1. Writing(calls') \subseteq W \ {c} /\ c \in W /\ Doubled(calls') \subseteq D
    BY <1>24, FreshListForm DEF Writing, Doubled
  <2>2. IsFiniteSet(Writing(calls')) /\ Cardinality(Writing(calls')) \in 0..(Cardinality(W) - 1)
    BY <1>0, <2>1, CountsOf
  <2>3. IsFiniteSet(Doubled(calls')) /\ Cardinality(Doubled(calls')) \in 0..Cardinality(D)
    BY <1>0, <2>1, CountsOf
  <2>4. server' + Cardinality(Writing(calls')) + Cardinality(Doubled(calls')) <= 2 * screen'.made
    BY <1>0, <1>24, <2>2, <2>3
  <2>5. \A e \in calls' : ContentCallTyped(e)
    BY <1>0, <1>24, FreshListForm
  <2>6. server' \in Nat
    BY <1>0, <1>24
  <2> QED BY <1>0, <1>24, <2>2, <2>3, <2>4, <2>5, <2>6 DEF ContentTyped, ContentWritesCounted
\* The page hears of a write that was stored: the number is one of those.
<1>25. ASSUME NEW c \in calls, c.kind \in {"row", "editor"} PROVE server + 1 \in StoredWrites
  <2>1. c \in W
    BY <1>25 DEF Writing
  <2>2. \A Q : Q \subseteq W \ {c} => Cardinality(Q) \in 0..(Cardinality(W) - 1)
    BY <1>0, <2>1, CountsOf
  <2>3. W \ {c} \subseteq W \ {c}
    OBVIOUS
  <2> HIDE DEF W
  <2>4. Cardinality(W \ {c}) \in 0..(Cardinality(W) - 1)
    BY <2>2, <2>3
  <2>5. Cardinality(W) >= 1
    BY <1>0, <2>4
  <2> QED BY <1>0, <2>5, ContentBounds DEF StoredWrites
<1>26. ASSUME NEW c \in calls, c.kind \in {"row", "editor"}, NEW p \in ContentScreens,
              p.made = screen.made, SettledReload(Took(p), {c}), server' = server + 1
       PROVE  ContentTyped'
  <2>1. PICK confirmed : confirmed = server + 1
    OBVIOUS
  <2>2. PICK q : q = [p EXCEPT !.confirmed = confirmed]
    OBVIOUS
  <2>3. confirmed \in StoredWrites
    BY <1>25, <1>26, <2>1
  <2>4. q \in ContentScreens
    BY <1>26, <2>2, <2>3, Zenon DEF ContentScreens
  <2>5. q.made = screen.made
    BY <1>26, <2>2 DEF ContentScreens
  <2>6. Refetch(q, {c})
    BY <1>26, <2>1, <2>2 DEF SettledReload, Took
  <2>7. screen' \in ContentScreens /\ screen'.made = screen.made
        /\ calls' \subseteq (calls \ {c}) \cup {FreshList(q.view)}
    BY <2>4, <2>5, <2>6, RefetchTyped
  <2> QED BY <1>24, <1>26, <2>7
<1>27. ASSUME NEW t \in Tabs, NEW p, p = [screen EXCEPT !.mutating[t] = "none"]
       PROVE  p \in ContentScreens /\ p.made = screen.made
  <2>1. PICK mutating : mutating = [screen.mutating EXCEPT ![t] = "none"]
    OBVIOUS
  <2>2. mutating \in [Tabs -> ContentRows \cup {"none"}]
    BY <1>0, <2>1 DEF ContentScreens
  <2>3. p = [screen EXCEPT !.mutating = mutating]
    BY <1>27, <2>1
  <2>4. p \in ContentScreens
    BY <1>0, <2>2, <2>3, Zenon DEF ContentScreens
  <2> QED BY <1>0, <2>3, <2>4 DEF ContentScreens
<1>28. ASSUME NEW c \in calls, RowDone(c) PROVE ContentTyped'
  <2>1. c.kind = "row" /\ c.tab \in Tabs
    BY <1>0, <1>28 DEF RowDone, ContentCallTyped
  <2>2. PICK p : p = [screen EXCEPT !.mutating[c.tab] = "none"]
    OBVIOUS
  <2>3. p \in ContentScreens /\ p.made = screen.made
    BY <1>27, <2>1, <2>2
  <2>4. SettledReload(Took(p), {c}) /\ server' = server + 1
    BY <1>28, <2>2 DEF RowDone
  <2> QED BY <1>26, <2>1, <2>3, <2>4
<1>29. ASSUME NEW c \in calls, RowWriteFails(c) PROVE ContentTyped'
  <2>1. c.kind = "row" /\ c.tab \in Tabs
    BY <1>0, <1>29 DEF RowWriteFails, ContentCallTyped
  <2>2. PICK p : p = [screen EXCEPT !.mutating[c.tab] = "none"]
    OBVIOUS
  <2>3. p \in ContentScreens /\ p.made = screen.made
    BY <1>27, <2>1, <2>2
  <2>4. screen' = p /\ server' \in {server, server + 1} /\ calls' = calls \ {c}
    BY <1>29, <2>2 DEF RowWriteFails, Ended
  <2>5. calls' \subseteq (calls \ {c}) \cup {FreshList(screen.view)}
    BY <2>4
  <2> QED BY <1>24, <2>1, <2>3, <2>4, <2>5
<1>30. ASSUME NEW c \in calls, EditorSaved(c) PROVE ContentTyped'
  <2>1. c.kind = "editor" /\ c.editor \in ContentEditor \ {"none"}
    BY <1>0, <1>30 DEF EditorSaved, ContentCallTyped
  <2>2. PICK tab : tab = IF c.editor = "newcourse" THEN "courses" ELSE c.editor
    OBVIOUS
  <2>3. tab \in Tabs
    BY <1>6, <2>1, <2>2 DEF ContentEditor
  <2>4. PICK editor : editor = IF screen.editor = c.editor THEN "none" ELSE screen.editor
    OBVIOUS
  <2>5. editor \in ContentEditor
    BY <1>0, <2>4 DEF ContentScreens, ContentEditor
  <2>6. PICK view : view = [screen.view EXCEPT !.tab = tab, !.page = 1]
    OBVIOUS
  <2>7. view \in ContentViews
    BY <1>5, <1>6, <2>3, <2>6
  <2>8. PICK closed : closed = [screen EXCEPT !.editor = editor, !.view = view]
    OBVIOUS
  <2>9. closed \in ContentScreens
    BY <1>0, <2>5, <2>7, <2>8, Zenon DEF ContentScreens
  <2>10. closed.made = screen.made
    BY <1>0, <2>8 DEF ContentScreens
  <2>11. closed = [screen EXCEPT !.editor = IF @ = c.editor THEN "none" ELSE @,
                                !.view.tab = tab, !.view.page = 1]
    BY <1>0, <2>4, <2>6, <2>8 DEF ContentScreens
  <2>12. SettledReload(Took(IF c.editor = "courses" THEN screen ELSE closed), {c})
         /\ server' = server + 1
    BY <1>30, <2>2, <2>11 DEF EditorSaved
  <2>13. PICK p : p = IF c.editor = "courses" THEN screen ELSE closed
    OBVIOUS
  <2>14. p \in ContentScreens /\ p.made = screen.made
    BY <1>0, <2>9, <2>10, <2>13
  <2> QED BY <1>26, <2>1, <2>12, <2>13, <2>14
<1>31. ASSUME NEW c \in calls, EditorSaveFails(c) PROVE ContentTyped'
  <2>1. c.kind = "editor" /\ calls' \subseteq (calls \ {c}) \cup {FreshList(screen.view)}
        /\ screen' = screen /\ server' \in {server, server + 1}
    BY <1>31 DEF EditorSaveFails, Ended
  <2> QED BY <1>0, <1>24, <2>1
<1>32. ContentNext => ContentTyped'
  BY <1>7, <1>8, <1>9, <1>10, <1>11, <1>12, <1>13, <1>14, <1>18, <1>20, <1>22, <1>23, <1>28, <1>29,
     <1>30, <1>31 DEF ContentNext
<1> QED BY <1>1, <1>32

(***************************************************************************)
(* The types of QuestionBankAdmin.                                           *)
(***************************************************************************)
BankScreens ==
  [page : {"questions"}, admin : BOOLEAN, filter : BankFilters, busy : BOOLEAN,
   failed : BOOLEAN, rows : BankFilters \cup {"none"}, detail : QuestionRows \cup {NoDetail},
   saving : 0..MaxCommands, commands : 0..MaxCommands]
BankServers == [question : QuestionRows, others : 0..MaxOthers]

\* What a command does, and the row it was answered with.
BankCommand(c) ==
  /\ c.do \in WorkflowStatus \cup {"append", "open"}
  /\ c.stage = "checked" => c.do # "open"
  /\ c.row \in QuestionRows \cup {NoDetail}

BankTyped ==
  /\ BankInv /\ screen \in BankScreens /\ server \in BankServers
  /\ \A c \in calls : c.kind = "command" => BankCommand(c)

LEMMA BankBounds ==
  /\ 0 \in 0..MaxCommands /\ MaxCommands \in Nat /\ 0 \in 0..MaxOthers /\ MaxOthers \in Nat
  /\ 1 \in 1..MaxVersion /\ MaxVersion \in Nat
  /\ [version |-> 1, status |-> "draft"] \in QuestionRows
<1>1. MaxCommands \in Nat /\ MaxOthers \in Nat /\ MaxVersion \in Nat \ {0}
  BY QuestionBankAssumption, Zenon DEF QuestionBankAssumption
<1> QED BY <1>1 DEF QuestionRows, WorkflowStatus

LEMMA CommandTyped ==
  ASSUME NEW by, NEW do \in WorkflowStatus \cup {"append", "open"}
  PROVE  /\ Command(by, do).do = do /\ Command(by, do).stage = "sent"
         /\ Command(by, do).row = NoDetail
BY DEF Command

LEMMA BankTypedStart == QuestionBankInit => BankTyped
<1> SUFFICES ASSUME QuestionBankInit PROVE BankTyped
  OBVIOUS
<1>1. PICK admin \in BOOLEAN, filter \in BankFilters :
        /\ screen = [page |-> "questions", admin |-> admin, filter |-> filter, busy |-> TRUE,
                     failed |-> FALSE, rows |-> "none", detail |-> NoDetail, saving |-> 0,
                     commands |-> 0]
        /\ calls = {BankList(filter)}
        /\ server = [question |-> [version |-> 1, status |-> "draft"], others |-> 0]
  BY DEF QuestionBankInit
<1>2. "none" \in BankFilters \cup {"none"} /\ NoDetail \in QuestionRows \cup {NoDetail}
  OBVIOUS
<1>3. screen \in BankScreens
  BY <1>1, <1>2, BankBounds, Zenon DEF BankScreens
<1>4. server \in BankServers
  BY <1>1, BankBounds, Zenon DEF BankServers
<1>5. \A c \in calls : c.kind = "bank"
  BY <1>1 DEF BankList
<1> QED BY <1>3, <1>4, <1>5, BankStart DEF BankTyped

LEMMA BankTypedStep == BankTyped /\ [QuestionBankNext]_tabVars => BankTyped'
<1> SUFFICES ASSUME BankTyped, [QuestionBankNext]_tabVars PROVE BankTyped'
  OBVIOUS
<1>0. /\ BankInv' /\ screen \in BankScreens /\ server \in BankServers
      /\ \A c \in calls : c.kind = "command" => BankCommand(c) /\ DOMAIN c = CommandFields
  BY BankStep DEF BankTyped, BankInv, BankCalls, BankList
<1>1. CASE UNCHANGED tabVars
  BY <1>0, <1>1 DEF tabVars, BankTyped
<1>2. ASSUME NEW d, BankCommand(d), screen' \in BankScreens, server' \in BankServers,
             \A c \in calls' : c \in calls \/ c = d \/ c.kind = "bank"
      PROVE  BankTyped'
  BY <1>0, <1>2 DEF BankTyped
<1>3. ASSUME screen' \in BankScreens, server' \in BankServers,
             \A c \in calls' : c \in calls \/ c.kind = "bank"
      PROVE  BankTyped'
  BY <1>0, <1>3 DEF BankTyped
<1>4. ASSUME NEW p \in BankScreens, NEW over, ReadBank(p, over, {})
      PROVE  screen' \in BankScreens /\ \A c \in calls' : c \in calls \/ c.kind = "bank"
  <2>1. screen' = [p EXCEPT !.busy = TRUE, !.failed = FALSE]
    BY <1>4 DEF ReadBank
  <2>2. screen' \in BankScreens
    BY <2>1, Zenon DEF BankScreens
  <2> QED BY <1>4, <2>2 DEF ReadBank, BankList
<1>5. ASSUME NEW c \in calls, BankArrives(c) \/ BankFails(c) PROVE BankTyped'
  <2>1. PICK busy \in BOOLEAN : busy = (BankLists # {c})
    OBVIOUS
  <2>2. c = BankList(screen.filter)
    BY <1>5 DEF BankTyped, BankInv, BankCalls, BankArrives, BankFails
  <2>3. c.filter \in BankFilters \cup {"none"}
    BY <1>0, <2>2 DEF BankList, BankScreens
  <2>4. \/ screen' = [screen EXCEPT !.busy = busy, !.rows = c.filter]
        \/ screen' = [screen EXCEPT !.busy = FALSE, !.failed = TRUE]
    BY <1>5, <2>1 DEF BankArrives, BankFails
  <2>5. screen' \in BankScreens
    BY <1>0, <2>3, <2>4, Zenon DEF BankScreens
  <2> QED BY <1>0, <1>3, <1>5, <2>5 DEF BankArrives, BankFails, Ended
<1>6. ASSUME NEW filter \in BankFilters, ChooseBankFilter(filter) PROVE BankTyped'
  <2>1. PICK p : p = [screen EXCEPT !.filter = filter]
    OBVIOUS
  <2>2. p \in BankScreens
    BY <1>0, <2>1, Zenon DEF BankScreens
  <2>3. ReadBank(p, {}, {}) /\ server' = server
    BY <1>6, <2>1 DEF ChooseBankFilter
  <2> QED BY <1>0, <1>3, <1>4, <2>2, <2>3
<1>7. CASE PressReloadBank
  BY <1>0, <1>3, <1>4, <1>7 DEF PressReloadBank
<1>8. CASE OpenQuestion
  <2>1. screen' = screen /\ calls' = calls \cup {Command("page", "open")} /\ server' = server
    BY <1>8 DEF OpenQuestion, Begins
  <2>2. BankCommand(Command("page", "open"))
    BY CommandTyped DEF BankCommand
  <2> QED BY <1>0, <1>2, <2>1, <2>2
<1>9. ASSUME NEW do \in WorkflowStatus \cup {"append"}
      PROVE  BankCommand(Numbered(do))
  <2>1. PICK d : d = Command("page", do)
    OBVIOUS
  <2>2. Numbered(do) = [d EXCEPT !.expected = screen.detail.version, !.n = screen.commands + 1]
    BY <2>1 DEF Numbered
  <2>3. Numbered(do).do = do /\ Numbered(do).stage = "sent" /\ Numbered(do).row = NoDetail
    BY <2>1, <2>2, CommandForms, CommandTyped DEF CommandFields
  <2> QED BY <2>3 DEF BankCommand
<1>10. ASSUME screen.commands < MaxCommands PROVE screen.commands + 1 \in 0..MaxCommands
  <2>1. screen.commands \in 0..MaxCommands
    BY <1>0 DEF BankScreens
  <2> QED BY <1>10, <2>1, BankBounds
<1>11. ASSUME NEW to \in WorkflowStatus, PressWorkflow(to) PROVE BankTyped'
  <2>1. PICK commands : commands = screen.commands + 1
    OBVIOUS
  <2>2. screen' = [screen EXCEPT !.commands = commands] /\ calls' = calls \cup {Numbered(to)}
        /\ server' = server /\ commands \in 0..MaxCommands
    BY <1>10, <1>11, <2>1 DEF PressWorkflow, Begins
  <2>3. screen' \in BankScreens
    BY <1>0, <2>2, Zenon DEF BankScreens
  <2> QED BY <1>0, <1>2, <1>9, <2>2, <2>3
<1>12. CASE SavePresentation
  <2>1. PICK commands : commands = screen.commands + 1
    OBVIOUS
  <2>2. screen' = [screen EXCEPT !.commands = commands, !.saving = commands]
        /\ calls' = calls \cup {Numbered("append")} /\ server' = server /\ commands \in 0..MaxCommands
    BY <1>10, <1>12, <2>1 DEF SavePresentation, Begins
  <2>3. screen' \in BankScreens
    BY <1>0, <2>2, Zenon DEF BankScreens
  <2> QED BY <1>0, <1>2, <1>9, <2>2, <2>3
<1>13. ASSUME NEW do \in WorkflowStatus \cup {"append"}, AnotherBegins(do) PROVE BankTyped'
  <2> DEFINE d == [Command("other", do) EXCEPT !.expected = server.question.version,
                                               !.stage = "checked"]
  <2>1. screen' = screen /\ calls' = calls \cup {d}
    BY <1>13 DEF AnotherBegins
  <2>2. d.do = do /\ do # "open" /\ d.row = NoDetail
    BY CommandForms, CommandTyped DEF CommandFields, WorkflowStatus
  <2>3. BankCommand(d)
    BY <2>2 DEF BankCommand
  <2>4. PICK others : others = server.others + 1
    OBVIOUS
  <2>5. others \in 0..MaxOthers
    BY <1>0, <1>13, <2>4, BankBounds DEF AnotherBegins, BankServers
  <2>6. server' = [server EXCEPT !.others = others]
    BY <1>13, <2>4 DEF AnotherBegins
  <2>7. server' \in BankServers
    BY <1>0, <2>5, <2>6, Zenon DEF BankServers
  <2> HIDE DEF d
  <2> QED BY <1>0, <1>2, <2>1, <2>3, <2>7
<1>14. ASSUME NEW c \in calls, CommandChecked(c) \/ CommandStored(c) PROVE BankTyped'
  <2>1. PICK stage : calls' = (calls \ {c}) \cup {[c EXCEPT !.stage = stage]}
                     /\ (stage = "checked" => c.do # "open") /\ screen' = screen
    BY <1>14 DEF CommandChecked, CommandStored, Advances
  <2> DEFINE d == [c EXCEPT !.stage = stage]
  <2>2. BankCommand(c) /\ DOMAIN c = CommandFields
    BY <1>0, <1>14 DEF CommandChecked, CommandStored
  <2>3. BankCommand(d)
    BY <2>1, <2>2 DEF BankCommand, CommandFields
  <2>4. server' \in BankServers
    <3>1. CASE CommandChecked(c)
      BY <1>0, <3>1 DEF CommandChecked
    <3>2. CASE CommandStored(c)
      <4>1. PICK row : row = server.question
        OBVIOUS
      <4>2. row \in QuestionRows /\ row.version \in 1..MaxVersion
        BY <1>0, <4>1 DEF BankServers, QuestionRows
      <4>3. Written(c.do, row) \in QuestionRows
        <5>1. CASE c.do = "append"
          <6>1. PICK version : version = row.version + 1
            OBVIOUS
          <6>2. version \in 1..MaxVersion
            BY <3>2, <4>1, <4>2, <5>1, <6>1, BankBounds DEF CommandStored
          <6>3. Written(c.do, row) = [row EXCEPT !.version = version]
            BY <5>1, <6>1 DEF Written
          <6> QED BY <4>2, <6>2, <6>3, Zenon DEF QuestionRows
        <5>2. CASE c.do # "append"
          <6>1. Written(c.do, row) = [row EXCEPT !.status = c.do]
            BY <5>2 DEF Written
          <6>2. c.do \in WorkflowStatus
            BY <2>2, <3>2, <5>2 DEF BankCommand, CommandStored
          <6> QED BY <4>2, <6>1, <6>2, Zenon DEF QuestionRows
        <5> QED BY <5>1, <5>2
      <4>4. server' = [server EXCEPT !.question = Written(c.do, row)]
        BY <3>2, <4>1 DEF CommandStored
      <4> QED BY <1>0, <4>3, <4>4, Zenon DEF BankServers
    <3> QED BY <1>14, <3>1, <3>2
  <2> HIDE DEF d
  <2> QED BY <1>0, <1>2, <2>1, <2>3, <2>4 DEF d
<1>15. ASSUME NEW c \in calls, CommandAnswered(c) PROVE BankTyped'
  <2> DEFINE d == [c EXCEPT !.stage = "answered", !.row = server.question]
  <2>1. BankCommand(c) /\ DOMAIN c = CommandFields
    BY <1>0, <1>15 DEF CommandAnswered
  <2>2. server.question \in QuestionRows \cup {NoDetail}
    BY <1>0 DEF BankServers
  <2>3. BankCommand(d)
    BY <2>1, <2>2 DEF BankCommand, CommandFields
  <2>4. screen' = screen /\ server' = server /\ calls' \subseteq calls \cup {d}
    BY <1>15 DEF CommandAnswered
  <2> HIDE DEF d
  <2> QED BY <1>0, <1>2, <2>3, <2>4
<1>16. ASSUME NEW c \in calls, CommandArrives(c) PROVE BankTyped'
  <2>1. PICK saving : saving = IF c.row.version = screen.detail.version /\ c.n # screen.saving
                               THEN screen.saving ELSE 0
    OBVIOUS
  <2>2. saving \in 0..MaxCommands
    BY <1>0, <2>1, BankBounds DEF BankScreens
  <2>3. c.row \in QuestionRows \cup {NoDetail}
    BY <1>0, <1>16 DEF CommandArrives, BankCommand
  <2>4. PICK p : p = [screen EXCEPT !.detail = c.row, !.saving = saving]
    OBVIOUS
  <2>5. p \in BankScreens
    BY <1>0, <2>2, <2>3, <2>4, Zenon DEF BankScreens
  <2>6. /\ server' = server
        /\ \/ calls' = calls \ {c} /\ (screen' = screen \/ screen' = p)
           \/ ReadBank(p, {c}, {})
    BY <1>16, <2>1, <2>4 DEF CommandArrives, Ended
  <2> QED BY <1>0, <1>3, <1>4, <2>5, <2>6
<1>17. ASSUME NEW c \in calls, CommandFails(c) PROVE BankTyped'
  <2>1. PICK saving : saving = IF c.do = "append" /\ screen.saving = c.n THEN 0 ELSE screen.saving
    OBVIOUS
  <2>2. saving \in 0..MaxCommands
    BY <1>0, <2>1, BankBounds DEF BankScreens
  <2>3. screen' = [screen EXCEPT !.saving = saving] /\ calls' = calls \ {c} /\ server' = server
    BY <1>17, <2>1 DEF CommandFails, Ended
  <2>4. screen' \in BankScreens
    BY <1>0, <2>2, <2>3, Zenon DEF BankScreens
  <2> QED BY <1>0, <1>3, <2>3, <2>4
<1> QED BY <1>1, <1>5, <1>6, <1>7, <1>8, <1>11, <1>12, <1>13, <1>14, <1>15, <1>16, <1>17
        DEF QuestionBankNext

(***************************************************************************)
(* The types of SchoolDirector.  Of what is counted, the announced assignments  *)
(* are among the stored ones, and those among the writes that were begun; a     *)
(* form is mounted only where the bound leaves room for it.                     *)
(***************************************************************************)
DirectorStudents == [visit : Visits, query : Queries]
DirectorStaff == [visit : Visits, age : 0..MaxOrders]
DirectorScreens ==
  [page : {"director"}, known : SUBSET DirectedSchools,
   school : DirectedSchools \cup {"none"}, visit : 0..MaxSchoolVisits, section : Sections,
   students : DirectorStudents, asked : Queries, staff : DirectorStaff, seen : 0..MaxOrders,
   overview : Visits, papers : Visits, pending : WriteKinds \cup {""},
   show : BOOLEAN, form : 0..MaxForms, forms : 0..MaxForms, key : Nat, saving : BOOLEAN,
   made : 0..MaxOrders, submits : 0..MaxSubmits, confirmed : 0..MaxOrders]

\* A panel that is shown without its form may mount one when it returns.
Room(p) ==
  p.show /\ (p.form = 0 \/ p.section # "assessments" \/ p.papers = -1) => p.forms < MaxForms

Shown(p, made) == p \in DirectorScreens /\ Room(p) /\ p.made = made

DirectorCallTyped(c) ==
  /\ DOMAIN c = DirectorCallFields /\ c.query \in Queries /\ c.visit \in 0..MaxSchoolVisits
  /\ c.base \in 0..MaxOrders /\ c.age \in -1..MaxOrders /\ c.key \in Nat

\* Calls of which none is a new write.
Follows(cs, was) == \A c \in cs : DirectorCallTyped(c) /\ (c.kind = "write" => c \in was)

\* Assignments on their way to the server.
SentOnes(cs) == {c \in cs : c.kind = "write" /\ c.run = "assignment" /\ c.stage = "sent"}
OrdersCounted(made, cs, written) ==
  IsFiniteSet(SentOnes(cs)) /\ written + Cardinality(SentOnes(cs)) <= made

DirectorTyped ==
  /\ DirectorInv /\ Shown(screen, screen.made)
  /\ \A c \in calls : DirectorCallTyped(c)
  /\ OrdersCounted(screen.made, calls, server.written)
  /\ \A a \in server.papers : a.key \in Nat

LEMMA DirectorBounds ==
  /\ MaxSchoolVisits \in Nat /\ MaxOrders \in Nat /\ MaxSubmits \in Nat /\ MaxForms \in Nat
  /\ 0 \in 0..MaxSchoolVisits /\ 0 \in 0..MaxOrders /\ 0 \in 0..MaxSubmits /\ 0 \in 0..MaxForms
  /\ 0..MaxSchoolVisits \subseteq Visits /\ -1 \in Visits
  /\ "all" \in Queries /\ "none" \in DirectedSchools \cup {"none"} /\ "" \in WriteKinds \cup {""}
  /\ "people" \in Sections
BY SchoolDirectorAssumption DEF SchoolDirectorAssumption, Visits, Queries, Sections

LEMMA NothingShown ==
  /\ NoStaff \in DirectorStaff /\ NoStaff.visit = -1
  /\ \A v \in Visits : \A query \in Queries : [visit |-> v, query |-> query] \in DirectorStudents
  /\ \A v \in Visits : \A age \in 0..MaxOrders : [visit |-> v, age |-> age] \in DirectorStaff
BY DirectorBounds DEF NoStaff, DirectorStaff, DirectorStudents

LEMMA RenderedTyped ==
  ASSUME NEW p, NEW made, Shown(p, made)
  PROVE  Shown(Rendered(p), made)
<1>1. PICK n : n = p.forms + 1
  OBVIOUS
<1>2. PICK key : key = p.key + 1
  OBVIOUS
<1>3. PICK q : q = [p EXCEPT !.form = n, !.forms = n, !.key = key, !.saving = FALSE]
  OBVIOUS
<1>4. PICK r : r = [p EXCEPT !.form = 0, !.saving = FALSE]
  OBVIOUS
<1>5. p \in DirectorScreens /\ Room(p) /\ p.made = made
  BY DEF Shown
<1>6. p.forms \in 0..MaxForms /\ p.key \in Nat /\ p.show \in BOOLEAN
  BY <1>5 DEF DirectorScreens
<1>7. CASE p.show /\ p.section = "assessments" /\ p.papers # -1 /\ p.form = 0
  <2>1. Rendered(p) = q
    BY <1>1, <1>2, <1>3, <1>7 DEF Rendered
  <2>2. n \in 1..MaxForms /\ key \in Nat
    BY <1>1, <1>2, <1>5, <1>6, <1>7, DirectorBounds DEF Room
  <2>3. n \in 0..MaxForms
    BY <2>2
  <2>4. q \in DirectorScreens
    BY <1>3, <1>5, <2>2, <2>3, Zenon DEF DirectorScreens
  <2>5. q.form = n /\ q.section = p.section /\ q.papers = p.papers /\ q.made = p.made
    BY <1>3, <1>5 DEF DirectorScreens
  <2> QED BY <1>5, <1>7, <2>1, <2>2, <2>4, <2>5 DEF Shown, Room
<1>8. CASE ~(p.show /\ p.section = "assessments" /\ p.papers # -1)
  <2>1. Rendered(p) = r
    BY <1>4, <1>8 DEF Rendered
  <2>2. r \in DirectorScreens
    BY <1>4, <1>5, DirectorBounds, Zenon DEF DirectorScreens
  <2>3. r.show = p.show /\ r.forms = p.forms /\ r.made = p.made
    BY <1>4, <1>5 DEF DirectorScreens
  <2>4. Room(r)
    BY <1>5, <1>8, <2>3 DEF Room
  <2> QED BY <1>5, <2>1, <2>2, <2>3, <2>4 DEF Shown
<1>9. CASE p.show /\ p.section = "assessments" /\ p.papers # -1 /\ p.form # 0
  BY <1>9 DEF Rendered
<1> QED BY <1>7, <1>8, <1>9

LEMMA RequestTyped ==
  ASSUME NEW p, p.visit \in 0..MaxSchoolVisits, p.confirmed \in 0..MaxOrders,
         NEW kind, NEW run, NEW query \in Queries
  PROVE  /\ DirectorCallTyped(Request(kind, p, run, query))
         /\ Request(kind, p, run, query).kind = kind
<1>1. -1 \in -1..MaxOrders
  BY DirectorBounds
<1> QED BY <1>1 DEF Request, DirectorCallTyped, DirectorCallFields

LEMMA CallsFollow ==
  ASSUME NEW cs, NEW was, Follows(cs, was)
  PROVE  /\ Follows(Outdated(cs), was) /\ Follows(Reread(cs), was)
         /\ \A kind : Follows(Without(kind, cs), was)
         /\ \A d : DirectorCallTyped(d) /\ d.kind # "write" => Follows(cs \cup {d}, was)
<1>1. ASSUME NEW c \in cs
      PROVE  /\ DirectorCallTyped(c)
             /\ DirectorCallTyped([c EXCEPT !.live = FALSE])
             /\ DirectorCallTyped([c EXCEPT !.newest = FALSE])
             /\ [c EXCEPT !.live = FALSE].kind = c.kind /\ [c EXCEPT !.newest = FALSE].kind = c.kind
             /\ c.kind = "write" => c \in was
  BY <1>1 DEF Follows, DirectorCallTyped, DirectorCallFields
<1>2. Follows(Outdated(cs), was)
  <2>1. SUFFICES ASSUME NEW d \in Outdated(cs)
                 PROVE  DirectorCallTyped(d) /\ (d.kind = "write" => d \in was)
    BY DEF Follows
  <2>2. PICK c \in cs : d = IF c.kind = "refresh" THEN [c EXCEPT !.live = FALSE] ELSE c
    BY DEF Outdated
  <2> QED BY <1>1, <2>2
<1>3. Follows(Reread(cs), was)
  <2>1. SUFFICES ASSUME NEW d \in Reread(cs)
                 PROVE  DirectorCallTyped(d) /\ (d.kind = "write" => d \in was)
    BY DEF Follows
  <2>2. PICK c \in cs :
          d = IF c.kind \in {"refresh", "staff"} THEN [c EXCEPT !.newest = FALSE] ELSE c
    BY DEF Reread
  <2> QED BY <1>1, <2>2
<1>4. \A kind : Follows(Without(kind, cs), was)
  BY DEF Follows, Without
<1>5. \A d : DirectorCallTyped(d) /\ d.kind # "write" => Follows(cs \cup {d}, was)
  BY DEF Follows
<1> QED BY <1>2, <1>3, <1>4, <1>5

LEMMA AskOverviewTyped ==
  ASSUME NEW p, NEW made, Shown(p, made), NEW cs, NEW was, Follows(cs, was), AskOverview(p, cs)
  PROVE  Shown(screen', made) /\ Follows(calls', was)
<1>1. PICK q : q = [p EXCEPT !.overview = -1]
  OBVIOUS
<1>2. p \in DirectorScreens /\ Room(p) /\ p.made = made
  BY DEF Shown
<1>3. q \in DirectorScreens
  BY <1>1, <1>2, DirectorBounds, Zenon DEF DirectorScreens
<1>4. /\ q.show = p.show /\ q.form = p.form /\ q.section = p.section /\ q.papers = p.papers
      /\ q.forms = p.forms /\ q.made = p.made
  BY <1>1, <1>2 DEF DirectorScreens
<1>5. Shown(q, made)
  BY <1>2, <1>3, <1>4 DEF Shown, Room
<1>6. p.visit \in 0..MaxSchoolVisits /\ p.confirmed \in 0..MaxOrders
  BY <1>2 DEF DirectorScreens
<1>7. PICK d : d = Request("overview", p, "", "all")
  OBVIOUS
<1>8. DirectorCallTyped(d) /\ d.kind = "overview"
  BY <1>6, <1>7, DirectorBounds, RequestTyped
<1>9. screen' = Rendered(q) /\ calls' = Without("overview", cs) \cup {d}
  BY <1>1, <1>7 DEF AskOverview
<1>10. Follows(Without("overview", cs) \cup {d}, was)
  BY <1>8, CallsFollow
<1> QED BY <1>5, <1>9, <1>10, RenderedTyped

\* What a search, or a reload of the rows, does to the page and its calls.
LEMMA RefreshingTyped ==
  ASSUME NEW p, NEW made, Shown(p, made), NEW cs, NEW was, Follows(cs, was),
         NEW run, NEW query \in Queries
  PROVE  /\ Shown(Asked(p, query), made)
         /\ Follows(Refreshing(Asked(p, query), cs, run, query), was)
<1>1. PICK students : students = [visit |-> -1, query |-> "all"]
  OBVIOUS
<1>2. PICK q : q = [p EXCEPT !.students = students, !.asked = query]
  OBVIOUS
<1>3. p \in DirectorScreens /\ Room(p) /\ p.made = made
  BY DEF Shown
<1>4. students \in DirectorStudents
  BY <1>1, NothingShown, DirectorBounds
<1>5. q \in DirectorScreens
  BY <1>2, <1>3, <1>4, Zenon DEF DirectorScreens
<1>6. /\ q.show = p.show /\ q.form = p.form /\ q.section = p.section /\ q.papers = p.papers
      /\ q.forms = p.forms /\ q.made = p.made
  BY <1>2, <1>3 DEF DirectorScreens
<1>7. Asked(p, query) = q
  BY <1>1, <1>2 DEF Asked
<1>8. Shown(q, made)
  BY <1>3, <1>5, <1>6 DEF Shown, Room
<1>9. q.visit \in 0..MaxSchoolVisits /\ q.confirmed \in 0..MaxOrders
  BY <1>5 DEF DirectorScreens
<1>10. PICK d : d = Request("refresh", q, run, query)
  OBVIOUS
<1>11. DirectorCallTyped(d) /\ d.kind = "refresh"
  BY <1>9, <1>10, RequestTyped
<1>12. Refreshing(q, cs, run, query) = Outdated(cs) \cup {d}
  BY <1>10 DEF Refreshing
<1>13. Follows(Outdated(cs), was)
  BY CallsFollow
<1>14. Follows(Outdated(cs) \cup {d}, was)
  BY <1>11, <1>13, CallsFollow
<1> QED BY <1>7, <1>8, <1>12, <1>14

LEMMA ClearedTyped ==
  ASSUME NEW p \in DirectorScreens
  PROVE  /\ Cleared(p) \in DirectorScreens /\ ~Cleared(p).show /\ Cleared(p).made = p.made
         /\ Cleared(p).visit = p.visit /\ Cleared(p).school = p.school
<1>1. PICK students : students = [visit |-> -1, query |-> "all"]
  OBVIOUS
<1>2. PICK staff : staff = NoStaff
  OBVIOUS
<1>3. students \in DirectorStudents /\ staff \in DirectorStaff
  BY <1>1, <1>2, NothingShown, DirectorBounds
<1>4. PICK q : q = [p EXCEPT !.students = students, !.staff = staff, !.overview = -1]
  OBVIOUS
<1>5. PICK r : r = [q EXCEPT !.papers = -1, !.pending = "", !.show = FALSE]
  OBVIOUS
<1>6. q \in DirectorScreens
  BY <1>3, <1>4, DirectorBounds, Zenon DEF DirectorScreens
<1>7. r \in DirectorScreens
  BY <1>5, <1>6, DirectorBounds, Zenon DEF DirectorScreens
<1>8. Cleared(p) = r
  BY <1>1, <1>2, <1>4, <1>5 DEF Cleared, DirectorScreens
<1>9. q.made = p.made /\ q.visit = p.visit /\ q.school = p.school
  BY <1>4 DEF DirectorScreens
<1>10. r.made = q.made /\ r.visit = q.visit /\ r.school = q.school /\ r.show = FALSE
  BY <1>5, <1>6 DEF DirectorScreens
<1> QED BY <1>7, <1>8, <1>9, <1>10

LEMMA OpenedTyped ==
  ASSUME NEW p \in DirectorScreens, NEW cs, NEW was, Follows(cs, was), Opened(p, cs)
  PROVE  Shown(screen', p.made) /\ Follows(calls', was)
<1>1. PICK c : c = Cleared(p)
  OBVIOUS
<1>2. Shown(c, p.made)
  BY <1>1, ClearedTyped DEF Shown, Room
<1>3. PICK q : q = Asked(c, "all")
  OBVIOUS
<1>4. PICK dropped : dropped = Without("papers", Reread(cs))
  OBVIOUS
<1>5. Follows(Reread(cs), was)
  BY CallsFollow
<1>6. Follows(dropped, was)
  BY <1>4, <1>5, CallsFollow
<1>7. PICK first : first = Refreshing(q, dropped, "", "all")
  OBVIOUS
<1>8. Shown(q, p.made) /\ Follows(first, was)
  BY <1>2, <1>3, <1>6, <1>7, DirectorBounds, RefreshingTyped
<1>9. PICK d : d = Request("overview", q, "", "all")
  OBVIOUS
<1>10. PICK e : e = Request("papers", q, "", "all")
  OBVIOUS
<1>11. q.visit \in 0..MaxSchoolVisits /\ q.confirmed \in 0..MaxOrders
  BY <1>8 DEF Shown, DirectorScreens
<1>12. /\ DirectorCallTyped(d) /\ d.kind = "overview"
       /\ DirectorCallTyped(e) /\ e.kind = "papers"
  <2>1. "all" \in Queries
    BY DirectorBounds
  <2>2. DirectorCallTyped(d) /\ d.kind = "overview"
    BY <1>9, <1>11, <2>1, RequestTyped, Zenon
  <2>3. DirectorCallTyped(e) /\ e.kind = "papers"
    BY <1>10, <1>11, <2>1, RequestTyped, Zenon
  <2> QED BY <2>2, <2>3
<1>13. /\ screen' = Rendered(q)
       /\ \/ calls' = Without("overview", first) \cup {d}
          \/ calls' = (Without("overview", first) \cup {d}) \cup {e}
  BY <1>1, <1>3, <1>4, <1>7, <1>9, <1>10 DEF Opened
<1>14. Follows(Without("overview", first), was)
  BY <1>8, CallsFollow
<1>15. Follows(Without("overview", first) \cup {d}, was)
  BY <1>12, <1>14, CallsFollow
<1>16. Follows((Without("overview", first) \cup {d}) \cup {e}, was)
  BY <1>12, <1>15, CallsFollow
<1> QED BY <1>8, <1>13, <1>15, <1>16, RenderedTyped

\* A field of the page that has to do with neither the form nor the count.
LEMMA OthersKept ==
  ASSUME NEW p, NEW made, Shown(p, made), NEW q \in DirectorScreens,
         q.show = p.show, q.form = p.form, q.section = p.section, q.forms = p.forms,
         q.papers = p.papers \/ q.papers = q.visit, q.made = p.made
  PROVE  Shown(q, made)
<1>1. q.visit \in 0..MaxSchoolVisits
  BY DEF DirectorScreens
<1>2. q.visit # -1
  BY <1>1, DirectorBounds
<1>3. Room(q)
  BY <1>2 DEF Shown, Room
<1> QED BY <1>3 DEF Shown

LEMMA ReleasedTyped ==
  ASSUME NEW p, NEW made, Shown(p, made)
  PROVE  Shown([p EXCEPT !.pending = ""], made)
<1>1. PICK q : q = [p EXCEPT !.pending = ""]
  OBVIOUS
<1>2. q \in DirectorScreens
  BY <1>1, DirectorBounds, Zenon DEF Shown, DirectorScreens
<1>3. /\ q.show = p.show /\ q.form = p.form /\ q.section = p.section /\ q.papers = p.papers
      /\ q.forms = p.forms /\ q.made = p.made
  BY <1>1 DEF Shown, DirectorScreens
<1> QED BY <1>1, <1>2, <1>3, OthersKept

LEMMA RunEndsTyped ==
  ASSUME NEW p, NEW made, Shown(p, made), NEW c, Follows(calls, calls), RunEnds(p, c)
  PROVE  Shown(screen', made) /\ Follows(calls', calls)
<1>1. Follows(calls \ {c}, calls)
  BY DEF Follows
<1>2. CASE c.run # "" /\ Here(c)
  <2>1. PICK q : q = [p EXCEPT !.pending = ""]
    OBVIOUS
  <2>2. Shown(q, made)
    BY <2>1, ReleasedTyped
  <2>3. AskOverview(q, calls \ {c})
    BY <1>2, <2>1 DEF RunEnds
  <2> QED BY <1>1, <2>2, <2>3, AskOverviewTyped
<1>3. CASE ~(c.run # "" /\ Here(c))
  BY <1>1, <1>3 DEF RunEnds, Ended
<1> QED BY <1>2, <1>3

LEMMA AdoptsStaffTyped ==
  ASSUME NEW p, NEW made, Shown(p, made), NEW c, DirectorCallTyped(c), c.age # -1
  PROVE  Shown(AdoptsStaff(p, c), made)
<1>1. PICK staff : staff = [visit |-> c.visit, age |-> c.age]
  OBVIOUS
<1>2. PICK seen : seen = IF c.kind = "staff" /\ c.base > p.seen THEN c.base ELSE p.seen
  OBVIOUS
<1>3. PICK q : q = [p EXCEPT !.staff = staff, !.seen = seen]
  OBVIOUS
<1>4. c.visit \in Visits /\ c.age \in 0..MaxOrders /\ c.base \in 0..MaxOrders
  BY DirectorBounds DEF DirectorCallTyped
<1>5. p \in DirectorScreens /\ p.seen \in 0..MaxOrders
  BY DEF Shown, DirectorScreens
<1>6. staff \in DirectorStaff /\ seen \in 0..MaxOrders
  BY <1>1, <1>2, <1>4, <1>5, NothingShown
<1>7. q \in DirectorScreens
  BY <1>3, <1>5, <1>6, Zenon DEF DirectorScreens
<1>8. /\ q.show = p.show /\ q.form = p.form /\ q.section = p.section /\ q.papers = p.papers
      /\ q.forms = p.forms /\ q.made = p.made
  BY <1>3, <1>5 DEF DirectorScreens
<1>9. AdoptsStaff(p, c) \in {p, q}
  BY <1>1, <1>2, <1>3 DEF AdoptsStaff
<1> QED BY <1>7, <1>8, <1>9, OthersKept

LEMMA DirectorTypedStart == DirectorInit => DirectorTyped
<1> SUFFICES ASSUME DirectorInit PROVE DirectorTyped
  OBVIOUS
<1>1. PICK students : students = [visit |-> -1, query |-> "all"]
  OBVIOUS
<1>2. PICK staff : staff = NoStaff
  OBVIOUS
<1>3. students \in DirectorStudents /\ staff \in DirectorStaff
  BY <1>1, <1>2, NothingShown, DirectorBounds
<1>4. screen = [page |-> "director", known |-> {}, school |-> "none", visit |-> 0,
                section |-> "people", students |-> students, asked |-> "all", staff |-> staff,
                seen |-> 0, overview |-> -1, papers |-> -1, pending |-> "", show |-> FALSE,
                form |-> 0, forms |-> 0, key |-> 0, saving |-> FALSE, made |-> 0, submits |-> 0,
                confirmed |-> 0]
  BY <1>1, <1>2 DEF DirectorInit, EmptyDirector
<1>5. 0 \in Nat /\ {} \in SUBSET DirectedSchools
  OBVIOUS
<1>6. screen \in DirectorScreens
  BY <1>3, <1>4, <1>5, DirectorBounds, Zenon DEF DirectorScreens
<1>7. screen.show = FALSE /\ screen.made = 0 /\ screen.visit = 0 /\ screen.confirmed = 0
  BY <1>4
<1>8. Shown(screen, screen.made)
  BY <1>6, <1>7 DEF Shown, Room
<1>9. PICK d : d = Request("contexts", screen, "", "all")
  OBVIOUS
<1>10. DirectorCallTyped(d) /\ d.kind = "contexts"
  <2>1. screen.visit \in 0..MaxSchoolVisits /\ screen.confirmed \in 0..MaxOrders
    BY <1>7, DirectorBounds
  <2>2. "all" \in Queries
    BY DirectorBounds
  <2> QED BY <1>9, <2>1, <2>2, RequestTyped
<1>11. calls = {d} /\ server.written = 0 /\ server.papers = {}
  BY <1>9 DEF DirectorInit
<1>12. SentOnes(calls) = {}
  BY <1>10, <1>11 DEF SentOnes
<1>13. OrdersCounted(screen.made, calls, server.written)
  BY <1>7, <1>11, <1>12, FS_EmptySet DEF OrdersCounted
<1>14. DirectorInv
  BY DirectorStart
<1> QED BY <1>8, <1>10, <1>11, <1>13, <1>14 DEF DirectorTyped

LEMMA DirectorTypedStep == DirectorTyped /\ [DirectorNext]_tabVars => DirectorTyped'
<1> SUFFICES ASSUME DirectorTyped, [DirectorNext]_tabVars PROVE DirectorTyped'
  OBVIOUS
<1>0. /\ DirectorInv /\ DirectorInv' /\ screen \in DirectorScreens
      /\ Shown(screen, screen.made) /\ Room(screen)
      /\ \A c \in calls : DirectorCallTyped(c)
      /\ OrdersCounted(screen.made, calls, server.written)
      /\ \A a \in server.papers : a.key \in Nat
  BY DirectorStep DEF DirectorTyped, Shown
<1>01. /\ screen.visit \in 0..MaxSchoolVisits /\ screen.confirmed \in 0..MaxOrders
       /\ screen.made \in 0..MaxOrders /\ screen.submits \in 0..MaxSubmits
       /\ screen.asked \in Queries /\ screen.key \in Nat /\ screen.show \in BOOLEAN
       /\ screen.forms \in 0..MaxForms /\ screen.school \in DirectedSchools \cup {"none"}
       /\ screen.section \in Sections
  BY <1>0 DEF DirectorScreens
<1>02. Follows(calls, calls) /\ \A c : Follows(calls \ {c}, calls)
  BY <1>0 DEF Follows
<1>03. /\ IsFiniteSet(SentOnes(calls)) /\ Cardinality(SentOnes(calls)) \in Nat
       /\ server.written + Cardinality(SentOnes(calls)) <= screen.made
       /\ server.written \in Nat
  BY <1>0, FS_CardinalityType DEF OrdersCounted, DirectorInv, DirectorHolds, StaffHolds
<1>04. server.written \in 0..MaxOrders
  BY <1>01, <1>03, DirectorBounds
<1>1. CASE UNCHANGED tabVars
  BY <1>0, <1>1 DEF tabVars, DirectorTyped, Shown, Room, OrdersCounted, SentOnes
\* A step that begins no write and stores nothing.
<1>2. ASSUME Follows(calls', calls)
      PROVE  /\ \A c \in calls' : DirectorCallTyped(c)
             /\ IsFiniteSet(SentOnes(calls'))
             /\ Cardinality(SentOnes(calls')) \in 0..Cardinality(SentOnes(calls))
  <2>1. SentOnes(calls') \subseteq SentOnes(calls)
    BY <1>2 DEF SentOnes, Follows
  <2> QED BY <1>2, <1>03, <2>1, CountsOf DEF Follows
<1>3. ASSUME Follows(calls', calls), Shown(screen', screen.made), server' = server
      PROVE  DirectorTyped'
  <2>1. screen'.made = screen.made /\ Shown(screen', screen'.made)
    BY <1>3 DEF Shown
  <2>2. server.written + Cardinality(SentOnes(calls')) <= screen.made
    BY <1>01, <1>03, <1>2, <1>3
  <2>3. OrdersCounted(screen'.made, calls', server'.written)
    BY <1>2, <1>3, <2>1, <2>2 DEF OrdersCounted
  <2> QED BY <1>0, <1>2, <1>3, <2>1, <2>3 DEF DirectorTyped
\* A step of the server, or of the page alone.
<1>4. ASSUME NEW c \in calls, NEW d, DirectorCallTyped(d), d.kind = c.kind, c.kind # "write",
             calls' = (calls \ {c}) \cup {d}
      PROVE  Follows(calls', calls)
  BY <1>02, <1>4, CallsFollow
<1>5. ASSUME NEW d, DirectorCallTyped(d), d.kind # "write", NEW cs, Follows(cs, calls),
             calls' \in {cs, cs \cup {d}}
      PROVE  Follows(calls', calls)
  BY <1>5, CallsFollow
\* The account, the schools and the section.
<1>6. ASSUME NEW b \in BOOLEAN, AccountRead(b) PROVE DirectorTyped'
  <2>1. PICK school : school = IF b THEN screen.school ELSE "none"
    OBVIOUS
  <2>2. PICK visit : visit = screen.visit + 1
    OBVIOUS
  <2>3. PICK c : c = Cleared(screen)
    OBVIOUS
  <2>4. PICK q : q = [c EXCEPT !.known = {}, !.visit = visit, !.school = school]
    OBVIOUS
  <2>5. /\ c \in DirectorScreens /\ ~c.show /\ c.made = screen.made /\ c.visit = screen.visit
        /\ c.school = screen.school
    BY <1>0, <2>3, ClearedTyped
  <2>6. visit \in 0..MaxSchoolVisits
    <3>1. screen.visit < MaxSchoolVisits
      BY <1>6 DEF AccountRead
    <3> QED BY <1>01, <2>2, <3>1, DirectorBounds
  <2>7. school \in DirectedSchools \cup {"none"} /\ {} \in SUBSET DirectedSchools
    BY <1>01, <2>1, DirectorBounds
  <2>8. q \in DirectorScreens
    BY <2>4, <2>5, <2>6, <2>7, Zenon DEF DirectorScreens
  <2>9. ~q.show /\ q.made = screen.made
    BY <2>4, <2>5 DEF DirectorScreens
  <2>10. Shown(q, screen.made)
    BY <2>8, <2>9 DEF Shown, Room
  <2>11. q = [Cleared(screen) EXCEPT !.known = {}, !.visit = @ + 1,
                                     !.school = IF b THEN @ ELSE "none"]
    BY <2>1, <2>2, <2>3, <2>4, <2>5 DEF DirectorScreens
  <2>12. PICK d : d = Request("contexts", q, "", "all")
    OBVIOUS
  <2>13. PICK rest : rest = Outdated(Reread(Without("overview",
                              Without("papers", Without("contexts", calls)))))
    OBVIOUS
  <2>14. /\ screen' = Rendered(q) /\ calls' = (IF b THEN rest \cup {d} ELSE rest)
         /\ server' = server
    BY <1>6, <2>11, <2>12, <2>13 DEF AccountRead
  <2>15. q.visit \in 0..MaxSchoolVisits /\ q.confirmed \in 0..MaxOrders
    BY <2>8 DEF DirectorScreens
  <2>16. DirectorCallTyped(d) /\ d.kind = "contexts"
    BY <2>12, <2>15, DirectorBounds, RequestTyped
  <2>17. Follows(rest, calls)
    <3>1. Follows(Without("contexts", calls), calls)
      BY <1>02, CallsFollow
    <3>2. Follows(Without("papers", Without("contexts", calls)), calls)
      BY <3>1, CallsFollow
    <3>3. Follows(Without("overview", Without("papers", Without("contexts", calls))), calls)
      BY <3>2, CallsFollow
    <3>4. Follows(Reread(Without("overview", Without("papers", Without("contexts", calls)))),
                  calls)
      BY <3>3, CallsFollow
    <3> QED BY <2>13, <3>4, CallsFollow
  <2>18. Follows(calls', calls)
    BY <1>5, <2>14, <2>16, <2>17
  <2> QED BY <1>3, <2>10, <2>14, <2>18, RenderedTyped
<1>7. ASSUME NEW c \in calls, ContextsArrive(c) PROVE DirectorTyped'
  <2>1. PICK known \in SUBSET DirectedSchools :
          LET kept == screen.school \in known
              p == [screen EXCEPT !.known = known,
                      !.school = IF kept THEN @ ELSE IF known = {} THEN "none"
                                 ELSE CHOOSE s \in known : TRUE]
          IN IF known = {} THEN screen' = p /\ Ended(c) ELSE Opened(p, calls \ {c})
    BY <1>7 DEF ContextsArrive
  <2>2. PICK school : school = IF screen.school \in known THEN screen.school
                               ELSE IF known = {} THEN "none" ELSE CHOOSE s \in known : TRUE
    OBVIOUS
  <2>3. PICK p : p = [screen EXCEPT !.known = known, !.school = school]
    OBVIOUS
  <2>4. school \in DirectedSchools \cup {"none"}
    BY <1>01, <2>2
  <2>5. p \in DirectorScreens
    BY <1>0, <2>3, <2>4, Zenon DEF DirectorScreens
  <2>6. /\ p.show = screen.show /\ p.form = screen.form /\ p.section = screen.section
        /\ p.papers = screen.papers /\ p.forms = screen.forms /\ p.made = screen.made
    BY <1>0, <2>3 DEF DirectorScreens
  <2>7. Shown(p, screen.made)
    BY <1>0, <2>5, <2>6, OthersKept
  <2>8. p = [screen EXCEPT !.known = known,
               !.school = IF screen.school \in known THEN @ ELSE IF known = {} THEN "none"
                          ELSE CHOOSE s \in known : TRUE]
    BY <1>0, <2>2, <2>3 DEF DirectorScreens
  <2>9. IF known = {} THEN screen' = p /\ Ended(c) ELSE Opened(p, calls \ {c})
    BY <2>1, <2>8
  <2>10. server' = server
    BY <1>7 DEF ContextsArrive
  <2>11. CASE screen' = p /\ Ended(c)
    BY <1>02, <1>3, <2>7, <2>10, <2>11 DEF Ended
  <2>12. CASE Opened(p, calls \ {c})
    BY <1>02, <1>3, <2>5, <2>6, <2>10, <2>12, OpenedTyped
  <2> QED BY <2>9, <2>11, <2>12
<1>8. ASSUME NEW s \in DirectedSchools, ChangeSchool(s) PROVE DirectorTyped'
  <2>1. PICK visit : visit = screen.visit + 1
    OBVIOUS
  <2>2. PICK p : p = [screen EXCEPT !.school = s, !.visit = visit, !.section = "people"]
    OBVIOUS
  <2>3. visit \in 0..MaxSchoolVisits
    BY <1>01, <1>8, <2>1, DirectorBounds DEF ChangeSchool
  <2>4. p \in DirectorScreens
    BY <1>0, <1>8, <2>2, <2>3, DirectorBounds, Zenon DEF DirectorScreens
  <2>5. p.made = screen.made
    BY <1>0, <2>2 DEF DirectorScreens
  <2>6. Opened(p, calls) /\ server' = server
    BY <1>8, <2>1, <2>2 DEF ChangeSchool
  <2> QED BY <1>02, <1>3, <2>4, <2>5, <2>6, OpenedTyped
<1>9. ASSUME NEW s \in Sections, SelectSection(s) PROVE DirectorTyped'
  <2>1. PICK p : p = [screen EXCEPT !.section = s, !.papers = -1]
    OBVIOUS
  <2>2. p \in DirectorScreens
    BY <1>0, <1>9, <2>1, DirectorBounds, Zenon DEF DirectorScreens
  <2>3. p.show = screen.show /\ p.forms = screen.forms /\ p.made = screen.made
    BY <1>0, <2>1 DEF DirectorScreens
  <2>4. p.visit \in 0..MaxSchoolVisits /\ p.confirmed \in 0..MaxOrders
    BY <2>2 DEF DirectorScreens
  <2>5. Shown(p, screen.made)
    BY <1>01, <1>9, <2>2, <2>3, DirectorBounds DEF SelectSection, Shown, Room
  <2>6. PICK d : d = Request("papers", p, "", "all")
    OBVIOUS
  <2>7. DirectorCallTyped(d) /\ d.kind = "papers"
    BY <2>4, <2>6, DirectorBounds, RequestTyped
  <2>8. /\ screen' = Rendered(p) /\ server' = server
        /\ calls' \in {Without("papers", calls), Without("papers", calls) \cup {d}}
    BY <1>9, <2>1, <2>6 DEF SelectSection
  <2>9. Follows(Without("papers", calls), calls)
    BY <1>02, CallsFollow
  <2>10. Follows(calls', calls)
    BY <1>5, <2>7, <2>8, <2>9
  <2> QED BY <1>3, <2>5, <2>8, <2>10, RenderedTyped
\* Reading.
<1>10. ASSUME NEW query \in Queries, SearchStudents(query) PROVE DirectorTyped'
  <2>1. /\ screen' = Asked(screen, query) /\ server' = server
        /\ calls' = Refreshing(Asked(screen, query), calls, "", query)
    BY <1>10 DEF SearchStudents
  <2>2. /\ Shown(Asked(screen, query), screen.made)
        /\ Follows(Refreshing(Asked(screen, query), calls, "", query), calls)
    BY <1>0, <1>02, RefreshingTyped
  <2> QED BY <1>3, <2>1, <2>2
<1>11. ASSUME NEW c \in calls, RefreshReads(c) PROVE DirectorTyped'
  <2>1. PICK age : age = server.written
    OBVIOUS
  <2>2. PICK d : d = [c EXCEPT !.age = age]
    OBVIOUS
  <2>3. age \in -1..MaxOrders
    BY <1>04, <2>1, DirectorBounds
  <2>4. DirectorCallTyped(d) /\ d.kind = c.kind
    BY <1>0, <2>2, <2>3 DEF DirectorCallTyped, DirectorCallFields
  <2>5. /\ screen' = screen /\ server' = server /\ c.kind # "write"
        /\ calls' = (calls \ {c}) \cup {d}
    BY <1>11, <2>1, <2>2 DEF RefreshReads
  <2> QED BY <1>0, <1>3, <1>4, <2>4, <2>5
<1>12. ASSUME NEW c \in calls, RefreshArrives(c) PROVE DirectorTyped'
  <2>1. PICK students : students = [visit |-> c.visit, query |-> c.query]
    OBVIOUS
  <2>2. PICK p : p = [screen EXCEPT !.students = students]
    OBVIOUS
  <2>3. students \in DirectorStudents
    BY <1>0, <2>1, NothingShown, DirectorBounds DEF DirectorCallTyped
  <2>4. p \in DirectorScreens
    BY <1>0, <2>2, <2>3, Zenon DEF DirectorScreens
  <2>5. /\ p.show = screen.show /\ p.form = screen.form /\ p.section = screen.section
        /\ p.papers = screen.papers /\ p.forms = screen.forms /\ p.made = screen.made
    BY <1>0, <2>2 DEF DirectorScreens
  <2>6. Shown(p, screen.made)
    BY <1>0, <2>4, <2>5, OthersKept
  <2>7. c.age # -1 /\ server' = server
        /\ RunEnds(IF c.live /\ Here(c) THEN AdoptsStaff(p, c) ELSE screen, c)
    BY <1>12, <2>1, <2>2 DEF RefreshArrives
  <2>8. Shown(AdoptsStaff(p, c), screen.made)
    BY <1>0, <2>6, <2>7, AdoptsStaffTyped
  <2>9. PICK q : q = IF c.live /\ Here(c) THEN AdoptsStaff(p, c) ELSE screen
    OBVIOUS
  <2>10. Shown(q, screen.made) /\ RunEnds(q, c)
    BY <1>0, <2>7, <2>8, <2>9
  <2> QED BY <1>02, <1>3, <2>7, <2>10, RunEndsTyped
<1>13. ASSUME NEW c \in calls, StaffArrives(c) PROVE DirectorTyped'
  <2>1. c.age # -1 /\ server' = server
        /\ RunEnds(IF Here(c) THEN AdoptsStaff(screen, c) ELSE screen, c)
    BY <1>13 DEF StaffArrives
  <2>2. Shown(AdoptsStaff(screen, c), screen.made)
    BY <1>0, <2>1, AdoptsStaffTyped
  <2>3. PICK q : q = IF Here(c) THEN AdoptsStaff(screen, c) ELSE screen
    OBVIOUS
  <2>4. Shown(q, screen.made) /\ RunEnds(q, c)
    BY <1>0, <2>1, <2>2, <2>3
  <2> QED BY <1>02, <1>3, <2>1, <2>4, RunEndsTyped
<1>14. ASSUME NEW c \in calls, ReadFails(c) PROVE DirectorTyped'
  <2>1. Shown([screen EXCEPT !.pending = ""], screen.made)
    BY <1>0, ReleasedTyped
  <2>2. CASE RunEnds(screen, c) /\ server' = server
    BY <1>0, <1>02, <1>3, <2>2, RunEndsTyped
  <2>3. CASE screen' \in {screen, [screen EXCEPT !.pending = ""]} /\ Ended(c) /\ server' = server
    BY <1>0, <1>02, <1>3, <2>1, <2>3 DEF Ended
  <2> QED BY <1>14, <2>2, <2>3 DEF ReadFails
<1>15. ASSUME NEW c \in calls, OverviewArrives(c) PROVE DirectorTyped'
  <2>1. PICK v : v = c.visit
    OBVIOUS
  <2>2. PICK p : p = [screen EXCEPT !.overview = v]
    OBVIOUS
  <2>3. v \in Visits
    BY <1>0, <2>1, DirectorBounds DEF DirectorCallTyped
  <2>4. p \in DirectorScreens
    BY <1>0, <2>2, <2>3, Zenon DEF DirectorScreens
  <2>5. /\ p.show = screen.show /\ p.form = screen.form /\ p.section = screen.section
        /\ p.papers = screen.papers /\ p.forms = screen.forms /\ p.made = screen.made
    BY <1>0, <2>2 DEF DirectorScreens
  <2>6. Shown(p, screen.made)
    BY <1>0, <2>4, <2>5, OthersKept
  <2>7. screen' \in {screen, p} /\ calls' = calls \ {c} /\ server' = server
    BY <1>15, <2>1, <2>2 DEF OverviewArrives, Ended
  <2> QED BY <1>0, <1>02, <1>3, <2>6, <2>7
<1>16. ASSUME NEW c \in calls, PapersArrive(c) PROVE DirectorTyped'
  <2>1. PICK v : v = c.visit
    OBVIOUS
  <2>2. PICK p : p = [screen EXCEPT !.papers = v]
    OBVIOUS
  <2>3. v \in Visits
    BY <1>0, <2>1, DirectorBounds DEF DirectorCallTyped
  <2>4. p \in DirectorScreens
    BY <1>0, <2>2, <2>3, Zenon DEF DirectorScreens
  <2>5. /\ p.show = screen.show /\ p.form = screen.form /\ p.section = screen.section
        /\ p.papers = v /\ p.visit = screen.visit
        /\ p.forms = screen.forms /\ p.made = screen.made
    BY <1>0, <2>2 DEF DirectorScreens
  <2>6. /\ calls' = calls \ {c} /\ server' = server
        /\ screen' = screen \/ (c.visit = screen.visit /\ screen' = Rendered(p))
    BY <1>16, <2>1, <2>2 DEF PapersArrive, Ended, Here
  <2>7. CASE screen' = screen
    BY <1>0, <1>02, <1>3, <2>6, <2>7
  <2>8. CASE c.visit = screen.visit /\ screen' = Rendered(p)
    <3>1. Shown(p, screen.made)
      BY <1>0, <2>1, <2>4, <2>5, <2>8, OthersKept
    <3> QED BY <1>02, <1>3, <2>6, <2>8, <3>1, RenderedTyped
  <2> QED BY <2>6, <2>7, <2>8
\* Writes.
<1>17. ASSUME NEW what \in WriteKinds, RunWrite(what) PROVE DirectorTyped'
  <2>1. PICK made : made = screen.made + 1
    OBVIOUS
  <2>2. made \in 0..MaxOrders /\ what \in WriteKinds \cup {""}
    <3>1. screen.made < MaxOrders
      BY <1>17 DEF RunWrite
    <3>2. made \in 0..MaxOrders
      BY <1>01, <2>1, <3>1, DirectorBounds
    <3> QED BY <1>17, <3>2
  <2>3. screen' = [screen EXCEPT !.pending = what, !.made = made] /\ server' = server
    BY <1>17, <2>1 DEF RunWrite
  <2>4. screen' \in DirectorScreens
    BY <1>0, <2>2, <2>3, Zenon DEF DirectorScreens
  <2>5. /\ screen'.show = screen.show /\ screen'.form = screen.form
        /\ screen'.section = screen.section /\ screen'.papers = screen.papers
        /\ screen'.forms = screen.forms /\ screen'.made = made
    BY <1>0, <2>3 DEF DirectorScreens
  <2>6. Shown(screen', screen'.made)
    BY <1>0, <2>4, <2>5 DEF Shown, Room
  <2>7. PICK r : r = Request("write", screen, what, screen.asked)
    OBVIOUS
  <2>8. DirectorCallTyped(r)
    BY <1>01, <2>7, RequestTyped
  <2>9. PICK d : d = [r EXCEPT !.n = screen.made]
    OBVIOUS
  <2>10. DirectorCallTyped(d)
    BY <2>8, <2>9 DEF DirectorCallTyped, DirectorCallFields
  <2>11. calls' = calls \cup {d}
    BY <1>17, <2>7, <2>9 DEF RunWrite
  <2>12. SentOnes(calls') \subseteq SentOnes(calls) \cup {d}
    BY <2>11 DEF SentOnes
  <2>13. /\ IsFiniteSet(SentOnes(calls'))
         /\ Cardinality(SentOnes(calls')) \in 0..(Cardinality(SentOnes(calls)) + 1)
    BY <1>03, <2>12, CountsOf
  <2>14. server.written + Cardinality(SentOnes(calls')) <= made
    BY <1>01, <1>03, <2>1, <2>13
  <2>15. OrdersCounted(screen'.made, calls', server'.written)
    BY <2>3, <2>5, <2>13, <2>14 DEF OrdersCounted
  <2> QED BY <1>0, <2>3, <2>6, <2>10, <2>11, <2>15 DEF DirectorTyped
<1>18. ASSUME NEW c \in calls, WriteStored(c) PROVE DirectorTyped'
  <2>1. PICK d : d = [c EXCEPT !.stage = "stored"]
    OBVIOUS
  <2>2. DirectorCallTyped(d) /\ d.stage = "stored"
    BY <1>0, <2>1 DEF DirectorCallTyped, DirectorCallFields
  <2>3. /\ screen' = screen /\ calls' = (calls \ {c}) \cup {d}
        /\ c.kind = "write" /\ c.stage = "sent"
    BY <1>18, <2>1 DEF WriteStored, Advances
  <2>4. SentOnes(calls') \subseteq SentOnes(calls) \ {c}
    BY <2>2, <2>3 DEF SentOnes
  <2>5. /\ IsFiniteSet(SentOnes(calls'))
        /\ Cardinality(SentOnes(calls')) \in 0..Cardinality(SentOnes(calls))
    BY <1>03, <2>4, CountsOf
  <2>6. DOMAIN server = {"written", "papers"}
    BY <1>0 DEF DirectorInv, DirectorHolds, DirectorShape
  <2>7. server'.papers = server.papers
    BY <1>18, <2>6 DEF WriteStored
  <2>8. server'.written + Cardinality(SentOnes(calls')) <= screen.made
    <3>1. CASE c.run = "assignment"
      <4>1. c \in SentOnes(calls)
        BY <2>3, <3>1 DEF SentOnes
      <4>2. Cardinality(SentOnes(calls')) \in 0..(Cardinality(SentOnes(calls)) - 1)
        BY <1>03, <2>4, <4>1, CountsOf
      <4>3. server'.written = server.written + 1
        BY <1>18, <2>6, <3>1 DEF WriteStored
      <4> QED BY <1>01, <1>03, <4>2, <4>3
    <3>2. CASE c.run # "assignment"
      <4>1. server' = server
        BY <1>18, <3>2 DEF WriteStored
      <4> QED BY <1>01, <1>03, <2>5, <4>1
    <3> QED BY <3>1, <3>2
  <2>9. OrdersCounted(screen'.made, calls', server'.written)
    BY <2>3, <2>5, <2>8 DEF OrdersCounted
  <2>10. Shown(screen', screen'.made) /\ \A e \in calls' : DirectorCallTyped(e)
    BY <1>0, <2>2, <2>3
  <2> QED BY <1>0, <2>7, <2>9, <2>10 DEF DirectorTyped
<1>19. ASSUME NEW c \in calls, RowWritten(c) PROVE DirectorTyped'
  BY <1>0, <1>02, <1>3, <1>19, RunEndsTyped DEF RowWritten
<1>20. ASSUME NEW c \in calls, RowsReloaded(c) PROVE DirectorTyped'
  <2>1. PICK query \in Queries : query = c.query
    BY <1>0 DEF DirectorCallTyped
  <2>2. /\ screen' = Asked(screen, query) /\ server' = server
        /\ calls' = Refreshing(Asked(screen, query), calls \ {c}, c.run, query)
    BY <1>20, <2>1 DEF RowsReloaded
  <2>3. /\ Shown(Asked(screen, query), screen.made)
        /\ Follows(Refreshing(Asked(screen, query), calls \ {c}, c.run, query), calls)
    BY <1>0, <1>02, RefreshingTyped
  <2> QED BY <1>3, <2>2, <2>3
<1>21. ASSUME NEW c \in calls, TeachersReloaded(c) PROVE DirectorTyped'
  <2>1. PICK n : n = screen.confirmed + 1
    OBVIOUS
  <2>2. screen' = [screen EXCEPT !.confirmed = n] /\ server' = server
    BY <1>21, <2>1 DEF TeachersReloaded
  <2>3. screen'.confirmed = n
    BY <1>0, <2>2 DEF DirectorScreens
  <2>4. n <= server.written
    <3>1. /\ IsFiniteSet(StoredOnes(calls'))
          /\ screen'.confirmed + Cardinality(StoredOnes(calls')) <= server'.written
      BY <1>0 DEF DirectorInv, DirectorHolds, StaffHolds
    <3>2. Cardinality(StoredOnes(calls')) \in Nat
      BY <3>1, FS_CardinalityType
    <3> QED BY <1>01, <1>03, <2>1, <2>2, <2>3, <3>1, <3>2
  <2>5. n \in 0..MaxOrders
    BY <1>01, <1>04, <2>1, <2>4, DirectorBounds
  <2>6. screen' \in DirectorScreens
    BY <1>0, <2>2, <2>5, Zenon DEF DirectorScreens
  <2>7. /\ screen'.show = screen.show /\ screen'.form = screen.form
        /\ screen'.section = screen.section /\ screen'.papers = screen.papers
        /\ screen'.forms = screen.forms /\ screen'.made = screen.made
        /\ screen'.visit = screen.visit
    BY <1>0, <2>2 DEF DirectorScreens
  <2>8. Shown(screen', screen.made)
    BY <1>0, <2>6, <2>7, OthersKept
  <2>9. PICK p : p = screen'
    OBVIOUS
  <2>10. PICK r : r = Request("staff", p, c.run, "all")
    OBVIOUS
  <2>11. PICK d : d = [r EXCEPT !.visit = c.visit]
    OBVIOUS
  <2>12. p.visit \in 0..MaxSchoolVisits /\ p.confirmed \in 0..MaxOrders
    BY <1>01, <2>3, <2>5, <2>7, <2>9
  <2>13. DirectorCallTyped(r) /\ r.kind = "staff"
    BY <2>10, <2>12, DirectorBounds, RequestTyped
  <2>14. DirectorCallTyped(d) /\ d.kind = "staff"
    BY <1>0, <2>11, <2>13 DEF DirectorCallTyped, DirectorCallFields
  <2>15. calls' = Reread(calls \ {c}) \cup {d}
    BY <1>21, <2>1, <2>2, <2>9, <2>10, <2>11 DEF TeachersReloaded
  <2>16. Follows(Reread(calls \ {c}), calls)
    BY <1>02, CallsFollow
  <2>17. Follows(calls', calls)
    BY <1>5, <2>14, <2>15, <2>16
  <2> QED BY <1>3, <2>2, <2>8, <2>17
<1>22. ASSUME NEW c \in calls, RunFails(c) PROVE DirectorTyped'
  <2>1. Shown([screen EXCEPT !.pending = ""], screen.made)
    BY <1>0, ReleasedTyped
  <2> QED BY <1>0, <1>02, <1>3, <1>22, <2>1 DEF RunFails, Ended
\* The form.
<1>23. CASE ToggleCreator
  <2>1. PICK show : show = ~screen.show
    OBVIOUS
  <2>2. show \in BOOLEAN
    BY <2>1
  <2>3. PICK p : p = [screen EXCEPT !.show = show]
    OBVIOUS
  <2>4. p \in DirectorScreens
    BY <1>0, <2>2, <2>3, Zenon DEF DirectorScreens
  <2>5. p.show = show /\ p.forms = screen.forms /\ p.made = screen.made
    BY <1>0, <2>3 DEF DirectorScreens
  <2>6. show => screen.forms < MaxForms
    BY <1>23, <2>1 DEF ToggleCreator
  <2>7. Shown(p, screen.made)
    BY <2>4, <2>5, <2>6 DEF Shown, Room
  <2>8. screen' = Rendered(p) /\ calls' = calls /\ server' = server
    BY <1>23, <2>1, <2>3 DEF ToggleCreator
  <2> QED BY <1>02, <1>3, <2>7, <2>8, RenderedTyped
<1>24. CASE SubmitForm
  <2>1. PICK submits : submits = screen.submits + 1
    OBVIOUS
  <2>2. submits \in 0..MaxSubmits
    BY <1>01, <1>24, <2>1, DirectorBounds DEF SubmitForm, MaySend
  <2>3. PICK p : p = [screen EXCEPT !.saving = TRUE, !.submits = submits]
    OBVIOUS
  <2>4. p \in DirectorScreens
    BY <1>0, <2>2, <2>3, Zenon DEF DirectorScreens
  <2>5. /\ p.show = screen.show /\ p.form = screen.form /\ p.section = screen.section
        /\ p.papers = screen.papers /\ p.forms = screen.forms /\ p.made = screen.made
    BY <1>0, <2>3 DEF DirectorScreens
  <2>6. Shown(p, screen.made)
    BY <1>0, <2>4, <2>5, OthersKept
  <2>7. screen' = p /\ server' = server
    BY <1>0, <1>24, <2>1, <2>3 DEF SubmitForm, Submission, DirectorScreens
  <2>8. Submission(screen).key = screen.key
    BY <1>0 DEF Submission, DirectorScreens
  <2>9. PICK r : r = Request("create", screen, "", "all")
    OBVIOUS
  <2>10. PICK d : d = [r EXCEPT !.n = screen.form, !.key = screen.key]
    OBVIOUS
  <2>11. DirectorCallTyped(r) /\ r.kind = "create"
    <3>1. "all" \in Queries
      BY DirectorBounds
    <3>2. screen.visit \in 0..MaxSchoolVisits /\ screen.confirmed \in 0..MaxOrders
      BY <1>01
    <3> QED BY <2>9, <3>1, <3>2, RequestTyped, Zenon
  <2>12. DirectorCallTyped(d) /\ d.kind = "create"
    <3>1. DOMAIN d = DOMAIN r /\ \A f \in DOMAIN r \ {"n", "key"} : d[f] = r[f]
      BY <2>10
    <3>2. d.key = screen.key
      BY <2>10, <2>11 DEF DirectorCallTyped, DirectorCallFields
    <3>3. screen.key \in Nat
      BY <1>01
    <3>4. /\ d.kind = r.kind /\ d.query = r.query /\ d.visit = r.visit
          /\ d.base = r.base /\ d.age = r.age
      BY <2>11, <3>1 DEF DirectorCallTyped, DirectorCallFields
    <3> QED BY <2>11, <3>1, <3>2, <3>3, <3>4 DEF DirectorCallTyped
  <2>13. calls' = calls \cup {d}
    BY <1>24, <2>8, <2>9, <2>10 DEF SubmitForm
  <2>14. Follows(calls', calls)
    BY <1>02, <1>5, <2>12, <2>13
  <2> QED BY <1>3, <2>6, <2>7, <2>14
<1>25. ASSUME NEW c \in calls, CreateStored(c) PROVE DirectorTyped'
  <2>1. PICK d : d = [c EXCEPT !.stage = "stored"]
    OBVIOUS
  <2>2. DirectorCallTyped(d) /\ d.kind = c.kind
    BY <1>0, <2>1 DEF DirectorCallTyped, DirectorCallFields
  <2>3. screen' = screen /\ calls' = (calls \ {c}) \cup {d} /\ c.kind # "write"
    BY <1>25, <2>1 DEF CreateStored, Advances
  <2>4. Follows(calls', calls)
    BY <1>4, <2>2, <2>3
  <2>5. DOMAIN server = {"written", "papers"}
    BY <1>0 DEF DirectorInv, DirectorHolds, DirectorShape
  <2>6. server'.written = server.written
    BY <1>25, <2>5 DEF CreateStored
  <2>7. server'.papers \subseteq server.papers \cup {[form |-> c.n, key |-> c.key]}
    BY <1>25, <2>5 DEF CreateStored
  <2>8. c.key \in Nat
    BY <1>0 DEF DirectorCallTyped
  <2>9. \A a \in server'.papers : a.key \in Nat
    BY <1>0, <2>7, <2>8
  <2>10. server.written + Cardinality(SentOnes(calls')) <= screen.made
    BY <1>01, <1>03, <1>2, <2>4
  <2>11. OrdersCounted(screen'.made, calls', server'.written)
    BY <1>2, <2>3, <2>4, <2>6, <2>10 DEF OrdersCounted
  <2>12. Shown(screen', screen'.made) /\ \A e \in calls' : DirectorCallTyped(e)
    BY <1>0, <1>2, <2>3, <2>4
  <2> QED BY <1>0, <2>9, <2>11, <2>12 DEF DirectorTyped
<1>26. ASSUME NEW c \in calls, CreateDone(c) PROVE DirectorTyped'
  <2>1. PICK p : p = [screen EXCEPT !.show = FALSE, !.papers = -1]
    OBVIOUS
  <2>2. p \in DirectorScreens
    BY <1>0, <2>1, DirectorBounds, Zenon DEF DirectorScreens
  <2>3. p.show = FALSE /\ p.made = screen.made
    BY <1>0, <2>1 DEF DirectorScreens
  <2>4. Shown(p, screen.made)
    BY <2>2, <2>3 DEF Shown, Room
  <2>5. p.visit \in 0..MaxSchoolVisits /\ p.confirmed \in 0..MaxOrders
    BY <2>2 DEF DirectorScreens
  <2>6. PICK d : d = Request("papers", p, "", "all")
    OBVIOUS
  <2>7. DirectorCallTyped(d) /\ d.kind = "papers"
    BY <2>5, <2>6, DirectorBounds, RequestTyped
  <2>8. PICK cs : cs = Without("papers", calls \ {c}) \cup {d}
    OBVIOUS
  <2>9. Follows(Without("papers", calls \ {c}), calls)
    BY <1>02, CallsFollow
  <2>10. Follows(cs, calls)
    BY <2>7, <2>8, <2>9, CallsFollow
  <2>11. /\ server' = server
         /\ AskOverview(p, cs) \/ (Ended(c) /\ screen' = screen)
    BY <1>26, <2>1, <2>6, <2>8 DEF CreateDone
  <2>12. CASE AskOverview(p, cs)
    BY <1>3, <2>4, <2>10, <2>11, <2>12, AskOverviewTyped
  <2>13. CASE Ended(c) /\ screen' = screen
    BY <1>0, <1>02, <1>3, <2>11, <2>13 DEF Ended
  <2> QED BY <2>11, <2>12, <2>13
<1>27. ASSUME NEW c \in calls, CreateFails(c) PROVE DirectorTyped'
  <2>1. PICK p : p = [screen EXCEPT !.saving = FALSE]
    OBVIOUS
  <2>2. p \in DirectorScreens
    BY <1>0, <2>1, Zenon DEF DirectorScreens
  <2>3. /\ p.show = screen.show /\ p.form = screen.form /\ p.section = screen.section
        /\ p.papers = screen.papers /\ p.forms = screen.forms /\ p.made = screen.made
    BY <1>0, <2>1 DEF DirectorScreens
  <2>4. Shown(p, screen.made)
    BY <1>0, <2>2, <2>3, OthersKept
  <2> QED BY <1>0, <1>02, <1>3, <1>27, <2>1, <2>4 DEF CreateFails, Ended
<1>28. ASSUME StudentsSection \/ ClassesSection PROVE DirectorTyped'
  BY <1>10, <1>17, <1>28
     DEF WriteKinds, StudentsSection, ClassesSection, AddStudent, MoveStudent, SaveStudent,
         ToggleStudent, CreateClass, RenameClass, SaveAssignment, StopAssignment
<1>29. ASSUME NEW c \in calls,
              \/ ContextsArrive(c) \/ ContextsFail(c) \/ RefreshReads(c) \/ RefreshArrives(c)
              \/ StaffArrives(c) \/ ReadFails(c) \/ OverviewArrives(c) \/ PapersArrive(c)
              \/ WriteStored(c) \/ RowWritten(c) \/ RowsReloaded(c) \/ TeachersReloaded(c)
              \/ RunFails(c) \/ CreateStored(c) \/ CreateDone(c) \/ CreateFails(c)
       PROVE  DirectorTyped'
  <2>1. ContextsFail(c) => DirectorTyped'
    BY <1>0, <1>02, <1>3 DEF ContextsFail, Ended
  <2> QED BY <1>7, <1>11, <1>12, <1>13, <1>14, <1>15, <1>16, <1>18, <1>19, <1>20, <1>21,
             <1>22, <1>25, <1>26, <1>27, <1>29, <2>1
<1> QED BY <1>1, <1>6, <1>8, <1>9, <1>23, <1>24, <1>28, <1>29 DEF DirectorNext

\* The types follow.
LEMMA DirectorTypesHold == DirectorTyped => DirectorTypeOK
<1> SUFFICES ASSUME DirectorTyped PROVE DirectorTypeOK
  OBVIOUS
<1>1. screen \in DirectorScreens
  BY DEF DirectorTyped, Shown
<1>2. server.written \in 0..MaxOrders
  <2>1. /\ server.written \in Nat /\ IsFiniteSet(SentOnes(calls))
        /\ server.written + Cardinality(SentOnes(calls)) <= screen.made
    BY DEF DirectorTyped, DirectorInv, DirectorHolds, StaffHolds, OrdersCounted
  <2>2. Cardinality(SentOnes(calls)) \in Nat
    BY <2>1, FS_CardinalityType
  <2>3. screen.made \in 0..MaxOrders
    BY <1>1 DEF DirectorScreens
  <2> QED BY <2>1, <2>2, <2>3, DirectorBounds
<1>3. server.papers \subseteq [form : 1..MaxForms, key : Nat]
  <2>1. SUFFICES ASSUME NEW a \in server.papers PROVE a \in [form : 1..MaxForms, key : Nat]
    OBVIOUS
  <2>2. a = [form |-> a.form, key |-> a.key] /\ a.key \in Nat
    BY DEF DirectorTyped, DirectorInv, DirectorHolds, FormsHold
  <2>3. <<a.form, a.key>> \in FormKeys(calls, server.papers)
    BY DEF FormKeys
  <2>4. a.form \in 1..screen.forms
    BY <2>3 DEF DirectorTyped, DirectorInv, DirectorHolds, FormsHold
  <2>5. screen.forms \in 0..MaxForms
    BY <1>1 DEF DirectorScreens
  <2>6. a.form \in 1..MaxForms
    BY <2>4, <2>5, DirectorBounds
  <2> QED BY <2>2, <2>6, Zenon
<1> QED BY <1>1, <1>2, <1>3 DEF DirectorTypeOK, DirectorScreens, DirectorStudents, DirectorStaff

(***************************************************************************)
(* The types of SchoolsAdmin.                                                *)
(***************************************************************************)
SchoolsScreens ==
  [page : {"schools"}, list : SUBSET AdminSchools, selected : SchoolOrNone,
   loading : BOOLEAN, rows : WorkspaceRows, chosen : SchoolOrNone, dialog : SchoolDialogs,
   creating : BOOLEAN, archiving : BOOLEAN, made : 0..MaxHandled, overlapped : BOOLEAN]
SchoolCallTyped(c) == c.school \in SchoolOrNone /\ (c.kind = "create" => c.school \in AdminSchools)

SchoolsTyped ==
  /\ SchoolsInv /\ screen \in SchoolsScreens /\ server \subseteq AdminSchools
  /\ \A c \in calls : SchoolCallTyped(c)

LEMMA SchoolsBounds ==
  /\ MaxHandled \in Nat /\ 0 \in 0..MaxHandled /\ "none" \in SchoolOrNone
  /\ AdminSchools \subseteq SchoolOrNone /\ EmptyRows \in WorkspaceRows
  /\ {} \in SUBSET AdminSchools
<1>1. MaxHandled \in Nat
  BY SchoolsAdminAssumption DEF SchoolsAdminAssumption
<1>2. "none" \in SchoolOrNone /\ AdminSchools \subseteq SchoolOrNone
  BY DEF SchoolOrNone
<1>3. EmptyRows \in WorkspaceRows
  BY <1>2, Zenon DEF EmptyRows, WorkspaceRows
<1> QED BY <1>1, <1>2, <1>3

LEMMA OperationTyped ==
  ASSUME NEW kind, NEW s, NEW stage
  PROVE  /\ Operation(kind, s, stage).kind = kind /\ Operation(kind, s, stage).school = s
BY DEF Operation

LEMMA SchoolsTypedStart == SchoolsInit => SchoolsTyped
<1> SUFFICES ASSUME SchoolsInit PROVE SchoolsTyped
  OBVIOUS
<1>1. "none" \in SchoolDialogs
  BY DEF SchoolDialogs
<1>2. screen = [page |-> "schools", list |-> {}, selected |-> "none", loading |-> FALSE,
                rows |-> EmptyRows, chosen |-> "none", dialog |-> "none", creating |-> FALSE,
                archiving |-> FALSE, made |-> 0, overlapped |-> FALSE]
  BY DEF SchoolsInit
<1>3. screen \in SchoolsScreens
  BY <1>1, <1>2, SchoolsBounds, Zenon DEF SchoolsScreens
<1>4. \A c \in calls : SchoolCallTyped(c)
  BY SchoolsBounds DEF SchoolsInit, SchoolCallTyped
<1>5. server \subseteq AdminSchools
  BY DEF SchoolsInit
<1> QED BY <1>3, <1>4, <1>5, SchoolsStart DEF SchoolsTyped

LEMMA SchoolsTypedStep == SchoolsTyped /\ [SchoolsNext]_tabVars => SchoolsTyped'
<1> SUFFICES ASSUME SchoolsTyped, [SchoolsNext]_tabVars PROVE SchoolsTyped'
  OBVIOUS
<1>0. /\ SchoolsInv' /\ screen \in SchoolsScreens /\ server \subseteq AdminSchools
      /\ \A c \in calls : SchoolCallTyped(c) /\ DOMAIN c = SchoolCallFields
      /\ screen.selected \in SchoolOrNone /\ screen.made \in 0..MaxHandled
      /\ screen.rows \in WorkspaceRows /\ screen.list \in SUBSET AdminSchools
      /\ screen.creating \in BOOLEAN /\ screen.archiving \in BOOLEAN
      /\ screen.dialog \in SchoolDialogs /\ screen.chosen \in SchoolOrNone
      /\ screen.overlapped \in BOOLEAN
  BY SchoolsStep DEF SchoolsTyped, SchoolsInv, SchoolsHold, SchoolsScreens
<1>1. CASE UNCHANGED tabVars
  BY <1>0, <1>1 DEF tabVars, SchoolsTyped
<1>2. ASSUME NEW d, SchoolCallTyped(d), screen' \in SchoolsScreens, server' \subseteq AdminSchools,
             calls' \subseteq calls \cup {d}
      PROVE  SchoolsTyped'
  BY <1>0, <1>2 DEF SchoolsTyped
<1>3. ASSUME screen' \in SchoolsScreens, server' \subseteq AdminSchools, calls' \subseteq calls
      PROVE  SchoolsTyped'
  BY <1>0, <1>3 DEF SchoolsTyped
<1>4. ASSUME screen.made < MaxHandled PROVE screen.made + 1 \in 0..MaxHandled
  BY <1>0, <1>4, SchoolsBounds
\* Something is begun for a school.
<1>5. ASSUME NEW kind, NEW s \in SchoolOrNone, kind = "create" => s \in AdminSchools,
             screen' \in SchoolsScreens, server' = server,
             calls' = calls \cup {Operation(kind, s, "sent")}
      PROVE  SchoolsTyped'
  <2>1. SchoolCallTyped(Operation(kind, s, "sent"))
    BY <1>5, OperationTyped DEF SchoolCallTyped
  <2> QED BY <1>0, <1>2, <1>5, <2>1
<1>6. ASSUME NEW p, p \in {[screen EXCEPT !.made = @ + 1],
                           [screen EXCEPT !.creating = TRUE, !.made = @ + 1],
                           [screen EXCEPT !.archiving = TRUE, !.made = @ + 1]},
             screen.made < MaxHandled
      PROVE  p \in SchoolsScreens
  <2>1. PICK made : made = screen.made + 1
    OBVIOUS
  <2>2. made \in 0..MaxHandled
    BY <1>4, <1>6, <2>1
  <2>3. \/ p = [screen EXCEPT !.made = made]
        \/ p = [screen EXCEPT !.creating = TRUE, !.made = made]
        \/ p = [screen EXCEPT !.archiving = TRUE, !.made = made]
    BY <1>0, <1>6, <2>1 DEF SchoolsScreens
  <2> QED BY <1>0, <2>2, <2>3, Zenon DEF SchoolsScreens
<1>7. CASE LoadSchools
  BY <1>5, <1>6, <1>7, SchoolsBounds DEF LoadSchools
<1>8. ASSUME HandleRenameSchool \/ HandleDeleteSchool \/ HandleCreateClass \/ HandleAddStudent
      PROVE  SchoolsTyped'
  <2>1. PICK kind : calls' = calls \cup {Operation(kind, screen.selected, "sent")}
                    /\ kind # "create"
    BY <1>8 DEF HandleRenameSchool, HandleDeleteSchool, HandleCreateClass, HandleAddStudent
  <2>2. screen' \in SchoolsScreens /\ server' = server
    BY <1>6, <1>8 DEF HandleRenameSchool, HandleDeleteSchool, HandleCreateClass, HandleAddStudent,
                      Handles
  <2> QED BY <1>0, <1>5, <2>1, <2>2
<1>9. CASE HandleCreateSchool
  <2>1. PICK s \in AdminSchools \ server : calls' = calls \cup {Operation("create", s, "sent")}
    BY <1>9 DEF HandleCreateSchool
  <2>2. screen' \in SchoolsScreens /\ server' = server
    BY <1>6, <1>9 DEF HandleCreateSchool, Handles
  <2> QED BY <1>5, <2>1, <2>2, SchoolsBounds
<1>10. ASSUME NEW d, OpenSchoolDialog(d), d \in SchoolDialogs PROVE SchoolsTyped'
  <2>1. screen' = [screen EXCEPT !.dialog = d] /\ calls' = calls /\ server' = server
    BY <1>10 DEF OpenSchoolDialog
  <2>2. screen' \in SchoolsScreens
    BY <1>0, <1>10, <2>1, Zenon DEF SchoolsScreens
  <2> QED BY <1>0, <1>3, <2>1, <2>2
<1>11. /\ "none" \in SchoolDialogs /\ "wizard" \in SchoolDialogs /\ "rename" \in SchoolDialogs
       /\ "archive" \in SchoolDialogs /\ "class" \in SchoolDialogs /\ "student" \in SchoolDialogs
  BY DEF SchoolDialogs
<1>12. ASSUME NEW d, CancelDialog(d) PROVE SchoolsTyped'
  <2>1. screen' = [screen EXCEPT !.dialog = "none"] /\ calls' = calls /\ server' = server
    BY <1>12 DEF CancelDialog
  <2>2. screen' \in SchoolsScreens
    BY <1>0, <1>11, <2>1, Zenon DEF SchoolsScreens
  <2> QED BY <1>0, <1>3, <2>1, <2>2
<1>13. CASE ChooseClass
  <2>1. PICK chosen : chosen = screen.rows.classes
    OBVIOUS
  <2>2. chosen \in SchoolOrNone
    BY <1>0, <2>1 DEF WorkspaceRows
  <2>3. screen' = [screen EXCEPT !.chosen = chosen] /\ calls' = calls /\ server' = server
    BY <1>13, <2>1 DEF ChooseClass
  <2>4. screen' \in SchoolsScreens
    BY <1>0, <2>2, <2>3, Zenon DEF SchoolsScreens
  <2> QED BY <1>0, <1>3, <2>3, <2>4
<1>14. ASSUME NEW over, NEW b, b = Busy(screen, over) PROVE b \in BOOLEAN
  BY <1>0, <1>14 DEF Busy
<1>15. CASE BackToPortfolio
  <2>1. PICK b : b = Busy(screen, {})
    OBVIOUS
  <2>2. b \in BOOLEAN
    BY <1>14, <2>1
  <2>3. screen' = [screen EXCEPT !.selected = "none", !.overlapped = b] /\ calls' = calls
        /\ server' = server
    BY <1>15, <2>1 DEF BackToPortfolio
  <2>4. screen' \in SchoolsScreens
    BY <1>0, <2>2, <2>3, SchoolsBounds, Zenon DEF SchoolsScreens
  <2> QED BY <1>0, <1>3, <2>3, <2>4
\* A workspace is opened.
<1>16. ASSUME NEW p \in SchoolsScreens, NEW s \in AdminSchools, NEW over, NEW origin,
              Opens(p, s, over, origin), server' = server
       PROVE  SchoolsTyped'
  <2>1. PICK b : b = Busy(p, over)
    OBVIOUS
  <2>2. p.overlapped \in BOOLEAN
    BY <1>16 DEF SchoolsScreens
  <2>3. b \in BOOLEAN
    BY <2>1, <2>2 DEF Busy
  <2>4. s \in SchoolOrNone
    BY <1>16, SchoolsBounds
  <2>5. screen' = [p EXCEPT !.selected = s, !.loading = TRUE, !.overlapped = b]
    BY <1>16, <2>1 DEF Opens
  <2>6. screen' \in SchoolsScreens
    BY <1>16, <2>3, <2>4, <2>5, Zenon DEF SchoolsScreens
  <2>7. SchoolCallTyped(Operation("workspace", s, origin))
    BY <2>4, OperationTyped DEF SchoolCallTyped
  <2>8. calls' \subseteq calls \cup {Operation("workspace", s, origin)}
    BY <1>16 DEF Opens
  <2> QED BY <1>0, <1>2, <1>16, <2>6, <2>7, <2>8
<1>17. ASSUME NEW s \in AdminSchools, OpenSchool(s) PROVE SchoolsTyped'
  BY <1>6, <1>16, <1>17 DEF OpenSchool
<1>18. ASSUME NEW list \in SUBSET AdminSchools PROVE [screen EXCEPT !.list = list] \in SchoolsScreens
  BY <1>0, <1>18, Zenon DEF SchoolsScreens
<1>19. ASSUME NEW c \in calls, CreatedOpens(c) PROVE SchoolsTyped'
  <2>1. c.school \in AdminSchools
    BY <1>0, <1>19 DEF CreatedOpens, SchoolCallTyped
  <2>2. [screen EXCEPT !.list = server] \in SchoolsScreens
    BY <1>0, <1>18
  <2> QED BY <1>16, <1>19, <2>1, <2>2 DEF CreatedOpens
\* Answers.
<1>20. ASSUME NEW c \in calls, SchoolsArrive(c) PROVE SchoolsTyped'
  <2>1. screen' \in SchoolsScreens
    BY <1>0, <1>18, <1>20 DEF SchoolsArrive
  <2> QED BY <1>0, <1>3, <1>20, <2>1 DEF SchoolsArrive, Ended
<1>21. ASSUME NEW c \in calls, WorkspaceArrives(c) PROVE SchoolsTyped'
  <2>1. PICK rows \in WorkspaceRead(c), hasClass \in BOOLEAN :
          screen' = [screen EXCEPT !.rows = rows, !.loading = FALSE,
                       !.creating = @ /\ c.stage # "wizard",
                       !.chosen = IF hasClass /\ rows.classes = c.school THEN c.school ELSE @]
    BY <1>21 DEF WorkspaceArrives
  <2>2. PICK a \in {c.school, "none"}, b \in {c.school, "none"}, d \in {c.school, "none"} :
          rows = [classes |-> a, students |-> b, teachers |-> d]
    BY <2>1 DEF WorkspaceRead
  <2>3. c.school \in SchoolOrNone
    BY <1>0 DEF SchoolCallTyped
  <2>4. a \in SchoolOrNone /\ b \in SchoolOrNone /\ d \in SchoolOrNone
    BY <2>3, SchoolsBounds
  <2>5. rows \in WorkspaceRows
    BY <2>2, <2>4, Zenon DEF WorkspaceRows
  <2>6. PICK creating : creating = (screen.creating /\ c.stage # "wizard")
    OBVIOUS
  <2>7. creating \in BOOLEAN
    BY <1>0, <2>6
  <2>8. PICK chosen : chosen = IF hasClass /\ rows.classes = c.school THEN c.school
                               ELSE screen.chosen
    OBVIOUS
  <2>9. chosen \in SchoolOrNone
    BY <1>0, <2>3, <2>8
  <2>10. screen' = [screen EXCEPT !.rows = rows, !.loading = FALSE, !.creating = creating,
                                  !.chosen = chosen]
    BY <1>0, <2>1, <2>6, <2>8 DEF SchoolsScreens
  <2>11. screen' \in SchoolsScreens
    BY <1>0, <2>5, <2>7, <2>9, <2>10, Zenon DEF SchoolsScreens
  <2> QED BY <1>0, <1>3, <1>21, <2>11 DEF WorkspaceArrives, Ended
<1>22. ASSUME NEW d PROVE Closing(d) \in SchoolsScreens
  <2>1. PICK dialog : dialog = IF screen.dialog = d THEN "none" ELSE screen.dialog
    OBVIOUS
  <2>2. dialog \in SchoolDialogs
    BY <1>0, <1>11, <2>1
  <2>3. Closing(d) = [screen EXCEPT !.dialog = dialog]
    BY <1>0, <2>1 DEF Closing, SchoolsScreens
  <2> QED BY <1>0, <2>2, <2>3, Zenon DEF SchoolsScreens
<1>23. ASSUME NEW c \in calls, NEW stage, NEW d, d = [c EXCEPT !.stage = stage]
       PROVE  SchoolCallTyped(d)
  <2>1. d.kind = c.kind /\ d.school = c.school
    BY <1>0, <1>23 DEF SchoolCallFields
  <2> QED BY <1>0, <1>23, <2>1 DEF SchoolCallTyped
<1>24. ASSUME NEW c \in calls, NEW stage, Advances(c, stage), screen' \in SchoolsScreens,
              server' \subseteq AdminSchools
       PROVE  SchoolsTyped'
  <2>1. PICK d : d = [c EXCEPT !.stage = stage]
    OBVIOUS
  <2>2. SchoolCallTyped(d) /\ calls' \subseteq calls \cup {d}
    BY <1>23, <1>24, <2>1 DEF Advances
  <2> QED BY <1>2, <1>24, <2>2
<1>25. ASSUME NEW c \in calls, SchoolCreated(c) PROVE SchoolsTyped'
  <2>1. c.school \in AdminSchools
    BY <1>0, <1>25 DEF SchoolCreated, SchoolCallTyped
  <2> QED BY <1>0, <1>22, <1>24, <1>25, <2>1 DEF SchoolCreated
<1>26. ASSUME NEW d, NEW s \in SchoolOrNone, NEW p, p = [Closing(d) EXCEPT !.selected = s]
       PROVE  p \in SchoolsScreens
  <2>1. PICK q : q = Closing(d)
    OBVIOUS
  <2>2. q \in SchoolsScreens /\ p = [q EXCEPT !.selected = s]
    BY <1>22, <1>26, <2>1
  <2> QED BY <1>26, <2>2, Zenon DEF SchoolsScreens
<1>27. ASSUME NEW c \in calls, SchoolRenamed(c) PROVE SchoolsTyped'
  <2>1. PICK d : d = [c EXCEPT !.kind = "list", !.school = "none"]
    OBVIOUS
  <2>2. d.kind = "list" /\ d.school = "none"
    BY <1>0, <2>1 DEF SchoolCallFields
  <2>3. SchoolCallTyped(d)
    BY <2>2, SchoolsBounds DEF SchoolCallTyped
  <2>4. c.school \in SchoolOrNone
    BY <1>0 DEF SchoolCallTyped
  <2>5. screen' \in SchoolsScreens
    BY <1>26, <1>27, <2>4 DEF SchoolRenamed
  <2>6. calls' \subseteq calls \cup {d} /\ server' = server
    BY <1>27, <2>1 DEF SchoolRenamed
  <2> QED BY <1>0, <1>2, <2>3, <2>5, <2>6
<1>28. ASSUME NEW c \in calls, SchoolArchived(c) PROVE SchoolsTyped'
  <2>1. screen' \in SchoolsScreens
    BY <1>26, <1>28, SchoolsBounds DEF SchoolArchived
  <2>2. Advances(c, "listing") /\ server' \subseteq AdminSchools
    BY <1>0, <1>28 DEF SchoolArchived
  <2> QED BY <1>24, <2>1, <2>2
<1>29. ASSUME NEW c \in calls, ArchivedListed(c) PROVE SchoolsTyped'
  <2>1. PICK list \in {screen.list, server} :
          screen' = [screen EXCEPT !.archiving = FALSE, !.list = list]
    BY <1>29 DEF ArchivedListed
  <2>2. list \in SUBSET AdminSchools
    BY <1>0, <2>1
  <2>3. screen' \in SchoolsScreens
    BY <1>0, <2>1, <2>2, Zenon DEF SchoolsScreens
  <2> QED BY <1>0, <1>3, <1>29, <2>3 DEF ArchivedListed, Ended
<1>30. ASSUME NEW c \in calls, RowAdded(c) PROVE SchoolsTyped'
  BY <1>0, <1>22, <1>24, <1>30 DEF RowAdded
<1>31. ASSUME NEW c \in calls, AddedRowsArrive(c) PROVE SchoolsTyped'
  <2>1. PICK s : s = c.school
    OBVIOUS
  <2>2. s \in SchoolOrNone
    BY <1>0, <2>1 DEF SchoolCallTyped
  <2>3. PICK rows : /\ rows = IF c.kind = "class" THEN [screen.rows EXCEPT !.classes = s]
                                                  ELSE [screen.rows EXCEPT !.students = s]
    OBVIOUS
  <2>4. [screen.rows EXCEPT !.classes = s] \in WorkspaceRows
    BY <1>0, <2>2, Zenon DEF WorkspaceRows
  <2>5. [screen.rows EXCEPT !.students = s] \in WorkspaceRows
    BY <1>0, <2>2, Zenon DEF WorkspaceRows
  <2>6. rows \in WorkspaceRows
    BY <2>3, <2>4, <2>5
  <2>7. screen' = [screen EXCEPT !.rows = rows]
    BY <1>0, <1>31, <2>1, <2>3 DEF AddedRowsArrive, SchoolsScreens
  <2>8. screen' \in SchoolsScreens
    BY <1>0, <2>6, <2>7, Zenon DEF SchoolsScreens
  <2> QED BY <1>0, <1>3, <1>31, <2>8 DEF AddedRowsArrive, Ended
<1>32. ASSUME NEW c \in calls, SchoolCallFails(c) PROVE SchoolsTyped'
  <2>1. PICK a : a = (screen.creating /\ c.kind # "create")
    OBVIOUS
  <2>2. PICK b : b = (screen.archiving /\ c.kind # "archive")
    OBVIOUS
  <2>3. a \in BOOLEAN /\ b \in BOOLEAN
    BY <1>0, <2>1, <2>2
  <2>4. screen' = [screen EXCEPT !.creating = a, !.archiving = b]
    BY <1>0, <1>32, <2>1, <2>2 DEF SchoolCallFails, SchoolsScreens
  <2>5. screen' \in SchoolsScreens
    BY <1>0, <2>3, <2>4, Zenon DEF SchoolsScreens
  <2> QED BY <1>0, <1>3, <1>32, <2>5 DEF SchoolCallFails, Ended
<1>33. CASE Portfolio \/ WorkspaceBar \/ ClassesTab
  BY <1>7, <1>10, <1>11, <1>13, <1>15, <1>33 DEF Portfolio, WorkspaceBar, ClassesTab
<1>34. CASE WizardDialog \/ RenameDialog \/ ArchiveDialog \/ ClassDialog \/ StudentDialog
  BY <1>8, <1>9, <1>12, <1>34
     DEF WizardDialog, RenameDialog, ArchiveDialog, ClassDialog, StudentDialog
<1> QED BY <1>1, <1>17, <1>19, <1>20, <1>21, <1>25, <1>27, <1>28, <1>29, <1>30, <1>31, <1>32, <1>33,
           <1>34 DEF SchoolsNext

(***************************************************************************)
(* The types of SupervisorRoster.                                            *)
(***************************************************************************)
RosterScreens ==
  [page : {"roster"}, allowed : BOOLEAN, scope : 0..MaxScopes,
   contexts : SUBSET RosterSchools, busy : BOOLEAN, error : BOOLEAN,
   school : RosterSchools \cup {"none"}, rows : SUBSET RosterPages,
   rowsOf : RosterSchools \cup {"none"}, rowsError : BOOLEAN, loading : BOOLEAN,
   tab : {"overview", "students"}, search : Wanted, at : 1..LastPage]
RosterCallTyped(c) == c.kind = "roster" => c.rows \in RosterPages

RosterTyped ==
  RosterInv /\ screen \in RosterScreens /\ \A c \in calls : RosterCallTyped(c)

LEMMA RosterBounds ==
  /\ MaxScopes \in Nat /\ LastPage \in Nat /\ 0 \in 0..MaxScopes /\ 1 \in 1..LastPage
  /\ Wanted # {} /\ {} \in SUBSET RosterSchools /\ {} \in SUBSET RosterPages
  /\ "none" \in RosterSchools \cup {"none"}
<1>1. MaxScopes \in Nat /\ LastPage \in Nat \ {0} /\ Wanted # {}
  BY SupervisorRosterAssumption DEF SupervisorRosterAssumption
<1> QED BY <1>1

LEMMA RosterTypedStart == RosterInit => RosterTyped
<1> SUFFICES ASSUME RosterInit PROVE RosterTyped
  OBVIOUS
<1>1. PICK w : w = CHOOSE u \in Wanted : TRUE
  OBVIOUS
<1>2. w \in Wanted
  BY <1>1, RosterBounds
<1>3. PICK p : /\ p = [page |-> "roster", allowed |-> TRUE, scope |-> 0, contexts |-> {},
                       busy |-> TRUE, error |-> FALSE, school |-> "none", rows |-> {},
                       rowsOf |-> "none", rowsError |-> FALSE, loading |-> FALSE,
                       tab |-> "students", search |-> w, at |-> 1]
               /\ screen \in {p, [p EXCEPT !.tab = "overview"]} /\ calls = {ScopeRequest(p)}
  BY <1>1 DEF RosterInit
<1>4. p \in RosterScreens
  BY <1>2, <1>3, RosterBounds, Zenon DEF RosterScreens
<1>5. PICK tab : tab = "overview"
  OBVIOUS
<1>6. tab \in {"overview", "students"}
  BY <1>5
<1>7. [p EXCEPT !.tab = tab] \in RosterScreens
  BY <1>4, <1>6, Zenon DEF RosterScreens
<1>8. screen \in RosterScreens
  BY <1>3, <1>4, <1>5, <1>7, Zenon
<1>9. \A c \in calls : c.kind = "scope"
  BY <1>3 DEF ScopeRequest
<1> QED BY <1>8, <1>9, RosterStart DEF RosterTyped, RosterCallTyped

\* The roster effect asks for a page of students only of a school of the scope.
LEMMA LoadedTyped ==
  ASSUME NEW p \in RosterScreens, NEW cs, LoadRoster(p, cs),
         \A c \in cs \ RosterCalls : RosterCallTyped(c)
  PROVE  screen' \in RosterScreens /\ \A c \in calls' : RosterCallTyped(c)
<1>1. PICK q : /\ q = [IF p.at = 1 THEN [p EXCEPT !.rows = {}, !.rowsOf = "none"] ELSE p
                       EXCEPT !.rowsError = FALSE]
  OBVIOUS
<1>2. PICK r : r = IF p.at = 1 THEN [p EXCEPT !.rows = {}, !.rowsOf = "none"] ELSE p
  OBVIOUS
<1>3. [p EXCEPT !.rows = {}, !.rowsOf = "none"] \in RosterScreens
  BY RosterBounds, Zenon DEF RosterScreens
<1>4. r \in RosterScreens
  BY <1>2, <1>3
<1>5. q = [r EXCEPT !.rowsError = FALSE]
  BY <1>1, <1>2
<1>6. q \in RosterScreens
  BY <1>4, <1>5, Zenon DEF RosterScreens
<1>7. [q EXCEPT !.loading = FALSE] \in RosterScreens /\ [q EXCEPT !.loading = TRUE] \in RosterScreens
  BY <1>6, Zenon DEF RosterScreens
<1> DEFINE rows == [scope |-> p.scope, school |-> p.school, search |-> p.search, page |-> p.at]
           d == [kind |-> "roster", rows |-> rows]
<1>8. CASE screen' = [q EXCEPT !.loading = FALSE] /\ calls' = cs \ RosterCalls
  BY <1>7, <1>8
<1>9. ASSUME screen' = [q EXCEPT !.loading = TRUE], calls' = (cs \ RosterCalls) \cup {d},
             CurrentSchool(p) # "none"
      PROVE  screen' \in RosterScreens /\ \A c \in calls' : RosterCallTyped(c)
  <2>1. /\ p.scope \in 0..MaxScopes /\ p.contexts \in SUBSET RosterSchools
        /\ p.search \in Wanted /\ p.at \in 1..LastPage
    BY DEF RosterScreens
  <2>2. p.school \in RosterSchools
    BY <1>9, <2>1 DEF CurrentSchool
  <2>3. rows \in RosterPages
    BY <2>1, <2>2, Zenon DEF RosterPages
  <2>4. RosterCallTyped(d)
    BY <2>3 DEF RosterCallTyped
  <2> HIDE DEF d
  <2> QED BY <1>7, <1>9, <2>4
<1>10. \/ screen' = [q EXCEPT !.loading = FALSE] /\ calls' = cs \ RosterCalls
       \/ /\ screen' = [q EXCEPT !.loading = TRUE] /\ calls' = (cs \ RosterCalls) \cup {d}
          /\ CurrentSchool(p) # "none"
  BY <1>1 DEF LoadRoster
<1> QED BY <1>8, <1>9, <1>10

LEMMA RosterTypedStep == RosterTyped /\ [RosterNext]_tabVars => RosterTyped'
<1> SUFFICES ASSUME RosterTyped, [RosterNext]_tabVars PROVE RosterTyped'
  OBVIOUS
<1>0. RosterInv' /\ screen \in RosterScreens /\ \A c \in calls : RosterCallTyped(c)
  BY RosterStep DEF RosterTyped
<1>1. CASE UNCHANGED tabVars
  BY <1>0, <1>1 DEF tabVars, RosterTyped
<1>2. ASSUME screen' \in RosterScreens, \A c \in calls' : RosterCallTyped(c)
      PROVE  RosterTyped'
  BY <1>0, <1>2 DEF RosterTyped
<1>3. ASSUME NEW p \in RosterScreens, NEW cs, LoadRoster(p, cs),
             \A c \in cs : c \in calls \/ c.kind = "scope"
      PROVE  RosterTyped'
  <2>1. \A c \in cs \ RosterCalls : RosterCallTyped(c)
    BY <1>0, <1>3 DEF RosterCallTyped
  <2> QED BY <1>2, <1>3, <2>1, LoadedTyped
<1>4. ASSUME NEW allowed \in BOOLEAN, screen.scope < MaxScopes, ReadScope(screen, allowed)
      PROVE  RosterTyped'
  <2>1. PICK school : school = IF allowed THEN screen.school ELSE "none"
    OBVIOUS
  <2>2. PICK scope : scope = screen.scope + 1
    OBVIOUS
  <2>3. screen.scope \in 0..MaxScopes /\ screen.school \in RosterSchools \cup {"none"}
    BY <1>0 DEF RosterScreens
  <2>4. school \in RosterSchools \cup {"none"}
    BY <2>1, <2>3
  <2>5. scope \in 0..MaxScopes
    BY <1>4, <2>2, <2>3, RosterBounds
  <2>6. PICK f : f = Forgotten(screen)
    OBVIOUS
  <2>7. f \in RosterScreens
    BY <1>0, <2>6, RosterBounds, Zenon DEF RosterScreens, Forgotten
  <2>8. f.scope = screen.scope /\ f.school = screen.school
    BY <1>0, <2>6 DEF RosterScreens, Forgotten
  <2>9. PICK q : q = [f EXCEPT !.scope = scope, !.allowed = allowed, !.busy = allowed,
                               !.school = school]
    OBVIOUS
  <2>10. q \in RosterScreens
    BY <1>4, <2>4, <2>5, <2>7, <2>9, Zenon DEF RosterScreens
  <2>11. q = [Forgotten(screen) EXCEPT !.scope = @ + 1, !.allowed = allowed, !.busy = allowed,
                                       !.school = IF allowed THEN @ ELSE "none"]
    BY <2>1, <2>2, <2>6, <2>7, <2>8, <2>9 DEF RosterScreens
  <2>12. LoadRoster(q, IF allowed THEN {ScopeRequest(q)} ELSE {})
    BY <1>4, <2>11 DEF ReadScope
  <2>13. ScopeRequest(q).kind = "scope"
    BY DEF ScopeRequest
  <2> QED BY <1>3, <2>10, <2>12, <2>13
<1>5. ASSUME NEW a \in BOOLEAN, AccountChecked(a) PROVE RosterTyped'
  BY <1>4, <1>5 DEF AccountChecked
<1>6. CASE RetryScope
  <2>1. screen.allowed \in BOOLEAN
    BY <1>0 DEF RosterScreens
  <2> QED BY <1>4, <1>6, <2>1 DEF RetryScope
<1>7. ASSUME NEW c \in calls, RosterArrives(c) PROVE RosterTyped'
  <2>1. PICK rows : rows = IF screen.at = 1 THEN {c.rows} ELSE screen.rows \cup {c.rows}
    OBVIOUS
  <2>2. screen.rows \in SUBSET RosterPages /\ screen.school \in RosterSchools \cup {"none"}
    BY <1>0 DEF RosterScreens
  <2>3. c.rows \in RosterPages
    BY <1>0, <1>7 DEF RosterArrives, RosterCallTyped
  <2>4. rows \in SUBSET RosterPages
    BY <2>1, <2>2, <2>3
  <2>5. PICK school : school = screen.school
    OBVIOUS
  <2>6. screen' = [screen EXCEPT !.loading = FALSE, !.rowsOf = school, !.rows = rows]
    BY <1>0, <1>7, <2>1, <2>5 DEF RosterArrives, RosterScreens
  <2>7. school \in RosterSchools \cup {"none"}
    BY <2>2, <2>5
  <2>8. screen' \in RosterScreens
    BY <1>0, <2>4, <2>6, <2>7, Zenon DEF RosterScreens
  <2> QED BY <1>0, <1>2, <1>7, <2>8 DEF RosterArrives, Ended
<1>8. ASSUME NEW c \in calls, RosterFails(c) PROVE RosterTyped'
  <2>1. PICK q : q = IF screen.at = 1 THEN [screen EXCEPT !.rows = {}, !.rowsOf = "none"]
                                      ELSE screen
    OBVIOUS
  <2>2. [screen EXCEPT !.rows = {}, !.rowsOf = "none"] \in RosterScreens
    BY <1>0, RosterBounds, Zenon DEF RosterScreens
  <2>3. q \in RosterScreens
    BY <1>0, <2>1, <2>2
  <2>4. screen' = [q EXCEPT !.loading = FALSE, !.rowsError = TRUE]
    BY <1>8, <2>1 DEF RosterFails
  <2>5. screen' \in RosterScreens
    BY <2>3, <2>4, Zenon DEF RosterScreens
  <2> QED BY <1>0, <1>2, <1>8, <2>5 DEF RosterFails, Ended
<1>9. ASSUME NEW c \in calls, ScopeArrives(c) PROVE RosterTyped'
  <2>1. PICK contexts \in SUBSET RosterSchools :
          LoadRoster([screen EXCEPT !.contexts = contexts, !.busy = FALSE,
                        !.school = IF @ \in contexts THEN @ ELSE
                                   IF contexts = {} THEN "none"
                                   ELSE CHOOSE s \in contexts : TRUE], calls \ {c})
    BY <1>9 DEF ScopeArrives
  <2>2. PICK school : school = IF screen.school \in contexts THEN screen.school ELSE
                               IF contexts = {} THEN "none" ELSE CHOOSE s \in contexts : TRUE
    OBVIOUS
  <2>3. school \in RosterSchools \cup {"none"}
    BY <2>1, <2>2
  <2>4. PICK p : p = [screen EXCEPT !.contexts = contexts, !.busy = FALSE, !.school = school]
    OBVIOUS
  <2>5. p \in RosterScreens
    BY <1>0, <2>3, <2>4, Zenon DEF RosterScreens
  <2>6. LoadRoster(p, calls \ {c})
    BY <1>0, <2>1, <2>2, <2>4 DEF RosterScreens
  <2> QED BY <1>3, <2>5, <2>6
<1>10. ASSUME NEW c \in calls, ScopeFails(c) PROVE RosterTyped'
  <2>1. PICK p : p = [screen EXCEPT !.error = TRUE, !.busy = FALSE]
    OBVIOUS
  <2>2. p \in RosterScreens
    BY <1>0, <2>1, Zenon DEF RosterScreens
  <2> QED BY <1>3, <1>10, <2>1, <2>2 DEF ScopeFails
<1>11. ASSUME NEW p \in RosterScreens, LoadRoster(p, calls) PROVE RosterTyped'
  BY <1>3, <1>11
<1>12. ASSUME NEW s \in RosterSchools, PickSchool(s) PROVE RosterTyped'
  <2>1. PICK p : p = [screen EXCEPT !.school = s, !.rowsOf = "none", !.rows = {}, !.at = 1]
    OBVIOUS
  <2>2. p \in RosterScreens
    BY <1>0, <2>1, RosterBounds, Zenon DEF RosterScreens
  <2> QED BY <1>11, <1>12, <2>1, <2>2 DEF PickSchool
<1>13. ASSUME NEW w \in Wanted, SearchRoster(w) PROVE RosterTyped'
  <2>1. Sought(w) \in RosterScreens
    BY <1>0, RosterBounds, Zenon DEF RosterScreens, Sought
  <2> QED BY <1>11, <1>13, <2>1 DEF SearchRoster
<1>14. CASE ShowMore
  <2>1. PICK at : at = screen.at + 1
    OBVIOUS
  <2>2. screen.at \in 1..LastPage
    BY <1>0 DEF RosterScreens
  <2>3. at \in 1..LastPage
    BY <1>14, <2>1, <2>2, RosterBounds DEF ShowMore
  <2>4. PICK p : p = [screen EXCEPT !.at = at]
    OBVIOUS
  <2>5. p \in RosterScreens
    BY <1>0, <2>3, <2>4, Zenon DEF RosterScreens
  <2> QED BY <1>11, <1>14, <2>1, <2>4, <2>5 DEF ShowMore
<1>15. CASE ShowLess
  <2>1. PICK p : p = [screen EXCEPT !.at = 1, !.rows = {}, !.rowsOf = "none"]
    OBVIOUS
  <2>2. p \in RosterScreens
    BY <1>0, <2>1, RosterBounds, Zenon DEF RosterScreens
  <2> QED BY <1>11, <1>15, <2>1, <2>2 DEF ShowLess
<1>16. CASE RetryRoster
  BY <1>0, <1>11, <1>16 DEF RetryRoster
<1>17. ASSUME NEW t \in {"overview", "students"}, SelectTab(t) PROVE RosterTyped'
  <2>1. PICK at : at = IF t = "students" THEN 1 ELSE screen.at
    OBVIOUS
  <2>2. at \in 1..LastPage
    BY <1>0, <2>1, RosterBounds DEF RosterScreens
  <2>3. PICK p : p = [screen EXCEPT !.tab = t, !.at = at]
    OBVIOUS
  <2>4. p \in RosterScreens
    BY <1>0, <2>2, <2>3, Zenon DEF RosterScreens
  <2>5. LoadRoster(p, calls)
    BY <1>0, <1>17, <2>1, <2>3 DEF SelectTab, RosterScreens
  <2> QED BY <1>11, <2>4, <2>5
<1>18. ASSUME NEW t \in {"overview", "students"}, AddressedTab(t) PROVE RosterTyped'
  <2>1. PICK p : p = [screen EXCEPT !.tab = t]
    OBVIOUS
  <2>2. p \in RosterScreens
    BY <1>0, <2>1, Zenon DEF RosterScreens
  <2> QED BY <1>11, <1>18, <2>1, <2>2 DEF AddressedTab
<1> QED BY <1>1, <1>5, <1>6, <1>7, <1>8, <1>9, <1>10, <1>12, <1>13, <1>14, <1>15, <1>16, <1>17,
           <1>18 DEF RosterNext

(***************************************************************************)
(* The types of ContentEditors.                                              *)
(***************************************************************************)
EditorScreens ==
  [page : {"editor"}, kind : Kinds, editing : BOOLEAN, open : BOOLEAN,
   core : SUBSET EditorSubjects, required : SUBSET Skills,
   catalog : {"loading", "here", "failed"}, loading : BOOLEAN,
   row : Revisions, base : Revisions, locked : BOOLEAN, mismatch : BOOLEAN,
   subject : EditorSubjects \cup {"none"}, skills : SUBSET Skills,
   owed : SUBSET Skills, saving : BOOLEAN, related : BOOLEAN]
EditorServers ==
  [rev : 1..MaxRev, body : 1..MaxRev, skills : SUBSET Skills, catalog : SUBSET Skills,
   locked : BOOLEAN]

EditorTyped ==
  EditorInv /\ screen \in EditorScreens /\ server \in EditorServers /\ calls \subseteq EditorCall

LEMMA EditorBounds ==
  /\ MaxRev \in Nat /\ 1 \in 1..MaxRev /\ 1..MaxRev \subseteq Revisions /\ 0 \in Revisions
  /\ {} \in SUBSET Skills
  /\ "none" \in EditorSubjects \cup {"none"} /\ EditorSubjects \subseteq EditorSubjects \cup {"none"}
  /\ "own" \in EditorSubjects \cup {"none"}
<1>1. MaxRev \in Nat \ {0}
  BY ContentEditorsAssumption DEF ContentEditorsAssumption
<1> QED BY <1>1 DEF Revisions, EditorSubjects

LEMMA EditorTypedStart == EditorInit => EditorTyped
<1> SUFFICES ASSUME EditorInit PROVE EditorTyped
  OBVIOUS
<1>1. PICK kind \in Kinds, editing \in BOOLEAN, core \in {EditorSubjects, {"other"}},
           required \in {{}} \cup {{k} : k \in Skills}, subject \in {"own", "other", "none"} :
       /\ kind = "course" => editing
       /\ kind = "newcourse" => ~editing
       /\ required # {} => kind = "lesson" /\ subject = IF "own" \in core THEN "own" ELSE "none"
       /\ kind = "course" => subject = "none"
       /\ kind = "lesson" => subject \in core \cup {"none"}
       /\ screen = [page |-> "editor", kind |-> kind, editing |-> editing, open |-> TRUE,
                    core |-> core, required |-> required, catalog |-> "loading",
                    loading |-> editing, row |-> 0, base |-> 0, locked |-> FALSE,
                    mismatch |-> FALSE, subject |-> subject,
                    skills |-> IF subject = "none" THEN {} ELSE required,
                    owed |-> required, saving |-> FALSE, related |-> TRUE]
  BY Zenon DEF EditorInit
<1>2. core \in SUBSET EditorSubjects /\ subject \in EditorSubjects \cup {"none"}
  BY DEF EditorSubjects
<1>3. PICK skills : skills = IF subject = "none" THEN {} ELSE required
  OBVIOUS
<1>31. required \in SUBSET Skills /\ skills \in SUBSET Skills
  BY <1>3
<1>4. "loading" \in {"loading", "here", "failed"}
  OBVIOUS
<1>5. screen \in EditorScreens
  BY <1>1, <1>2, <1>3, <1>31, <1>4, EditorBounds, Zenon DEF EditorScreens
<1>6. PICK linked \in SUBSET Skills, catalog \in SUBSET Skills, locked \in BOOLEAN :
        server = [rev |-> 1, body |-> 1, skills |-> linked, catalog |-> catalog,
                  locked |-> locked]
  BY Zenon DEF EditorInit
<1>7. server \in EditorServers
  BY <1>6, EditorBounds, Zenon DEF EditorServers
<1>8. calls \subseteq EditorCall
  BY DEF EditorInit
<1> QED BY <1>5, <1>7, <1>8, EditorStart DEF EditorTyped

LEMMA EditorTypedStep == EditorTyped /\ [EditorNext]_tabVars => EditorTyped'
<1> SUFFICES ASSUME EditorTyped, [EditorNext]_tabVars PROVE EditorTyped'
  OBVIOUS
<1>0. /\ EditorInv' /\ screen \in EditorScreens /\ server \in EditorServers
      /\ calls \subseteq EditorCall
  BY EditorStep DEF EditorTyped
<1>01. /\ screen.row \in Revisions /\ screen.base \in Revisions /\ screen.skills \in SUBSET Skills
       /\ screen.owed \in SUBSET Skills /\ screen.required \in SUBSET Skills
       /\ screen.related \in BOOLEAN /\ screen.subject \in EditorSubjects \cup {"none"}
  BY <1>0 DEF EditorScreens
<1>02. /\ server.rev \in 1..MaxRev /\ server.body \in 1..MaxRev /\ server.skills \in SUBSET Skills
       /\ server.locked \in BOOLEAN
  BY <1>0 DEF EditorServers
<1>1. CASE UNCHANGED tabVars
  BY <1>0, <1>1 DEF tabVars, EditorTyped
<1>2. ASSUME screen' \in EditorScreens, server' \in EditorServers,
             NEW d \in EditorCall, calls' \subseteq calls \cup {d}
      PROVE  EditorTyped'
  BY <1>0, <1>2 DEF EditorTyped
<1>3. ASSUME screen' \in EditorScreens, server' = server, calls' \subseteq calls
      PROVE  EditorTyped'
  BY <1>0, <1>3 DEF EditorTyped
\* The effects take skills away, and the subject with them.
<1>4. ASSUME NEW p \in EditorScreens PROVE Cleaned(p) \in EditorScreens
  <2>1. PICK skills : skills = IF Settled(p) THEN p.skills \cap Offers(p) ELSE p.skills
    OBVIOUS
  <2>2. p.skills \in SUBSET Skills
    BY <1>4 DEF EditorScreens
  <2>3. skills \in SUBSET Skills
    BY <2>1, <2>2
  <2>4. \/ Cleaned(p) = p
        \/ Cleaned(p) = [p EXCEPT !.subject = "none", !.skills = {}]
        \/ Cleaned(p) = [p EXCEPT !.skills = skills]
    BY <2>1 DEF Cleaned
  <2>5. [p EXCEPT !.skills = skills] \in EditorScreens
    BY <1>4, <2>3, Zenon DEF EditorScreens
  <2>6. [p EXCEPT !.subject = "none", !.skills = {}] \in EditorScreens
    BY <1>4, EditorBounds, Zenon DEF EditorScreens
  <2> QED BY <1>4, <2>4, <2>5, <2>6, Zenon
<1>5. ASSUME NEW catalog \in {"loading", "here", "failed"}
      PROVE  [screen EXCEPT !.catalog = catalog] \in EditorScreens
  BY <1>0, <1>5, Zenon DEF EditorScreens
<1>6. CASE TaxonomyHere
  <2>1. PICK outcome \in {"here", "failed"} :
          screen' = Cleaned([screen EXCEPT !.catalog = outcome])
    BY <1>6 DEF TaxonomyHere
  <2>2. outcome \in {"loading", "here", "failed"}
    BY <2>1
  <2>3. screen' \in EditorScreens
    BY <1>4, <1>5, <2>1, <2>2
  <2> QED BY <1>3, <1>6, <2>3 DEF TaxonomyHere
<1>7. CASE RowHere
  <2>1. PICK o : o = IF screen.kind = "course" THEN [screen EXCEPT !.catalog = "here"] ELSE screen
    OBVIOUS
  <2>2. "here" \in {"loading", "here", "failed"}
    OBVIOUS
  <2>3. o \in EditorScreens
    BY <1>0, <1>5, <2>1, <2>2
  <2>4. PICK mismatch : mismatch = ~(o.required \subseteq server.skills)
    OBVIOUS
  <2>5. mismatch \in BOOLEAN
    BY <2>4
  <2>6. PICK rev, body, skills, locked : rev = server.rev /\ body = server.body
                                         /\ skills = server.skills /\ locked = server.locked
    OBVIOUS
  <2>7. rev \in Revisions /\ body \in Revisions /\ skills \in SUBSET Skills /\ locked \in BOOLEAN
    BY <1>02, <2>6, EditorBounds
  <2>8. FilledForm(o) = [o EXCEPT !.row = rev, !.base = body, !.locked = locked,
                           !.mismatch = mismatch, !.subject = "own", !.skills = skills,
                           !.owed = skills, !.loading = FALSE]
    BY <2>4, <2>6 DEF FilledForm
  <2>9. PICK p : p = [o EXCEPT !.row = rev, !.base = body, !.locked = locked,
                               !.mismatch = mismatch]
    OBVIOUS
  <2>11. p \in EditorScreens
    BY <2>3, <2>5, <2>7, <2>9, Zenon DEF EditorScreens
  <2>12. [p EXCEPT !.subject = "own", !.skills = skills, !.owed = skills, !.loading = FALSE]
         \in EditorScreens
    BY <2>7, <2>11, EditorBounds, Zenon DEF EditorScreens
  <2>13. FilledForm(o)
         = [p EXCEPT !.subject = "own", !.skills = skills, !.owed = skills, !.loading = FALSE]
    BY <2>3, <2>8, <2>9 DEF EditorScreens
  <2>14. FilledForm(o) \in EditorScreens
    BY <2>12, <2>13
  <2>10. screen' = Cleaned(FilledForm(o)) /\ calls' = calls /\ server' = server
    BY <1>7, <2>1 DEF RowHere
  <2> QED BY <1>3, <1>4, <2>10, <2>14
<1>8. CASE RowReadFails \/ CancelEditor
  <2>1. \/ screen' = [screen EXCEPT !.loading = FALSE]
        \/ screen' = [screen EXCEPT !.open = FALSE]
    BY <1>8 DEF RowReadFails, CancelEditor
  <2>2. screen' \in EditorScreens
    BY <1>0, <2>1, Zenon DEF EditorScreens
  <2> QED BY <1>3, <1>8, <2>2 DEF RowReadFails, CancelEditor
<1>9. ASSUME NEW s \in EditorSubjects, PickSubject(s) PROVE EditorTyped'
  <2>1. s \in EditorSubjects \cup {"none"}
    BY <1>9
  <2>2. [screen EXCEPT !.subject = s, !.skills = {}, !.owed = {}] \in EditorScreens
    BY <1>0, <2>1, EditorBounds, Zenon DEF EditorScreens
  <2> QED BY <1>3, <1>4, <1>9, <2>2 DEF PickSubject
<1>10. ASSUME NEW k \in Skills, TickSkill(k) PROVE EditorTyped'
  <2>1. PICK skills, owed : \/ skills = screen.skills \ {k} /\ owed = screen.owed \ {k}
                               /\ screen' = [screen EXCEPT !.skills = skills, !.owed = owed]
                            \/ skills = screen.skills \cup {k} /\ owed = screen.owed \cup {k}
                               /\ screen' = [screen EXCEPT !.skills = skills, !.owed = owed]
    BY <1>10 DEF TickSkill
  <2>2. skills \in SUBSET Skills /\ owed \in SUBSET Skills
    BY <1>01, <1>10, <2>1
  <2>3. screen' \in EditorScreens
    BY <1>0, <2>1, <2>2, Zenon DEF EditorScreens
  <2> QED BY <1>3, <1>10, <2>3 DEF TickSkill
<1>11. [screen EXCEPT !.saving = TRUE] \in EditorScreens
  BY <1>0, Zenon DEF EditorScreens
<1>12. ASSUME NEW kind \in {"create", "update", "relate"}, NEW skills \in SUBSET Skills,
              NEW owed \in SUBSET Skills, NEW row, row = screen.row, NEW base, base = screen.base
       PROVE  [kind |-> kind, expected |-> row, base |-> base, skills |-> skills,
               owed |-> owed, answer |-> 0, stage |-> "sent"] \in EditorCall
  <2>1. row \in Revisions /\ base \in Revisions
    BY <1>01, <1>12
  <2>2. "sent" \in {"sent", "ok", "refused", "refresh"}
    OBVIOUS
  <2> QED BY <1>12, <2>1, <2>2, EditorBounds, Zenon DEF EditorCall
<1>13. CASE SaveForm
  <2>1. PICK kind : kind = IF screen.row # 0 THEN "update" ELSE "create"
    OBVIOUS
  <2>2. kind \in {"create", "update", "relate"}
    BY <2>1
  <2> DEFINE d == [kind |-> kind, expected |-> screen.row, base |-> screen.base,
                   skills |-> screen.skills, owed |-> screen.owed, answer |-> 0,
                   stage |-> "sent"]
  <2>3. d \in EditorCall
    BY <1>01, <1>12, <2>2
  <2>4. calls' \subseteq calls \cup {d} /\ server' = server
        /\ screen' = [screen EXCEPT !.saving = TRUE]
    BY <1>13, <2>1 DEF SaveForm
  <2> HIDE DEF d
  <2> QED BY <1>0, <1>2, <1>11, <2>3, <2>4
<1>14. CASE Relate
  <2> DEFINE d == [kind |-> "relate", expected |-> screen.row, base |-> screen.base,
                   skills |-> {}, owed |-> {}, answer |-> 0, stage |-> "sent"]
  <2>1. "relate" \in {"create", "update", "relate"}
    OBVIOUS
  <2>2. d \in EditorCall
    BY <1>12, <2>1, EditorBounds
  <2>3. calls' \subseteq calls \cup {d} /\ server' = server
        /\ screen' = [screen EXCEPT !.saving = TRUE]
    BY <1>14 DEF Relate
  <2> HIDE DEF d
  <2> QED BY <1>0, <1>2, <1>11, <2>2, <2>3
<1>15. ASSUME \/ TopicEditor \/ LessonEditor \/ LibraryEditor \/ CoursePanel
              \/ CourseSettings \/ CourseAttachments \/ CourseCurriculum
       PROVE  EditorTyped'
  <2>1. FillForm => EditorTyped'
    BY <1>9, <1>10 DEF FillForm
  <2>2. FillForm \/ SaveForm \/ Relate
    BY <1>15 DEF TopicEditor, LessonEditor, LibraryEditor, CoursePanel, CourseSettings,
       CourseAttachments, CourseCurriculum, TopicSubmit, LessonSubmit, LibrarySubmit, CreateCourse,
       SaveSettings, LinkTopic, WriteModules
  <2> QED BY <1>13, <1>14, <2>1, <2>2
\* The server.
<1>16. ASSUME NEW n, n = server.rev + 1, server.rev < MaxRev PROVE n \in 1..MaxRev /\ n \in Revisions
  BY <1>02, <1>16, EditorBounds DEF Revisions
<1>17. CASE AnotherWrites
  <2>1. PICK n : n = server.rev + 1
    OBVIOUS
  <2>2. PICK skills \in SUBSET Skills :
          server' = [server EXCEPT !.rev = n, !.body = n, !.skills = skills]
    BY <1>17, <2>1 DEF AnotherWrites
  <2>3. n \in 1..MaxRev
    BY <1>16, <1>17, <2>1 DEF AnotherWrites
  <2>4. server' \in EditorServers
    BY <1>0, <2>2, <2>3, Zenon DEF EditorServers
  <2>5. screen' = screen /\ calls' = calls
    BY <1>17 DEF AnotherWrites
  <2> QED BY <1>0, <2>4, <2>5 DEF EditorTyped
<1>18. ASSUME NEW c \in calls, NEW stage \in {"sent", "ok", "refused", "refresh"}
       PROVE  [c EXCEPT !.stage = stage] \in EditorCall
  <2>1. c \in EditorCall
    BY <1>0, <1>18
  <2> QED BY <1>18, <2>1, Zenon DEF EditorCall
<1>19. ASSUME NEW c \in calls, NEW stage \in {"sent", "ok", "refused", "refresh"},
              Advances(c, stage), screen' \in EditorScreens, server' \in EditorServers
       PROVE  EditorTyped'
  <2>1. calls' \subseteq calls \cup {[c EXCEPT !.stage = stage]}
    BY <1>19 DEF Advances
  <2> QED BY <1>2, <1>18, <1>19, <2>1
<1>20. ASSUME NEW c \in calls PROVE /\ c.skills \in SUBSET Skills /\ c.answer \in Revisions
  BY <1>0, <1>20 DEF EditorCall
<1>21. ASSUME NEW c \in calls, EditorStored(c) PROVE EditorTyped'
  <2>1. CASE server' = server /\ (Advances(c, "ok") \/ Advances(c, "refused"))
    BY <1>0, <1>19, <1>21, <2>1 DEF EditorStored
  <2>2. CASE c.kind # "create" /\ c.expected = server.rev
    <3>1. PICK n : n = server.rev + 1
      OBVIOUS
    <3>2. n \in 1..MaxRev /\ n \in Revisions
      BY <1>16, <1>21, <2>2, <3>1 DEF EditorStored
    <3>3. PICK body : body = IF c.kind = "update" THEN n ELSE server.body
      OBVIOUS
    <3>4. PICK skills : skills = IF c.kind = "update" THEN c.skills ELSE server.skills
      OBVIOUS
    <3>5. body \in 1..MaxRev /\ skills \in SUBSET Skills
      BY <1>02, <1>20, <3>2, <3>3, <3>4
    <3>6. server' = [server EXCEPT !.rev = n, !.body = body, !.skills = skills]
      BY <1>0, <1>21, <2>2, <3>1, <3>3, <3>4 DEF EditorStored, EditorServers
    <3>7. server' \in EditorServers
      BY <1>0, <3>2, <3>5, <3>6, Zenon DEF EditorServers
    <3>8. PICK d : d = [c EXCEPT !.stage = "ok", !.answer = n]
      OBVIOUS
    <3>9. c \in EditorCall /\ "ok" \in {"sent", "ok", "refused", "refresh"}
      BY <1>0
    <3>10. d \in EditorCall
      BY <3>2, <3>8, <3>9, Zenon DEF EditorCall
    <3>11. calls' \subseteq calls \cup {d} /\ screen' = screen
      BY <1>21, <2>2, <3>1, <3>8 DEF EditorStored
    <3> QED BY <1>0, <1>2, <3>7, <3>10, <3>11
  <2> QED BY <1>21, <2>1, <2>2 DEF EditorStored
\* The answers.
<1>22. ASSUME NEW c \in calls, EditorSaveDone(c) PROVE EditorTyped'
  <2>1. PICK answer, skills : answer = c.answer /\ skills = c.skills
    OBVIOUS
  <2>2. answer \in Revisions /\ skills \in SUBSET Skills
    BY <1>20, <2>1
  <2>3. PICK p : p = [screen EXCEPT !.row = answer, !.base = answer, !.subject = "own",
                                    !.skills = skills, !.owed = skills, !.saving = FALSE]
    OBVIOUS
  <2>4. p \in EditorScreens
    BY <1>0, <2>2, <2>3, EditorBounds, Zenon DEF EditorScreens
  <2>5. [screen EXCEPT !.open = FALSE, !.saving = FALSE] \in EditorScreens
    BY <1>0, Zenon DEF EditorScreens
  <2>6. screen' \in {screen, Cleaned(p), [screen EXCEPT !.open = FALSE, !.saving = FALSE]}
    BY <1>22, <2>1, <2>3 DEF EditorSaveDone
  <2>7. screen' \in EditorScreens
    BY <1>0, <1>4, <2>4, <2>5, <2>6
  <2> QED BY <1>3, <1>22, <2>7 DEF EditorSaveDone, Ended
<1>23. ASSUME NEW c \in calls, RelateDone(c) PROVE EditorTyped'
  <2>1. PICK answer : answer = c.answer
    OBVIOUS
  <2>2. answer \in Revisions
    BY <1>20, <2>1
  <2>3. PICK p : p = [screen EXCEPT !.row = answer]
    OBVIOUS
  <2>4. p \in EditorScreens
    BY <1>0, <2>2, <2>3, Zenon DEF EditorScreens
  <2>5. screen' = [p EXCEPT !.related = FALSE]
    BY <1>23, <2>1, <2>3 DEF RelateDone, Adopts
  <2>6. screen' \in EditorScreens
    BY <2>4, <2>5, Zenon DEF EditorScreens
  <2>7. Advances(c, "refresh") /\ server' = server
    BY <1>23 DEF RelateDone
  <2> QED BY <1>0, <1>19, <2>6, <2>7
<1>24. ASSUME NEW c \in calls, RelateRefreshed(c) PROVE EditorTyped'
  <2>1. PICK here \in BOOLEAN :
          screen' = [screen EXCEPT !.saving = FALSE, !.related = screen.related \/ here]
    BY <1>24 DEF RelateRefreshed
  <2>2. PICK related : related = (screen.related \/ here)
    OBVIOUS
  <2>3. related \in BOOLEAN
    BY <1>01, <2>1, <2>2
  <2>4. screen' = [screen EXCEPT !.saving = FALSE, !.related = related]
    BY <2>1, <2>2
  <2>5. screen' \in EditorScreens
    BY <1>0, <2>3, <2>4, Zenon DEF EditorScreens
  <2> QED BY <1>3, <1>24, <2>5 DEF RelateRefreshed, Ended
<1>25. ASSUME NEW c \in calls, EditorCallFails(c) PROVE EditorTyped'
  <2>1. screen' = [screen EXCEPT !.saving = FALSE]
    BY <1>25 DEF EditorCallFails
  <2>2. screen' \in EditorScreens
    BY <1>0, <2>1, Zenon DEF EditorScreens
  <2> QED BY <1>3, <1>25, <2>2 DEF EditorCallFails, Ended
<1> QED BY <1>1, <1>6, <1>7, <1>8, <1>15, <1>17, <1>21, <1>22, <1>23, <1>24, <1>25 DEF EditorNext

(***************************************************************************)
(* The types of HomepageEditor.                                              *)
(***************************************************************************)
HomepageScreens ==
  [page : {"homepage"}, present : BOOLEAN, loading : BOOLEAN, loadFailed : BOOLEAN,
   catalog : {"loading", "ready", "failed"}, saving : BOOLEAN,
   base : Versions \cup {Default}, edits : SUBSET HomepageParts, changed : 0..MaxEdits,
   visitor : Versions \cup {Default}, patched : Versions]
HomepageServers == [version : Versions, blind : BOOLEAN]

\* A file to be read has the number of a change where a call has a version.
HomepageCallTyped(c) ==
  c.part \in HomepageParts /\ (c.kind # "file" => c.version \in Versions \cup {Default})

HomepageTyped ==
  /\ HomepageInv /\ screen \in HomepageScreens /\ server \in HomepageServers
  /\ \A c \in calls : HomepageCallTyped(c)

LEMMA HomepageBounds ==
  /\ 0 \in 0..MaxEdits /\ 0 \in Versions /\ 1 \in Versions /\ MaxEdits \in Nat
  /\ MaxVersions \in Nat /\ Default \notin Versions
  /\ \A n \in Versions : n \in Nat /\ (n < MaxVersions => n + 1 \in Versions)
BY HomepageEditorAssumption DEF HomepageEditorAssumption, Versions, Default

LEMMA ReadingTyped == ASSUME NEW kind PROVE HomepageCallTyped(Reading(kind))
BY DEF Reading, HomepageCallTyped, HomepageParts

LEMMA HomepageTypedStart == HomepageInit => HomepageTyped
<1> SUFFICES ASSUME HomepageInit PROVE HomepageTyped
  OBVIOUS
<1>1. screen \in HomepageScreens
  BY HomepageBounds, Zenon DEF HomepageInit, HomepageScreens
<1>2. server \in HomepageServers
  BY HomepageBounds DEF HomepageInit, HomepageServers
<1>3. \A c \in calls : HomepageCallTyped(c)
  BY ReadingTyped, Zenon DEF HomepageInit
<1> QED BY <1>1, <1>2, <1>3, HomepageStart DEF HomepageTyped

LEMMA HomepageTypedStep == HomepageTyped /\ [HomepageNext]_tabVars => HomepageTyped'
<1> SUFFICES ASSUME HomepageTyped, [HomepageNext]_tabVars PROVE HomepageTyped'
  OBVIOUS
<1>0. /\ HomepageInv' /\ screen \in HomepageScreens /\ server \in HomepageServers
      /\ \A c \in calls : HomepageCallTyped(c) /\ DOMAIN c = HomepageCallFields
  BY HomepageStep DEF HomepageTyped, HomepageInv, HomepageHolds, HomepageCall
<1>1. CASE UNCHANGED tabVars
  BY <1>0, <1>1 DEF tabVars, HomepageTyped
<1>2. ASSUME NEW d, HomepageCallTyped(d), calls' \subseteq calls \cup {d},
             screen' \in HomepageScreens, server' \in HomepageServers
      PROVE  HomepageTyped'
  BY <1>0, <1>2 DEF HomepageTyped
<1>3. ASSUME calls' \subseteq calls, screen' \in HomepageScreens, server' \in HomepageServers
      PROVE  HomepageTyped'
  BY <1>0, <1>3 DEF HomepageTyped
<1>4. ASSUME screen.changed < MaxEdits PROVE screen.changed + 1 \in 0..MaxEdits
  BY <1>0, <1>4, HomepageBounds DEF HomepageScreens
<1>5. ASSUME NEW part \in HomepageParts, Edit(part) PROVE HomepageTyped'
  <2>1. PICK edits, changed : edits = screen.edits \cup {part} /\ changed = screen.changed + 1
    OBVIOUS
  <2>2. edits \in SUBSET HomepageParts /\ changed \in 0..MaxEdits
    BY <1>0, <1>4, <1>5, <2>1 DEF Edit, HomepageScreens
  <2>3. screen' = [screen EXCEPT !.edits = edits, !.changed = changed]
    BY <1>5, <2>1 DEF Edit
  <2>4. screen' \in HomepageScreens
    BY <1>0, <2>2, <2>3, Zenon DEF HomepageScreens
  <2> QED BY <1>0, <1>3, <1>5, <2>4 DEF Edit
<1>6. ASSUME NEW part \in HomepageParts, ChooseImage(part) PROVE HomepageTyped'
  <2> DEFINE d == [Reading("file") EXCEPT !.version = screen.changed, !.part = part]
  <2>1. PICK changed : changed = screen.changed + 1
    OBVIOUS
  <2>2. changed \in 0..MaxEdits
    BY <1>4, <1>6, <2>1 DEF ChooseImage
  <2>3. screen' = [screen EXCEPT !.changed = changed] /\ calls' = calls \cup {d} /\ server' = server
    BY <1>6, <2>1 DEF ChooseImage
  <2>4. screen' \in HomepageScreens
    BY <1>0, <2>2, <2>3, Zenon DEF HomepageScreens
  <2>5. HomepageCallTyped(d)
    BY DEF Reading, HomepageCallTyped
  <2> HIDE DEF d
  <2> QED BY <1>0, <1>2, <2>3, <2>4, <2>5
<1>7. CASE HandleSave
  <2> DEFINE d == [Reading("save") EXCEPT !.base = screen.base]
  <2>1. screen' = [screen EXCEPT !.saving = TRUE] /\ calls' = calls \cup {d} /\ server' = server
    BY <1>7 DEF HandleSave
  <2>2. screen' \in HomepageScreens
    BY <1>0, <2>1, Zenon DEF HomepageScreens
  <2>3. HomepageCallTyped(d)
    BY DEF Reading, HomepageCallTyped, HomepageParts
  <2> HIDE DEF d
  <2> QED BY <1>0, <1>2, <2>1, <2>2, <2>3
<1>8. CASE AnotherAdminSaves
  <2>1. PICK version : version = server.version + 1
    OBVIOUS
  <2>2. version \in Versions
    BY <1>0, <1>8, <2>1, HomepageBounds DEF AnotherAdminSaves, HomepageServers
  <2>3. server' = [server EXCEPT !.version = version] /\ screen' = screen /\ calls' = calls
    BY <1>8, <2>1 DEF AnotherAdminSaves
  <2>4. server' \in HomepageServers
    BY <1>0, <2>2, <2>3, Zenon DEF HomepageServers
  <2> QED BY <1>0, <1>3, <2>3, <2>4
<1>9. ASSUME NEW c \in calls, NEW version \in Versions, screen' = screen,
             calls' = (calls \ {c}) \cup {[c EXCEPT !.version = version]},
             server' \in HomepageServers
      PROVE  HomepageTyped'
  <2> DEFINE d == [c EXCEPT !.version = version]
  <2>1. HomepageCallTyped(d)
    BY <1>0 DEF HomepageCallTyped, HomepageCallFields
  <2> HIDE DEF d
  <2> QED BY <1>0, <1>2, <1>9, <2>1 DEF d
<1>10. ASSUME NEW c \in calls, SettingsRead(c) \/ SaveStored(c) PROVE HomepageTyped'
  <2>1. CASE SettingsRead(c)
    BY <1>0, <1>9, <2>1 DEF SettingsRead, HomepageServers
  <2>2. CASE SaveStored(c)
    <3>1. PICK version, blind : version = server.version + 1
            /\ blind = (server.blind \/ (c.base = Default /\ server.version # 0))
      OBVIOUS
    <3>2. version \in Versions
      BY <1>0, <2>2, <3>1, HomepageBounds DEF SaveStored, HomepageServers
    <3>3. blind \in BOOLEAN
      BY <3>1
    <3>4. server' = [version |-> version, blind |-> blind] /\ screen' = screen
          /\ calls' = (calls \ {c}) \cup {[c EXCEPT !.version = version]}
      BY <2>2, <3>1 DEF SaveStored
    <3>5. server' \in HomepageServers
      BY <3>2, <3>3, <3>4 DEF HomepageServers
    <3> QED BY <1>9, <3>2, <3>4, <3>5
  <2> QED BY <1>10, <2>1, <2>2
<1>11. ASSUME NEW c \in calls,
              \/ SettingsArrive(c) \/ SettingsFail(c) \/ CatalogAnswers(c) \/ ImageRead(c)
              \/ HomepageSaved(c) \/ SaveFails(c) \/ VisitorArrives(c) \/ VisitorFails(c)
       PROVE  HomepageTyped'
  <2>1. calls' \subseteq calls /\ server' = server /\ HomepageCallTyped(c)
    BY <1>0, <1>11 DEF SettingsArrive, SettingsFail, CatalogAnswers, ImageRead, HomepageSaved,
       SaveFails, VisitorArrives, VisitorFails, Ended
  <2>2. ASSUME SettingsArrive(c) PROVE screen' \in HomepageScreens
    <3>1. PICK base \in Versions \cup {Default} :
            screen' = [screen EXCEPT !.loading = FALSE, !.base = base]
      BY <2>1, <2>2 DEF SettingsArrive, HomepageCallTyped
    <3> QED BY <1>0, <3>1, Zenon DEF HomepageScreens
  <2>3. ASSUME SettingsFail(c) PROVE screen' \in HomepageScreens
    <3>1. screen' = [screen EXCEPT !.loading = FALSE, !.loadFailed = TRUE]
      BY <2>3 DEF SettingsFail
    <3> QED BY <1>0, <3>1, Zenon DEF HomepageScreens
  <2>4. ASSUME CatalogAnswers(c) PROVE screen' \in HomepageScreens
    <3>1. PICK catalog \in {"ready", "failed"} : screen' = [screen EXCEPT !.catalog = catalog]
      BY <2>4 DEF CatalogAnswers
    <3> QED BY <1>0, <3>1, Zenon DEF HomepageScreens
  <2>5. ASSUME ImageRead(c) PROVE screen' \in HomepageScreens
    <3>1. PICK edits : edits = screen.edits \cup {c.part}
      OBVIOUS
    <3>2. edits \in SUBSET HomepageParts
      BY <1>0, <2>1, <3>1 DEF HomepageCallTyped, HomepageScreens
    <3>3. screen' = screen \/ screen' = [screen EXCEPT !.edits = edits]
      BY <2>5, <3>1 DEF ImageRead
    <3> QED BY <1>0, <3>2, <3>3, Zenon DEF HomepageScreens
  <2>6. ASSUME HomepageSaved(c) PROVE screen' \in HomepageScreens
    <3>1. PICK version \in Versions : version = c.version
      BY <2>1, <2>6 DEF HomepageSaved, HomepageCallTyped
    <3>2. screen' = [[screen EXCEPT !.visitor = version, !.patched = version] EXCEPT
                       !.saving = FALSE, !.base = version, !.edits = {}]
      BY <2>6, <3>1 DEF HomepageSaved, Broadcast
    <3>3. {} \in SUBSET HomepageParts /\ version \in Versions \cup {Default}
      OBVIOUS
    <3> QED BY <1>0, <3>2, <3>3, Zenon DEF HomepageScreens
  <2>7. ASSUME SaveFails(c) PROVE screen' \in HomepageScreens
    <3>1. PICK signedOut \in BOOLEAN :
            screen' = [screen EXCEPT !.saving = FALSE, !.present = ~signedOut]
      BY <2>7 DEF SaveFails
    <3>2. PICK present \in BOOLEAN : present = ~signedOut
      OBVIOUS
    <3>3. screen' = [screen EXCEPT !.saving = FALSE, !.present = present]
      BY <3>1, <3>2
    <3> QED BY <1>0, <3>3, Zenon DEF HomepageScreens
  <2>8. ASSUME VisitorArrives(c) PROVE screen' \in HomepageScreens
    <3>1. screen.patched \in Versions
      BY <1>0 DEF HomepageScreens
    <3>2. VisitorShows(c) \in Versions \cup {Default}
      BY <2>1, <2>8, <3>1 DEF VisitorShows, VisitorArrives, HomepageCallTyped
    <3>3. screen' = [screen EXCEPT !.visitor = VisitorShows(c)]
      BY <2>8 DEF VisitorArrives
    <3> QED BY <1>0, <3>2, <3>3, Zenon DEF HomepageScreens
  <2>9. ASSUME VisitorFails(c) PROVE screen' \in HomepageScreens
    BY <1>0, <2>9 DEF VisitorFails
  <2>10. screen' \in HomepageScreens
    BY <1>11, <2>2, <2>3, <2>4, <2>5, <2>6, <2>7, <2>8, <2>9
  <2> QED BY <1>0, <1>3, <2>1, <2>10
<1>12. CASE \/ EditBrand \/ EditHero \/ EditHeroTexts \/ EditGallery \/ PickPreset
            \/ EditTestimonials \/ EditSections
            \/ \E part \in HomepageParts \ {"sections"} : ChooseImage(part)
  <2>1. PICK part \in HomepageParts : Edit(part) \/ ChooseImage(part)
    BY <1>12 DEF EditBrand, EditHero, EditHeroTexts, EditGallery, PickPreset, EditTestimonials,
       EditSections, HomepageParts
  <2> QED BY <1>5, <1>6, <2>1
<1> QED BY <1>1, <1>7, <1>8, <1>10, <1>11, <1>12 DEF HomepageNext

(***************************************************************************)
(* The types of PlatformFonts.                                               *)
(***************************************************************************)
FontsScreens(counts) ==
  [page : {"fonts"}, present : BOOLEAN, loading : BOOLEAN, saving : BOOLEAN,
   fonts : FontSettings, applied : FontSettings, changed : 0..MaxFontChanges, events : counts]
Announced == 0..(MaxFontChanges + MaxFontVersions)
FontCalls ==
  [kind : {"manager", "idle", "bootstrap", "file", "save"}, version : FontVersions \cup {BuiltIn},
   asked : {0}, n : 0..MaxFontChanges, fonts : FontSettings]

\* Those that will announce settings: a file that is read, a save that was stored.
Announcing(cs) == {c \in cs : c.kind = "file" \/ (c.kind = "save" /\ c.version # BuiltIn)}

FontsTyped ==
  /\ FontsInv /\ screen \in FontsScreens(Announced) /\ server \in FontVersions
  /\ calls \subseteq FontCalls /\ \A c \in calls : c.kind = "file" => c.n # 0
  /\ IsFiniteSet(Announcing(calls))
  /\ screen.events + Cardinality(Announcing(calls)) <= screen.changed + server

LEMMA FontsBounds ==
  /\ 0 \in 0..MaxFontChanges /\ 0 \in FontVersions /\ 1 \in FontVersions
  /\ 0 \in 0..(MaxFontChanges + MaxFontVersions)
  /\ MaxFontChanges \in Nat /\ MaxFontVersions \in Nat /\ BuiltIn \notin FontVersions
  /\ \A version \in FontVersions \cup {BuiltIn} : FontsFrom(version) \in FontSettings
BY PlatformFontsAssumption DEF PlatformFontsAssumption, FontVersions, BuiltIn, FontsFrom, FontSettings

LEMMA FontCallTyped ==
  ASSUME NEW kind \in {"manager", "idle", "bootstrap", "file", "save"}
  PROVE  FontCall(kind) \in FontCalls /\ FontCall(kind).kind = kind
         /\ FontCall(kind).version = BuiltIn
BY FontsBounds DEF FontCall, FontCalls, PlatformDefault

LEMMA FontsTypedStart == FontsInit => FontsTyped
<1> SUFFICES ASSUME FontsInit PROVE FontsTyped
  OBVIOUS
<1>1. PlatformDefault \in FontSettings
  BY FontsBounds DEF PlatformDefault
<1>2. screen \in FontsScreens(Announced)
  BY <1>1, FontsBounds, Zenon DEF FontsInit, FontsScreens, Announced
<1>3. Announcing(calls) = {}
  BY FontCallTyped DEF FontsInit, Announcing
<1>4. screen.events = 0 /\ screen.changed = 0 /\ server \in {0, 1} /\ Cardinality({}) = 0
  BY FS_EmptySet DEF FontsInit
<1>5. calls \subseteq FontCalls /\ \A c \in calls : c.kind = "file" => c.n # 0
  BY FontCallTyped DEF FontsInit
<1> QED BY <1>2, <1>3, <1>4, <1>5, FontsStart, FontsBounds, FS_EmptySet DEF FontsTyped

\* What is to be shown of a step.
LEMMA FontsMoved ==
  ASSUME FontsInv', screen' \in FontsScreens(Nat), server' \in FontVersions,
         calls' \subseteq FontCalls, \A c \in calls' : c.kind = "file" => c.n # 0,
         IsFiniteSet(Announcing(calls')),
         screen'.events + Cardinality(Announcing(calls')) <= screen'.changed + server'
  PROVE  FontsTyped'
<1>1. Cardinality(Announcing(calls')) \in Nat
  BY FS_CardinalityType
<1>2. screen'.events \in Nat /\ screen'.changed \in 0..MaxFontChanges
  BY DEF FontsScreens
<1>3. screen'.events \in Announced
  BY <1>1, <1>2, FontsBounds DEF Announced, FontVersions
<1>4. screen' \in FontsScreens(Announced)
  <2>1. \A p \in FontsScreens(Nat) : p.events \in Announced => p \in FontsScreens(Announced)
    BY Zenon DEF FontsScreens
  <2> QED BY <1>3, <2>1
<1> QED BY <1>4 DEF FontsTyped

LEMMA FontsTypedStep == FontsTyped /\ [FontsNext]_tabVars => FontsTyped'
<1> SUFFICES ASSUME FontsTyped, [FontsNext]_tabVars PROVE FontsTyped'
  OBVIOUS
<1> DEFINE before == Announcing(calls)
           after  == Announcing(calls')
<1>0. /\ FontsInv' /\ screen \in FontsScreens(Nat) /\ server \in FontVersions
      /\ calls \subseteq FontCalls /\ (\A c \in calls : c.kind = "file" => c.n # 0)
      /\ screen.changed \in 0..MaxFontChanges /\ screen.events \in Nat
      /\ IsFiniteSet(before) /\ Cardinality(before) \in Nat /\ server \in Nat
      /\ screen.events + Cardinality(before) <= screen.changed + server
      /\ screen.fonts \in FontSettings
  <2>1. /\ screen \in FontsScreens(Announced) /\ FontsInv' /\ server \in FontVersions
        /\ calls \subseteq FontCalls /\ (\A c \in calls : c.kind = "file" => c.n # 0)
        /\ IsFiniteSet(before) /\ Cardinality(before) \in Nat
        /\ screen.events + Cardinality(before) <= screen.changed + server
    BY FontsStep, FS_CardinalityType DEF FontsTyped
  <2>2. screen.changed \in 0..MaxFontChanges /\ screen.events \in Announced
        /\ screen.fonts \in FontSettings
    BY <2>1 DEF FontsScreens
  <2>3. screen.events \in Nat /\ server \in Nat
    BY <2>1, <2>2, FontsBounds DEF Announced, FontVersions
  <2>4. \A p \in FontsScreens(Announced) : p.events \in Nat => p \in FontsScreens(Nat)
    BY Zenon DEF FontsScreens
  <2> QED BY <2>1, <2>2, <2>3, <2>4
<1>1. CASE UNCHANGED tabVars
  BY <1>0, <1>1 DEF tabVars, FontsTyped
\* A change of the settings, and what it does to the screen.
<1>2. ASSUME NEW fonts \in FontSettings, NEW p, p = UpdateFonts(screen, fonts)
      PROVE  p \in FontsScreens(Nat) /\ p.events = screen.events + 1 /\ p.changed = screen.changed
  <2>1. PICK events : events = screen.events + 1
    OBVIOUS
  <2>2. events \in Nat
    BY <1>0, <2>1
  <2>3. p = [screen EXCEPT !.fonts = fonts, !.applied = fonts, !.events = events]
    BY <1>2, <2>1 DEF UpdateFonts
  <2>4. p \in FontsScreens(Nat)
    BY <1>0, <2>2, <2>3, Zenon DEF FontsScreens
  <2>5. p.events = events /\ p.changed = screen.changed
    BY <1>0, <2>3 DEF FontsScreens
  <2> QED BY <2>1, <2>4, <2>5
<1>3. ASSUME NEW fonts \in FontSettings, screen.changed < MaxFontChanges, calls' = calls,
             server' = server,
             screen' = [UpdateFonts(screen, fonts) EXCEPT !.changed = screen.changed + 1]
      PROVE  FontsTyped'
  <2>1. PICK p, changed : p = UpdateFonts(screen, fonts) /\ changed = screen.changed + 1
    OBVIOUS
  <2>2. changed \in 0..MaxFontChanges
    BY <1>0, <1>3, <2>1, FontsBounds
  <2>3. screen' = [p EXCEPT !.changed = changed] /\ p \in FontsScreens(Nat)
        /\ p.events = screen.events + 1
    BY <1>2, <1>3, <2>1
  <2>4. screen' \in FontsScreens(Nat)
    BY <2>2, <2>3, Zenon DEF FontsScreens
  <2>5. screen'.changed = screen.changed + 1 /\ screen'.events = screen.events + 1
    BY <2>1, <2>3 DEF FontsScreens
  <2> QED BY <1>0, <1>3, <2>4, <2>5, FontsMoved
<1>4. CASE ChangeFont
  <2>1. PICK fonts : fonts = [screen.fonts EXCEPT !.edits = @ \cup {screen.changed + 1}]
    OBVIOUS
  <2>2. screen.changed + 1 \in 1..MaxFontChanges
    BY <1>0, <1>4, FontsBounds DEF ChangeFont
  <2>3. PICK edits : edits = screen.fonts.edits \cup {screen.changed + 1}
    OBVIOUS
  <2>4. edits \in SUBSET (1..MaxFontChanges)
    BY <1>0, <2>2, <2>3 DEF FontSettings
  <2>5. fonts = [screen.fonts EXCEPT !.edits = edits]
    BY <2>1, <2>3
  <2>6. fonts \in FontSettings
    BY <1>0, <2>4, <2>5, Zenon DEF FontSettings
  <2>7. screen' = [UpdateFonts(screen, fonts) EXCEPT !.changed = screen.changed + 1]
        /\ calls' = calls /\ server' = server /\ screen.changed < MaxFontChanges
    BY <1>4, <2>1 DEF ChangeFont, UpdateFonts
  <2> QED BY <1>3, <2>6, <2>7
<1>5. CASE ResetToDefault
  <2>1. PlatformDefault \in FontSettings
    BY FontsBounds DEF PlatformDefault
  <2>2. screen' = [UpdateFonts(screen, PlatformDefault) EXCEPT !.changed = screen.changed + 1]
        /\ calls' = calls /\ server' = server /\ screen.changed < MaxFontChanges
    BY <1>5 DEF ResetToDefault, UpdateFonts
  <2> QED BY <1>3, <2>1, <2>2
<1>6. CASE ChooseFontFile
  <2>1. PICK changed : changed = screen.changed + 1
    OBVIOUS
  <2>2. changed \in 0..MaxFontChanges /\ changed # 0
    BY <1>0, <1>6, <2>1, FontsBounds DEF ChooseFontFile
  <2>3. PICK f : f = FontCall("file")
    OBVIOUS
  <2>4. f \in FontCalls
    BY <2>3, FontCallTyped
  <2>5. PICK d : d = [f EXCEPT !.n = changed, !.fonts = screen.fonts]
    OBVIOUS
  <2>6. d \in FontCalls
    BY <1>0, <2>2, <2>4, <2>5, Zenon DEF FontCalls
  <2>7. d.n = changed
    BY <2>4, <2>5 DEF FontCalls
  <2>8. calls' = calls \cup {d} /\ screen' = [screen EXCEPT !.changed = changed] /\ server' = server
    BY <1>6, <2>1, <2>3, <2>5 DEF ChooseFontFile
  <2>9. screen' \in FontsScreens(Nat)
    BY <1>0, <2>2, <2>8, Zenon DEF FontsScreens
  <2>10. screen'.changed = screen.changed + 1 /\ screen'.events = screen.events
    BY <1>0, <2>1, <2>8 DEF FontsScreens
  <2>11. after \subseteq before \cup {d}
    BY <2>8 DEF Announcing
  <2>12. IsFiniteSet(after) /\ Cardinality(after) \in 0..(Cardinality(before) + 1)
    BY <1>0, <2>11, CountsOf
  <2>13. screen'.events + Cardinality(after) <= screen'.changed + server'
    BY <1>0, <2>8, <2>10, <2>12
  <2>14. calls' \subseteq FontCalls /\ \A c \in calls' : c.kind = "file" => c.n # 0
    BY <1>0, <2>2, <2>6, <2>7, <2>8
  <2> HIDE DEF after
  <2> QED BY <1>0, <2>8, <2>9, <2>12, <2>13, <2>14, FontsMoved DEF after
\* The screen changes in nothing that is counted.
<1>7. ASSUME NEW p, screen' = p, p \in FontsScreens(Nat), p.events = screen.events,
             p.changed = screen.changed, server' = server, NEW d \in FontCalls,
             d.kind # "file", d.kind = "save" => d.version = BuiltIn, calls' \subseteq calls \cup {d}
      PROVE  FontsTyped'
  <2>1. after \subseteq before
    BY <1>7 DEF Announcing
  <2>2. IsFiniteSet(after) /\ Cardinality(after) \in 0..Cardinality(before)
    BY <1>0, <2>1, CountsOf
  <2>3. screen'.events + Cardinality(after) <= screen'.changed + server'
    BY <1>0, <1>7, <2>2
  <2>4. calls' \subseteq FontCalls /\ \A c \in calls' : c.kind = "file" => c.n # 0
    BY <1>0, <1>7
  <2> HIDE DEF after
  <2> QED BY <1>0, <1>7, <2>2, <2>3, <2>4, FontsMoved DEF after
<1>8. ASSUME NEW saving \in BOOLEAN, NEW present \in BOOLEAN, NEW p,
             p = [screen EXCEPT !.saving = saving] \/ p = [screen EXCEPT !.present = present]
             \/ p = screen
      PROVE  p \in FontsScreens(Nat) /\ p.events = screen.events /\ p.changed = screen.changed
  <2>1. [screen EXCEPT !.saving = saving] \in FontsScreens(Nat)
    BY <1>0, Zenon DEF FontsScreens
  <2>2. [screen EXCEPT !.present = present] \in FontsScreens(Nat)
    BY <1>0, Zenon DEF FontsScreens
  <2> QED BY <1>0, <1>8, <2>1, <2>2 DEF FontsScreens
<1>9. CASE SaveFonts \/ LeaveFonts \/ (\E c \in calls : FontsIdle(c) \/ FontsSaveFails(c))
  <2>1. PICK d \in {FontCall("save"), FontCall("bootstrap")} : calls' \subseteq calls \cup {d}
    BY <1>9 DEF SaveFonts, LeaveFonts, FontsIdle, FontsSaveFails, Ended
  <2>2. d \in FontCalls /\ d.kind # "file" /\ d.version = BuiltIn
    BY <2>1, FontCallTyped
  <2>3. PICK p : p = screen'
    OBVIOUS
  <2>4. server' = server /\ (\/ p = [screen EXCEPT !.saving = TRUE]
                            \/ p = [screen EXCEPT !.saving = FALSE]
                            \/ p = [screen EXCEPT !.present = FALSE] \/ p = screen)
    BY <1>9, <2>3 DEF SaveFonts, LeaveFonts, FontsIdle, FontsSaveFails
  <2>5. p \in FontsScreens(Nat) /\ p.events = screen.events /\ p.changed = screen.changed
    BY <1>8, <2>4
  <2> QED BY <1>7, <2>1, <2>2, <2>3, <2>4, <2>5
<1>10. ASSUME NEW c \in calls, FontsRead(c) PROVE FontsTyped'
  <2>1. PICK d : d = [c EXCEPT !.version = server]
    OBVIOUS
  <2>2. c \in FontCalls /\ server \in FontVersions \cup {BuiltIn}
    BY <1>0
  <2>3. d \in FontCalls
    BY <2>1, <2>2, Zenon DEF FontCalls
  <2>4. d.kind = c.kind /\ c.kind \in {"manager", "bootstrap"}
    BY <1>10, <2>1, <2>2 DEF FontCalls, FontsRead
  <2>5. calls' \subseteq calls \cup {d} /\ screen' = screen /\ server' = server
    BY <1>10, <2>1 DEF FontsRead
  <2> QED BY <1>0, <1>7, <2>3, <2>4, <2>5
<1>11. ASSUME NEW c \in calls, FontsArrive(c) \/ BootstrapArrives(c) PROVE FontsTyped'
  <2>1. c.version \in FontVersions \cup {BuiltIn}
    BY <1>0 DEF FontCalls
  <2>2. PICK fonts \in FontSettings :
          \/ screen' = screen
          \/ screen' = [screen EXCEPT !.loading = FALSE, !.fonts = fonts, !.applied = fonts]
          \/ screen' = [screen EXCEPT !.applied = fonts]
    BY <1>11, <2>1, FontsBounds DEF FontsArrive, BootstrapArrives
  <2>3. [screen EXCEPT !.loading = FALSE, !.fonts = fonts, !.applied = fonts] \in FontsScreens(Nat)
    BY <1>0, Zenon DEF FontsScreens
  <2>4. [screen EXCEPT !.applied = fonts] \in FontsScreens(Nat)
    BY <1>0, Zenon DEF FontsScreens
  <2>5. screen' \in FontsScreens(Nat) /\ screen'.events = screen.events
        /\ screen'.changed = screen.changed
    BY <1>0, <2>2, <2>3, <2>4 DEF FontsScreens
  <2>6. calls' \subseteq calls \cup {FontCall("idle")} /\ server' = server
    BY <1>11 DEF FontsArrive, BootstrapArrives, Ended
  <2> QED BY <1>7, <2>5, <2>6, FontCallTyped
\* One that was to announce its settings does.
<1>12. ASSUME NEW c \in calls, c \in before, NEW p, screen' = p, p \in FontsScreens(Nat),
              p.events \in {screen.events, screen.events + 1}, p.changed = screen.changed,
              server' = server, Ended(c)
       PROVE  FontsTyped'
  <2>1. after \subseteq before \ {c} /\ calls' \subseteq calls
    BY <1>12 DEF Announcing, Ended
  <2>2. IsFiniteSet(after) /\ Cardinality(after) \in 0..(Cardinality(before) - 1)
    BY <1>0, <1>12, <2>1, CountsOf
  <2>3. screen'.events + Cardinality(after) <= screen'.changed + server'
    BY <1>0, <1>12, <2>2
  <2>4. calls' \subseteq FontCalls /\ \A d \in calls' : d.kind = "file" => d.n # 0
    BY <1>0, <2>1
  <2> HIDE DEF after
  <2> QED BY <1>0, <1>12, <2>2, <2>3, <2>4, FontsMoved DEF after
<1>13. ASSUME NEW c \in calls, FontFileRead(c) PROVE FontsTyped'
  <2>1. c \in before /\ c \in FontCalls /\ c.n \in 1..MaxFontChanges /\ c.fonts \in FontSettings
    <3>1. c.kind = "file" /\ c \in FontCalls /\ c.n # 0
      BY <1>0, <1>13 DEF FontFileRead
    <3>2. c.n \in 0..MaxFontChanges /\ c.fonts \in FontSettings
      BY <3>1 DEF FontCalls
    <3> QED BY <1>13, <3>1, <3>2 DEF Announcing
  <2>2. PICK edits : edits = c.fonts.edits \cup {c.n}
    OBVIOUS
  <2>3. edits \in SUBSET (1..MaxFontChanges)
    BY <2>1, <2>2 DEF FontSettings
  <2>4. PICK fonts : fonts = [c.fonts EXCEPT !.edits = edits]
    OBVIOUS
  <2>5. fonts \in FontSettings
    BY <2>1, <2>3, <2>4, Zenon DEF FontSettings
  <2>6. screen' = screen \/ screen' = UpdateFonts(screen, fonts)
    BY <1>13, <2>2, <2>4 DEF FontFileRead
  <2>7. Ended(c) /\ server' = server
    BY <1>13 DEF FontFileRead
  <2> QED BY <1>0, <1>2, <1>12, <2>1, <2>5, <2>6, <2>7
<1>14. ASSUME NEW c \in calls, FontsStored(c) PROVE FontsTyped'
  <2>1. PICK version : version = server + 1
    OBVIOUS
  <2>2. version \in FontVersions /\ version # BuiltIn
    BY <1>0, <1>14, <2>1, FontsBounds DEF FontsStored, FontVersions, BuiltIn
  <2>3. PICK d : d = [c EXCEPT !.version = version]
    OBVIOUS
  <2>4. c \in FontCalls
    BY <1>0
  <2>5. d \in FontCalls
    BY <2>2, <2>3, <2>4, Zenon DEF FontCalls
  <2>6. d.kind = "save" /\ calls' = (calls \ {c}) \cup {d} /\ screen' = screen /\ server' = version
    BY <1>14, <2>1, <2>3, <2>4 DEF FontsStored, FontCalls
  <2>7. after \subseteq before \cup {d}
    BY <2>6 DEF Announcing
  <2>8. IsFiniteSet(after) /\ Cardinality(after) \in 0..(Cardinality(before) + 1)
    BY <1>0, <2>7, CountsOf
  <2>9. screen'.events + Cardinality(after) <= screen'.changed + server'
    BY <1>0, <2>1, <2>6, <2>8
  <2>10. calls' \subseteq FontCalls /\ \A e \in calls' : e.kind = "file" => e.n # 0
    BY <1>0, <2>5, <2>6
  <2> HIDE DEF after
  <2> QED BY <1>0, <2>2, <2>6, <2>8, <2>9, <2>10, FontsMoved DEF after
<1>15. ASSUME NEW c \in calls, FontsSaved(c) PROVE FontsTyped'
  <2>1. PICK fonts : fonts = FontsFrom(c.version)
    OBVIOUS
  <2>2. fonts \in FontSettings
    BY <1>0, <2>1, FontsBounds DEF FontCalls
  <2>3. PICK p : p = UpdateFonts(screen, fonts)
    OBVIOUS
  <2>4. p \in FontsScreens(Nat) /\ p.events = screen.events + 1 /\ p.changed = screen.changed
    BY <1>2, <2>2, <2>3
  <2>5. screen' = [p EXCEPT !.saving = FALSE] /\ Ended(c) /\ server' = server /\ c \in before
    BY <1>15, <2>1, <2>3 DEF FontsSaved, Announcing
  <2>6. screen' \in FontsScreens(Nat)
    BY <2>4, <2>5, Zenon DEF FontsScreens
  <2>7. screen'.events = p.events /\ screen'.changed = p.changed
    BY <2>4, <2>5 DEF FontsScreens
  <2> QED BY <1>12, <2>4, <2>5, <2>6, <2>7
<1> QED BY <1>1, <1>4, <1>5, <1>6, <1>9, <1>10, <1>11, <1>13, <1>14, <1>15 DEF FontsNext, FontButtons

ImportScreens ==
  [page : {"import"}, batch : Batches, passed : BOOLEAN, hurried : BOOLEAN,
   imports : 0..MaxImports]
ImportServers ==
  [batch : [BatchIds -> StoredBatches], checked : SUBSET Batches, others : 0..MaxOtherRuns]

ImportTyped ==
  /\ ImportInv /\ screen \in ImportScreens /\ server \in ImportServers
  /\ \A c \in calls : c.dry \in BOOLEAN

LEMMA ImportTypedStart == ImportInit => ImportTyped
<1> SUFFICES ASSUME ImportInit PROVE ImportTyped
  OBVIOUS
<1>1. 0 \in 0..MaxImports /\ 0 \in 0..MaxOtherRuns
  BY QuestionImportAssumption DEF QuestionImportAssumption
<1>0. NothingStored \in StoredBatches
  <2>1. PICK text : text = NothingStored.text
    OBVIOUS
  <2>2. \E any : any \in BatchTexts
    BY QuestionImportAssumption, Zenon DEF QuestionImportAssumption
  <2>3. text \in BatchTexts
    BY <2>1, <2>2 DEF NothingStored
  <2>4. NothingStored = [status |-> "none", text |-> text]
    BY <2>1 DEF NothingStored
  <2> QED BY <2>3, <2>4 DEF StoredBatches
<1>2. screen \in ImportScreens
  <2>1. PICK batch \in Batches :
          screen = [page |-> "import", batch |-> batch, passed |-> FALSE, hurried |-> FALSE,
                    imports |-> 0]
    BY DEF ImportInit
  <2> QED BY <1>1, <2>1, Zenon DEF ImportScreens
<1> HIDE DEF NothingStored
<1>3. server \in ImportServers
  <2>1. PICK held : held = [id \in BatchIds |-> NothingStored]
    OBVIOUS
  <2>2. held \in [BatchIds -> StoredBatches] /\ {} \in SUBSET Batches
    BY <1>0, <2>1
  <2>3. server = [batch |-> held, checked |-> {}, others |-> 0]
    BY <2>1 DEF ImportInit
  <2> QED BY <1>1, <2>2, <2>3, Zenon DEF ImportServers
<1>4. calls = {}
  BY DEF ImportInit
<1> QED BY <1>2, <1>3, <1>4, ImportStart DEF ImportTyped

LEMMA ImportTypedStep == ImportTyped /\ [ImportNext]_tabVars => ImportTyped'
<1> SUFFICES ASSUME ImportTyped, [ImportNext]_tabVars PROVE ImportTyped'
  OBVIOUS
<1>1. ImportInv' /\ screen \in ImportScreens /\ server \in ImportServers
  BY ImportStep DEF ImportTyped
<1>2. CASE UNCHANGED tabVars
  BY <1>2 DEF tabVars, ImportTyped, ImportInv
<1>0. ASSUME ImportNext PROVE \A c \in calls' : c.dry \in BOOLEAN
  <2>1. \A c \in calls : c.dry \in BOOLEAN
    BY DEF ImportTyped
  <2>2. ASSUME NEW batch \in Batches, TypeBatch(batch) \/ AnotherChecks(batch)
        PROVE  calls' = calls
    BY <2>2 DEF TypeBatch, AnotherChecks
  <2>3. ASSUME NEW id \in BatchIds, RollbackBatch(id) PROVE calls' = calls
    BY <2>3 DEF RollbackBatch
  <2>4. ASSUME NEW dry \in BOOLEAN, ImportBatch(dry)
        PROVE  \E d : calls' = calls \cup {d} /\ d.dry \in BOOLEAN
    <3> DEFINE d == [kind |-> "import", n |-> screen.imports, dry |-> dry,
                     batch |-> screen.batch, stage |-> "sent"]
    <3>1. calls' = calls \cup {d} /\ d.dry = dry
      BY <2>4 DEF ImportBatch
    <3> HIDE DEF d
    <3> QED BY <3>1
  <2>5. ASSUME NEW c \in calls,
               BatchChecked(c) \/ BatchWritten(c) \/ ImportArrives(c) \/ ImportFails(c)
        PROVE  \E d : calls' \subseteq calls \cup {d} /\ d.dry \in BOOLEAN
    <3> DEFINE d == [c EXCEPT !.stage = "passed"]
    <3>1. d.dry = c.dry
      BY DEF ImportTyped, ImportInv, OfferHolds, DryRun, ImportCallFields
    <3>2. calls' \subseteq calls \cup {d}
      BY <2>5 DEF BatchChecked, BatchWritten, ImportArrives, ImportFails, Advances, Ended
    <3> HIDE DEF d
    <3> QED BY <2>1, <3>1, <3>2
  <2> QED BY <1>0, <2>1, <2>2, <2>3, <2>4, <2>5 DEF ImportNext
<1>3. ASSUME NEW batch \in Batches, TypeBatch(batch)
      PROVE  screen' \in ImportScreens /\ server' \in ImportServers
  <2>1. PICK hurried : hurried = (screen.hurried \/ Checks # {})
    OBVIOUS
  <2>2. hurried \in BOOLEAN
    BY <2>1
  <2>3. screen' = [screen EXCEPT !.batch = batch, !.passed = FALSE, !.hurried = hurried]
    BY <1>3, <2>1 DEF TypeBatch, Retyped
  <2>4. screen' \in ImportScreens
    BY <1>1, <2>2, <2>3, Zenon DEF ImportScreens
  <2> QED BY <1>1, <1>3, <2>4 DEF TypeBatch
<1>4. ASSUME NEW dry \in BOOLEAN, ImportBatch(dry)
      PROVE  screen' \in ImportScreens /\ server' \in ImportServers
  <2>1. PICK imports : imports = screen.imports + 1
    OBVIOUS
  <2>2. imports \in 0..MaxImports
    <3>1. screen.imports \in 0..MaxImports /\ screen.imports < MaxImports /\ MaxImports \in Nat
      BY <1>1, <1>4, QuestionImportAssumption
         DEF QuestionImportAssumption, ImportBatch, ImportScreens
    <3> QED BY <2>1, <3>1
  <2>3. screen' = [screen EXCEPT !.imports = imports]
    BY <1>4, <2>1 DEF ImportBatch
  <2>4. screen' \in ImportScreens
    BY <1>1, <2>2, <2>3, Zenon DEF ImportScreens
  <2> QED BY <1>1, <1>4, <2>4 DEF ImportBatch
<1>5. ASSUME NEW batch \in Batches, NEW others \in 0..MaxOtherRuns
      PROVE  /\ Preflight(server, batch) \in ImportServers
             /\ [Preflight(server, batch) EXCEPT !.others = others] \in ImportServers
  <2> DEFINE r == [status |-> "preflight", text |-> batch.text]
  <2>1. r \in StoredBatches
    BY DEF StoredBatches, Batches
  <2> HIDE DEF r
  <2>2. PICK held : held = [server.batch EXCEPT ![batch.id] = r]
    OBVIOUS
  <2>3. held \in [BatchIds -> StoredBatches]
    BY <1>1, <2>1, <2>2 DEF ImportServers
  <2>4. PICK checked : checked = server.checked \cup {batch}
    OBVIOUS
  <2>5. checked \in SUBSET Batches
    BY <1>1, <2>4 DEF ImportServers
  <2>6. Preflight(server, batch) = [server EXCEPT !.batch = held, !.checked = checked]
    BY <2>2, <2>4 DEF Preflight, r
  <2>7. Preflight(server, batch) \in ImportServers
    BY <1>1, <2>3, <2>5, <2>6, Zenon DEF ImportServers
  <2>8. [Preflight(server, batch) EXCEPT !.others = others] \in ImportServers
    BY <2>7, Zenon DEF ImportServers
  <2> QED BY <2>7, <2>8
<1>6. ASSUME server.others < MaxOtherRuns
      PROVE  server.others + 1 \in 0..MaxOtherRuns
  <2>1. server.others \in 0..MaxOtherRuns /\ MaxOtherRuns \in Nat
    BY <1>1, QuestionImportAssumption DEF QuestionImportAssumption, ImportServers
  <2> QED BY <1>6, <2>1
<1>7. ASSUME NEW batch \in Batches, AnotherChecks(batch)
      PROVE  screen' \in ImportScreens /\ server' \in ImportServers
  <2>1. PICK others : others = server.others + 1
    OBVIOUS
  <2>2. server' = [Preflight(server, batch) EXCEPT !.others = others]
    <3>1. DOMAIN Preflight(server, batch) = DOMAIN server
          /\ Preflight(server, batch).others = server.others
      BY <1>1 DEF Preflight, ImportServers
    <3> QED BY <1>7, <2>1, <3>1 DEF AnotherChecks
  <2>3. server' \in ImportServers
    BY <1>5, <1>6, <1>7, <2>1, <2>2 DEF AnotherChecks
  <2> QED BY <1>1, <1>7, <2>3 DEF AnotherChecks
<1>9. ASSUME NEW id \in BatchIds, RollbackBatch(id)
      PROVE  screen' \in ImportScreens /\ server' \in ImportServers
  <2>1. PICK others : others = server.others + 1
    OBVIOUS
  <2>2. PICK r : r = [server.batch[id] EXCEPT !.status = "rolled_back"]
    OBVIOUS
  <2>3. server.batch[id] \in StoredBatches
    BY <1>1 DEF ImportServers
  <2>4. r \in StoredBatches
    BY <2>2, <2>3, Zenon DEF StoredBatches
  <2>5. PICK held : held = [server.batch EXCEPT ![id].status = "rolled_back"]
    OBVIOUS
  <2>6. held = [server.batch EXCEPT ![id] = r]
    BY <2>2, <2>5
  <2>7. held \in [BatchIds -> StoredBatches]
    BY <1>1, <2>4, <2>6 DEF ImportServers
  <2>8. server' = [server EXCEPT !.batch = held, !.others = others]
    BY <1>9, <2>1, <2>5 DEF RollbackBatch
  <2>9. others \in 0..MaxOtherRuns
    BY <1>6, <1>9, <2>1 DEF RollbackBatch
  <2>10. server' \in ImportServers
    BY <1>1, <2>7, <2>8, <2>9, Zenon DEF ImportServers
  <2> QED BY <1>1, <1>9, <2>10 DEF RollbackBatch
<1>10. ASSUME NEW c \in calls, BatchChecked(c)
      PROVE  screen' \in ImportScreens /\ server' \in ImportServers
  <2>1. c.batch \in Batches
    BY DEF ImportTyped, ImportInv, OfferHolds, DryRun
  <2>2. server.others \in 0..MaxOtherRuns
    BY <1>1 DEF ImportServers
  <2>3. server' \in ImportServers
    BY <1>5, <1>10, <2>1, <2>2 DEF BatchChecked
  <2> QED BY <1>1, <1>10, <2>3 DEF BatchChecked
<1>11. ASSUME NEW c \in calls, BatchWritten(c)
      PROVE  screen' \in ImportScreens /\ server' \in ImportServers
  <2>1. c.batch \in Batches
    BY DEF ImportTyped, ImportInv, OfferHolds, DryRun
  <2>2. PICK r : r = [status |-> "imported", text |-> c.batch.text]
    OBVIOUS
  <2>3. r \in StoredBatches /\ c.batch.id \in BatchIds
    BY <2>1, <2>2 DEF StoredBatches, Batches
  <2>4. server.others \in 0..MaxOtherRuns
    BY <1>1 DEF ImportServers
  <2>5. PICK held : held = [server.batch EXCEPT ![c.batch.id] = r]
    OBVIOUS
  <2>6. held \in [BatchIds -> StoredBatches]
    BY <1>1, <2>3, <2>5 DEF ImportServers
  <2>7. server' = [server EXCEPT !.batch = held]
    BY <1>11, <2>2, <2>5 DEF BatchWritten
  <2>8. server' \in ImportServers
    BY <1>1, <2>6, <2>7, Zenon DEF ImportServers
  <2> QED BY <1>1, <1>11, <2>8 DEF BatchWritten
<1>12. ASSUME NEW c \in calls, ImportArrives(c) \/ ImportFails(c) PROVE screen' \in ImportScreens
  <2>1. PICK passed \in BOOLEAN : screen' = screen \/ screen' = [screen EXCEPT !.passed = passed]
    BY <1>12 DEF ImportArrives, ImportFails, ImportTyped
  <2>2. [screen EXCEPT !.passed = passed] \in ImportScreens
    BY <1>1, Zenon DEF ImportScreens
  <2> QED BY <1>1, <2>1, <2>2
<1>13. ASSUME NEW c \in calls, ImportArrives(c) \/ ImportFails(c) PROVE server' = server
  BY <1>13 DEF ImportArrives, ImportFails
<1>14. ImportNext => screen' \in ImportScreens /\ server' \in ImportServers
  BY <1>1, <1>3, <1>4, <1>7, <1>9, <1>10, <1>11, <1>12, <1>13 DEF ImportNext
<1> QED BY <1>0, <1>1, <1>2, <1>14 DEF ImportTyped

(***************************************************************************)
(* The types of QuestionForm.                                                *)
(***************************************************************************)
FormScreens ==
  [page : {"questionform"}, form : FormFields, image : 0..MaxUploads, uploads : 0..MaxUploads,
   pending : {"", "media", "create"}]
FormCallTyped(c) ==
  IF c.kind = "create" THEN c.correct \in 0..Places
  ELSE c.kind = "media" => c.n \in 0..MaxUploads

FormTyped ==
  /\ FormInv /\ screen \in FormScreens /\ server.correct \in 0..Places
  /\ \A c \in calls : FormCallTyped(c)

LEMMA FormBounds ==
  /\ 0 \in 0..MaxUploads /\ MaxUploads \in Nat /\ 0 \in 0..Places /\ 1 \in 1..Places
  /\ EmptyForm \in FormFields /\ NothingCreated.correct = 0
<1>1. MaxUploads \in Nat
  BY QuestionFormAssumption, Zenon DEF QuestionFormAssumption
<1>2. "" \in FormSubjects \cup {""} /\ "" \in MainSkills \cup {""} /\ "" \in SubSkills \cup {""}
      /\ "mcq" \in QuestionType /\ {} \in SUBSET (1..Places)
  BY DEF QuestionType
<1>3. EmptyForm \in FormFields
  BY <1>2, PlacesAre, Zenon DEF EmptyForm, FormFields
<1> QED BY <1>1, <1>3, PlacesAre DEF NothingCreated

LEMMA FormTypedStart == QuestionFormInit => FormTyped
<1> SUFFICES ASSUME QuestionFormInit PROVE FormTyped
  OBVIOUS
<1>1. screen \in FormScreens
  BY FormBounds, Zenon DEF QuestionFormInit, FormScreens
<1> QED BY <1>1, FormStart, FormBounds DEF QuestionFormInit, FormTyped

LEMMA CorrectIsAPlace ==
  ASSUME NEW form \in FormFields
  PROVE  SentCorrect(form) \in 0..Places
<1>1. form.filled \in SUBSET (1..Places) /\ form.ticked \in 1..Places
  BY DEF FormFields
<1>2. Places \in Nat /\ IsFiniteSet(1..Places) /\ Cardinality(1..Places) = Places
  BY PlacesAre, CountedUpTo
<1> DEFINE S == {place \in form.filled : place <= form.ticked}
<1>3. S \in SUBSET (1..Places)
  BY <1>1
<1> HIDE DEF S
<1>4. IsFiniteSet(S) /\ Cardinality(S) <= Cardinality(1..Places)
  BY <1>2, <1>3, FS_Subset
<1>5. Cardinality(S) \in 0..Places
  BY <1>2, <1>4, FS_CardinalityType
<1> QED BY <1>1, <1>2, <1>5 DEF SentCorrect, S

LEMMA FormTypedStep == FormTyped /\ [QuestionFormNext]_tabVars => FormTyped'
<1> SUFFICES ASSUME FormTyped, [QuestionFormNext]_tabVars PROVE FormTyped'
  OBVIOUS
<1>0. /\ FormInv' /\ screen \in FormScreens /\ screen.form \in FormFields
      /\ server.correct \in 0..Places /\ \A c \in calls : FormCallTyped(c)
  BY QuestionFormStep DEF FormTyped, FormScreens
<1>1. CASE UNCHANGED tabVars
  BY <1>0, <1>1 DEF tabVars, FormTyped
<1>2. ASSUME NEW form \in FormFields, Fills(form) PROVE FormTyped'
  <2>1. screen' = [screen EXCEPT !.form = form] /\ calls' = calls /\ server' = server
    BY <1>2 DEF Fills
  <2>2. screen' \in FormScreens
    BY <1>0, <1>2, <2>1, Zenon DEF FormScreens
  <2> QED BY <1>0, <2>1, <2>2 DEF FormTyped
<1>3. ASSUME NEW form, Fills(form), NEW subject \in FormSubjects \cup {""},
             NEW main \in MainSkills \cup {""}, NEW sub \in SubSkills \cup {""},
             \/ form = [screen.form EXCEPT !.subject = subject, !.main = main, !.sub = sub]
             \/ form = [screen.form EXCEPT !.main = main, !.sub = sub]
             \/ form = [screen.form EXCEPT !.sub = sub]
      PROVE  FormTyped'
  <2>1. form \in FormFields
    BY <1>0, <1>3, Zenon DEF FormFields
  <2> QED BY <1>2, <1>3, <2>1
<1>4. ASSUME NEW form, Fills(form), NEW type \in QuestionType, NEW filled \in SUBSET (1..Places),
             NEW ticked \in 1..Places, NEW embedded \in BOOLEAN, NEW labels \in BOOLEAN,
             NEW texts \in BOOLEAN,
             \/ form = [screen.form EXCEPT !.type = type]
             \/ form = [screen.form EXCEPT !.filled = filled]
             \/ form = [screen.form EXCEPT !.ticked = ticked]
             \/ form = [screen.form EXCEPT !.embedded = embedded, !.texts = texts]
             \/ form = [screen.form EXCEPT !.labels = labels]
             \/ form = [screen.form EXCEPT !.texts = texts]
      PROVE  FormTyped'
  <2>1. form \in FormFields
    BY <1>0, <1>4, Zenon DEF FormFields
  <2> QED BY <1>2, <1>4, <2>1
<1>5. ASSUME NEW subject \in FormSubjects, ChooseSubject(subject) PROVE FormTyped'
  BY <1>3, <1>5 DEF ChooseSubject
<1>6. ASSUME NEW skill \in MainSkills, ChooseMainSkill(skill) PROVE FormTyped'
  BY <1>0, <1>3, <1>6 DEF ChooseMainSkill, Rescoped
<1>7. ASSUME NEW skill \in SubSkills, ChooseSubSkill(skill) PROVE FormTyped'
  BY <1>3, <1>7 DEF ChooseSubSkill
<1>8. screen.form.filled \in SUBSET (1..Places) /\ 1 \in 1..Places /\ "mcq" \in QuestionType
      /\ screen.form.embedded \in BOOLEAN /\ screen.form.labels \in BOOLEAN
      /\ screen.form.texts \in BOOLEAN
  BY <1>0, PlacesAre DEF FormFields, QuestionType
<1>9. CASE \E type \in QuestionType : ChooseType(type)
  BY <1>4, <1>8, <1>9 DEF ChooseType
<1>10. ASSUME NEW place \in 1..Places, UpdateOption(place) \/ TickCorrect(place) PROVE FormTyped'
  <2>1. PICK filled \in SUBSET (1..Places) :
          \/ Fills([screen.form EXCEPT !.filled = filled])
          \/ Fills([screen.form EXCEPT !.ticked = place])
    BY <1>8, <1>10 DEF UpdateOption, TickCorrect
  <2> QED BY <1>4, <1>8, <2>1
<1>11. CASE ToggleEmbedded \/ TogglePresentation
  <2>1. PICK form :
          /\ Fills(form)
          /\ \/ form = [screen.form EXCEPT !.embedded = ~@, !.texts = screen.form.embedded]
             \/ form = [screen.form EXCEPT !.labels = ~@]
             \/ form = [screen.form EXCEPT !.texts = ~@]
    BY <1>11 DEF ToggleEmbedded, TogglePresentation
  <2>2. PICK e, l, t : e = ~screen.form.embedded /\ l = ~screen.form.labels /\ t = ~screen.form.texts
    OBVIOUS
  <2>3. e \in BOOLEAN /\ l \in BOOLEAN /\ t \in BOOLEAN
    BY <2>2
  <2>4. \/ form = [screen.form EXCEPT !.embedded = e, !.texts = screen.form.embedded]
        \/ form = [screen.form EXCEPT !.labels = l]
        \/ form = [screen.form EXCEPT !.texts = t]
    BY <2>1, <2>2
  <2>5. form \in FormFields
    BY <1>0, <1>8, <2>3, <2>4, Zenon DEF FormFields
  <2> QED BY <1>2, <2>1, <2>5
<1>12. CASE UploadImage
  <2>1. PICK uploads : uploads = screen.uploads + 1
    OBVIOUS
  <2>2. uploads \in 0..MaxUploads
    <3>1. screen.uploads \in 0..MaxUploads
      BY <1>0 DEF FormScreens
    <3>2. screen.uploads < MaxUploads
      BY <1>12 DEF UploadImage
    <3>3. MaxUploads \in Nat
      BY FormBounds
    <3> HIDE QuestionFormAssumption
    <3> QED BY <2>1, <3>1, <3>2, <3>3
  <2>3. screen' = [screen EXCEPT !.pending = "media", !.uploads = uploads] /\ server' = server
        /\ calls' = calls \cup {[kind |-> "media", n |-> uploads]}
    BY <1>12, <2>1 DEF UploadImage
  <2>4. screen' \in FormScreens
    BY <1>0, <2>2, <2>3, Zenon DEF FormScreens
  <2>5. FormCallTyped([kind |-> "media", n |-> uploads])
    BY <2>2 DEF FormCallTyped
  <2> QED BY <1>0, <2>3, <2>4, <2>5 DEF FormTyped
<1>13. ASSUME NEW c \in calls, UploadEnds(c) PROVE FormTyped'
  <2>1. c.n \in 0..MaxUploads /\ screen.image \in 0..MaxUploads
    BY <1>0, <1>13 DEF UploadEnds, FormCallTyped, FormScreens
  <2>2. PICK image \in 0..MaxUploads : screen' = [screen EXCEPT !.pending = "", !.image = image]
    BY <1>13, <2>1 DEF UploadEnds
  <2>3. screen' \in FormScreens
    BY <1>0, <2>2, Zenon DEF FormScreens
  <2> QED BY <1>0, <1>13, <2>3 DEF UploadEnds, Ended, FormTyped
<1>14. CASE RemoveImage
  <2>1. screen' = [screen EXCEPT !.image = 0] /\ calls' = calls /\ server' = server
    BY <1>14 DEF RemoveImage
  <2>2. screen' \in FormScreens
    BY <1>0, <2>1, FormBounds, Zenon DEF FormScreens
  <2> QED BY <1>0, <2>1, <2>2 DEF FormTyped
<1>15. CASE CreateQuestion
  <2>1. PICK options, labels, correct, meant :
          /\ options = SentOptions(screen.form) /\ labels = SentLabels(screen.form)
          /\ correct = SentCorrect(screen.form)
          /\ meant = IF screen.form.type = "essay" THEN 0 ELSE screen.form.ticked
    OBVIOUS
  <2> DEFINE d == [kind |-> "create", subject |-> screen.form.subject, main |-> screen.form.main,
                   sub |-> screen.form.sub, options |-> options, labels |-> labels,
                   correct |-> correct, meant |-> meant]
  <2>2. screen' = [screen EXCEPT !.pending = "create"] /\ calls' = calls \cup {d}
        /\ server' = server
    BY <1>15, <2>1 DEF CreateQuestion
  <2>3. FormCallTyped(d)
    BY <1>0, <2>1, CorrectIsAPlace DEF FormCallTyped
  <2>4. screen' \in FormScreens
    BY <1>0, <2>2, Zenon DEF FormScreens
  <2> HIDE DEF d
  <2> QED BY <1>0, <2>2, <2>3, <2>4 DEF FormTyped
<1>16. ASSUME NEW c \in calls, QuestionCreated(c) PROVE FormTyped'
  <2>1. screen' = [screen EXCEPT !.form = EmptyForm, !.image = 0, !.pending = ""]
        /\ calls' \subseteq calls /\ server'.correct = c.correct
    BY <1>16 DEF QuestionCreated, Ended, NothingCreated
  <2>2. c.correct \in 0..Places
    BY <1>0, <1>16 DEF QuestionCreated, FormCallTyped
  <2>3. screen' \in FormScreens
    BY <1>0, <2>1, FormBounds, Zenon DEF FormScreens
  <2> QED BY <1>0, <2>1, <2>2, <2>3 DEF FormTyped
<1>17. ASSUME NEW c \in calls, CreateRefused(c) PROVE FormTyped'
  <2>1. screen' = [screen EXCEPT !.pending = ""] /\ calls' \subseteq calls /\ server' = server
    BY <1>17 DEF CreateRefused, Ended
  <2>2. screen' \in FormScreens
    BY <1>0, <2>1, Zenon DEF FormScreens
  <2> QED BY <1>0, <2>1, <2>2 DEF FormTyped
<1> QED BY <1>1, <1>5, <1>6, <1>7, <1>9, <1>10, <1>11, <1>12, <1>13, <1>14, <1>15, <1>16, <1>17
        DEF QuestionFormNext

-----------------------------------------------------------------------------
\* What is inductive is at least what each page promises of its types.

LEMMA AdsTypesHold == AdsTyped => AdsTypeOK
<1> SUFFICES ASSUME AdsTyped PROVE AdsTypeOK
  OBVIOUS
<1>1. DOMAIN screen = {"page", "site", "list", "edited", "unsaved", "closed", "index",
                       "delayed", "preview", "session", "refused", "made"}
  BY DEF AdsTyped, AdsInv, AdsHold, AdsFields
<1> QED BY <1>1 DEF AdsTyped, AdsPageTyped, AdsStoreTyped, AdsTypeOK

LEMMA SessionsTypesHold == SessionsTyped => SessionsTypeOK
BY DEF SessionsTyped, SessionScreens, SessionsTypeOK

LEMMA UsersTypesHold == UsersTyped => UsersAdminTypeOK
BY DEF UsersTyped, UsersScreens, UsersServers, UserCallTyped, OrderTyped, OrderStages, UserLists, Reads,
   AccountOrders, UsersAdminTypeOK

LEMMA TaxonomyTypesHold == TaxonomyTyped => TaxonomyTypeOK
<1> SUFFICES ASSUME TaxonomyTyped PROVE TaxonomyTypeOK
  OBVIOUS
<1>1. screen \in TaxonomyScreens /\ server \in [Counters -> Nat]
  BY DEF TaxonomyTyped, TaxonomyInv, TaxonomyShape
<1>2. \A x \in Counters : server[x] \in 0..MaxWrites
  BY CountersBounded DEF TaxonomyTyped
<1>3. server \in [Counters -> 0..MaxWrites]
  BY <1>1, <1>2
<1>4. screen.confirmed \in [Counters -> 0..MaxWrites]
  BY ConfirmedBounded
<1>5. screen = [screen EXCEPT !.confirmed = screen.confirmed]
  BY <1>1 DEF TaxonomyScreens
<1>6. screen \in
        [page : {"taxonomy"}, data : [Parts -> Age], busy : BOOLEAN,
         pending : Dialogs \cup {None, "toggle"}, error : BOOLEAN,
         path : Paths \cup {None}, subject : Subjects \cup {None},
         tab : {"foundation", "skills", "other"}, dialog : Dialogs \cup {None},
         topics : [of : Subjects \cup {None}, at : Age], editor : BOOLEAN,
         made : 0..MaxWrites, confirmed : [Counters -> 0..MaxWrites]]
  BY <1>1, <1>4 DEF TaxonomyScreens, TaxonomyTabs, TopicRows
<1> QED BY <1>3, <1>6 DEF TaxonomyTypeOK, Counters

LEMMA ContentTypesHold == ContentTyped => ContentTypeOK
<1> SUFFICES ASSUME ContentTyped PROVE ContentTypeOK
  OBVIOUS
<1>1. screen \in ContentScreens /\ server \in StoredWrites
  BY StoredIsBounded DEF ContentTyped
<1> QED BY <1>1 DEF ContentScreens, ContentRowSets, ContentTypeOK

LEMMA BankTypesHold == BankTyped => QuestionBankTypeOK
BY DEF BankTyped, BankScreens, BankServers, QuestionBankTypeOK

LEMMA SchoolsTypesHold == SchoolsTyped => SchoolsTypeOK
BY DEF SchoolsTyped, SchoolsScreens, SchoolsTypeOK

LEMMA RosterTypesHold == RosterTyped => RosterTypeOK
BY DEF RosterTyped, RosterScreens, RosterTypeOK

LEMMA EditorTypesHold == EditorTyped => EditorTypeOK
BY DEF EditorTyped, EditorScreens, EditorServers, EditorTypeOK

LEMMA HomepageTypesHold == HomepageTyped => HomepageTypeOK
BY DEF HomepageTyped, HomepageScreens, HomepageServers, HomepageTypeOK

LEMMA FontsTypesHold == FontsTyped => FontsTypeOK
BY DEF FontsTyped, FontsScreens, Announced, FontsTypeOK

LEMMA ImportTypesHold == ImportTyped => QuestionImportTypeOK
BY DEF ImportTyped, ImportScreens, ImportServers, QuestionImportTypeOK

LEMMA FormTypesHold == FormTyped => QuestionFormTypeOK
BY DEF FormTyped, FormScreens, QuestionFormTypeOK

-----------------------------------------------------------------------------
(***************************************************************************)
(* The pages together: whichever page the tab shows keeps its types.          *)
(***************************************************************************)
StaffTypes ==
  \/ AdsTyped \/ SessionsTyped \/ UsersTyped \/ TaxonomyTyped \/ ContentTyped
  \/ BankTyped \/ DirectorTyped \/ SchoolsTyped \/ RosterTyped \/ EditorTyped
  \/ HomepageTyped \/ FontsTyped \/ ImportTyped \/ FormTyped

\* The types of a page come with its invariant, which says that it is mounted.
LEMMA TypedIsMounted ==
  /\ AdsTyped => Mounted("ads")
  /\ SessionsTyped => Mounted("sessions")
  /\ UsersTyped => Mounted("users")
  /\ TaxonomyTyped => Mounted("taxonomy")
  /\ ContentTyped => Mounted("content")
  /\ BankTyped => Mounted("questions")
  /\ DirectorTyped => Mounted("director")
  /\ SchoolsTyped => Mounted("schools")
  /\ RosterTyped => Mounted("roster")
  /\ EditorTyped => Mounted("editor")
  /\ HomepageTyped => Mounted("homepage")
  /\ FontsTyped => Mounted("fonts")
  /\ ImportTyped => Mounted("import")
  /\ FormTyped => Mounted("questionform")
BY PageIsMounted DEF AdsTyped, SessionsTyped, UsersTyped, TaxonomyTyped, ContentTyped, BankTyped, DirectorTyped,
   SchoolsTyped, RosterTyped, EditorTyped, HomepageTyped, FontsTyped, ImportTyped, FormTyped

LEMMA MountedTypes ==
  ASSUME StaffTypes
  PROVE  /\ Mounted("ads") => AdsTyped
         /\ Mounted("sessions") => SessionsTyped
         /\ Mounted("users") => UsersTyped
         /\ Mounted("taxonomy") => TaxonomyTyped
         /\ Mounted("content") => ContentTyped
         /\ Mounted("questions") => BankTyped
         /\ Mounted("director") => DirectorTyped
         /\ Mounted("schools") => SchoolsTyped
         /\ Mounted("roster") => RosterTyped
         /\ Mounted("editor") => EditorTyped
         /\ Mounted("homepage") => HomepageTyped
         /\ Mounted("fonts") => FontsTyped
         /\ Mounted("import") => ImportTyped
         /\ Mounted("questionform") => FormTyped
BY TypedIsMounted DEF StaffTypes, Mounted

LEMMA StaffTypesStart == Init => StaffTypes
BY AdsTypedStart, SessionsTypedStart, UsersTypedStart, TaxonomyTypedStart,
   ContentTypedStart, BankTypedStart, DirectorTypedStart, SchoolsTypedStart,
   RosterTypedStart, EditorTypedStart, HomepageTypedStart, FontsTypedStart,
   ImportTypedStart, FormTypedStart
   DEF Init, StaffTypes

LEMMA StaffTypesStep == StaffTypes /\ [Next]_tabVars => StaffTypes'
<1> SUFFICES ASSUME StaffTypes, [Next]_tabVars PROVE StaffTypes'
  OBVIOUS
<1>1. ASSUME UNCHANGED tabVars PROVE StaffTypes'
  <2>1. CASE AdsTyped
    BY <1>1, <2>1, AdsTypedStep DEF StaffTypes
  <2>2. CASE SessionsTyped
    BY <1>1, <2>2, SessionsTypedStep DEF StaffTypes
  <2>3. CASE UsersTyped
    BY <1>1, <2>3, UsersTypedStep DEF StaffTypes
  <2>4. CASE TaxonomyTyped
    BY <1>1, <2>4, TaxonomyTypedStep DEF StaffTypes
  <2>5. CASE ContentTyped
    BY <1>1, <2>5, ContentTypedStep DEF StaffTypes
  <2>6. CASE BankTyped
    BY <1>1, <2>6, BankTypedStep DEF StaffTypes
  <2>7. CASE DirectorTyped
    BY <1>1, <2>7, DirectorTypedStep DEF StaffTypes
  <2>8. CASE SchoolsTyped
    BY <1>1, <2>8, SchoolsTypedStep DEF StaffTypes
  <2>9. CASE RosterTyped
    BY <1>1, <2>9, RosterTypedStep DEF StaffTypes
  <2>10. CASE EditorTyped
    BY <1>1, <2>10, EditorTypedStep DEF StaffTypes
  <2>11. CASE HomepageTyped
    BY <1>1, <2>11, HomepageTypedStep DEF StaffTypes
  <2>12. CASE FontsTyped
    BY <1>1, <2>12, FontsTypedStep DEF StaffTypes
  <2>13. CASE ImportTyped
    BY <1>1, <2>13, ImportTypedStep DEF StaffTypes
  <2>14. CASE FormTyped
    BY <1>1, <2>14, FormTypedStep DEF StaffTypes
  <2> QED BY <2>1, <2>2, <2>3, <2>4, <2>5, <2>6, <2>7,
             <2>8, <2>9, <2>10, <2>11, <2>12, <2>13, <2>14 DEF StaffTypes
<1>2. ASSUME Mounted("ads"), AdsNext PROVE StaffTypes'
  BY <1>2, MountedTypes, AdsTypedStep DEF StaffTypes
<1>3. ASSUME Mounted("sessions"), SessionsNext PROVE StaffTypes'
  BY <1>3, MountedTypes, SessionsTypedStep DEF StaffTypes
<1>4. ASSUME Mounted("users"), UsersAdminNext PROVE StaffTypes'
  BY <1>4, MountedTypes, UsersTypedStep DEF StaffTypes
<1>5. ASSUME Mounted("taxonomy"), TaxonomyNext PROVE StaffTypes'
  BY <1>5, MountedTypes, TaxonomyTypedStep DEF StaffTypes
<1>6. ASSUME Mounted("content"), ContentNext PROVE StaffTypes'
  BY <1>6, MountedTypes, ContentTypedStep DEF StaffTypes
<1>7. ASSUME Mounted("questions"), QuestionBankNext PROVE StaffTypes'
  BY <1>7, MountedTypes, BankTypedStep DEF StaffTypes
<1>8. ASSUME Mounted("director"), DirectorNext PROVE StaffTypes'
  BY <1>8, MountedTypes, DirectorTypedStep DEF StaffTypes
<1>9. ASSUME Mounted("schools"), SchoolsNext PROVE StaffTypes'
  BY <1>9, MountedTypes, SchoolsTypedStep DEF StaffTypes
<1>10. ASSUME Mounted("roster"), RosterNext PROVE StaffTypes'
  BY <1>10, MountedTypes, RosterTypedStep DEF StaffTypes
<1>11. ASSUME Mounted("editor"), EditorNext PROVE StaffTypes'
  BY <1>11, MountedTypes, EditorTypedStep DEF StaffTypes
<1>12. ASSUME Mounted("homepage"), HomepageNext PROVE StaffTypes'
  BY <1>12, MountedTypes, HomepageTypedStep DEF StaffTypes
<1>13. ASSUME Mounted("fonts"), FontsNext PROVE StaffTypes'
  BY <1>13, MountedTypes, FontsTypedStep DEF StaffTypes
<1>14. ASSUME Mounted("import"), ImportNext PROVE StaffTypes'
  BY <1>14, MountedTypes, ImportTypedStep DEF StaffTypes
<1>15. ASSUME Mounted("questionform"), QuestionFormNext PROVE StaffTypes'
  BY <1>15, MountedTypes, FormTypedStep DEF StaffTypes
<1> QED BY <1>1, <1>2, <1>3, <1>4, <1>5, <1>6, <1>7, <1>8,
           <1>9, <1>10, <1>11, <1>12, <1>13, <1>14, <1>15 DEF Next

\* Every page of the staff keeps its types, for any schools, taxonomy, content, accounts
\* and any bounds: what the handlers of the web client leave in the state of a page is
\* always a page that can be rendered, and no counter passes its bound.
THEOREM StaffTypesCorrect == Spec => []StaffPagesTypeOK
<1>1. StaffTypes => StaffPagesTypeOK
  <2> SUFFICES ASSUME StaffTypes PROVE StaffPagesTypeOK
    OBVIOUS
  <2>1. AdsTypeOK
    BY MountedTypes, AdsTypesHold DEF AdsTypeOK, Mounted
  <2>2. SessionsTypeOK
    BY MountedTypes, SessionsTypesHold DEF SessionsTypeOK, Mounted
  <2>3. UsersAdminTypeOK
    BY MountedTypes, UsersTypesHold DEF UsersAdminTypeOK, Mounted
  <2>4. TaxonomyTypeOK
    BY MountedTypes, TaxonomyTypesHold DEF TaxonomyTypeOK, Mounted
  <2>5. ContentTypeOK
    BY MountedTypes, ContentTypesHold DEF ContentTypeOK, Mounted
  <2>6. QuestionBankTypeOK
    BY MountedTypes, BankTypesHold DEF QuestionBankTypeOK, Mounted
  <2>7. DirectorTypeOK
    BY MountedTypes, DirectorTypesHold DEF DirectorTypeOK, Mounted
  <2>8. SchoolsTypeOK
    BY MountedTypes, SchoolsTypesHold DEF SchoolsTypeOK, Mounted
  <2>9. RosterTypeOK
    BY MountedTypes, RosterTypesHold DEF RosterTypeOK, Mounted
  <2>10. EditorTypeOK
    BY MountedTypes, EditorTypesHold DEF EditorTypeOK, Mounted
  <2>11. HomepageTypeOK
    BY MountedTypes, HomepageTypesHold DEF HomepageTypeOK, Mounted
  <2>12. FontsTypeOK
    BY MountedTypes, FontsTypesHold DEF FontsTypeOK, Mounted
  <2>13. QuestionImportTypeOK
    BY MountedTypes, ImportTypesHold DEF QuestionImportTypeOK, Mounted
  <2>14. QuestionFormTypeOK
    BY MountedTypes, FormTypesHold DEF QuestionFormTypeOK, Mounted
  <2> QED BY <2>1, <2>2, <2>3, <2>4, <2>5, <2>6, <2>7,
             <2>8, <2>9, <2>10, <2>11, <2>12, <2>13, <2>14 DEF StaffPagesTypeOK
<1> QED BY <1>1, StaffTypesStart, StaffTypesStep, PTL DEF Spec
=============================================================================
