--------------------------- MODULE StaffPageProofs ---------------------------
(***************************************************************************)
(* Theorems about the pages of administrators, directors and supervisors      *)
(* (MCStaffPages).  Each page has its inductive invariant, shown to hold in   *)
(* its initial states and to be kept by its steps; the last section puts the  *)
(* pages together: the tab shows one of them, and it keeps its invariant.     *)
(***************************************************************************)
EXTENDS MCStaffPages, FiniteSetTheorems, FunctionTheorems, TLAPS

(***************************************************************************)
(* Counting: in a finite set of numbers each number of elements has one that  *)
(* so many are below.                                                      *)
(***************************************************************************)
Below(S, a) == {b \in S : b < a}

LEMMA BelowGrows ==
  ASSUME NEW S, IsFiniteSet(S), S \subseteq Nat, NEW a \in S, NEW b \in S, a < b
  PROVE  Cardinality(Below(S, a)) < Cardinality(Below(S, b))
<1>1. Below(S, a) \in SUBSET Below(S, b) /\ Below(S, a) # Below(S, b)
      /\ Below(S, b) \in SUBSET S
  <2>1. a \in Nat /\ b \in Nat /\ a \in Below(S, b) /\ a \notin Below(S, a)
    BY DEF Below
  <2>2. \A c \in Below(S, a) : c \in Below(S, b)
    BY <2>1 DEF Below
  <2> QED BY <2>1, <2>2 DEF Below
<1>2. IsFiniteSet(Below(S, b))
  BY <1>1, FS_Subset
<1>3. /\ IsFiniteSet(Below(S, a)) /\ Cardinality(Below(S, a)) <= Cardinality(Below(S, b))
      /\ Cardinality(Below(S, b)) # Cardinality(Below(S, a))
  BY <1>1, <1>2, FS_Subset
<1>4. Cardinality(Below(S, a)) \in Nat /\ Cardinality(Below(S, b)) \in Nat
  BY <1>2, <1>3, FS_CardinalityType
<1> QED BY <1>3, <1>4

LEMMA BelowWithin ==
  ASSUME NEW S, IsFiniteSet(S), S \subseteq Nat, NEW a \in S
  PROVE  Cardinality(Below(S, a)) \in 0..(Cardinality(S) - 1)
<1>1. Below(S, a) \in SUBSET S /\ Below(S, a) # S
  BY DEF Below
<1>2. /\ IsFiniteSet(Below(S, a)) /\ Cardinality(Below(S, a)) <= Cardinality(S)
      /\ Cardinality(S) # Cardinality(Below(S, a))
  BY <1>1, FS_Subset
<1>3. Cardinality(Below(S, a)) \in Nat /\ Cardinality(S) \in Nat
  BY <1>2, FS_CardinalityType
<1> QED BY <1>2, <1>3

LEMMA EachHasItsPlace ==
  ASSUME NEW S, IsFiniteSet(S), S \subseteq Nat, NEW k \in 0..(Cardinality(S) - 1)
  PROVE  \E a \in S : Cardinality(Below(S, a)) = k
<1> DEFINE n == Cardinality(S)
           T == 0..(n - 1)
           r == [a \in S |-> Cardinality(Below(S, a))]
<1>1. n \in Nat
  BY FS_CardinalityType
<1>2. r \in [S -> T]
  BY BelowWithin
<1>3. \A a, b \in S : r[a] = r[b] => a = b
  <2> SUFFICES ASSUME NEW a \in S, NEW b \in S, a # b PROVE r[a] # r[b]
    OBVIOUS
  <2>1. r[a] \in Int /\ r[b] \in Int /\ a \in Nat /\ b \in Nat
    BY <1>1, <1>2
  <2>2. a < b \/ b < a
    BY <2>1
  <2>3. r[a] < r[b] \/ r[b] < r[a]
    BY <2>2, BelowGrows
  <2> QED BY <2>1, <2>3
<1>4. IsFiniteSet(T) /\ Cardinality(T) = n
  <2>1. n - 1 \in Int /\ 0 \in Int
    BY <1>1
  <2>2. IsFiniteSet(T) /\ Cardinality(T) = IF 0 > n - 1 THEN 0 ELSE n - 1 - 0 + 1
    BY <2>1, FS_Interval
  <2> QED BY <1>1, <2>2
<1> HIDE DEF r, T
<1>5. r \in Injection(S, T)
  BY <1>2, <1>3, Fun_IsInj
<1>6. r \in Surjection(S, T)
  BY <1>4, <1>5, FS_Injection
<1>7. \A t \in T : \E a \in S : r[a] = t
  BY <1>6, Fun_SurjectionProperties
<1> QED BY <1>7 DEF r, T

(***************************************************************************)
(* AnnouncementAds: the list that visitors are shown is the stored one, the    *)
(* administrator's too unless a change was refused, and what was closed while   *)
(* it was to be shown once stays closed.                                     *)
(***************************************************************************)
AdsFields == {"page", "site", "list", "edited", "unsaved", "closed", "index", "delayed",
              "preview", "session", "refused", "made"}
AdsCallFields == {"kind", "list", "here"}

\* The calls that are under way, and the two lists.
AdsCalls(cs) ==
  \A c \in cs : DOMAIN c = AdsCallFields /\ (c.kind = "image" => DOMAIN c.list \subseteq Ads)
AdsLists(p, cs, sv) ==
  (\A c \in cs : c.kind # "storage") =>
    p.list = LoadAds(sv.list) /\ (~p.unsaved => p.edited = p.list)

AdsHold(p, cs, sv) ==
  /\ p.page = "ads" /\ DOMAIN p = AdsFields /\ p.index \in Nat
  /\ DOMAIN p.list \subseteq Ads /\ DOMAIN p.edited \subseteq Ads
  /\ DOMAIN sv = {"list", "once"} /\ DOMAIN sv.list \subseteq Ads
  /\ p.refused \subseteq sv.once
  /\ AdsCalls(cs) /\ AdsLists(p, cs, sv)

AdsInv == AdsHold(screen, calls, server)

LEMMA AdsLoaded ==
  ASSUME NEW list, DOMAIN list \subseteq Ads PROVE DOMAIN LoadAds(list) \subseteq Ads
BY AnnouncementAdsAssumption DEF AnnouncementAdsAssumption, LoadAds, Defaults

LEMMA AdsStart == AdsInit => AdsInv
<1> SUFFICES ASSUME AdsInit PROVE AdsInv
  OBVIOUS
<1>1. DOMAIN server = {"list", "once"} /\ DOMAIN server.list \subseteq Ads /\ server.once = {}
  <2>1. server = [list |-> << >>, once |-> {}] \/ server = [list |-> Defaults, once |-> {}]
    BY Zenon DEF AdsInit
  <2>2. DOMAIN << >> \subseteq Ads /\ DOMAIN Defaults \subseteq Ads
    BY AnnouncementAdsAssumption DEF AnnouncementAdsAssumption, Defaults
  <2> QED BY <2>1, <2>2
<1>2. /\ screen.page = "ads" /\ DOMAIN screen = AdsFields /\ screen.index = 0
      /\ screen.list = LoadAds(server.list) /\ screen.edited = screen.list
      /\ screen.refused = {} /\ calls = {}
  BY DEF AdsInit, AdsFields
<1>3. DOMAIN screen.list \subseteq Ads
  BY <1>1, <1>2, AdsLoaded
<1> QED BY <1>1, <1>2, <1>3 DEF AdsInv, AdsHold, AdsCalls, AdsLists

\* Showing the ads changes nothing but the delay.
LEMMA AdsAreShown ==
  ASSUME NEW p, NEW store, ShowsAds(p, store), DOMAIN p = AdsFields
  PROVE  /\ DOMAIN screen' = AdsFields
         /\ \A f \in AdsFields \ {"delayed"} : screen'[f] = p[f]
<1>1. PICK delayed : screen' = [p EXCEPT !.delayed = delayed]
  BY DEF ShowsAds
<1> QED BY <1>1

\* What a step is asked for: the state that is shown holds.
LEMMA AdsHoldAfter ==
  ASSUME NEW p, NEW store, ShowsAds(p, store), server' = store, AdsHold(p, calls', store)
  PROVE  AdsInv'
<1>1. /\ DOMAIN screen' = AdsFields /\ screen'.page = p.page /\ screen'.list = p.list
      /\ screen'.edited = p.edited /\ screen'.unsaved = p.unsaved
      /\ screen'.index = p.index /\ screen'.refused = p.refused
  BY AdsAreShown DEF AdsFields, AdsHold
<1> QED BY <1>1 DEF AdsInv, AdsHold, AdsLists

\* The lists are those of the tab, and what was closed too.
KeepsAds(p) ==
  /\ DOMAIN p = AdsFields /\ p.page = "ads" /\ p.list = screen.list
  /\ p.edited = screen.edited /\ p.unsaved = screen.unsaved /\ p.refused = screen.refused

LEMMA RereadIs ==
  ASSUME NEW p, DOMAIN p = AdsFields, NEW list
  PROVE  LET q == RereadAds(p, list)
         IN /\ DOMAIN q = AdsFields /\ q.page = p.page /\ q.list = LoadAds(list)
            /\ q.edited = LoadAds(list) /\ q.unsaved = FALSE /\ q.index = p.index
            /\ q.refused = p.refused
BY DEF RereadAds, AdsFields

LEMMA AdsStored ==
  ASSUME AdsInv, NEW p, NEW list, NEW here, NEW saved, Store(p, list, here, saved),
         DOMAIN list \subseteq Ads, KeepsAds(p), p.index = screen.index, calls' \subseteq calls,
         (\A c \in calls' : c.kind # "storage") => (\A c \in calls : c.kind # "storage")
  PROVE  AdsInv'
<1>1. AdsCalls(calls')
  BY DEF AdsInv, AdsHold, AdsCalls
<1>2. CASE saved
  <2> DEFINE store == [server EXCEPT !.list = list]
             q == RereadAds(p, list)
  <2>1. server' = store /\ ShowsAds(q, store)
    BY <1>2 DEF Store
  <2>2. DOMAIN store = {"list", "once"} /\ store.list = list /\ store.once = server.once
    BY DEF AdsInv, AdsHold
  <2>3. /\ DOMAIN q = AdsFields /\ q.page = "ads" /\ q.list = LoadAds(list)
        /\ q.edited = LoadAds(list) /\ q.index = screen.index /\ q.refused = screen.refused
    BY RereadIs DEF KeepsAds
  <2>4. DOMAIN LoadAds(list) \subseteq Ads
    BY AdsLoaded
  <2> HIDE DEF store, q
  <2>5. AdsHold(q, calls', store)
    BY <1>1, <2>2, <2>3, <2>4 DEF AdsInv, AdsHold, AdsLists
  <2> QED BY <2>1, <2>5, AdsHoldAfter
<1>3. CASE ~saved
  <2>1. server' = server /\ screen' \in {p, [p EXCEPT !.edited = list, !.unsaved = TRUE]}
    BY <1>3 DEF Store
  <2>2. CASE screen' = p
    BY <1>1, <2>1, <2>2 DEF AdsInv, AdsHold, AdsLists, KeepsAds
  <2>3. CASE screen' = [p EXCEPT !.edited = list, !.unsaved = TRUE]
    <3>1. /\ DOMAIN screen' = AdsFields /\ screen'.page = "ads" /\ screen'.list = screen.list
          /\ screen'.edited = list /\ screen'.unsaved /\ screen'.index = screen.index
          /\ screen'.refused = screen.refused
      BY <2>3 DEF AdsFields, KeepsAds
    <3> QED BY <1>1, <2>1, <3>1 DEF AdsInv, AdsHold, AdsLists
  <2> QED BY <2>1, <2>2, <2>3
<1> QED BY <1>2, <1>3

LEMMA CountedIs ==
  ASSUME AdsInv PROVE KeepsAds(Counted) /\ Counted.index = screen.index
BY DEF AdsInv, AdsHold, Counted, AdsFields, KeepsAds

\* The administrator.
LEMMA AdsAdministered ==
  ASSUME AdsInv, CreateAd \/ UpdateAd \/ DeleteAd
  PROVE  AdsInv'
<1>1. \A a \in Ads : \A r : DOMAIN Changed(screen.edited, a, r) \subseteq Ads
  BY DEF Changed, AdsInv, AdsHold
<1>2. \A a : DOMAIN AdsWithout(screen.edited, a) \subseteq Ads
  BY DEF AdsWithout, AdsInv, AdsHold
<1>3. DOMAIN screen.edited \subseteq Ads
  BY DEF AdsInv, AdsHold
<1>4. PICK list, saved : DOMAIN list \subseteq Ads /\ Store(Counted, list, TRUE, saved)
  <2>1. CASE CreateAd
    BY <1>1, <2>1 DEF CreateAd
  <2>2. CASE UpdateAd
    BY <1>1, <1>3, <2>2 DEF UpdateAd
  <2>3. CASE DeleteAd
    BY <1>2, <2>3 DEF DeleteAd
  <2> QED BY <2>1, <2>2, <2>3
<1>5. calls' = calls
  BY DEF CreateAd, UpdateAd, DeleteAd
<1> QED BY <1>4, <1>5, CountedIs, AdsStored

LEMMA AdsPictured ==
  ASSUME AdsInv, ChooseAdImage \/ \E c \in calls : AdImageRead(c)
  PROVE  AdsInv'
<1>1. CASE ChooseAdImage
  <2> DEFINE d == [kind |-> "image", list |-> screen.edited, here |-> TRUE]
  <2>1. screen' = Counted /\ server' = server /\ calls' = calls \cup {d}
    BY <1>1 DEF ChooseAdImage
  <2>2. DOMAIN d = AdsCallFields /\ d.list = screen.edited
    BY DEF AdsCallFields
  <2> HIDE DEF d
  <2>3. AdsCalls(calls')
    BY <2>1, <2>2 DEF AdsInv, AdsHold, AdsCalls
  <2>4. AdsLists(Counted, calls', server)
    BY <2>1, CountedIs DEF AdsInv, AdsHold, AdsLists, KeepsAds
  <2> QED BY <2>1, <2>3, <2>4, CountedIs DEF AdsInv, AdsHold, KeepsAds
<1>2. CASE \E c \in calls : AdImageRead(c)
  <2>1. PICK c \in calls : AdImageRead(c)
    BY <1>2
  <2>2. PICK saved \in BOOLEAN : Store(screen, c.list, c.here, saved)
    BY <2>1 DEF AdImageRead
  <2>3. c.kind = "image" /\ calls' = calls \ {c} /\ DOMAIN c.list \subseteq Ads
    BY <2>1 DEF AdImageRead, Ended, AdsInv, AdsHold, AdsCalls
  <2>4. KeepsAds(screen)
    BY DEF AdsInv, AdsHold, KeepsAds
  <2>5. (\A e \in calls' : e.kind # "storage") => (\A e \in calls : e.kind # "storage")
    BY <2>3
  <2> QED BY <2>2, <2>3, <2>4, <2>5, AdsStored
<1> QED BY <1>1, <1>2

\* A step that only shows the ads otherwise.
LEMMA AdsShown ==
  ASSUME AdsInv, NEW p, ShowsAds(p, server), server' = server, calls' = calls,
         KeepsAds(p), p.index \in Nat
  PROVE  AdsInv'
<1>1. AdsHold(p, calls', server)
  BY DEF AdsInv, AdsHold, AdsLists, KeepsAds
<1> QED BY <1>1, AdsHoldAfter

LEMMA AdsPreviewed == AdsInv /\ PreviewAd => AdsInv'
<1> SUFFICES ASSUME AdsInv, PreviewAd PROVE AdsInv'
  OBVIOUS
<1>1. PICK a : ShowsAds([screen EXCEPT !.closed = FALSE, !.preview = a, !.index = 0], server)
  BY DEF PreviewAd
<1> DEFINE q == [screen EXCEPT !.closed = FALSE, !.preview = a, !.index = 0]
<1>2. KeepsAds(q) /\ q.index = 0
  BY DEF AdsFields, AdsInv, AdsHold, KeepsAds
<1>3. ShowsAds(q, server)
  BY <1>1
<1> HIDE DEF q
<1>4. calls' = calls /\ server' = server
  BY DEF PreviewAd
<1> QED BY <1>2, <1>3, <1>4, AdsShown

LEMMA AdsElsewhere ==
  ASSUME AdsInv, AnotherTabStores \/ \E c \in calls : StorageEvent(c)
  PROVE  AdsInv'
<1>1. CASE AnotherTabStores
  <2>1. PICK list : server' = [server EXCEPT !.list = list] /\ DOMAIN list \subseteq Ads
    <3>1. PICK a \in Ads, r \in AdRecords :
            server' \in {[server EXCEPT !.list = Changed(LoadAds(server.list), a, r)],
                         [server EXCEPT !.list = AdsWithout(LoadAds(server.list), a)]}
      BY <1>1 DEF AnotherTabStores
    <3>2. DOMAIN LoadAds(server.list) \subseteq Ads
      BY AdsLoaded DEF AdsInv, AdsHold
    <3>3. /\ DOMAIN Changed(LoadAds(server.list), a, r) \subseteq Ads
          /\ DOMAIN AdsWithout(LoadAds(server.list), a) \subseteq Ads
      BY <3>2 DEF Changed, AdsWithout
    <3> QED BY <3>1, <3>3
  <2>2. DOMAIN server' = {"list", "once"} /\ server'.list = list /\ server'.once = server.once
    BY <2>1 DEF AdsInv, AdsHold
  <2> DEFINE d == [kind |-> "storage", list |-> << >>, here |-> FALSE]
  <2>3. screen' = Counted /\ calls' = calls \cup {d}
    BY <1>1 DEF AnotherTabStores
  <2>4. DOMAIN d = AdsCallFields /\ d.kind = "storage"
    BY DEF AdsCallFields
  <2> HIDE DEF d
  <2>5. AdsCalls(calls') /\ AdsLists(screen', calls', server')
    BY <2>3, <2>4 DEF AdsInv, AdsHold, AdsCalls, AdsLists
  <2> QED BY <2>1, <2>2, <2>3, <2>5, CountedIs DEF AdsInv, AdsHold, KeepsAds
<1>2. CASE \E c \in calls : StorageEvent(c)
  <2> DEFINE q == RereadAds(screen, server.list)
  <2>1. ShowsAds(q, server) /\ server' = server /\ calls' \subseteq calls
    BY <1>2 DEF StorageEvent, Ended
  <2>2. /\ DOMAIN q = AdsFields /\ q.page = "ads" /\ q.list = LoadAds(server.list)
        /\ q.edited = LoadAds(server.list) /\ q.index = screen.index
        /\ q.refused = screen.refused
    BY RereadIs DEF AdsInv, AdsHold
  <2>3. DOMAIN LoadAds(server.list) \subseteq Ads
    BY AdsLoaded DEF AdsInv, AdsHold
  <2> HIDE DEF q
  <2>4. AdsHold(q, calls', server)
    BY <2>1, <2>2, <2>3 DEF AdsInv, AdsHold, AdsCalls, AdsLists
  <2> QED BY <2>1, <2>4, AdsHoldAfter
<1> QED BY <1>1, <1>2

\* The visitor.
LEMMA VisibleAreAds ==
  ASSUME AdsInv
  PROVE  /\ VisibleAds(screen, server) \subseteq DOMAIN screen.list
         /\ VisibleAds(screen, server) \subseteq Nat /\ IsFiniteSet(VisibleAds(screen, server))
<1>1. VisibleAds(screen, server) \subseteq DOMAIN screen.list /\ DOMAIN screen.list \subseteq Ads
  BY DEF VisibleAds, AdsInv, AdsHold
<1>2. IsFiniteSet(Ads) /\ Ads \subseteq Nat
  BY AnnouncementAdsAssumption DEF AnnouncementAdsAssumption
<1> QED BY <1>1, <1>2, FS_Subset

LEMMA AdsDismissed ==
  ASSUME AdsInv, NEW p, NEW ads, Dismiss(p, ads), calls' = calls, KeepsAds(p), p.index \in Nat
  PROVE  AdsInv'
<1>1. PICK once, session :
        /\ server' = [server EXCEPT !.once = @ \cup once]
        /\ ShowsAds([p EXCEPT !.session = @ \cup session, !.refused = @ \cup once],
                    [server EXCEPT !.once = @ \cup once])
  BY DEF Dismiss
<1> DEFINE store == [server EXCEPT !.once = @ \cup once]
           q == [p EXCEPT !.session = @ \cup session, !.refused = @ \cup once]
<1>2. DOMAIN store = {"list", "once"} /\ store.list = server.list
      /\ store.once = server.once \cup once
  BY DEF AdsInv, AdsHold
<1>3. /\ DOMAIN q = AdsFields /\ q.page = "ads" /\ q.list = screen.list /\ q.index = p.index
      /\ q.edited = screen.edited /\ q.unsaved = screen.unsaved
      /\ q.refused = screen.refused \cup once
  BY DEF AdsFields, KeepsAds
<1>4. server' = store /\ ShowsAds(q, store)
  BY <1>1
<1> HIDE DEF store, q
<1>5. AdsHold(q, calls', store)
  BY <1>2, <1>3 DEF AdsInv, AdsHold, AdsLists
<1> QED BY <1>4, <1>5, AdsHoldAfter

LEMMA AdsVisited ==
  ASSUME AdsInv, CloseOverlay \/ SkipActiveAd
  PROVE  AdsInv'
<1>1. PICK p : /\ KeepsAds(p) /\ p.index \in Nat
               /\ \/ \E ads : Dismiss(p, ads)
                  \/ ShowsAds(p, server) /\ server' = server
  <2>1. CASE CloseOverlay
    <3> DEFINE q == [screen EXCEPT !.preview = -1, !.closed = TRUE]
    <3>1. \/ Dismiss(q, VisibleAds(screen, server))
          \/ ShowsAds(q, server) /\ server' = server
      BY <2>1 DEF CloseOverlay
    <3>2. KeepsAds(q) /\ q.index = screen.index
      BY DEF AdsFields, AdsInv, AdsHold, KeepsAds
    <3>3. screen.index \in Nat
      BY DEF AdsInv, AdsHold
    <3> HIDE DEF q
    <3> QED BY <3>1, <3>2, <3>3
  <2>2. CASE SkipActiveAd
    <3> DEFINE ad == ActiveAd(screen, server)
               last == Cardinality(VisibleAds(screen, server)) - 2
               index == IF screen.index > last THEN IF last < 0 THEN 0 ELSE last ELSE screen.index
               preview == IF screen.preview = ad THEN -1 ELSE screen.preview
               q == [screen EXCEPT !.index = index, !.preview = preview]
    <3>1. \/ Dismiss(q, {ad})
          \/ ShowsAds(q, server) /\ server' = server
      BY <2>2 DEF SkipActiveAd
    <3>2. last \in Int /\ screen.index \in Nat
      BY VisibleAreAds, FS_CardinalityType DEF AdsInv, AdsHold
    <3> HIDE DEF last
    <3>3. index \in Nat
      BY <3>2
    <3> HIDE DEF index, preview, ad
    <3>4. KeepsAds(q) /\ q.index = index
      BY DEF AdsFields, AdsInv, AdsHold, KeepsAds
    <3> HIDE DEF q
    <3> QED BY <3>1, <3>3, <3>4
  <2> QED BY <2>1, <2>2
<1>2. calls' = calls
  BY DEF CloseOverlay, SkipActiveAd
<1>3. CASE \E ads : Dismiss(p, ads)
  BY <1>1, <1>2, <1>3, AdsDismissed
<1>4. CASE ShowsAds(p, server) /\ server' = server
  BY <1>1, <1>2, <1>4, AdsShown
<1> QED BY <1>1, <1>3, <1>4

LEMMA AdsTurned ==
  ASSUME AdsInv, TurnAd
  PROVE  AdsInv'
<1>1. PICK i : /\ i \in 0..(Cardinality(VisibleAds(screen, server)) - 1)
               /\ ShowsAds([screen EXCEPT !.index = i], server)
  BY DEF TurnAd
<1> DEFINE q == [screen EXCEPT !.index = i]
<1>2. i \in Nat
  <2>1. Cardinality(VisibleAds(screen, server)) \in Nat
    BY VisibleAreAds, FS_CardinalityType
  <2> QED BY <1>1, <2>1
<1>3. KeepsAds(q) /\ q.index = i
  BY DEF AdsFields, AdsInv, AdsHold, KeepsAds
<1>4. ShowsAds(q, server) /\ server' = server /\ calls' = calls
  BY <1>1 DEF TurnAd
<1> HIDE DEF q
<1> QED BY <1>2, <1>3, <1>4, AdsShown

LEMMA AdsMoved ==
  ASSUME AdsInv, DelayOver \/ Navigate \/ PageLoad
  PROVE  AdsInv'
<1>1. DOMAIN LoadAds(server.list) \subseteq Ads
  BY AdsLoaded DEF AdsInv, AdsHold
<1>2. CASE DelayOver
  <2>1. screen' = [screen EXCEPT !.delayed = FALSE] /\ calls' = calls /\ server' = server
    BY <1>2 DEF DelayOver
  <2>2. /\ DOMAIN screen' = AdsFields /\ screen'.page = "ads" /\ screen'.list = screen.list
        /\ screen'.edited = screen.edited /\ screen'.unsaved = screen.unsaved
        /\ screen'.index = screen.index /\ screen'.refused = screen.refused
    BY <2>1 DEF AdsFields, AdsInv, AdsHold
  <2> QED BY <2>1, <2>2 DEF AdsInv, AdsHold, AdsLists
<1>3. CASE Navigate
  <2>1. PICK site : screen' = [screen EXCEPT !.site = site, !.edited = LoadAds(server.list),
                                             !.unsaved = FALSE]
    BY <1>3 DEF Navigate
  <2>2. /\ DOMAIN screen' = AdsFields /\ screen'.page = "ads" /\ screen'.list = screen.list
        /\ screen'.edited = LoadAds(server.list)
        /\ screen'.index = screen.index /\ screen'.refused = screen.refused
    BY <2>1 DEF AdsFields, AdsInv, AdsHold
  <2>3. server' = server /\ calls' = {[c EXCEPT !.here = FALSE] : c \in calls}
    BY <1>3 DEF Navigate
  <2>4. ASSUME NEW c \in calls
        PROVE  LET d == [c EXCEPT !.here = FALSE]
               IN d \in calls' /\ DOMAIN d = AdsCallFields /\ d.kind = c.kind /\ d.list = c.list
    BY <2>3 DEF AdsInv, AdsHold, AdsCalls, AdsCallFields
  <2>5. AdsCalls(calls')
    <3> SUFFICES ASSUME NEW d \in calls'
                 PROVE  DOMAIN d = AdsCallFields /\ (d.kind = "image" => DOMAIN d.list \subseteq Ads)
      BY DEF AdsCalls
    <3>1. PICK c \in calls : d = [c EXCEPT !.here = FALSE]
      BY <2>3
    <3>2. DOMAIN d = AdsCallFields /\ d.kind = c.kind /\ d.list = c.list
      BY <2>4, <3>1
    <3> QED BY <3>2 DEF AdsInv, AdsHold, AdsCalls
  <2>6. (\A d \in calls' : d.kind # "storage") => (\A c \in calls : c.kind # "storage")
    BY <2>4
  <2>7. AdsLists(screen', calls', server)
    BY <2>2, <2>6 DEF AdsInv, AdsHold, AdsLists
  <2> QED BY <1>1, <2>2, <2>3, <2>5, <2>7 DEF AdsInv, AdsHold
<1>4. CASE PageLoad
  <2> DEFINE q == RereadAds(Counted, server.list)
  <2>1. PICK kept : screen' = [q EXCEPT !.closed = FALSE, !.index = 0, !.delayed = TRUE,
                                        !.preview = -1, !.session = kept]
    BY <1>4 DEF PageLoad
  <2>2. /\ DOMAIN q = AdsFields /\ q.page = "ads" /\ q.list = LoadAds(server.list)
        /\ q.edited = LoadAds(server.list) /\ q.refused = screen.refused
    <3>1. DOMAIN Counted = AdsFields /\ Counted.page = "ads" /\ Counted.refused = screen.refused
      BY CountedIs DEF KeepsAds
    <3> QED BY <3>1 DEF RereadAds, AdsFields
  <2> HIDE DEF q
  <2>3. /\ DOMAIN screen' = AdsFields /\ screen'.page = "ads"
        /\ screen'.list = LoadAds(server.list) /\ screen'.edited = LoadAds(server.list)
        /\ screen'.index = 0 /\ screen'.refused = screen.refused
    BY <2>1, <2>2 DEF AdsFields
  <2>4. calls' = {} /\ server' = server
    BY <1>4 DEF PageLoad
  <2> QED BY <1>1, <2>3, <2>4 DEF AdsInv, AdsHold, AdsCalls, AdsLists
<1> QED BY <1>2, <1>3, <1>4

LEMMA AdsStep == AdsInv /\ [AdsNext]_tabVars => AdsInv'
<1> SUFFICES ASSUME AdsInv, [AdsNext]_tabVars PROVE AdsInv'
  OBVIOUS
<1>1. CASE UNCHANGED tabVars
  BY <1>1 DEF tabVars, AdsInv, AdsHold
<1>2. CASE AdsNext
  <2>1. \/ CreateAd \/ UpdateAd \/ DeleteAd \/ PreviewAd \/ ChooseAdImage
        \/ CloseOverlay \/ SkipActiveAd \/ TurnAd \/ DelayOver \/ Navigate \/ PageLoad
        \/ AnotherTabStores
        \/ \E c \in calls : AdImageRead(c) \/ StorageEvent(c)
    BY <1>2 DEF AdsNext, AdTemplates, AdForm, AdImage, AdBanner, AdModal
  <2> QED BY <2>1, AdsAdministered, AdsPictured, AdsPreviewed, AdsElsewhere, AdsVisited,
             AdsTurned, AdsMoved
<1> QED BY <1>1, <1>2

\* The active ad is one of those that are to be seen.
LEMMA ActiveIsVisible ==
  ASSUME AdsInv, ActiveAd(screen, server) # -1
  PROVE  ActiveAd(screen, server) \in VisibleAds(screen, server)
<1> DEFINE ads == VisibleAds(screen, server)
           at == IF screen.index < Cardinality(ads) THEN screen.index ELSE Cardinality(ads) - 1
<1>1. ads # {} /\ ActiveAd(screen, server) = CHOOSE a \in ads : Cardinality({b \in ads : b < a}) = at
  BY DEF ActiveAd
<1>2. ads \subseteq Nat /\ IsFiniteSet(ads) /\ screen.index \in Nat
  BY VisibleAreAds DEF AdsInv, AdsHold
<1> HIDE DEF ads
<1>3. Cardinality(ads) \in Nat /\ Cardinality(ads) # 0
  BY <1>1, <1>2, FS_CardinalityType, FS_EmptySet
<1>4. at \in 0..(Cardinality(ads) - 1)
  BY <1>2, <1>3
<1> HIDE DEF at
<1>5. \E a \in ads : Cardinality({b \in ads : b < a}) = at
  BY <1>2, <1>4, EachHasItsPlace DEF Below
<1> QED BY <1>1, <1>5 DEF ads

LEMMA AdsAreTrue == AdsInv => AdsStayTrue
<1> SUFFICES ASSUME AdsInv, Displayed, screen.preview = -1,
                    screen.list[ActiveAd(screen, server)].freq # "always"
             PROVE  ActiveAd(screen, server) \notin screen.refused
  BY DEF AdsStayTrue, AdsInv, AdsHold, AdsLists
<1> DEFINE ad == ActiveAd(screen, server)
<1>1. ad \in VisibleAds(screen, server) /\ ad \in Nat
  BY ActiveIsVisible, VisibleAreAds DEF Displayed
<1>2. ~IsDismissed(screen, server, ad)
  <2>1. screen.preview # ad
    BY <1>1
  <2> QED BY <1>1, <2>1 DEF VisibleAds
<1>3. ad \notin server.once
  BY <1>2 DEF IsDismissed
<1> QED BY <1>3 DEF AdsInv, AdsHold

(***************************************************************************)
(* AssessmentSessions: the sessions on the screen are those of the server.   *)
(***************************************************************************)
SessionFields == {"page", "rows", "busy", "saving", "failed", "lost", "writes"}

\* What a call carries, by its kind: lists, and writes that are sent or stored.
SessionCalls ==
  \A c \in calls :
    \/ c.kind = "list" /\ DOMAIN c = {"kind", "read", "rows"}
    \/ c.kind = "create" /\ DOMAIN c = {"kind", "stage"} /\ c.stage \in {"sent", "stored"}
    \/ c.kind = "status" /\ DOMAIN c = {"kind", "row", "stage", "next"}
       /\ c.stage \in {"sent", "stored"}

\* One write is under way at most, and only while its button waits for it.
OneSessionWrite ==
  /\ \A c, d \in SessionWrites : c = d
  /\ SessionWrites # {} => screen.saving

\* Unless a stored write will reload the list, or its answer was lost, a list that
\* was read has the rows of the server, and so has the screen when it is not
\* loading and did not fail.
NothingUnseen == ~screen.lost /\ \A c \in SessionWrites : c.stage = "sent"

ListsAreServers ==
  NothingUnseen =>
    /\ \A c \in SessionReads : c.read => c.rows = server
    /\ ~screen.busy /\ ~screen.failed => screen.rows = server

SessionsInv ==
  /\ Mounted("sessions") /\ DOMAIN screen = SessionFields
  /\ SessionCalls /\ OneSessionWrite /\ ListsAreServers

LEMMA SessionsStart == SessionsInit => SessionsInv
<1> SUFFICES ASSUME SessionsInit PROVE SessionsInv
  OBVIOUS
<1>1. Mounted("sessions") /\ DOMAIN screen = SessionFields /\ screen.busy
  BY DEF SessionsInit, SessionFields, Mounted
<1>2. calls = {ListRequest} /\ ListRequest.kind = "list" /\ ~ListRequest.read
      /\ DOMAIN ListRequest = {"kind", "read", "rows"}
  BY DEF SessionsInit, ListRequest
<1>3. SessionWrites = {} /\ \A c \in SessionReads : ~c.read
  BY <1>2 DEF SessionWrites, SessionReads
<1> QED BY <1>1, <1>2, <1>3
        DEF SessionsInv, SessionCalls, OneSessionWrite, ListsAreServers

\* A write is begun: the list is as it was.
LEMMA OrderSent ==
  ASSUME SessionsInv, NEW d, OrdersSession(d), d.kind # "list", d.stage = "sent",
         \/ d.kind = "create" /\ DOMAIN d = {"kind", "stage"}
         \/ d.kind = "status" /\ DOMAIN d = {"kind", "row", "stage", "next"}
  PROVE  SessionsInv'
<1>1. /\ ~screen.saving /\ calls' = calls \cup {d} /\ server' = server
      /\ screen' = [screen EXCEPT !.saving = TRUE, !.writes = @ + 1]
  BY DEF OrdersSession
<1>2. /\ DOMAIN screen' = SessionFields /\ screen'.page = screen.page /\ screen'.saving
      /\ screen'.rows = screen.rows /\ screen'.busy = screen.busy
      /\ screen'.failed = screen.failed /\ screen'.lost = screen.lost
  BY <1>1 DEF SessionsInv, SessionFields
<1>3. SessionWrites = {} /\ SessionWrites' = {d} /\ SessionReads' = SessionReads
  BY <1>1 DEF SessionsInv, OneSessionWrite, SessionWrites, SessionReads
<1>4. SessionCalls'
  BY <1>1 DEF SessionsInv, SessionCalls
<1>5. ListsAreServers'
  BY <1>1, <1>2, <1>3 DEF SessionsInv, ListsAreServers, NothingUnseen
<1> QED BY <1>2, <1>3, <1>4, <1>5 DEF SessionsInv, OneSessionWrite, Mounted

\* A call is over, or it goes on as the one of its kind in "next".
SessionBecomes(c, next) ==
  /\ calls' = (calls \ {c}) \cup next
  /\ \A d \in next : /\ d.kind = c.kind /\ DOMAIN d = DOMAIN c
                     /\ d.kind # "list" => d.stage \in {"sent", "stored"}
  /\ \A d, e \in next : d = e

\* No write is added; what the list says of the server is shown of each step apart.
LEMMA SessionsKept ==
  ASSUME SessionsInv, NEW c \in calls, NEW next, SessionBecomes(c, next),
         DOMAIN screen' = SessionFields, screen'.page = screen.page,
         screen'.saving = screen.saving \/ (c.kind # "list" /\ next = {}),
         ListsAreServers'
  PROVE  SessionsInv'
<1>1. SessionCalls'
  BY DEF SessionsInv, SessionCalls, SessionBecomes
<1>2. OneSessionWrite'
  BY DEF SessionsInv, OneSessionWrite, SessionWrites, SessionBecomes
<1> QED BY <1>1, <1>2 DEF SessionsInv, Mounted

LEMMA SessionsReadStep ==
  ASSUME SessionsInv, NEW c \in calls, SessionsRead(c)
  PROVE  SessionsInv'
<1> DEFINE d == [c EXCEPT !.read = TRUE, !.rows = server]
           next == {d}
<1>1. c.kind = "list" /\ screen' = screen /\ server' = server
      /\ calls' = (calls \ {c}) \cup next
  BY DEF SessionsRead
<1>2. d.kind = "list" /\ DOMAIN d = DOMAIN c /\ d.rows = server
  BY <1>1 DEF SessionsInv, SessionCalls
<1> HIDE DEF d
<1>3. SessionWrites' = SessionWrites /\ SessionReads' \subseteq SessionReads \cup {d}
  BY <1>1, <1>2 DEF SessionWrites, SessionReads
<1>4. ListsAreServers'
  BY <1>1, <1>2, <1>3 DEF SessionsInv, ListsAreServers, NothingUnseen
<1>5. SessionBecomes(c, next)
  BY <1>1, <1>2 DEF SessionBecomes
<1> QED BY <1>1, <1>4, <1>5, SessionsKept DEF SessionsInv

\* A list arrives, or fails.
LEMMA SessionsAnswerStep ==
  ASSUME SessionsInv, NEW c \in calls, SessionsArrive(c) \/ SessionsFail(c)
  PROVE  SessionsInv'
<1>1. c.kind = "list" /\ server' = server /\ calls' = (calls \ {c}) \cup {}
  BY DEF SessionsArrive, SessionsFail, Ended
<1>2. /\ DOMAIN screen' = SessionFields /\ screen'.page = screen.page
      /\ screen'.saving = screen.saving /\ screen'.lost = screen.lost
      /\ screen'.failed \/ (c.read /\ screen'.rows = c.rows)
  BY DEF SessionsArrive, SessionsFail, SessionsInv, SessionFields
<1>3. SessionWrites' = SessionWrites /\ SessionReads' \subseteq SessionReads /\ c \in SessionReads
  BY <1>1 DEF SessionWrites, SessionReads
<1>4. ListsAreServers'
  BY <1>1, <1>2, <1>3 DEF SessionsInv, ListsAreServers, NothingUnseen
<1>5. SessionBecomes(c, {})
  BY <1>1 DEF SessionBecomes
<1> QED BY <1>1, <1>2, <1>4, <1>5, SessionsKept

LEMMA SessionStoredStep ==
  ASSUME SessionsInv, NEW c \in calls, SessionStored(c) \/ SessionStatusStored(c)
  PROVE  SessionsInv'
<1> DEFINE d == [c EXCEPT !.stage = "stored"]
           next == {d}
<1>1. c.kind # "list" /\ screen' = screen /\ calls' = (calls \ {c}) \cup next
  BY DEF SessionStored, SessionStatusStored, Advances
<1>2. d.kind = c.kind /\ DOMAIN d = DOMAIN c /\ d.stage = "stored"
  BY <1>1 DEF SessionsInv, SessionCalls
<1> HIDE DEF d
<1>3. d \in SessionWrites'
  BY <1>1, <1>2 DEF SessionWrites
<1>4. ListsAreServers'
  BY <1>2, <1>3 DEF ListsAreServers, NothingUnseen
<1>5. SessionBecomes(c, next)
  BY <1>1, <1>2 DEF SessionBecomes
<1> QED BY <1>1, <1>4, <1>5, SessionsKept DEF SessionsInv

\* The list is read again, and what was asked for before is dropped.
LEMMA SessionWrittenStep ==
  ASSUME SessionsInv, NEW c \in calls, SessionWritten(c)
  PROVE  SessionsInv'
<1> DEFINE p == [screen EXCEPT !.saving = FALSE]
<1>1. c \in SessionWrites /\ ReloadSessions(p, {c})
  BY DEF SessionWritten
<1>2. calls' = (calls \ ({c} \cup SessionReads)) \cup {ListRequest}
      /\ screen' = [p EXCEPT !.busy = TRUE, !.failed = FALSE]
  BY <1>1 DEF ReloadSessions, AbortedList
<1>3. DOMAIN screen' = SessionFields /\ screen'.page = screen.page /\ screen'.busy
  BY <1>2 DEF SessionsInv, SessionFields
<1>4. ListRequest.kind = "list" /\ ~ListRequest.read
      /\ DOMAIN ListRequest = {"kind", "read", "rows"}
  BY DEF ListRequest
<1> HIDE DEF p
<1>5. SessionWrites' = {} /\ \A d \in SessionReads' : ~d.read
  BY <1>1, <1>2, <1>4 DEF SessionsInv, OneSessionWrite, SessionWrites, SessionReads
<1>6. SessionCalls'
  BY <1>2, <1>4 DEF SessionsInv, SessionCalls
<1> QED BY <1>3, <1>5, <1>6 DEF SessionsInv, OneSessionWrite, ListsAreServers, Mounted

LEMMA SessionWriteFailsStep ==
  ASSUME SessionsInv, NEW c \in calls, SessionWriteFails(c)
  PROVE  SessionsInv'
<1>1. c \in SessionWrites /\ server' = server /\ calls' = (calls \ {c}) \cup {}
  BY DEF SessionWriteFails, Ended
<1>2. PICK lost \in BOOLEAN : lost = (screen.lost \/ c.stage = "stored")
  OBVIOUS
<1>3. screen' = [screen EXCEPT !.saving = FALSE, !.lost = lost]
  BY <1>2 DEF SessionWriteFails
<1>4. /\ DOMAIN screen' = SessionFields /\ screen'.page = screen.page /\ screen'.rows = screen.rows
      /\ screen'.busy = screen.busy /\ screen'.failed = screen.failed /\ screen'.lost = lost
  BY <1>3 DEF SessionsInv, SessionFields
<1>5. SessionWrites' = {} /\ SessionReads' = SessionReads
  BY <1>1 DEF SessionsInv, OneSessionWrite, SessionWrites, SessionReads
<1>6. ListsAreServers'
  BY <1>1, <1>2, <1>4, <1>5 DEF SessionsInv, ListsAreServers, NothingUnseen, SessionWrites,
     SessionCalls, OneSessionWrite
<1>7. SessionCalls'
  BY <1>1 DEF SessionsInv, SessionCalls
<1> QED BY <1>4, <1>5, <1>6, <1>7 DEF SessionsInv, OneSessionWrite, Mounted

LEMMA SessionsStep == SessionsInv /\ [SessionsNext]_tabVars => SessionsInv'
<1> SUFFICES ASSUME SessionsInv, [SessionsNext]_tabVars PROVE SessionsInv'
  OBVIOUS
<1>1. CASE UNCHANGED tabVars
  BY <1>1 DEF tabVars, SessionsInv, SessionCalls, OneSessionWrite, ListsAreServers, NothingUnseen,
     SessionWrites, SessionReads, Mounted
<1>2. CASE CreateSessionForm
  <2> DEFINE d == [kind |-> "create", stage |-> "sent"]
  <2>1. OrdersSession(d) /\ d.kind = "create" /\ d.stage = "sent" /\ DOMAIN d = {"kind", "stage"}
    BY <1>2 DEF CreateSessionForm
  <2> HIDE DEF d
  <2> QED BY <2>1, OrderSent
<1>3. CASE SessionButtons
  <2>1. PICK r, next : OrdersSession([kind |-> "status", row |-> r, stage |-> "sent",
                                      next |-> next])
    BY <1>3 DEF SessionButtons
  <2> DEFINE d == [kind |-> "status", row |-> r, stage |-> "sent", next |-> next]
  <2>2. OrdersSession(d) /\ d.kind = "status" /\ d.stage = "sent"
        /\ DOMAIN d = {"kind", "row", "stage", "next"}
    BY <2>1
  <2> HIDE DEF d
  <2> QED BY <2>2, OrderSent
<1>4. ASSUME NEW c \in calls,
             \/ SessionsRead(c) \/ SessionsArrive(c) \/ SessionsFail(c) \/ SessionStored(c)
             \/ SessionStatusStored(c) \/ SessionWritten(c) \/ SessionWriteFails(c)
      PROVE  SessionsInv'
  BY <1>4, SessionsReadStep, SessionsAnswerStep, SessionStoredStep, SessionWrittenStep,
     SessionWriteFailsStep
<1> QED BY <1>1, <1>2, <1>3, <1>4 DEF SessionsNext

LEMMA SessionsShown == SessionsInv => SessionsAreTrue
  BY DEF SessionsInv, ListsAreServers, NothingUnseen, SessionsAreTrue

(***************************************************************************)
(* UsersAdmin: an active administrator remains, for any number of commands of *)
(* the two administrators and any order of their steps.                      *)
(***************************************************************************)

\* The server's record has its two fields, and an active administrator is in it.
AdminInv ==
  /\ DOMAIN server = {"users", "foreign"}
  /\ ActiveAdmins(server.users) # {}

\* A command that the transaction accepts leaves an active administrator: its
\* target, or another account, which the command does not touch.
LEMMA AcceptedLeavesAdmin ==
  ASSUME NEW users, NEW c, ActiveAdmins(users) # {}, Accepted(c, users)
  PROVE  ActiveAdmins(After(c, users)) # {}
<1>1. CASE LosesAdmin(c, users)
  <2>1. PICK a \in ActiveAdmins(users) : a # c.target
    BY <1>1 DEF Accepted
  <2>2. a \in DOMAIN After(c, users) /\ After(c, users)[a] = users[a]
    BY <2>1 DEF After, ActiveAdmins
  <2> QED BY <2>1, <2>2 DEF ActiveAdmins
<1>2. CASE ~LosesAdmin(c, users)
  <2>1. PICK a \in ActiveAdmins(users) : TRUE
    OBVIOUS
  <2>2. CASE a = c.target
    BY <1>2, <2>1, <2>2 DEF LosesAdmin
  <2>3. CASE a # c.target
    <3>1. a \in DOMAIN After(c, users) /\ After(c, users)[a] = users[a]
      BY <2>1, <2>3 DEF After, ActiveAdmins
    <3> QED BY <2>1, <3>1 DEF ActiveAdmins
  <2> QED BY <2>2, <2>3
<1> QED BY <1>1, <1>2

\* Only a command that runs changes an account.
LEMMA OthersLeaveAccounts ==
  ASSUME UsersAdminNext, DOMAIN server = {"users", "foreign"},
         ~\E c \in AccountOrders : OrderRuns(c)
  PROVE  server'.users = server.users /\ DOMAIN server' = DOMAIN server
<1>1. ASSUME NEW c \in Reads, UsersRead(c) \/ UsersArrive(c) \/ UsersFail(c)
      PROVE  server' = server
  BY <1>1 DEF UsersRead, UsersArrive, UsersFail
<1>2. ASSUME NEW c \in AccountOrders, OrderAdmitted(c) \/ OrderDone(c) \/ OrderFails(c)
      PROVE  server' = server
  BY <1>2 DEF OrderAdmitted, OrderDone, OrderFails
<1>3. ASSUME \/ \E filter \in {"all", "admins"} : FilterUsers(filter)
             \/ \E number \in {1, 2} : TurnPage(number)
             \/ PressReloadUsers \/ OpenCreate
      PROVE  server' = server
  BY <1>3 DEF FilterUsers, TurnPage, PressReloadUsers, OpenCreate
<1>4. ASSUME CreateForm \/ EditForm \/ DeleteForm
      PROVE  server' = server
  BY <1>4 DEF CreateForm, EditForm, DeleteForm, UserForm, EditUserForm, CloseUserDialog,
              HandleCreate, HandleUpdate, HandleDelete, Sends
<1>5. ASSUME NEW u \in Accounts, UserRow(u)
      PROVE  server' = server
  BY <1>5 DEF UserRow, ToggleStatus, OpenEdit, OpenDelete, Sends
<1>6. ASSUME NEW kind \in {"update", "delete", "bulk"}, NEW role \in {"same", "student"},
             NEW active \in {"same", "no"}, ForeignOrder(kind, role, active)
      PROVE  server'.users = server.users /\ DOMAIN server' = DOMAIN server
  BY <1>6 DEF ForeignOrder
<1> QED BY <1>1, <1>2, <1>3, <1>4, <1>5, <1>6 DEF UsersAdminNext

LEMMA AdminStep == AdminInv /\ [UsersAdminNext]_tabVars => AdminInv'
<1> SUFFICES ASSUME AdminInv, [UsersAdminNext]_tabVars PROVE AdminInv'
  OBVIOUS
<1>1. CASE UNCHANGED tabVars
  BY <1>1 DEF tabVars, AdminInv
<1>2. CASE UsersAdminNext /\ ~\E c \in AccountOrders : OrderRuns(c)
  BY <1>2, OthersLeaveAccounts DEF AdminInv
<1>3. ASSUME NEW c \in AccountOrders, OrderRuns(c) PROVE AdminInv'
  <2>1. CASE Accepted(c, server.users)
    <3>1. server'.users = After(c, server.users) /\ DOMAIN server' = DOMAIN server
      BY <1>3, <2>1 DEF OrderRuns, OrderCarriedOut, AdminInv
    <3> QED BY <2>1, <3>1, AcceptedLeavesAdmin DEF AdminInv
  <2>2. CASE ~Accepted(c, server.users)
    BY <1>3, <2>2 DEF OrderRuns, AdminInv
  <2> QED BY <2>1, <2>2
<1> QED BY <1>1, <1>2, <1>3

\* The platform keeps an active administrator (lockAdminInvariant() and
\* ensureAnotherActiveAdmin() of admin_account_safety.go), whatever number of
\* commands of the two administrators are admitted before the first one runs.
THEOREM AdminsRemain == UsersAdminSpec => []AnAdminRemains
<1>1. UsersAdminInit => AdminInv
  <2> SUFFICES ASSUME UsersAdminInit PROVE AdminInv
    OBVIOUS
  <2>1. DOMAIN server = {"users", "foreign"} /\ server.users[Me] = Account("admin", TRUE)
        /\ Me \in DOMAIN server.users
    BY DEF UsersAdminInit, Accounts
  <2> QED BY <2>1 DEF AdminInv, ActiveAdmins
<1>2. AdminInv => AnAdminRemains
  BY DEF AdminInv, AnAdminRemains
<1> QED BY <1>1, <1>2, AdminStep, PTL DEF UsersAdminSpec

\* The table.
UsersAdminFields ==
  {"page", "view", "rows", "pages", "busy", "failed", "since", "dialog", "who", "form",
   "submitting", "ordered"}
OrderFields == {"kind", "by", "target", "role", "active", "n", "stage"}
ReadFields == {"kind", "view", "stage", "rows", "pages", "since"}

\* An order is a command; the page numbers its own from one.
OrdersAre ==
  \A c \in AccountOrders : DOMAIN c = OrderFields /\ c.n \in Int

\* A list that is under way is of the view on the screen, and misses nothing before
\* the server reads it.
UserReadsOfView ==
  \A c \in Reads :
    /\ DOMAIN c = ReadFields /\ c.view = screen.view
    /\ c.stage = "asked" => c.since = {}

\* What a list misses are commands whose answers are still to come, and those of
\* which the page hears nothing.  A list that misses nothing is as the server has it.
OrdersDone == {c \in Mine : c.stage = "done"}
AsRead(list) ==
  /\ list.since \subseteq {0} \cup {c.n : c \in OrdersDone}
  /\ list.since = {} => list.rows = RowsFor(screen.view, server.users)

\* Of the lists that the server has read, and of the one on the screen.
RowsKnown ==
  /\ \A c \in ListsRead : AsRead(c)
  /\ ~screen.busy /\ ~screen.failed => AsRead(screen)

TableInv ==
  /\ DOMAIN screen = UsersAdminFields /\ screen.ordered \in Nat
  /\ OrdersAre /\ UserReadsOfView /\ RowsKnown

UsersAdminInv == Mounted("users") /\ AdminInv /\ TableInv

\* The list is asked for again: nothing is said of the rows until it is here.
LEMMA ListAsked ==
  ASSUME UsersAdminInv, NEW p, NEW over, ListUsers(p, over), over \subseteq AccountOrders,
         DOMAIN p = UsersAdminFields, p.page = screen.page, p.ordered = screen.ordered
  PROVE  Mounted("users")' /\ TableInv'
<1>1. /\ screen' = [p EXCEPT !.busy = TRUE, !.failed = FALSE]
      /\ calls' = (calls \ (over \cup Reads)) \cup {Read(p.view)}
  BY DEF ListUsers, DroppedReads
<1>2. /\ DOMAIN screen' = UsersAdminFields /\ screen'.page = screen.page /\ screen'.busy
      /\ screen'.ordered = screen.ordered /\ screen'.view = p.view
  BY <1>1 DEF UsersAdminFields
<1> DEFINE d == Read(p.view)
<1>3. d.kind = "users" /\ DOMAIN d = ReadFields /\ d.view = p.view /\ d.stage = "asked"
      /\ d.since = {}
  BY DEF Read, ReadFields
<1> HIDE DEF d
<1>4. Reads' = {d} /\ AccountOrders' \subseteq AccountOrders /\ ListsRead' = {}
  BY <1>1, <1>3 DEF Reads, AccountOrders, ListsRead, d
<1>5. UserReadsOfView' /\ OrdersAre'
  BY <1>2, <1>3, <1>4 DEF UserReadsOfView, OrdersAre, UsersAdminInv, TableInv
<1> QED BY <1>2, <1>4, <1>5 DEF RowsKnown, TableInv, UsersAdminInv, Mounted

\* The screen's rows, view and marks stay.
SameTable ==
  /\ DOMAIN screen' = UsersAdminFields /\ screen'.page = screen.page
  /\ screen'.view = screen.view /\ screen'.rows = screen.rows /\ screen'.busy = screen.busy
  /\ screen'.failed = screen.failed /\ screen'.since = screen.since

\* And so do the accounts, the lists and the commands whose answers are to come.
LEMMA TableStays ==
  ASSUME UsersAdminInv, SameTable, server'.users = server.users, screen'.ordered \in Nat,
         Reads' = Reads, OrdersDone' = OrdersDone, OrdersAre'
  PROVE  Mounted("users")' /\ TableInv'
<1>1. ListsRead' = ListsRead
  BY DEF ListsRead
<1>2. ASSUME NEW list, AsRead(list) PROVE AsRead(list)'
  BY <1>2 DEF AsRead, SameTable
<1>3. ~screen'.busy /\ ~screen'.failed => AsRead(screen)'
  BY DEF UsersAdminInv, TableInv, RowsKnown, AsRead, SameTable
<1>4. RowsKnown'
  BY <1>1, <1>2, <1>3 DEF UsersAdminInv, TableInv, RowsKnown
<1>5. UserReadsOfView'
  BY DEF UsersAdminInv, TableInv, UserReadsOfView, SameTable
<1> QED BY <1>4, <1>5 DEF UsersAdminInv, TableInv, Mounted, SameTable

LEMMA OrderGiven ==
  ASSUME UsersAdminInv, SameTable, server'.users = server.users,
         screen'.ordered \in Nat,
         NEW d, calls' = calls \cup {d}, d.kind # "users", DOMAIN d = OrderFields, d.n \in Int,
         d.stage = "sent"
  PROVE  Mounted("users")' /\ TableInv'
<1>1. Reads' = Reads /\ AccountOrders' = AccountOrders \cup {d}
  BY DEF Reads, AccountOrders
<1>2. OrdersAre' /\ OrdersDone' = OrdersDone
  BY <1>1 DEF OrdersAre, OrdersDone, Mine, UsersAdminInv, TableInv
<1> QED BY <1>1, <1>2, TableStays

LEMMA SendsStep ==
  ASSUME UsersAdminInv, NEW p, NEW kind, NEW target, NEW role, NEW active,
         Sends(p, kind, target, role, active), kind # "users",
         p = screen \/ p = [screen EXCEPT !.submitting = TRUE]
  PROVE  Mounted("users")' /\ TableInv'
<1> DEFINE d == Order(kind, Me, target, role, active, screen.ordered + 1)
<1>1. /\ screen' = [p EXCEPT !.ordered = @ + 1] /\ calls' = calls \cup {d} /\ server' = server
  BY DEF Sends
<1>2. SameTable /\ screen'.ordered \in Nat
  BY <1>1 DEF SameTable, UsersAdminInv, TableInv, UsersAdminFields
<1>3. d.kind # "users" /\ DOMAIN d = OrderFields /\ d.n \in Int /\ d.stage = "sent"
  BY DEF Order, OrderFields, UsersAdminInv, TableInv
<1> HIDE DEF d
<1> QED BY <1>1, <1>2, <1>3, OrderGiven

\* A step of the form alone.
LEMMA FormStep ==
  ASSUME UsersAdminInv, SameTable, screen'.ordered = screen.ordered,
         UNCHANGED <<calls, server>>
  PROVE  Mounted("users")' /\ TableInv'
<1>1. Reads' = Reads /\ OrdersDone' = OrdersDone /\ OrdersAre'
  BY DEF Reads, OrdersDone, Mine, AccountOrders, OrdersAre, UsersAdminInv, TableInv
<1>2. screen'.ordered \in Nat
  BY DEF UsersAdminInv, TableInv
<1> QED BY <1>1, <1>2, TableStays

\* The server reads the list as the accounts are.
LEMMA UsersReadStep ==
  ASSUME UsersAdminInv, NEW c \in Reads, UsersRead(c)
  PROVE  Mounted("users")' /\ TableInv'
<1> DEFINE d == [c EXCEPT !.stage = "read", !.rows = RowsFor(c.view, server.users),
                          !.pages = PagesFor(c.view, server.users)]
<1>1. /\ calls' = (calls \ {c}) \cup {d} /\ screen' = screen /\ server' = server
      /\ c.stage = "asked"
  BY DEF UsersRead
<1>2. DOMAIN c = ReadFields /\ c.view = screen.view /\ c.since = {} /\ c.kind = "users"
  BY <1>1 DEF UsersAdminInv, TableInv, UserReadsOfView, Reads
<1>3. /\ DOMAIN d = ReadFields /\ d.view = c.view /\ d.since = c.since /\ d.kind = "users"
      /\ d.stage = "read" /\ d.rows = RowsFor(c.view, server.users)
  BY <1>2 DEF ReadFields
<1> HIDE DEF d
<1>4. /\ Reads' = (Reads \ {c}) \cup {d} /\ AccountOrders' = AccountOrders
      /\ ListsRead' \subseteq ListsRead \cup {d} /\ OrdersDone' = OrdersDone
  BY <1>1, <1>2, <1>3 DEF Reads, AccountOrders, ListsRead, OrdersDone, Mine
<1>5. UserReadsOfView' /\ OrdersAre'
  BY <1>1, <1>2, <1>3, <1>4 DEF UserReadsOfView, OrdersAre, UsersAdminInv, TableInv
<1>6. ASSUME NEW list, AsRead(list) PROVE AsRead(list)'
  BY <1>1, <1>4, <1>6 DEF AsRead
<1>7. AsRead(d)
  BY <1>2, <1>3 DEF AsRead
<1>8. AsRead(screen) => AsRead(screen)'
  BY <1>1, <1>4 DEF AsRead
<1>9. RowsKnown'
  BY <1>1, <1>4, <1>6, <1>7, <1>8 DEF RowsKnown, UsersAdminInv, TableInv
<1> QED BY <1>1, <1>5, <1>9 DEF UsersAdminInv, TableInv, Mounted

LEMMA UsersAnswerStep ==
  ASSUME UsersAdminInv, NEW c \in Reads, UsersArrive(c) \/ UsersFail(c)
  PROVE  Mounted("users")' /\ TableInv'
<1>1. /\ DOMAIN screen' = UsersAdminFields /\ screen'.page = screen.page
      /\ screen'.ordered = screen.ordered /\ screen'.view = screen.view
      /\ server' = server /\ calls' = calls \ {c}
  BY DEF UsersArrive, UsersFail, Ended, UsersAdminInv, TableInv, UsersAdminFields
<1>2. screen'.failed \/ (screen'.rows = c.rows /\ screen'.since = c.since /\ c \in ListsRead)
  BY DEF UsersArrive, UsersFail, ListsRead, UsersAdminInv, TableInv, UsersAdminFields
<1>3. /\ Reads' = Reads \ {c} /\ AccountOrders' = AccountOrders /\ ListsRead' \subseteq ListsRead
      /\ OrdersDone' = OrdersDone
  BY <1>1 DEF Reads, AccountOrders, ListsRead, OrdersDone, Mine
<1>4. UserReadsOfView' /\ OrdersAre'
  BY <1>1, <1>3 DEF UserReadsOfView, OrdersAre, UsersAdminInv, TableInv
<1>5. ASSUME NEW list, AsRead(list) PROVE AsRead(list)'
  BY <1>1, <1>3, <1>5 DEF AsRead
<1>6. ~screen'.failed => AsRead(screen)'
  BY <1>1, <1>2, <1>3 DEF AsRead, RowsKnown, UsersAdminInv, TableInv
<1>7. RowsKnown'
  BY <1>3, <1>5, <1>6 DEF RowsKnown, UsersAdminInv, TableInv
<1> QED BY <1>1, <1>4, <1>7 DEF UsersAdminInv, TableInv, Mounted

\* A command that is refused leaves the table as it is.
LEMMA RefusedStep ==
  ASSUME UsersAdminInv, NEW c \in AccountOrders, Refuses(c) \/ Advances(c, "admitted"),
         UNCHANGED <<screen, server>>, c.stage # "done"
  PROVE  Mounted("users")' /\ TableInv'
<1>1. DOMAIN c = OrderFields /\ c.n \in Int /\ c.kind # "users"
  BY DEF UsersAdminInv, TableInv, OrdersAre, AccountOrders
<1>2. SameTable /\ server'.users = server.users /\ screen'.ordered \in Nat
  BY DEF SameTable, UsersAdminInv, TableInv
<1>3. CASE calls' = calls \ {c}
  <2>1. /\ Reads' = Reads /\ AccountOrders' \subseteq AccountOrders /\ OrdersDone' = OrdersDone
    BY <1>1, <1>3 DEF Reads, AccountOrders, OrdersDone, Mine
  <2> QED BY <1>2, <2>1, TableStays DEF OrdersAre, UsersAdminInv, TableInv
<1>4. ASSUME NEW stage \in {"admitted", "refused"}, Advances(c, stage)
      PROVE  Mounted("users")' /\ TableInv'
  <2> DEFINE d == [c EXCEPT !.stage = stage]
  <2>1. calls' = (calls \ {c}) \cup {d}
    BY <1>4 DEF Advances
  <2>2. DOMAIN d = OrderFields /\ d.kind = c.kind /\ d.n = c.n /\ d.stage = stage
    BY <1>1 DEF OrderFields
  <2> HIDE DEF d
  <2>3. Reads' = Reads /\ AccountOrders' = (AccountOrders \ {c}) \cup {d}
    BY <1>1, <2>1, <2>2 DEF Reads, AccountOrders
  <2>4. OrdersDone' = OrdersDone
    BY <2>2, <2>3, <1>4 DEF OrdersDone, Mine
  <2>5. OrdersAre'
    BY <1>1, <2>2, <2>3 DEF OrdersAre, UsersAdminInv, TableInv
  <2> QED BY <1>2, <2>3, <2>4, <2>5, TableStays
<1> QED BY <1>3, <1>4 DEF Refuses, Ended

LEMMA OrderAdmittedStep ==
  ASSUME UsersAdminInv, NEW c \in AccountOrders, OrderAdmitted(c)
  PROVE  Mounted("users")' /\ TableInv'
BY RefusedStep DEF OrderAdmitted

\* A list that misses a command, and one that is not told of it, are what they were
\* otherwise.
LEMMA MissesOnly ==
  ASSUME NEW list, "since" \in DOMAIN list, NEW n, NEW x \in {Misses(list, n), NotTold(list, n)}
  PROVE  /\ DOMAIN x = DOMAIN list
         /\ \A f \in DOMAIN list : f # "since" => x[f] = list[f]
BY DEF Misses, NotTold

LEMMA MissesSince ==
  ASSUME NEW list, "since" \in DOMAIN list, NEW n
  PROVE  /\ Misses(list, n).since = list.since \cup {n}
         /\ n \in list.since => NotTold(list, n).since = (list.since \ {n}) \cup {0}
         /\ n \notin list.since => NotTold(list, n).since = list.since
BY DEF Misses, NotTold

\* A command is carried out: no list is as the server has it any more, and each of
\* them knows whether it will be told.
LEMMA CarriedOutStep ==
  ASSUME UsersAdminInv, NEW c \in AccountOrders, OrderCarriedOut(c), c.stage = "admitted"
  PROVE  Mounted("users")' /\ TableInv'
<1>1. PICK n : n = IF c \in Mine THEN c.n ELSE 0
  OBVIOUS
<1>2. /\ screen' = Misses(screen, n)
      /\ calls' = (calls \ (ListsRead \cup {c})) \cup {Misses(d, n) : d \in ListsRead} \cup
           (IF c \in Mine THEN {[c EXCEPT !.stage = "done"]} ELSE {})
  BY <1>1 DEF OrderCarriedOut
<1>3. DOMAIN c = OrderFields /\ c.n \in Int /\ c.kind # "users"
  BY DEF UsersAdminInv, TableInv, OrdersAre, AccountOrders
<1> DEFINE d == [c EXCEPT !.stage = "done"]
<1>4. DOMAIN d = OrderFields /\ d.kind = c.kind /\ d.n = c.n /\ d.stage = "done"
  BY <1>3 DEF OrderFields
<1> HIDE DEF d
<1>5. ASSUME NEW e \in ListsRead
      PROVE  LET x == Misses(e, n)
             IN /\ DOMAIN x = ReadFields /\ x.kind = "users" /\ x.view = screen.view
                /\ x.stage = "read" /\ x.since = e.since \cup {n}
  <2>1. DOMAIN e = ReadFields /\ e.view = screen.view /\ e.kind = "users" /\ e.stage = "read"
    BY <1>5 DEF ListsRead, Reads, UsersAdminInv, TableInv, UserReadsOfView
  <2> QED BY <2>1, MissesOnly, MissesSince DEF ReadFields
<1>6. /\ DOMAIN screen' = UsersAdminFields /\ screen'.page = screen.page
      /\ screen'.view = screen.view /\ screen'.since = screen.since \cup {n}
      /\ screen'.ordered = screen.ordered /\ screen'.busy = screen.busy
      /\ screen'.failed = screen.failed
  BY <1>2, MissesOnly, MissesSince DEF UsersAdminInv, TableInv, UsersAdminFields
<1>7. /\ Reads' = (Reads \ ListsRead) \cup {Misses(e, n) : e \in ListsRead}
      /\ ListsRead' = {Misses(e, n) : e \in ListsRead}
  BY <1>2, <1>3, <1>4, <1>5 DEF Reads, ListsRead, d
<1>8. /\ AccountOrders' \subseteq AccountOrders \cup {d}
      /\ c \in Mine => d \in AccountOrders'
      /\ \A e \in AccountOrders : e # c => e \in AccountOrders'
  BY <1>2, <1>3, <1>4, <1>5 DEF AccountOrders, ListsRead, Reads, d
<1>9. UserReadsOfView'
  BY <1>5, <1>6, <1>7 DEF UserReadsOfView, UsersAdminInv, TableInv
<1>10. OrdersAre'
  BY <1>3, <1>4, <1>8 DEF OrdersAre, UsersAdminInv, TableInv
<1>11. {0} \cup {e.n : e \in OrdersDone} \cup {n} \subseteq {0} \cup {e.n : e \in OrdersDone'}
  <2>1. \A e \in OrdersDone : e \in OrdersDone'
    BY <1>8 DEF OrdersDone, Mine
  <2>2. n = 0 \/ \E e \in OrdersDone' : e.n = n
    BY <1>1, <1>4, <1>8 DEF OrdersDone, Mine
  <2> QED BY <2>1, <2>2
<1>12. ASSUME NEW e, AsRead(e), NEW x, x.since = e.since \cup {n} PROVE AsRead(x)'
  BY <1>11, <1>12 DEF AsRead
<1>13. AsRead(screen) => AsRead(screen)'
  BY <1>6, <1>11 DEF AsRead
<1>14. RowsKnown'
  BY <1>5, <1>6, <1>7, <1>12, <1>13 DEF RowsKnown, UsersAdminInv, TableInv
<1> QED BY <1>6, <1>9, <1>10, <1>14 DEF UsersAdminInv, TableInv, Mounted

LEMMA OrderRunsStep ==
  ASSUME UsersAdminInv, NEW c \in AccountOrders, OrderRuns(c)
  PROVE  Mounted("users")' /\ TableInv'
<1>1. CASE Accepted(c, server.users)
  BY <1>1, CarriedOutStep DEF OrderRuns
<1>2. CASE ~Accepted(c, server.users)
  BY <1>2, RefusedStep DEF OrderRuns
<1> QED BY <1>1, <1>2

\* What the answer to a command does to the dialogs.
LEMMA AfterOrderKeeps ==
  ASSUME UsersAdminInv, NEW c, NEW succeeded
  PROVE  LET p == AfterOrder(c, succeeded)
         IN /\ DOMAIN p = UsersAdminFields /\ p.page = screen.page /\ p.view = screen.view
            /\ p.rows = screen.rows /\ p.busy = screen.busy /\ p.failed = screen.failed
            /\ p.since = screen.since /\ p.ordered = screen.ordered
<1> DEFINE free == IF FromDialog(c) THEN [screen EXCEPT !.submitting = FALSE] ELSE screen
<1>1. /\ DOMAIN free = UsersAdminFields /\ free.page = screen.page /\ free.view = screen.view
      /\ free.rows = screen.rows /\ free.busy = screen.busy /\ free.failed = screen.failed
      /\ free.since = screen.since /\ free.ordered = screen.ordered
  <2>1. CASE FromDialog(c)
    BY <2>1 DEF UsersAdminInv, TableInv, UsersAdminFields
  <2>2. CASE ~FromDialog(c)
    BY <2>2 DEF UsersAdminInv, TableInv
  <2> QED BY <2>1, <2>2
<1>2. AfterOrder(c, succeeded) \in {free, [free EXCEPT !.dialog = "none", !.who = "nobody"]}
  BY DEF AfterOrder
<1> HIDE DEF free
<1> QED BY <1>1, <1>2 DEF UsersAdminFields

LEMMA OrderDoneStep ==
  ASSUME UsersAdminInv, NEW c \in AccountOrders, OrderDone(c)
  PROVE  Mounted("users")' /\ TableInv'
<1>1. ListUsers(AfterOrder(c, TRUE), {c})
  BY DEF OrderDone
<1> QED BY <1>1, ListAsked, AfterOrderKeeps

\* The page gives a command up: the lists that miss it will not be told.
LEMMA OrderFailsStep ==
  ASSUME UsersAdminInv, NEW c \in AccountOrders, OrderFails(c)
  PROVE  Mounted("users")' /\ TableInv'
<1>1. PICK p : /\ p = AfterOrder(c, FALSE) /\ DOMAIN p = UsersAdminFields
               /\ p.page = screen.page /\ p.view = screen.view
               /\ p.rows = screen.rows /\ p.busy = screen.busy /\ p.failed = screen.failed
               /\ p.since = screen.since /\ p.ordered = screen.ordered
  BY AfterOrderKeeps
<1> DEFINE d == [c EXCEPT !.n = -c.n]
           n == c.n
<1>2. DOMAIN c = OrderFields /\ n \in Int /\ n > 0 /\ c.kind # "users"
  BY DEF UsersAdminInv, TableInv, OrdersAre, AccountOrders, OrderFails, Mine
<1>3. DOMAIN d = OrderFields /\ d.kind = c.kind /\ d.n = -n /\ d.stage = c.stage
  BY <1>2 DEF OrderFields
<1>4. /\ screen' = NotTold(p, n) /\ server' = server
      /\ calls' = (calls \ (ListsRead \cup {c})) \cup {NotTold(e, n) : e \in ListsRead} \cup
           (IF c.stage \in {"sent", "admitted"} THEN {d} ELSE {})
  BY <1>1 DEF OrderFails
<1> HIDE DEF d, n
<1>5. ASSUME NEW e \in ListsRead
      PROVE  LET x == NotTold(e, n)
             IN /\ DOMAIN x = ReadFields /\ x.kind = "users" /\ x.view = screen.view
                /\ x.stage = "read" /\ x.rows = e.rows
                /\ n \in e.since => x.since = (e.since \ {n}) \cup {0}
                /\ n \notin e.since => x.since = e.since
  <2>1. DOMAIN e = ReadFields /\ e.view = screen.view /\ e.kind = "users" /\ e.stage = "read"
    BY <1>5 DEF ListsRead, Reads, UsersAdminInv, TableInv, UserReadsOfView
  <2> QED BY <2>1, MissesOnly, MissesSince DEF ReadFields
<1>6. /\ DOMAIN screen' = UsersAdminFields /\ screen'.page = screen.page
      /\ screen'.view = screen.view /\ screen'.rows = screen.rows
      /\ screen'.ordered = screen.ordered /\ screen'.busy = screen.busy
      /\ screen'.failed = screen.failed
      /\ n \in screen.since => screen'.since = (screen.since \ {n}) \cup {0}
      /\ n \notin screen.since => screen'.since = screen.since
  <2>1. "since" \in DOMAIN p
    BY <1>1 DEF UsersAdminFields
  <2>2. DOMAIN screen' = DOMAIN p /\ \A f \in DOMAIN p : f # "since" => screen'[f] = p[f]
    BY <1>4, <2>1, MissesOnly
  <2>3. /\ n \in p.since => screen'.since = (p.since \ {n}) \cup {0}
        /\ n \notin p.since => screen'.since = p.since
    BY <1>4, <2>1, MissesSince
  <2> QED BY <1>1, <2>2, <2>3 DEF UsersAdminFields
<1>7. /\ Reads' = (Reads \ ListsRead) \cup {NotTold(e, n) : e \in ListsRead}
      /\ ListsRead' = {NotTold(e, n) : e \in ListsRead}
  BY <1>2, <1>3, <1>4, <1>5 DEF Reads, ListsRead
<1>8. /\ AccountOrders' \subseteq AccountOrders \cup {d}
      /\ \A e \in AccountOrders : e # c => e \in AccountOrders'
  BY <1>2, <1>3, <1>4, <1>5 DEF AccountOrders, ListsRead, Reads
<1>9. UserReadsOfView'
  BY <1>5, <1>6, <1>7 DEF UserReadsOfView, UsersAdminInv, TableInv
<1>10. OrdersAre'
  <2>1. d.n \in Int
    BY <1>2, <1>3
  <2> QED BY <1>3, <1>8, <2>1 DEF OrdersAre, UsersAdminInv, TableInv
<1>11. ASSUME NEW since, since \subseteq {0} \cup {e.n : e \in OrdersDone}
       PROVE  since \ {n} \subseteq {0} \cup {e.n : e \in OrdersDone'}
  <2>1. \A e \in OrdersDone : e.n # n => e \in OrdersDone'
    BY <1>8 DEF OrdersDone, Mine, n
  <2> QED BY <1>11, <2>1
<1>12. ASSUME NEW e, AsRead(e), NEW x, x.rows = e.rows,
              n \in e.since => x.since = (e.since \ {n}) \cup {0},
              n \notin e.since => x.since = e.since
       PROVE  AsRead(x)'
  <2>1. x.since \subseteq {0} \cup {f.n : f \in OrdersDone'}
    <3>1. e.since \ {n} \subseteq {0} \cup {f.n : f \in OrdersDone'}
      BY <1>11, <1>12 DEF AsRead
    <3> QED BY <1>12, <3>1
  <2>2. x.since = {} => e.since = {}
    BY <1>12
  <2> QED BY <1>4, <1>6, <1>12, <2>1, <2>2 DEF AsRead
<1>13. AsRead(screen) => AsRead(screen)'
  <2> SUFFICES ASSUME AsRead(screen) PROVE AsRead(screen)'
    OBVIOUS
  <2>1. screen'.since \subseteq {0} \cup {f.n : f \in OrdersDone'}
    <3>1. screen.since \ {n} \subseteq {0} \cup {f.n : f \in OrdersDone'}
      BY <1>11 DEF AsRead
    <3> QED BY <1>6, <3>1
  <2>2. screen'.since = {} => screen.since = {}
    BY <1>6
  <2> QED BY <1>4, <1>6, <2>1, <2>2 DEF AsRead
<1>14. RowsKnown'
  BY <1>5, <1>6, <1>7, <1>12, <1>13 DEF RowsKnown, UsersAdminInv, TableInv
<1> QED BY <1>6, <1>9, <1>10, <1>14 DEF UsersAdminInv, TableInv, Mounted

LEMMA ViewStep ==
  ASSUME UsersAdminInv,
         \/ \E filter \in {"all", "admins"} : FilterUsers(filter)
         \/ \E number \in {1, 2} : TurnPage(number)
         \/ PressReloadUsers
  PROVE  Mounted("users")' /\ TableInv'
<1>1. ASSUME NEW filter, FilterUsers(filter) PROVE Mounted("users")' /\ TableInv'
  <2> DEFINE p == [screen EXCEPT !.view = [filter |-> filter, number |-> 1]]
  <2>1. ListUsers(p, {})
    BY <1>1 DEF FilterUsers
  <2>2. DOMAIN p = UsersAdminFields /\ p.page = screen.page /\ p.ordered = screen.ordered
    BY DEF UsersAdminInv, TableInv, UsersAdminFields
  <2> HIDE DEF p
  <2> QED BY <2>1, <2>2, ListAsked
<1>2. ASSUME NEW number, TurnPage(number) PROVE Mounted("users")' /\ TableInv'
  <2> DEFINE p == [screen EXCEPT !.view.number = number]
  <2>1. ListUsers(p, {})
    BY <1>2 DEF TurnPage
  <2>2. DOMAIN p = UsersAdminFields /\ p.page = screen.page /\ p.ordered = screen.ordered
    BY DEF UsersAdminInv, TableInv, UsersAdminFields
  <2> HIDE DEF p
  <2> QED BY <2>1, <2>2, ListAsked
<1>3. CASE PressReloadUsers
  <2>1. ListUsers(screen, {})
    BY <1>3 DEF PressReloadUsers
  <2> QED BY <2>1, ListAsked DEF UsersAdminInv, TableInv
<1> QED BY <1>1, <1>2, <1>3

\* The buttons of the table and of the dialogs.
LEMMA DialogStep ==
  ASSUME UsersAdminInv,
         \/ OpenCreate \/ CloseUserDialog
         \/ \E role \in Roles, active \in BOOLEAN : EditUserForm(role, active)
         \/ \E u \in Accounts : OpenEdit(u) \/ OpenDelete(u)
  PROVE  Mounted("users")' /\ TableInv'
<1>1. SameTable /\ screen'.ordered = screen.ordered /\ UNCHANGED <<calls, server>>
  BY DEF SameTable, UsersAdminInv, TableInv, UsersAdminFields, OpenCreate, CloseUserDialog,
     EditUserForm, OpenEdit, OpenDelete
<1> QED BY <1>1, FormStep

LEMMA CommandStep ==
  ASSUME UsersAdminInv,
         \/ \E a \in Accounts : HandleCreate(a) \/ ToggleStatus(a)
         \/ HandleUpdate \/ HandleDelete
  PROVE  Mounted("users")' /\ TableInv'
<1>1. ASSUME NEW a, HandleCreate(a) PROVE Mounted("users")' /\ TableInv'
  BY <1>1, SendsStep DEF HandleCreate
<1>2. ASSUME NEW a, ToggleStatus(a) PROVE Mounted("users")' /\ TableInv'
  BY <1>2, SendsStep DEF ToggleStatus
<1>3. CASE HandleUpdate
  BY <1>3, SendsStep DEF HandleUpdate
<1>4. CASE HandleDelete
  BY <1>4, SendsStep DEF HandleDelete
<1> QED BY <1>1, <1>2, <1>3, <1>4

LEMMA ForeignStep ==
  ASSUME UsersAdminInv, NEW kind \in {"update", "delete", "bulk"}, NEW role, NEW active,
         ForeignOrder(kind, role, active)
  PROVE  Mounted("users")' /\ TableInv'
<1> DEFINE d == Order(kind, Other, Me, role, active, 0)
<1>1. screen' = screen /\ server' = [server EXCEPT !.foreign = @ + 1]
      /\ calls' = calls \cup {d}
  BY DEF ForeignOrder
<1>2. server'.users = server.users /\ SameTable
  BY <1>1 DEF UsersAdminInv, AdminInv, TableInv, SameTable
<1>3. d.kind # "users" /\ DOMAIN d = OrderFields /\ d.n \in Int /\ d.stage = "sent"
  BY DEF Order, OrderFields
<1> HIDE DEF d
<1> QED BY <1>1, <1>2, <1>3, OrderGiven DEF UsersAdminInv, TableInv

LEMMA UsersAdminStep == UsersAdminInv /\ [UsersAdminNext]_tabVars => UsersAdminInv'
<1> SUFFICES ASSUME UsersAdminInv, [UsersAdminNext]_tabVars PROVE UsersAdminInv'
  OBVIOUS
<1>1. AdminInv'
  BY AdminStep DEF UsersAdminInv
<1>2. Mounted("users")' /\ TableInv'
  <2>1. CASE UNCHANGED tabVars
    <3>1. SameTable /\ screen'.ordered = screen.ordered /\ UNCHANGED <<calls, server>>
      BY <2>1 DEF tabVars, SameTable, UsersAdminInv, TableInv
    <3> QED BY <3>1, FormStep
  <2>2. ASSUME NEW c \in Reads, UsersRead(c) \/ UsersArrive(c) \/ UsersFail(c)
        PROVE  Mounted("users")' /\ TableInv'
    BY <2>2, UsersReadStep, UsersAnswerStep
  <2>3. ASSUME NEW c \in AccountOrders,
               OrderAdmitted(c) \/ OrderRuns(c) \/ OrderDone(c) \/ OrderFails(c)
        PROVE  Mounted("users")' /\ TableInv'
    BY <2>3, OrderAdmittedStep, OrderRunsStep, OrderDoneStep, OrderFailsStep
  <2>4. CASE OpenCreate \/ CreateForm \/ EditForm \/ DeleteForm \/ \E u \in Accounts : UserRow(u)
    BY <2>4, DialogStep, CommandStep DEF CreateForm, EditForm, DeleteForm, UserForm, UserRow
  <2> QED BY <2>1, <2>2, <2>3, <2>4, ViewStep, ForeignStep DEF UsersAdminNext
<1> QED BY <1>1, <1>2 DEF UsersAdminInv

LEMMA UsersAdminStart == UsersAdminInit => UsersAdminInv
<1> SUFFICES ASSUME UsersAdminInit PROVE UsersAdminInv
  OBVIOUS
<1>1. DOMAIN server = {"users", "foreign"} /\ server.users[Me] = Account("admin", TRUE)
      /\ Me \in DOMAIN server.users
  BY DEF UsersAdminInit, Accounts
<1>2. AdminInv
  BY <1>1 DEF AdminInv, ActiveAdmins
<1>3. /\ Mounted("users") /\ DOMAIN screen = UsersAdminFields /\ screen.ordered = 0
      /\ screen.busy /\ screen.view = FirstView /\ calls = {Read(FirstView)}
  BY DEF UsersAdminInit, UsersAdminFields, Mounted
<1> DEFINE d == Read(FirstView)
<1>4. d.kind = "users" /\ DOMAIN d = ReadFields /\ d.view = FirstView /\ d.stage = "asked"
      /\ d.since = {}
  BY DEF Read, ReadFields
<1> HIDE DEF d
<1>5. OrdersAre /\ UserReadsOfView /\ ListsRead = {}
  BY <1>3, <1>4 DEF OrdersAre, UserReadsOfView, Reads, AccountOrders, ListsRead, d
<1> QED BY <1>2, <1>3, <1>5 DEF UsersAdminInv, TableInv, RowsKnown

LEMMA TableShownTrue == UsersAdminInv => TableIsTrue
<1> SUFFICES ASSUME UsersAdminInv, ~screen.busy, ~screen.failed, Mine = {}, 0 \notin screen.since
             PROVE  screen.rows = RowsFor(screen.view, server.users)
  BY DEF TableIsTrue
<1>1. OrdersDone = {} /\ AsRead(screen)
  BY DEF OrdersDone, UsersAdminInv, TableInv, RowsKnown
<1> QED BY <1>1 DEF AsRead

(***************************************************************************)
(* TaxonomyAdmin: the topics are the subject's, and a settled page shows      *)
(* every write it announced.                                               *)
(***************************************************************************)
TaxonomyFields ==
  {"page", "data", "busy", "pending", "error", "path", "subject", "tab", "dialog", "topics",
   "editor", "made", "confirmed"}
Counters == Parts \cup Subjects

TaxonomyCall(c) ==
  \/ c.kind = "load" /\ DOMAIN c = {"kind", "taxonomy", "lists", "here"}
  \/ c.kind = "topics" /\ DOMAIN c = {"kind", "subject", "at"}
  \/ c.kind = "write" /\ c.part \in Parts
  \/ c.kind = "topic" /\ c.part \in Subjects

ListWrites(cs) == {c \in cs : c.kind = "write" /\ c.part = "lists"}

\* What was announced is stored, and no more lists are stored than writes begun.
TaxonomyShape(p, cs, sv) ==
  /\ p.page = "taxonomy" /\ DOMAIN p = TaxonomyFields
  /\ p.subject \in Subjects \cup {None}
  /\ p.confirmed \in [Counters -> Nat] /\ sv \in [Counters -> Nat]
  /\ \A x \in Counters : p.confirmed[x] <= sv[x]
  /\ \A c \in cs : TaxonomyCall(c)
WritesCounted(p, cs, sv) ==
  /\ p.made \in 0..MaxWrites
  /\ IsFiniteSet(ListWrites(cs))
  /\ sv["lists"] + Cardinality(ListWrites(cs)) <= p.made

\* Topics, on the screen or under way, are of the subject and not older than the
\* last announced save of one.
TopicsOf(p, c) ==
  /\ c.subject = p.subject /\ c.subject \in Subjects
  /\ c.at = Emptied \/ (c.at \in Nat /\ c.at >= p.confirmed[c.subject])
TopicsHold(p, cs) ==
  /\ p.topics # NoTopics =>
       /\ p.topics.of = p.subject /\ p.subject \in Subjects
       /\ p.topics.at >= p.confirmed[p.subject]
  /\ \A c \in cs : c.kind = "topics" => TopicsOf(p, c)

\* What a load read is as new as what was announced; without a load, a write or
\* an error, the page shows such a load.
NewEnough(p, taxonomy, lists) ==
  taxonomy >= p.confirmed["taxonomy"] /\ lists \in {Emptied} \cup p.confirmed["lists"]..MaxWrites
LoadRead(p, c) ==
  /\ c.taxonomy = Emptied \/ NewEnough(p, c.taxonomy, c.lists)
  /\ c.here => c.taxonomy # Emptied
LoadsHold(p, cs) ==
  /\ \A c \in cs : c.kind = "load" => LoadRead(p, c)
  /\ p.error \/ (\E c \in cs : c.kind \in {"load", "write"})
       \/ NewEnough(p, p.data["taxonomy"], p.data["lists"])

TaxonomyInv ==
  /\ TaxonomyShape(screen, calls, server)
  /\ WritesCounted(screen, calls, server)
  /\ TopicsHold(screen, calls)
  /\ LoadsHold(screen, calls)

LEMMA TaxonomyStart == TaxonomyInit => TaxonomyInv
<1> SUFFICES ASSUME TaxonomyInit PROVE TaxonomyInv
  OBVIOUS
<1> DEFINE zero == [x \in Counters |-> 0]
<1> DEFINE opened(path, tab, subject) ==
      [page |-> "taxonomy", data |-> [part \in Parts |-> Emptied], busy |-> TRUE,
       pending |-> None, error |-> FALSE, path |-> path, subject |-> subject, tab |-> tab,
       dialog |-> None, topics |-> NoTopics, editor |-> FALSE, made |-> 0, confirmed |-> zero]
<1>1. PICK path, tab, subject :
        /\ subject \in {None} \cup Subjects
        /\ screen = opened(path, tab, subject)
        /\ calls = {FreshLoad} \cup
                   {TopicsCall(s) : s \in {subject} \ (IF tab = "other" THEN {subject} ELSE {None})}
        /\ server = zero
  BY DEF TaxonomyInit, Counters
<1>2. /\ zero \in [Counters -> Nat] /\ \A x \in Counters : zero[x] = 0
      /\ "lists" \in Counters
  BY DEF Counters, Parts
<1> HIDE DEF zero
<1>3. /\ screen.page = "taxonomy" /\ DOMAIN screen = TaxonomyFields /\ screen.subject = subject
      /\ screen.confirmed = zero /\ screen.made = 0 /\ screen.topics = NoTopics
      /\ server = zero /\ subject \in Subjects \cup {None}
  BY <1>1 DEF TaxonomyFields
<1>4. \A c \in calls : \/ c = FreshLoad
                       \/ subject \in Subjects /\ c = TopicsCall(subject)
  BY <1>1 DEF None
<1>5. \A c \in calls :
        /\ TaxonomyCall(c) /\ c.kind \in {"load", "topics"}
        /\ c.kind = "topics" => c.subject = subject /\ subject \in Subjects /\ c.at = Emptied
        /\ c.kind = "load" => c.taxonomy = Emptied /\ ~c.here
  BY <1>4 DEF FreshLoad, TopicsCall, TaxonomyCall
<1>6. ListWrites(calls) = {}
  <2>1. \A c \in calls : c.kind # "write"
    BY <1>5
  <2> QED BY <2>1 DEF ListWrites
<1>7. TaxonomyShape(screen, calls, server)
  BY <1>2, <1>3, <1>5 DEF TaxonomyShape
<1>8. WritesCounted(screen, calls, server)
  BY <1>2, <1>3, <1>6, FS_EmptySet, TaxonomyAssumption DEF WritesCounted
<1>9. TopicsHold(screen, calls)
  BY <1>3, <1>5 DEF TopicsHold, TopicsOf
<1>10. LoadsHold(screen, calls)
  <2>1. FreshLoad \in calls /\ FreshLoad.kind = "load"
    BY <1>1 DEF FreshLoad
  <2> QED BY <1>5, <2>1 DEF LoadsHold, LoadRead
<1> QED BY <1>7, <1>8, <1>9, <1>10 DEF TaxonomyInv

-----------------------------------------------------------------------------
\* What the operators of the page leave as it was.

\* Counting the writes of the lists that are under way.
LEMMA FewerListWrites ==
  ASSUME NEW p, NEW cs, NEW sv, WritesCounted(p, cs, sv), NEW ds, ListWrites(ds) \subseteq ListWrites(cs),
         sv["lists"] \in Nat
  PROVE  WritesCounted(p, ds, sv)
<1>1. ListWrites(ds) \in SUBSET ListWrites(cs) /\ IsFiniteSet(ListWrites(cs))
  BY DEF WritesCounted
<1>2. IsFiniteSet(ListWrites(ds)) /\ Cardinality(ListWrites(ds)) <= Cardinality(ListWrites(cs))
  BY <1>1, FS_Subset
<1>3. Cardinality(ListWrites(ds)) \in Nat /\ Cardinality(ListWrites(cs)) \in Nat
  BY <1>1, <1>2, FS_CardinalityType
<1> QED BY <1>2, <1>3 DEF WritesCounted

LEMMA ListWriteBegun ==
  ASSUME NEW p, NEW cs, NEW sv, WritesCounted(p, cs, sv), NEW q, NEW d, p.made < MaxWrites,
         q.made = p.made + 1, sv["lists"] \in Nat
  PROVE  WritesCounted(q, cs \cup {d}, sv)
<1> DEFINE before == ListWrites(cs)
           after == ListWrites(cs \cup {d})
<1>1. after \in SUBSET (before \cup {d}) /\ IsFiniteSet(before)
  BY DEF ListWrites, WritesCounted
<1> HIDE DEF before, after
<1>2. IsFiniteSet(before \cup {d})
      /\ Cardinality(before \cup {d}) \in {Cardinality(before), Cardinality(before) + 1}
  BY <1>1, FS_AddElement
<1>3. IsFiniteSet(after) /\ Cardinality(after) <= Cardinality(before \cup {d})
  BY <1>1, <1>2, FS_Subset
<1>4. Cardinality(before) \in Nat /\ Cardinality(before \cup {d}) \in Nat /\ Cardinality(after) \in Nat
  BY <1>1, <1>2, <1>3, FS_CardinalityType
<1>5. sv["lists"] + Cardinality(before) <= p.made /\ p.made \in 0..MaxWrites
  BY DEF WritesCounted, before
<1>6. q.made \in 0..MaxWrites /\ sv["lists"] + Cardinality(after) <= q.made
  BY <1>2, <1>3, <1>4, <1>5, TaxonomyAssumption
<1> QED BY <1>3, <1>6 DEF WritesCounted, after

\* A write is over, and the server took it or not.
LEMMA ListWriteOver ==
  ASSUME NEW p, NEW cs, NEW sv, WritesCounted(p, cs, sv), sv \in [Counters -> Nat],
         NEW c \in cs, TaxonomyCall(c), c.kind \in {"write", "topic"},
         NEW tv, tv \in {sv, [sv EXCEPT ![c.part] = sv[c.part] + 1]}
  PROVE  WritesCounted(p, cs \ {c}, tv)
<1> DEFINE before == ListWrites(cs)
           after == ListWrites(cs \ {c})
<1>1. after = before \ {c} /\ IsFiniteSet(before) /\ "lists" \in Counters
  BY DEF ListWrites, WritesCounted, Counters, Parts
<1>2. c \in before \/ c.part # "lists"
  BY TaxonomyAssumption DEF before, ListWrites, TaxonomyCall, Parts
<1> HIDE DEF before, after
<1>3. /\ IsFiniteSet(after)
      /\ Cardinality(after) = IF c \in before THEN Cardinality(before) - 1 ELSE Cardinality(before)
  BY <1>1, FS_RemoveElement
<1>4. Cardinality(before) \in Nat /\ Cardinality(after) \in Nat
  BY <1>1, <1>3, FS_CardinalityType
<1>5. sv["lists"] \in Nat /\ tv["lists"] \in Nat
      /\ tv["lists"] <= IF c \in before THEN sv["lists"] + 1 ELSE sv["lists"]
  BY <1>1, <1>2
<1>6. sv["lists"] + Cardinality(before) <= p.made /\ p.made \in 0..MaxWrites
  BY DEF WritesCounted, before
<1>7. tv["lists"] + Cardinality(after) <= p.made
  BY <1>3, <1>4, <1>5, <1>6, TaxonomyAssumption
<1> QED BY <1>3, <1>6, <1>7 DEF WritesCounted, after

SameTaxonomy(p, q) ==
  /\ DOMAIN q = TaxonomyFields /\ q.page = p.page /\ q.subject = p.subject
  /\ q.topics = p.topics /\ q.data = p.data /\ q.confirmed = p.confirmed

\* The page changes what the invariant says nothing of, or shows an error;
\* requests for topics may have been aborted.
LEMMA TaxonomyKept ==
  ASSUME TaxonomyInv, SameTaxonomy(screen, screen'), screen'.made = screen.made,
         screen'.error = screen.error \/ screen'.error, server' = server, calls' \subseteq calls,
         \A c \in calls \ calls' : c.kind = "topics"
  PROVE  TaxonomyInv'
<1>1. ListWrites(calls') \subseteq ListWrites(calls) /\ server["lists"] \in Nat
  BY DEF ListWrites, TaxonomyInv, TaxonomyShape, Counters, Parts
<1>2. WritesCounted(screen', calls', server')
  <2>1. WritesCounted(screen, calls', server)
    BY <1>1, FewerListWrites DEF TaxonomyInv
  <2> QED BY <2>1 DEF WritesCounted
<1>3. TaxonomyShape(screen', calls', server')
  BY DEF TaxonomyInv, TaxonomyShape, SameTaxonomy
<1>4. TopicsHold(screen', calls')
  BY DEF TaxonomyInv, TopicsHold, TopicsOf, SameTaxonomy
<1>5. LoadsHold(screen', calls')
  <2>1. \A c \in calls' : c.kind = "load" => LoadRead(screen', c)
    BY DEF TaxonomyInv, LoadsHold, LoadRead, NewEnough, SameTaxonomy
  <2>2. \A c \in calls : c.kind \in {"load", "write"} => c \in calls'
    OBVIOUS
  <2> QED BY <2>1, <2>2 DEF TaxonomyInv, LoadsHold, NewEnough, SameTaxonomy
<1> QED BY <1>2, <1>3, <1>4, <1>5 DEF TaxonomyInv

LEMMA TopicDialogStep ==
  ASSUME TaxonomyInv, NEW d, OpenDialog(d) \/ CloseDialog(d)
  PROVE  TaxonomyInv'
<1>1. /\ SameTaxonomy(screen, screen') /\ screen'.made = screen.made /\ screen'.error = screen.error
      /\ calls' = calls /\ server' = server
  BY DEF OpenDialog, CloseDialog, SameTaxonomy, TaxonomyInv, TaxonomyShape, TaxonomyFields
<1> QED BY <1>1, TaxonomyKept

\* A write begins: the error it hides is the business of its own answer.
LEMMA WriteBegins ==
  ASSUME TaxonomyInv, NEW p, NEW c, Begin(p, c), SameTaxonomy(screen, p), p.made = screen.made,
         \/ c.kind = "write" /\ c.part \in Parts
         \/ c.kind = "topic" /\ c.part \in Subjects /\ p.error = screen.error
  PROVE  TaxonomyInv'
<1>1. /\ SameTaxonomy(screen, screen') /\ screen'.made = screen.made + 1 /\ screen'.error = p.error
      /\ calls' = calls \cup {c} /\ server' = server /\ screen.made < MaxWrites
  BY DEF Begin, SameTaxonomy, TaxonomyFields
<1>2. TaxonomyCall(c) /\ c.kind \notin {"load", "topics"}
  BY DEF TaxonomyCall
<1>3. WritesCounted(screen', calls', server')
  <2>1. server["lists"] \in Nat
    BY DEF TaxonomyInv, TaxonomyShape, Counters, Parts
  <2> QED BY <1>1, <2>1, ListWriteBegun DEF TaxonomyInv
<1>4. TaxonomyShape(screen', calls', server')
  BY <1>1, <1>2 DEF TaxonomyInv, TaxonomyShape, SameTaxonomy
<1>5. TopicsHold(screen', calls')
  BY <1>1, <1>2 DEF TaxonomyInv, TopicsHold, TopicsOf, SameTaxonomy
<1>6. LoadsHold(screen', calls')
  <2>1. \A d \in calls' : d.kind = "load" => LoadRead(screen', d)
    BY <1>1, <1>2 DEF TaxonomyInv, LoadsHold, LoadRead, NewEnough, SameTaxonomy
  <2>2. CASE c.kind = "write"
    BY <1>1, <2>1, <2>2 DEF LoadsHold
  <2>3. CASE c.kind = "topic"
    <3>1. screen'.error = screen.error
      BY <1>1, <2>3
    <3> QED BY <1>1, <2>1, <3>1 DEF TaxonomyInv, LoadsHold, NewEnough, SameTaxonomy
  <2> QED BY <2>2, <2>3
<1> QED BY <1>3, <1>4, <1>5, <1>6 DEF TaxonomyInv

LEMMA RunBegins ==
  ASSUME TaxonomyInv, NEW p, NEW key, NEW part \in Parts, NEW style, NEW dialog,
         Run(p, key, part, style, dialog), SameTaxonomy(screen, p), p.made = screen.made
  PROVE  TaxonomyInv'
<1> DEFINE q == [p EXCEPT !.pending = key, !.error = FALSE]
           c == Write(part, style, dialog)
<1>1. SameTaxonomy(screen, q) /\ q.made = screen.made
  BY DEF SameTaxonomy, TaxonomyFields
<1>2. c.kind = "write" /\ c.part = part
  BY DEF Write
<1>3. Begin(q, c)
  BY DEF Run
<1> HIDE DEF q, c
<1> QED BY <1>1, <1>2, <1>3, WriteBegins

LEMMA RunInlineBegins ==
  ASSUME TaxonomyInv, NEW part \in Parts, NEW dialog, RunInline(part, dialog)
  PROVE  TaxonomyInv'
<1> DEFINE q == [screen EXCEPT !.busy = TRUE]
           c == Write(part, "inline", dialog)
<1>1. SameTaxonomy(screen, q) /\ q.made = screen.made
  BY DEF SameTaxonomy, TaxonomyFields, TaxonomyInv, TaxonomyShape
<1>2. c.kind = "write" /\ c.part = part
  BY DEF Write
<1>3. Begin(q, c)
  BY DEF RunInline
<1> HIDE DEF q, c
<1> QED BY <1>1, <1>2, <1>3, WriteBegins

\* A new load, after a write that was announced or without one: whatever was
\* read before is aborted.
LEMMA RestartHolds ==
  ASSUME TaxonomyInv, NEW p, NEW over, Restart(p, over),
         DOMAIN p = TaxonomyFields, p.page = screen.page, p.subject = screen.subject,
         p.topics = screen.topics, p.made = screen.made,
         p.confirmed \in [Counters -> Nat], server' \in [Counters -> Nat],
         \A x \in Counters : p.confirmed[x] <= server'[x],
         \A s \in Subjects : p.confirmed[s] = screen.confirmed[s],
         WritesCounted(screen, calls \ over, server')
  PROVE  TaxonomyInv'
<1>1. PICK data :
        /\ screen' = [p EXCEPT !.busy = TRUE, !.error = FALSE, !.data = data]
        /\ calls' = (calls \ (over \cup Loads)) \cup {FreshLoad}
  BY DEF Restart
<1>2. /\ DOMAIN screen' = TaxonomyFields /\ screen'.page = p.page /\ screen'.subject = p.subject
      /\ screen'.topics = p.topics /\ screen'.made = p.made /\ screen'.confirmed = p.confirmed
  BY <1>1 DEF TaxonomyFields
<1>3. /\ FreshLoad.kind = "load" /\ TaxonomyCall(FreshLoad) /\ FreshLoad.taxonomy = Emptied
      /\ ~FreshLoad.here
  BY DEF FreshLoad, TaxonomyCall
<1>4. \A c \in calls' : c = FreshLoad \/ (c \in calls /\ c.kind # "load")
  BY <1>1 DEF Loads
<1>5. TaxonomyShape(screen', calls', server')
  BY <1>2, <1>3, <1>4 DEF TaxonomyInv, TaxonomyShape
<1>6. WritesCounted(screen', calls', server')
  <2>1. ListWrites(calls') \subseteq ListWrites(calls \ over)
    BY <1>1, <1>3 DEF ListWrites
  <2>2. server'["lists"] \in Nat
    BY DEF Counters, Parts
  <2>3. WritesCounted(screen, calls', server')
    BY <2>1, <2>2, FewerListWrites
  <2> QED BY <1>2, <2>3 DEF WritesCounted
<1>7. TopicsHold(screen', calls')
  BY <1>2, <1>3, <1>4 DEF TaxonomyInv, TopicsHold, TopicsOf
<1>8. LoadsHold(screen', calls')
  <2>1. FreshLoad \in calls'
    BY <1>1
  <2> QED BY <1>3, <1>4, <2>1 DEF LoadsHold, LoadRead
<1> QED BY <1>5, <1>6, <1>7, <1>8 DEF TaxonomyInv

\* Another subject, path or tab: topics of an earlier one are hidden and aborted.
LEMMA RescopeHolds ==
  ASSUME TaxonomyInv, NEW path, NEW subject \in Subjects \cup {None}, NEW tab,
         Rescope(path, subject, tab)
  PROVE  TaxonomyInv'
<1>1. PICK topics, editor :
        /\ topics = IF <<path, subject>> # <<screen.path, screen.subject>> THEN NoTopics
                    ELSE screen.topics
        /\ editor = (screen.editor /\ <<path, subject>> = <<screen.path, screen.subject>>)
  OBVIOUS
<1> DEFINE p == [screen EXCEPT !.path = path, !.subject = subject, !.tab = tab,
                               !.topics = topics, !.editor = editor]
           q == [p EXCEPT !.topics = NoTopics]
           d == TopicsCall(subject)
<1>2. /\ DOMAIN p = TaxonomyFields /\ p.page = screen.page /\ p.subject = subject
      /\ p.data = screen.data /\ p.confirmed = screen.confirmed /\ p.made = screen.made
      /\ p.error = screen.error /\ p.topics = topics
  BY DEF TaxonomyInv, TaxonomyShape, TaxonomyFields
<1>3. topics = NoTopics \/ (topics = screen.topics /\ subject = screen.subject)
  BY <1>1
<1>4. /\ server' = server
      /\ \/ screen' = q /\ calls' = (calls \ Topics) \cup {d} /\ subject # None
         \/ screen' = p /\ calls' = calls \ Topics
  <2>1. p = [screen EXCEPT !.path = path, !.subject = subject, !.tab = tab,
              !.topics = IF <<path, subject>> # <<screen.path, screen.subject>>
                         THEN NoTopics ELSE screen.topics,
              !.editor = screen.editor /\ ~(<<path, subject>> # <<screen.path, screen.subject>>)]
    BY <1>1
  <2>2. p.subject = subject
    BY <1>2
  <2> HIDE DEF p
  <2> QED BY <2>1, <2>2 DEF Rescope, TopicsLoad
<1>5. /\ DOMAIN q = TaxonomyFields /\ q.page = screen.page /\ q.subject = subject
      /\ q.data = screen.data /\ q.confirmed = screen.confirmed /\ q.made = screen.made
      /\ q.error = screen.error /\ q.topics = NoTopics
  <2> HIDE DEF p
  <2> QED BY <1>2 DEF TaxonomyFields
<1>6. /\ TaxonomyCall(d) /\ d.kind = "topics" /\ d.subject = subject /\ d.at = Emptied
  BY DEF TopicsCall, TaxonomyCall
<1> HIDE DEF p, q, d
<1>7. \A c \in calls' : \/ c \in calls /\ c.kind # "topics"
                        \/ c = d /\ subject # None
  BY <1>4 DEF Topics
<1>8. TaxonomyShape(screen', calls', server')
  BY <1>2, <1>4, <1>5, <1>6, <1>7 DEF TaxonomyInv, TaxonomyShape
<1>9. WritesCounted(screen', calls', server')
  <2>1. ListWrites(calls') \subseteq ListWrites(calls) /\ server["lists"] \in Nat
    BY <1>6, <1>7 DEF ListWrites, TaxonomyInv, TaxonomyShape, Counters, Parts
  <2>2. WritesCounted(screen, calls', server)
    BY <2>1, FewerListWrites DEF TaxonomyInv
  <2> QED BY <1>2, <1>4, <1>5, <2>2 DEF WritesCounted
<1>10. TopicsHold(screen', calls')
  BY <1>2, <1>3, <1>4, <1>5, <1>6, <1>7 DEF TaxonomyInv, TopicsHold, TopicsOf
<1>11. LoadsHold(screen', calls')
  <2>1. \A c \in calls' : c.kind = "load" => LoadRead(screen', c)
    BY <1>2, <1>4, <1>5, <1>6, <1>7 DEF TaxonomyInv, LoadsHold, LoadRead, NewEnough
  <2>2. \A c \in calls : c.kind \in {"load", "write"} => c \in calls'
    BY <1>4 DEF Topics
  <2> QED BY <1>2, <1>4, <1>5, <2>1, <2>2 DEF TaxonomyInv, LoadsHold, NewEnough
<1> QED BY <1>8, <1>9, <1>10, <1>11 DEF TaxonomyInv

\* One call gives way to another of its kind, and the page stays as it is.
LEMMA CallMoves ==
  ASSUME TaxonomyInv, NEW c \in calls, NEW d, screen' = screen, server' = server,
         calls' = (calls \ {c}) \cup {d}, TaxonomyCall(d), d.kind = c.kind,
         c.kind \in {"load", "topics"},
         d.kind = "load" => LoadRead(screen, d), d.kind = "topics" => TopicsOf(screen, d)
  PROVE  TaxonomyInv'
<1>1. ListWrites(calls') \subseteq ListWrites(calls) /\ server["lists"] \in Nat
  BY DEF ListWrites, TaxonomyInv, TaxonomyShape, Counters, Parts
<1>2. WritesCounted(screen, calls', server)
  BY <1>1, FewerListWrites DEF TaxonomyInv
<1>3. TaxonomyShape(screen, calls', server) /\ TopicsHold(screen, calls')
  BY DEF TaxonomyInv, TaxonomyShape, TopicsHold
<1>4. LoadsHold(screen, calls')
  <2>1. \A e \in calls : e.kind \in {"load", "write"} => \E f \in calls' : f.kind = e.kind
    OBVIOUS
  <2>2. \A e \in calls' : e.kind = "load" => LoadRead(screen, e)
    BY DEF TaxonomyInv, LoadsHold
  <2> QED BY <2>1, <2>2 DEF TaxonomyInv, LoadsHold
<1> QED BY <1>2, <1>3, <1>4 DEF TaxonomyInv

LEMMA ServerReadsStep ==
  ASSUME TaxonomyInv, NEW c \in calls, ServerReads(c)
  PROVE  TaxonomyInv'
<1> DEFINE d == [c EXCEPT !.taxonomy = server["taxonomy"], !.lists = server["lists"]]
<1>1. /\ screen' = screen /\ server' = server /\ calls' = (calls \ {c}) \cup {d}
      /\ c.kind = "load" /\ c.taxonomy = Emptied
  BY DEF ServerReads
<1>2. DOMAIN c = {"kind", "taxonomy", "lists", "here"} /\ ~c.here
  BY <1>1 DEF TaxonomyInv, TaxonomyShape, TaxonomyCall, LoadsHold, LoadRead
<1>3. /\ DOMAIN d = {"kind", "taxonomy", "lists", "here"} /\ d.kind = "load" /\ d.here = c.here
      /\ d.taxonomy = server["taxonomy"] /\ d.lists = server["lists"]
  BY <1>1, <1>2
<1> HIDE DEF d
<1>4. NewEnough(screen, d.taxonomy, d.lists)
  <2>1. Cardinality(ListWrites(calls)) \in Nat
    BY FS_CardinalityType DEF TaxonomyInv, WritesCounted
  <2>2. server["lists"] \in Nat /\ server["taxonomy"] \in Nat
        /\ screen.confirmed["lists"] \in Nat /\ screen.confirmed["taxonomy"] \in Nat
        /\ screen.confirmed["lists"] <= server["lists"]
        /\ screen.confirmed["taxonomy"] <= server["taxonomy"]
    BY DEF TaxonomyInv, TaxonomyShape, Counters, Parts
  <2>3. server["lists"] <= MaxWrites
    BY <2>1, <2>2, TaxonomyAssumption DEF TaxonomyInv, WritesCounted
  <2> QED BY <1>3, <2>2, <2>3, TaxonomyAssumption DEF NewEnough
<1>5. LoadRead(screen, d)
  BY <1>2, <1>3, <1>4 DEF LoadRead
<1> QED BY <1>1, <1>3, <1>5, CallMoves DEF TaxonomyCall

LEMMA TaxonomyArrivesStep ==
  ASSUME TaxonomyInv, NEW c \in calls, TaxonomyArrives(c)
  PROVE  TaxonomyInv'
<1> DEFINE d == [c EXCEPT !.here = TRUE]
<1>1. /\ screen' = screen /\ server' = server /\ calls' = (calls \ {c}) \cup {d}
      /\ c.kind = "load" /\ c.taxonomy # Emptied
  BY DEF TaxonomyArrives
<1>2. DOMAIN c = {"kind", "taxonomy", "lists", "here"} /\ LoadRead(screen, c)
  BY <1>1 DEF TaxonomyInv, TaxonomyShape, TaxonomyCall, LoadsHold
<1>3. /\ DOMAIN d = {"kind", "taxonomy", "lists", "here"} /\ d.kind = "load"
      /\ d.taxonomy = c.taxonomy /\ d.lists = c.lists
  BY <1>1, <1>2
<1> HIDE DEF d
<1>4. LoadRead(screen, d)
  BY <1>1, <1>2, <1>3 DEF LoadRead
<1> QED BY <1>1, <1>3, <1>4, CallMoves DEF TaxonomyCall

LEMMA ServerReadsTopicsStep ==
  ASSUME TaxonomyInv, NEW c \in calls, ServerReadsTopics(c)
  PROVE  TaxonomyInv'
<1> DEFINE d == [c EXCEPT !.at = server[c.subject]]
<1>1. /\ screen' = screen /\ server' = server /\ calls' = (calls \ {c}) \cup {d}
      /\ c.kind = "topics"
  BY DEF ServerReadsTopics
<1>2. DOMAIN c = {"kind", "subject", "at"} /\ TopicsOf(screen, c)
  BY <1>1 DEF TaxonomyInv, TaxonomyShape, TaxonomyCall, TopicsHold
<1>3. /\ DOMAIN d = {"kind", "subject", "at"} /\ d.kind = "topics"
      /\ d.subject = c.subject /\ d.at = server[c.subject]
  BY <1>1, <1>2
<1> HIDE DEF d
<1>4. TopicsOf(screen, d)
  <2>1. c.subject \in Counters
    BY <1>2 DEF TopicsOf, Counters
  <2>2. server[c.subject] \in Nat /\ screen.confirmed[c.subject] <= server[c.subject]
        /\ screen.confirmed[c.subject] \in Nat
    BY <2>1 DEF TaxonomyInv, TaxonomyShape
  <2> QED BY <1>2, <1>3, <2>2 DEF TopicsOf
<1> QED BY <1>1, <1>3, <1>4, CallMoves DEF TaxonomyCall

\* The call that fills or fails a load is over.
LEMMA LoadOverStep ==
  ASSUME TaxonomyInv, NEW c \in calls, LoadArrives(c) \/ LoadFails(c)
  PROVE  TaxonomyInv'
<1>1. c.kind = "load" /\ calls' = calls \ {c} /\ server' = server
  BY DEF LoadArrives, LoadFails, Ended
<1>2. /\ DOMAIN screen' = TaxonomyFields /\ screen'.page = screen.page
      /\ screen'.subject = screen.subject /\ screen'.topics = screen.topics
      /\ screen'.confirmed = screen.confirmed /\ screen'.made = screen.made
      /\ \/ screen'.error
         \/ /\ c.here /\ screen'.data["taxonomy"] = c.taxonomy
            /\ screen'.data["lists"] \in {c.lists, Emptied}
  <2>1. CASE LoadFails(c)
    BY <2>1 DEF LoadFails, TaxonomyInv, TaxonomyShape, TaxonomyFields
  <2>2. CASE LoadArrives(c)
    <3>1. PICK lists \in {c.lists, Emptied}, first \in Paths :
            screen' = [screen EXCEPT !.busy = FALSE,
                         !.data = [taxonomy |-> c.taxonomy, lists |-> lists],
                         !.path = IF screen.path = None THEN first ELSE screen.path]
      BY <2>2 DEF LoadArrives
    <3>2. PICK path : screen' = [screen EXCEPT !.busy = FALSE,
                         !.data = [taxonomy |-> c.taxonomy, lists |-> lists], !.path = path]
      BY <3>1
    <3>3. screen'.data = [taxonomy |-> c.taxonomy, lists |-> lists]
      BY <3>2 DEF TaxonomyInv, TaxonomyShape, TaxonomyFields
    <3> QED BY <2>2, <3>2, <3>3 DEF LoadArrives, TaxonomyInv, TaxonomyShape, TaxonomyFields
  <2> QED BY <2>1, <2>2
<1>3. TaxonomyShape(screen', calls', server') /\ TopicsHold(screen', calls')
  BY <1>1, <1>2 DEF TaxonomyInv, TaxonomyShape, TopicsHold, TopicsOf
<1>4. WritesCounted(screen', calls', server')
  <2>1. ListWrites(calls') \subseteq ListWrites(calls) /\ server["lists"] \in Nat
    BY <1>1 DEF ListWrites, TaxonomyInv, TaxonomyShape, Counters, Parts
  <2>2. WritesCounted(screen, calls', server)
    BY <2>1, FewerListWrites DEF TaxonomyInv
  <2> QED BY <1>1, <1>2, <2>2 DEF WritesCounted
<1>5. LoadsHold(screen', calls')
  <2>1. \A d \in calls' : d.kind = "load" => LoadRead(screen', d)
    BY <1>1, <1>2 DEF TaxonomyInv, LoadsHold, LoadRead, NewEnough
  <2>2. LoadRead(screen, c)
    BY <1>1 DEF TaxonomyInv, LoadsHold
  <2>3. screen'.error \/ NewEnough(screen', screen'.data["taxonomy"], screen'.data["lists"])
    BY <1>2, <2>2 DEF LoadRead, NewEnough
  <2> QED BY <2>1, <2>3 DEF LoadsHold
<1> QED BY <1>3, <1>4, <1>5 DEF TaxonomyInv

\* Topics are adopted when they are those of the subject on the screen.
LEMMA TopicsArriveStep ==
  ASSUME TaxonomyInv, NEW c \in calls, TopicsArrive(c)
  PROVE  TaxonomyInv'
<1>1. /\ c.kind = "topics" /\ calls' = calls \ {c} /\ server' = server
      /\ TopicsOf(screen, c)
  BY DEF TopicsArrive, Ended, TaxonomyInv, TopicsHold
<1>2. PICK topics \in {NoTopics} \cup {[of |-> c.subject, at |-> c.at] : x \in {c.at} \ {Emptied}} :
        screen' = [screen EXCEPT !.topics = topics] \/ screen' = screen
  BY DEF TopicsArrive
<1>3. CASE screen' = [screen EXCEPT !.topics = topics]
  <2>1. /\ DOMAIN screen' = TaxonomyFields /\ screen'.page = screen.page
        /\ screen'.subject = screen.subject /\ screen'.topics = topics
        /\ screen'.confirmed = screen.confirmed /\ screen'.made = screen.made
        /\ screen'.data = screen.data /\ screen'.error = screen.error
    BY <1>3 DEF TaxonomyInv, TaxonomyShape, TaxonomyFields
  <2>2. TaxonomyShape(screen', calls', server')
    BY <1>1, <2>1 DEF TaxonomyInv, TaxonomyShape
  <2>3. WritesCounted(screen', calls', server')
    <3>1. ListWrites(calls') \subseteq ListWrites(calls) /\ server["lists"] \in Nat
      BY <1>1 DEF ListWrites, TaxonomyInv, TaxonomyShape, Counters, Parts
    <3>2. WritesCounted(screen, calls', server)
      BY <3>1, FewerListWrites DEF TaxonomyInv
    <3> QED BY <1>1, <2>1, <3>2 DEF WritesCounted
  <2>4. LoadsHold(screen', calls')
    <3>1. \A d \in calls' : d.kind = "load" => LoadRead(screen', d)
      BY <1>1, <2>1 DEF TaxonomyInv, LoadsHold, LoadRead, NewEnough
    <3>2. \A d \in calls : d.kind \in {"load", "write"} => d \in calls'
      BY <1>1
    <3> QED BY <2>1, <3>1, <3>2 DEF TaxonomyInv, LoadsHold, NewEnough
  <2>5. topics = NoTopics \/ (topics.of = c.subject /\ topics.at = c.at /\ c.at # Emptied)
    BY <1>2
  <2>6. TopicsHold(screen', calls')
    BY <1>1, <2>1, <2>5 DEF TaxonomyInv, TopicsHold, TopicsOf
  <2> QED BY <2>2, <2>3, <2>4, <2>6 DEF TaxonomyInv
<1>4. CASE screen' = screen
  <2>1. SameTaxonomy(screen, screen')
    BY <1>4 DEF SameTaxonomy, TaxonomyInv, TaxonomyShape
  <2> QED BY <1>1, <1>4, <2>1, TaxonomyKept
<1> QED BY <1>2, <1>3, <1>4

\* A write is stored once more, and the page hears of it.
LEMMA StoredCounters ==
  ASSUME TaxonomyInv, NEW c \in calls, c.kind \in {"write", "topic"}, Stored(c)
  PROVE  /\ c.part \in Counters /\ server' \in [Counters -> Nat]
         /\ server'[c.part] = server[c.part] + 1
         /\ \A x \in Counters \ {c.part} : server'[x] = server[x]
         /\ WritesCounted(screen, calls \ {c}, server')
<1>1. c.part \in Counters /\ TaxonomyCall(c)
  BY DEF TaxonomyInv, TaxonomyShape, TaxonomyCall, Counters
<1>2. server' = [server EXCEPT ![c.part] = server[c.part] + 1] /\ server \in [Counters -> Nat]
  BY DEF Stored, TaxonomyInv, TaxonomyShape
<1>3. WritesCounted(screen, calls \ {c}, server')
  BY <1>1, <1>2, ListWriteOver DEF TaxonomyInv
<1> QED BY <1>1, <1>2, <1>3

LEMMA ConfirmHolds ==
  ASSUME TaxonomyInv, NEW c \in calls, c.kind \in {"write", "topic"}, Stored(c)
  PROVE  LET p == Confirm(screen, c)
         IN /\ DOMAIN p = TaxonomyFields
            /\ \A f \in TaxonomyFields \ {"confirmed"} : p[f] = screen[f]
            /\ p.confirmed \in [Counters -> Nat]
            /\ p.confirmed[c.part] = server[c.part] + 1
            /\ \A x \in Counters \ {c.part} : p.confirmed[x] = screen.confirmed[x]
            /\ \A x \in Counters : p.confirmed[x] <= server'[x]
<1> DEFINE counts == [screen.confirmed EXCEPT ![c.part] = server[c.part] + 1]
           p == [screen EXCEPT !.confirmed = counts]
<1>1. Confirm(screen, c) = p
  BY DEF Confirm
<1>2. /\ counts \in [Counters -> Nat] /\ counts[c.part] = server[c.part] + 1
      /\ \A x \in Counters \ {c.part} : counts[x] = screen.confirmed[x]
      /\ \A x \in Counters : counts[x] <= server'[x]
  <2>1. /\ c.part \in Counters /\ server'[c.part] = server[c.part] + 1
        /\ \A x \in Counters \ {c.part} : server'[x] = server[x]
    BY StoredCounters
  <2>2. /\ screen.confirmed \in [Counters -> Nat] /\ server \in [Counters -> Nat]
        /\ \A x \in Counters : screen.confirmed[x] <= server[x]
    BY DEF TaxonomyInv, TaxonomyShape
  <2>3. /\ counts \in [Counters -> Nat] /\ counts[c.part] = server[c.part] + 1
        /\ \A x \in Counters \ {c.part} : counts[x] = screen.confirmed[x]
    BY <2>1, <2>2
  <2> HIDE DEF counts
  <2>4. ASSUME NEW x \in Counters PROVE counts[x] <= server'[x]
    BY <2>1, <2>2, <2>3
  <2> QED BY <2>3, <2>4
<1> HIDE DEF counts
<1>3. DOMAIN p = TaxonomyFields /\ p.confirmed = counts
      /\ \A f \in TaxonomyFields \ {"confirmed"} : p[f] = screen[f]
  BY DEF TaxonomyInv, TaxonomyShape, TaxonomyFields
<1> HIDE DEF p
<1> QED BY <1>1, <1>2, <1>3

LEMMA WriteConfirmedStep ==
  ASSUME TaxonomyInv, NEW c \in calls, WriteConfirmed(c)
  PROVE  TaxonomyInv'
<1> DEFINE p == Confirm(screen, c)
           q == Unpended(Closed(p, c), c)
<1>1. c.kind = "write" /\ Restart(q, {c}) /\ Stored(c)
  BY DEF WriteConfirmed
<1>2. /\ DOMAIN p = TaxonomyFields /\ \A f \in TaxonomyFields \ {"confirmed"} : p[f] = screen[f]
      /\ p.confirmed \in [Counters -> Nat]
      /\ \A x \in Counters \ {c.part} : p.confirmed[x] = screen.confirmed[x]
      /\ \A x \in Counters : p.confirmed[x] <= server'[x]
  BY <1>1, ConfirmHolds
<1> HIDE DEF p
<1>3. /\ DOMAIN q = TaxonomyFields /\ q.page = screen.page /\ q.subject = screen.subject
      /\ q.topics = screen.topics /\ q.made = screen.made /\ q.confirmed = p.confirmed
  BY <1>2 DEF Unpended, Closed, TaxonomyFields
<1> HIDE DEF q
<1>4. c.part \in Parts
  BY <1>1 DEF TaxonomyInv, TaxonomyShape, TaxonomyCall
<1>5. \A s \in Subjects : q.confirmed[s] = screen.confirmed[s]
  BY <1>2, <1>3, <1>4, TaxonomyAssumption DEF Counters
<1>6. server' \in [Counters -> Nat] /\ WritesCounted(screen, calls \ {c}, server')
  BY <1>1, StoredCounters
<1> QED BY <1>1, <1>2, <1>3, <1>5, <1>6, RestartHolds

\* A write or a save is over without an announcement; the server may have it.
LEMMA WriteLost ==
  ASSUME TaxonomyInv, NEW c \in calls, c.kind \in {"write", "topic"},
         Stored(c) \/ server' = server, calls' = calls \ {c}, SameTaxonomy(screen, screen'),
         screen'.made = screen.made,
         screen'.error \/ (c.kind = "topic" /\ screen'.error = screen.error)
  PROVE  TaxonomyInv'
<1>1. /\ server' \in [Counters -> Nat] /\ \A x \in Counters : server'[x] >= server[x]
      /\ WritesCounted(screen, calls \ {c}, server')
  <2>1. CASE Stored(c)
    <3>1. server \in [Counters -> Nat]
      BY DEF TaxonomyInv, TaxonomyShape
    <3> QED BY <2>1, <3>1, StoredCounters
  <2>2. CASE server' = server
    <3>1. server \in [Counters -> Nat] /\ TaxonomyCall(c)
      BY DEF TaxonomyInv, TaxonomyShape
    <3> QED BY <2>2, <3>1, ListWriteOver DEF TaxonomyInv
  <2> QED BY <2>1, <2>2
<1>2. TaxonomyShape(screen', calls', server')
  <2>1. \A x \in Counters : screen.confirmed[x] <= server'[x]
    BY <1>1 DEF TaxonomyInv, TaxonomyShape
  <2> QED BY <1>1, <2>1 DEF TaxonomyInv, TaxonomyShape, SameTaxonomy
<1>3. WritesCounted(screen', calls', server')
  BY <1>1 DEF WritesCounted
<1>4. TopicsHold(screen', calls')
  BY DEF TaxonomyInv, TopicsHold, TopicsOf, SameTaxonomy
<1>5. LoadsHold(screen', calls')
  <2>1. \A d \in calls' : d.kind = "load" => LoadRead(screen', d)
    BY DEF TaxonomyInv, LoadsHold, LoadRead, NewEnough, SameTaxonomy
  <2>2. c.kind = "topic" => \A d \in calls : d.kind \in {"load", "write"} => d \in calls'
    OBVIOUS
  <2> QED BY <2>1, <2>2 DEF TaxonomyInv, LoadsHold, NewEnough, SameTaxonomy
<1> QED BY <1>2, <1>3, <1>4, <1>5 DEF TaxonomyInv

LEMMA WriteFailsStep ==
  ASSUME TaxonomyInv, NEW c \in calls, WriteFails(c) \/ TopicFails(c)
  PROVE  TaxonomyInv'
<1>1. CASE WriteFails(c)
  <2> DEFINE q == Unpended(screen, c)
             failed == [q EXCEPT !.error = TRUE]
             idle == [failed EXCEPT !.busy = FALSE]
  <2>1. /\ c.kind = "write" /\ calls' = calls \ {c} /\ (Stored(c) \/ server' = server)
        /\ screen' \in {failed, idle, Closed(failed, c)}
    BY <1>1 DEF WriteFails, Ended
  <2>2. SameTaxonomy(screen, q) /\ q.made = screen.made
    BY DEF Unpended, SameTaxonomy, TaxonomyInv, TaxonomyShape, TaxonomyFields
  <2> HIDE DEF q
  <2>3. SameTaxonomy(screen, failed) /\ failed.made = screen.made /\ failed.error
    BY <2>2 DEF SameTaxonomy, TaxonomyFields
  <2>4. SameTaxonomy(screen, idle) /\ idle.made = screen.made /\ idle.error
    <3> HIDE DEF failed
    <3> QED BY <2>3 DEF SameTaxonomy, TaxonomyFields
  <2>5. SameTaxonomy(screen, Closed(failed, c)) /\ Closed(failed, c).made = screen.made
        /\ Closed(failed, c).error
    <3> HIDE DEF failed
    <3> QED BY <2>3 DEF Closed, SameTaxonomy, TaxonomyFields
  <2> HIDE DEF failed, idle
  <2> QED BY <2>1, <2>3, <2>4, <2>5, WriteLost
<1>2. CASE TopicFails(c)
  <2>1. SameTaxonomy(screen, screen')
    BY <1>2 DEF TopicFails, SameTaxonomy, TaxonomyInv, TaxonomyShape
  <2> QED BY <1>2, <2>1, WriteLost DEF TopicFails, Ended
<1> QED BY <1>1, <1>2

\* A save of a topic is announced: topics of its subject are loaded again, and
\* what the screen has of another subject stays.
LEMMA TopicSavedStep ==
  ASSUME TaxonomyInv, NEW c \in calls, TopicSaved(c)
  PROVE  TaxonomyInv'
<1> DEFINE p == Confirm(screen, c)
           q == [p EXCEPT !.editor = FALSE]
           r == [q EXCEPT !.topics = NoTopics]
           d == TopicsCall(c.part)
           rest == calls \ {c}
<1>1. c.kind = "topic" /\ Stored(c)
  BY DEF TopicSaved
<1>2. c.part \in Subjects
  BY <1>1 DEF TaxonomyInv, TaxonomyShape, TaxonomyCall
<1>3. \/ q.subject # c.part /\ screen' = q /\ calls' = rest
      \/ q.subject = c.part /\ screen' = r /\ calls' = (rest \ Topics) \cup {d}
  BY DEF TopicSaved, TopicsLoad
<1>4. /\ DOMAIN p = TaxonomyFields /\ \A f \in TaxonomyFields \ {"confirmed"} : p[f] = screen[f]
      /\ p.confirmed \in [Counters -> Nat]
      /\ \A x \in Counters \ {c.part} : p.confirmed[x] = screen.confirmed[x]
      /\ \A x \in Counters : p.confirmed[x] <= server'[x]
  BY <1>1, ConfirmHolds
<1> HIDE DEF p
<1>5. /\ DOMAIN q = TaxonomyFields /\ q.page = screen.page /\ q.subject = screen.subject
      /\ q.topics = screen.topics /\ q.made = screen.made /\ q.confirmed = p.confirmed
      /\ q.data = screen.data /\ q.error = screen.error
  BY <1>4 DEF TaxonomyFields
<1> HIDE DEF q
<1>6. /\ DOMAIN r = TaxonomyFields /\ r.page = screen.page /\ r.subject = screen.subject
      /\ r.topics = NoTopics /\ r.made = screen.made /\ r.confirmed = p.confirmed
      /\ r.data = screen.data /\ r.error = screen.error
  BY <1>5 DEF TaxonomyFields
<1>7. TaxonomyCall(d) /\ d.kind = "topics" /\ d.subject = c.part /\ d.at = Emptied
  BY DEF TopicsCall, TaxonomyCall
<1> HIDE DEF r, d
<1>8. /\ DOMAIN screen' = TaxonomyFields /\ screen'.page = screen.page
      /\ screen'.subject = screen.subject /\ screen'.made = screen.made
      /\ screen'.confirmed = p.confirmed /\ screen'.data = screen.data
      /\ screen'.error = screen.error
  BY <1>3, <1>5, <1>6
<1>9. \A e \in calls' : e \in rest \/ (e = d /\ screen.subject = c.part)
  BY <1>3, <1>5
<1>10. server' \in [Counters -> Nat] /\ WritesCounted(screen, rest, server')
  BY <1>1, StoredCounters
<1>11. TaxonomyShape(screen', calls', server')
  BY <1>4, <1>7, <1>8, <1>9, <1>10 DEF TaxonomyInv, TaxonomyShape
<1>12. WritesCounted(screen', calls', server')
  <2>1. ListWrites(calls') \subseteq ListWrites(rest) /\ server'["lists"] \in Nat
    BY <1>7, <1>9, <1>10 DEF ListWrites, Counters, Parts
  <2>2. WritesCounted(screen, calls', server')
    BY <1>10, <2>1, FewerListWrites
  <2> QED BY <1>8, <2>2 DEF WritesCounted
<1>13. LoadsHold(screen', calls')
  <2>1. {"taxonomy", "lists"} \subseteq Counters \ {c.part}
    BY <1>2, TaxonomyAssumption DEF Counters, Parts
  <2>2. \A taxonomy, lists : NewEnough(screen', taxonomy, lists) <=> NewEnough(screen, taxonomy, lists)
    BY <1>4, <1>8, <2>1 DEF NewEnough
  <2>3. \A e \in calls' : e.kind = "load" => LoadRead(screen', e)
    BY <1>7, <1>9, <2>2 DEF TaxonomyInv, LoadsHold, LoadRead
  <2>4. \A e \in calls : e.kind \in {"load", "write"} => e \in calls'
    BY <1>1, <1>3 DEF Topics
  <2> QED BY <1>8, <2>2, <2>3, <2>4 DEF TaxonomyInv, LoadsHold
<1>14. TopicsHold(screen', calls')
  <2>1. CASE screen.subject # c.part
    <3>1. screen' = q /\ calls' = rest
      BY <1>3, <1>5, <2>1
    <3>2. screen.subject \in Subjects => screen'.confirmed[screen.subject] = screen.confirmed[screen.subject]
      BY <1>4, <1>8, <2>1 DEF Counters
    <3> QED BY <1>5, <1>8, <3>1, <3>2 DEF TaxonomyInv, TopicsHold, TopicsOf
  <2>2. CASE screen.subject = c.part
    <3>1. screen' = r /\ calls' = (rest \ Topics) \cup {d}
      BY <1>3, <1>5, <2>2
    <3>2. \A e \in calls' : e.kind = "topics" => e = d
      BY <3>1 DEF Topics
    <3> QED BY <1>2, <1>6, <1>7, <1>8, <2>2, <3>1, <3>2 DEF TopicsHold, TopicsOf
  <2> QED BY <2>1, <2>2
<1> QED BY <1>11, <1>12, <1>13, <1>14 DEF TaxonomyInv

\* The dialogs and the rows begin writes, open and close dialogs.
LEMMA TaxonomyDialogStep ==
  ASSUME TaxonomyInv,
         \/ PathDialog \/ LevelDialog \/ SubjectDialog \/ SkillDialog \/ PackageDialog
         \/ MockDialog \/ LibraryDialog \/ DeleteDialog
  PROVE  TaxonomyInv'
<1> DEFINE closed == [screen EXCEPT !.dialog = None]
<1>1. SameTaxonomy(screen, screen) /\ SameTaxonomy(screen, closed) /\ closed.made = screen.made
  BY DEF SameTaxonomy, TaxonomyInv, TaxonomyShape, TaxonomyFields
<1>2. \/ \E d : CloseDialog(d)
      \/ \E part \in Parts : \E key, style, dialog : Run(screen, key, part, style, dialog)
      \/ \E row : PatchStatus(closed, row)
      \/ \E part \in Parts : \E dialog : RunInline(part, dialog)
  BY DEF PathDialog, LevelDialog, SubjectDialog, SkillDialog, PackageDialog, MockDialog,
         LibraryDialog, DeleteDialog, SavePath, SaveLevel, SaveSubject, SaveSkill,
         CreatePathPackage, Parts
<1>3. ASSUME NEW row, PatchStatus(closed, row) PROVE TaxonomyInv'
  <2>1. Run(closed, row, "taxonomy", "ifsaved", None) /\ "taxonomy" \in Parts
    BY <1>3 DEF PatchStatus, Parts
  <2> HIDE DEF closed
  <2> QED BY <1>1, <2>1, RunBegins
<1> HIDE DEF closed
<1> QED BY <1>1, <1>2, <1>3, TopicDialogStep, RunBegins, RunInlineBegins

LEMMA WorkspaceStep ==
  ASSUME TaxonomyInv,
         \/ PressReload \/ PageHeader \/ PathCard \/ SubjectsTab \/ LevelsTab \/ MockExamsTab
         \/ PackagesTab \/ PathSettingsTab \/ LeaveSubject \/ SkillsTab \/ LibraryTab
         \/ SettingsTab \/ FoundationTab
         \/ \E p \in Paths : SelectPath(p)
         \/ \E s \in Subjects : OpenSubject(s)
         \/ \E tab : SubjectTabs(tab)
  PROVE  TaxonomyInv'
<1>1. SameTaxonomy(screen, screen) /\ {"taxonomy", "lists"} = Parts
  BY DEF SameTaxonomy, TaxonomyInv, TaxonomyShape, Parts
<1>2. CASE PressReload
  <2>1. Restart(screen, {}) /\ server' = server
    BY <1>2 DEF PressReload
  <2>2. WritesCounted(screen, calls \ {}, server')
    <3>1. calls \ {} = calls
      OBVIOUS
    <3> QED BY <2>1, <3>1 DEF TaxonomyInv
  <2> QED BY <2>1, <2>2, RestartHolds DEF TaxonomyInv, TaxonomyShape
<1>3. ASSUME NEW row, PatchStatus(screen, row) PROVE TaxonomyInv'
  <2>1. Run(screen, row, "taxonomy", "ifsaved", None)
    BY <1>3 DEF PatchStatus
  <2> QED BY <1>1, <2>1, RunBegins
<1>4. CASE PathSettingsTab
  <2>1. Run(screen, "toggle", "taxonomy", "ifsaved", None)
    BY <1>4 DEF PathSettingsTab, TogglePathSetting
  <2> QED BY <1>1, <2>1, RunBegins
<1>5. ASSUME NEW path, NEW subject \in Subjects \cup {None}, NEW tab, Rescope(path, subject, tab)
      PROVE  TaxonomyInv'
  BY <1>5, RescopeHolds
<1>8. CASE LeaveSubject
  <2>1. Rescope(screen.path, None, screen.tab)
    BY <1>8 DEF LeaveSubject
  <2> QED BY <1>5, <2>1
<1>9. ASSUME NEW p \in Paths, SelectPath(p) PROVE TaxonomyInv'
  <2>1. Rescope(p, None, screen.tab)
    BY <1>9 DEF SelectPath
  <2> QED BY <1>5, <2>1
<1>10. ASSUME NEW s \in Subjects, OpenSubject(s) PROVE TaxonomyInv'
  <2>1. Rescope(screen.path, s, "other")
    BY <1>10 DEF OpenSubject
  <2> QED BY <1>5, <2>1
<1>11. ASSUME NEW tab, SubjectTabs(tab) PROVE TaxonomyInv'
  <2>1. Rescope(screen.path, screen.subject, tab) /\ screen.subject \in Subjects \cup {None}
    BY <1>11 DEF SubjectTabs, TaxonomyInv, TaxonomyShape
  <2> QED BY <1>5, <2>1
<1>6. CASE FoundationTab
  <2> DEFINE q == [screen EXCEPT !.editor = ~screen.editor]
             c == [kind |-> "topic", part |-> screen.subject, n |-> screen.made + 1]
  <2>1. \/ screen' = q /\ calls' = calls /\ server' = server
        \/ Begin(screen, c) /\ screen.subject # None
    BY <1>6 DEF FoundationTab, AtSubject, Working
  <2>2. CASE Begin(screen, c) /\ screen.subject # None
    <3>1. c.kind = "topic" /\ c.part \in Subjects
      BY <2>2 DEF TaxonomyInv, TaxonomyShape
    <3> HIDE DEF c
    <3> QED BY <1>1, <2>2, <3>1, WriteBegins
  <2>3. CASE screen' = q /\ calls' = calls /\ server' = server
    <3>1. SameTaxonomy(screen, screen') /\ screen'.made = screen.made /\ screen'.error = screen.error
      BY <2>3 DEF SameTaxonomy, TaxonomyInv, TaxonomyShape, TaxonomyFields
    <3> QED BY <2>3, <3>1, TaxonomyKept
  <2> QED BY <2>1, <2>2, <2>3
<1>7. CASE PageHeader \/ PathCard \/ SubjectsTab \/ LevelsTab \/ MockExamsTab \/ PackagesTab
           \/ SkillsTab \/ LibraryTab \/ SettingsTab
  <2>1. \/ \E d : OpenDialog(d)
        \/ \E row : PatchStatus(screen, row)
        \/ RunInline("lists", None) \/ RunInline("taxonomy", None)
    <3>1. CASE PageHeader \/ PackagesTab \/ LibraryTab
      BY <3>1, Zenon DEF PageHeader, PackagesTab, LibraryTab
    <3>2. CASE PathCard \/ SubjectsTab \/ LevelsTab \/ SkillsTab
      BY <3>2, Zenon DEF PathCard, SubjectsTab, LevelsTab, SkillsTab
    <3>3. CASE MockExamsTab \/ SettingsTab
      BY <3>3, Zenon DEF MockExamsTab, SettingsTab
    <3> QED BY <1>7, <3>1, <3>2, <3>3
  <2>2. ASSUME NEW d, OpenDialog(d) PROVE TaxonomyInv'
    BY <2>2, TopicDialogStep
  <2>3. ASSUME NEW part \in Parts, RunInline(part, None) PROVE TaxonomyInv'
    BY <2>3, RunInlineBegins
  <2>4. "lists" \in Parts /\ "taxonomy" \in Parts
    BY DEF Parts
  <2> QED BY <1>3, <2>1, <2>2, <2>3, <2>4
<1> QED BY <1>2, <1>4, <1>6, <1>7, <1>8, <1>9, <1>10, <1>11

LEMMA TaxonomyStep == TaxonomyInv /\ [TaxonomyNext]_tabVars => TaxonomyInv'
<1> SUFFICES ASSUME TaxonomyInv, [TaxonomyNext]_tabVars PROVE TaxonomyInv'
  OBVIOUS
<1>1. CASE UNCHANGED tabVars
  BY <1>1 DEF tabVars, TaxonomyInv
<1>2. ASSUME NEW c \in calls,
             \/ ServerReads(c) \/ TaxonomyArrives(c) \/ LoadArrives(c) \/ LoadFails(c)
             \/ ServerReadsTopics(c) \/ TopicsArrive(c)
             \/ WriteConfirmed(c) \/ WriteFails(c) \/ TopicSaved(c) \/ TopicFails(c)
      PROVE  TaxonomyInv'
  BY <1>2, ServerReadsStep, TaxonomyArrivesStep, LoadOverStep, ServerReadsTopicsStep,
     TopicsArriveStep, WriteConfirmedStep, WriteFailsStep, TopicSavedStep
<1> QED BY <1>1, <1>2, TaxonomyDialogStep, WorkspaceStep DEF TaxonomyNext

LEMMA TaxonomyIsShown == TaxonomyInv => TopicsAreTheSubjects /\ SettledShowsWrites
<1> SUFFICES ASSUME TaxonomyInv PROVE TopicsAreTheSubjects /\ SettledShowsWrites
  OBVIOUS
<1>1. TopicsAreTheSubjects
  BY DEF TaxonomyInv, TopicsHold, TopicsAreTheSubjects
<1>2. SettledShowsWrites
  <2>1. ASSUME ~screen.error, {c \in calls : c.kind \in {"load", "write"}} = {}
        PROVE  NewEnough(screen, screen.data["taxonomy"], screen.data["lists"])
    <3>1. ~ \E c \in calls : c.kind \in {"load", "write"}
      BY <2>1
    <3> QED BY <2>1, <3>1 DEF TaxonomyInv, LoadsHold
  <2> QED BY <2>1 DEF SettledShowsWrites, NewEnough
<1> QED BY <1>1, <1>2

(***************************************************************************)
(* ContentAdmin: the rows that may be acted on are of the view, and new.     *)
(***************************************************************************)
ContentFields ==
  {"page", "teacher", "view", "typed", "pause", "loaded", "loading", "rows", "editor",
   "mutating", "made", "confirmed"}
ViewFields == {"tab", "page", "filter", "search"}
IsView(v) == DOMAIN v = ViewFields /\ v = [key \in ViewFields |-> v[key]]

\* A list, read or not, is of the view, and was read after the last write the page
\* has heard of; other calls are writes.
ContentCall(c, p) ==
  /\ "kind" \in DOMAIN c
  /\ c.kind = "list" => /\ DOMAIN c = {"kind", "view", "age"} /\ c.view = p.view
                        /\ c.age = -1 \/ (c.age \in Nat /\ c.age >= p.confirmed)

ContentHolds(p, cs, written) ==
  /\ p.page = "content" /\ DOMAIN p = ContentFields /\ IsView(p.view)
  /\ written \in Nat /\ p.confirmed \in Nat /\ p.confirmed <= written
  /\ \A c \in cs : ContentCall(c, p)
  /\ p.rows # NoRows => p.rows.view = p.view /\ p.rows.age >= p.confirmed

ContentInv == ContentHolds(screen, calls, server)

\* The list is asked for anew, for any view and after any write.
LEMMA Refetched ==
  ASSUME ContentInv, NEW p, NEW over, Refetch(p, over), p.page = "content",
         DOMAIN p = ContentFields, IsView(p.view),
         server' \in Nat, p.confirmed \in Nat, p.confirmed <= server'
  PROVE  ContentInv'
<1> DEFINE d == FreshList(p.view)
<1>1. d.kind = "list" /\ d.age = -1 /\ DOMAIN d = {"kind", "view", "age"} /\ d.view = p.view
  BY DEF FreshList
<1>2. PICK loading : loading = ~Waiting(p)
  OBVIOUS
<1>3. /\ screen' = [p EXCEPT !.rows = NoRows, !.loaded = Nowhere, !.loading = loading]
      /\ calls' \subseteq (calls \ ListReads) \cup {d}
  BY <1>2 DEF Refetch
<1> HIDE DEF d
<1>4. /\ DOMAIN screen' = ContentFields /\ screen'.page = p.page /\ screen'.view = p.view
      /\ screen'.confirmed = p.confirmed /\ screen'.rows = NoRows
  BY <1>3 DEF ContentFields
<1>5. \A c \in calls' : ContentCall(c, screen')
  BY <1>1, <1>3, <1>4 DEF ContentInv, ContentHolds, ContentCall, ListReads
<1> QED BY <1>4, <1>5 DEF ContentInv, ContentHolds

\* A step that leaves the view, the rows and what was heard as they are.
SameContent ==
  /\ DOMAIN screen' = ContentFields /\ screen'.page = screen.page /\ screen'.view = screen.view
  /\ screen'.rows = screen.rows /\ screen'.confirmed = screen.confirmed

LEMMA ContentKept ==
  ASSUME ContentInv, SameContent, server' \in {server, server + 1},
         \A c \in calls' : c \in calls \/ ContentCall(c, screen)
  PROVE  ContentInv'
<1>1. \A c : ContentCall(c, screen) => ContentCall(c, screen')
  BY DEF ContentCall, SameContent
<1> QED BY <1>1 DEF ContentInv, ContentHolds, SameContent

LEMMA ContentStart == ContentInit => ContentInv
<1> SUFFICES ASSUME ContentInit PROVE ContentInv
  OBVIOUS
<1>1. /\ screen.page = "content" /\ DOMAIN screen = ContentFields /\ IsView(screen.view)
      /\ screen.rows = NoRows /\ screen.confirmed = 0 /\ server = 0
      /\ calls \subseteq {FreshList(screen.view)}
  <2>1. PICK teacher, tab, search, view :
          /\ view = [tab |-> tab, page |-> 1, filter |-> "all", search |-> search]
          /\ screen = [page |-> "content", teacher |-> teacher, view |-> view, typed |-> search,
                       pause |-> FALSE, loaded |-> Nowhere, loading |-> ~teacher,
                       rows |-> NoRows, editor |-> "none",
                       mutating |-> [t \in Tabs |-> "none"], made |-> 0, confirmed |-> 0]
          /\ calls = IF teacher THEN {} ELSE {FreshList(view)}
    BY DEF ContentInit
  <2>2. IsView(view)
    BY <2>1 DEF IsView, ViewFields
  <2>3. server = 0
    BY DEF ContentInit
  <2> QED BY <2>1, <2>2, <2>3 DEF ContentFields
<1> QED BY <1>1 DEF ContentInv, ContentHolds, ContentCall, FreshList

LEMMA ListReadStep ==
  ASSUME ContentInv, NEW c \in calls, ListRead(c)
  PROVE  ContentInv'
<1> DEFINE d == [c EXCEPT !.age = server]
<1>1. c.kind = "list" /\ screen' = screen /\ server' = server /\ calls' = (calls \ {c}) \cup {d}
  BY DEF ListRead
<1>2. DOMAIN c = {"kind", "view", "age"} /\ c.view = screen.view /\ server \in Nat
      /\ server >= screen.confirmed
  BY <1>1 DEF ContentInv, ContentHolds, ContentCall
<1>3. d.kind = "list" /\ d.view = c.view /\ d.age = server /\ DOMAIN d = {"kind", "view", "age"}
  BY <1>1, <1>2
<1> HIDE DEF d
<1>4. ContentCall(d, screen)
  BY <1>2, <1>3 DEF ContentCall
<1> QED BY <1>1, <1>4, ContentKept DEF SameContent, ContentInv, ContentHolds

LEMMA ListAnswerStep ==
  ASSUME ContentInv, NEW c \in calls, ListArrives(c) \/ ListFails(c)
  PROVE  ContentInv'
<1>1. /\ c.kind = "list" /\ server' = server /\ calls' = calls \ {c}
      /\ c.view = screen.view
  BY DEF ListArrives, ListFails, Ended, ContentInv, ContentHolds, ContentCall
<1>2. PICK rows : /\ screen' = [screen EXCEPT !.loading = FALSE, !.loaded = c.view, !.rows = rows]
                  /\ rows = NoRows \/ (rows.view = c.view /\ rows.age = c.age /\ c.age # -1)
  <2>1. CASE ListFails(c)
    BY <2>1 DEF ListFails
  <2>2. CASE ListArrives(c)
    <3>1. PICK more : screen' = [screen EXCEPT !.loading = FALSE, !.loaded = c.view,
                                   !.rows = [view |-> c.view, age |-> c.age, more |-> more]]
      BY <2>2 DEF ListArrives
    <3> DEFINE rows == [view |-> c.view, age |-> c.age, more |-> more]
    <3>2. rows.view = c.view /\ rows.age = c.age /\ c.age # -1
      BY <2>2 DEF ListArrives
    <3> QED BY <3>1, <3>2
  <2> QED BY <2>1, <2>2
<1>3. /\ DOMAIN screen' = ContentFields /\ screen'.page = screen.page
      /\ screen'.view = screen.view /\ screen'.confirmed = screen.confirmed
      /\ screen'.rows = rows
  BY <1>2 DEF ContentInv, ContentHolds, ContentFields
<1>4. rows # NoRows => rows.view = screen.view /\ rows.age >= screen.confirmed
  BY <1>1, <1>2 DEF ContentInv, ContentHolds, ContentCall
<1>5. \A d : ContentCall(d, screen) => ContentCall(d, screen')
  BY <1>3 DEF ContentCall
<1> QED BY <1>1, <1>3, <1>4, <1>5 DEF ContentInv, ContentHolds

\* Another view is shown, or the same one again.
LEMMA ViewShown ==
  ASSUME ContentInv, NEW p, NEW v, ShowView(p, v), IsView(v),
         DOMAIN p = ContentFields, p.page = "content", p.view = screen.view,
         p.rows = screen.rows, p.confirmed = screen.confirmed
  PROVE  ContentInv'
<1>1. CASE v = screen.view
  BY <1>1, ContentKept DEF ShowView, SameContent, ContentInv, ContentHolds
<1>2. CASE v # screen.view
  <2> DEFINE q == [p EXCEPT !.view = v]
  <2>1. Refetch(q, {}) /\ server' = server
    BY <1>2 DEF ShowView
  <2>2. DOMAIN q = ContentFields /\ q.page = "content" /\ q.view = v /\ q.confirmed = screen.confirmed
    BY DEF ContentFields
  <2> HIDE DEF q
  <2> QED BY <2>1, <2>2, Refetched DEF ContentInv, ContentHolds
<1> QED BY <1>1, <1>2

LEMMA ViewSteps ==
  ASSUME ContentInv,
         \/ \E t \in Tabs : ChooseTab(t) \/ AddressTab(t)
         \/ \E f \in Filters : ChooseFilter(f)
         \/ PauseOver \/ Paging
  PROVE  ContentInv'
<1> DEFINE Same(p) == /\ DOMAIN p = ContentFields /\ p.page = "content" /\ p.view = screen.view
                      /\ p.rows = screen.rows /\ p.confirmed = screen.confirmed
<1>1. Same(screen) /\ Same([screen EXCEPT !.pause = FALSE])
  BY DEF ContentInv, ContentHolds, ContentFields
<1>2. IsView(screen.view)
  BY DEF ContentInv, ContentHolds
<1>3. ASSUME NEW t, ChooseTab(t) PROVE ContentInv'
  <2>1. IsView([screen.view EXCEPT !.tab = t, !.page = 1])
    BY <1>2 DEF IsView, ViewFields
  <2> QED BY <1>1, <1>3, <2>1, ViewShown DEF ChooseTab
<1>4. ASSUME NEW t, AddressTab(t) PROVE ContentInv'
  <2>1. IsView([screen.view EXCEPT !.tab = t])
    BY <1>2 DEF IsView, ViewFields
  <2> QED BY <1>1, <1>4, <2>1, ViewShown DEF AddressTab
<1>5. ASSUME NEW f, ChooseFilter(f) PROVE ContentInv'
  <2>1. IsView([screen.view EXCEPT !.filter = f, !.page = 1])
    BY <1>2 DEF IsView, ViewFields
  <2> QED BY <1>1, <1>5, <2>1, ViewShown DEF ChooseFilter
<1>6. CASE PauseOver
  <2>1. IsView([screen.view EXCEPT !.search = screen.typed, !.page = 1])
    BY <1>2 DEF IsView, ViewFields
  <2>2. ShowView([screen EXCEPT !.pause = FALSE],
                 [screen.view EXCEPT !.search = screen.typed, !.page = 1])
    BY <1>6 DEF PauseOver
  <2> QED BY <1>1, <2>1, <2>2, ViewShown
<1>7. CASE Paging
  <2>1. IsView([screen.view EXCEPT !.page = @ - 1]) /\ IsView([screen.view EXCEPT !.page = @ + 1])
    BY <1>2 DEF IsView, ViewFields
  <2> QED BY <1>1, <1>7, <2>1, ViewShown DEF Paging
<1> QED BY <1>3, <1>4, <1>5, <1>6, <1>7

\* The buttons of a row, the search box and the editors.
LEMMA ContentButtonStep ==
  ASSUME ContentInv,
         \/ \E s \in Searches : TypeSearch(s)
         \/ OpenEditor \/ LeaveEditor \/ EditorSaves
         \/ \E r \in ContentRows :
              CourseActions(r) \/ LessonActions(r) \/ LibraryActions(r) \/ TopicActions(r)
  PROVE  ContentInv'
<1>1. ASSUME NEW s, TypeSearch(s) PROVE ContentInv'
  <2>1. SameContent /\ calls' = calls /\ server' = server
    BY <1>1 DEF TypeSearch, SameContent, ContentInv, ContentHolds, ContentFields
  <2> QED BY <2>1, ContentKept
<1>2. CASE OpenEditor \/ LeaveEditor \/ \E r, t : EditRow(r, t)
  <2>1. SameContent /\ calls' = calls /\ server' = server
    BY <1>2 DEF OpenEditor, LeaveEditor, EditRow, SameContent, ContentInv, ContentHolds,
       ContentFields
  <2> QED BY <2>1, ContentKept
<1>3. CASE EditorSaves
  <2>1. screen' = [screen EXCEPT !.made = @ + 1] /\ server' = server
    BY <1>3 DEF EditorSaves
  <2>2. SameContent
    BY <2>1 DEF SameContent, ContentInv, ContentHolds, ContentFields
  <2> DEFINE d == [kind |-> "editor", n |-> screen.made, editor |-> screen.editor]
  <2>3. calls' = calls \cup {d} /\ d.kind = "editor" /\ "kind" \in DOMAIN d
    BY <1>3 DEF EditorSaves
  <2> HIDE DEF d
  <2> QED BY <2>1, <2>2, <2>3, ContentKept DEF ContentCall
<1>4. ASSUME NEW r, NEW t, NEW steps, RowAction(r, t, steps) PROVE ContentInv'
  <2>1. screen' = [screen EXCEPT !.made = @ + 1, !.mutating[t] = r] /\ server' = server
    BY <1>4 DEF RowAction
  <2>2. SameContent
    BY <2>1 DEF SameContent, ContentInv, ContentHolds, ContentFields
  <2> DEFINE d == [kind |-> "row", n |-> screen.made, tab |-> t, steps |-> steps]
  <2>3. calls' = calls \cup {d} /\ d.kind = "row" /\ "kind" \in DOMAIN d
    BY <1>4 DEF RowAction
  <2> HIDE DEF d
  <2> QED BY <2>1, <2>2, <2>3, ContentKept DEF ContentCall
<1> QED BY <1>1, <1>2, <1>3, <1>4 DEF CourseActions, LessonActions, LibraryActions, TopicActions,
        SetCourseWorkflow, TogglePublication, PrepareCourse, SetLessonWorkflow, SetLibraryWorkflow

LEMMA ContentWriteStep ==
  ASSUME ContentInv, NEW c \in calls,
         FirstStepDone(c) \/ RowWriteFails(c) \/ EditorSaveFails(c)
  PROVE  ContentInv'
<1>1. CASE FirstStepDone(c)
  <2> DEFINE d == [c EXCEPT !.steps = 1]
  <2>1. c.kind = "row" /\ screen' = screen /\ server' = server + 1
        /\ calls' = (calls \ {c}) \cup {d}
    BY <1>1 DEF FirstStepDone
  <2>2. d.kind = "row" /\ "kind" \in DOMAIN d
    BY <2>1 DEF ContentInv, ContentHolds, ContentCall
  <2> HIDE DEF d
  <2> QED BY <2>1, <2>2, ContentKept DEF SameContent, ContentInv, ContentHolds, ContentCall
<1>2. CASE RowWriteFails(c)
  <2>1. SameContent
    BY <1>2 DEF RowWriteFails, SameContent, ContentInv, ContentHolds, ContentFields
  <2> QED BY <1>2, <2>1, ContentKept DEF RowWriteFails, Ended
<1>3. CASE EditorSaveFails(c)
  <2>1. SameContent
    BY <1>3 DEF EditorSaveFails, SameContent, ContentInv, ContentHolds
  <2> QED BY <1>3, <2>1, ContentKept DEF EditorSaveFails, Ended
<1> QED BY <1>1, <1>2, <1>3

\* The success of a write is heard of, and with it the list is asked for again.
LEMMA Heard ==
  ASSUME ContentInv, NEW p, NEW over, Refetch(Took(p), over), server' = server + 1,
         DOMAIN p = ContentFields, p.page = "content", IsView(p.view)
  PROVE  ContentInv'
<1>1. /\ DOMAIN Took(p) = ContentFields /\ Took(p).page = "content" /\ Took(p).view = p.view
      /\ Took(p).confirmed = server + 1
  BY DEF Took, ContentFields
<1>2. server \in Nat
  BY DEF ContentInv, ContentHolds
<1> QED BY <1>1, <1>2, Refetched

LEMMA RowDoneStep ==
  ASSUME ContentInv, NEW c \in calls, RowDone(c)
  PROVE  ContentInv'
<1> DEFINE p == [screen EXCEPT !.mutating[c.tab] = "none"]
<1>1. Refetch(Took(p), {c}) /\ server' = server + 1
  BY DEF RowDone, SettledReload
<1>2. DOMAIN p = ContentFields /\ p.page = "content" /\ p.view = screen.view
  BY DEF ContentInv, ContentHolds, ContentFields
<1> HIDE DEF p
<1> QED BY <1>1, <1>2, Heard DEF ContentInv, ContentHolds

LEMMA EditorSavedStep ==
  ASSUME ContentInv, NEW c \in calls, EditorSaved(c)
  PROVE  ContentInv'
<1>1. PICK t, editor :
        /\ t = IF c.editor = "newcourse" THEN "courses" ELSE c.editor
        /\ editor = IF screen.editor = c.editor THEN "none" ELSE screen.editor
  OBVIOUS
<1> DEFINE p == [screen EXCEPT !.editor = editor, !.view.tab = t, !.view.page = 1]
<1>2. p = [screen EXCEPT !.editor = IF @ = c.editor THEN "none" ELSE @,
                         !.view.tab = t, !.view.page = 1]
  BY <1>1 DEF ContentInv, ContentHolds, ContentFields
<1>3. (Refetch(Took(screen), {c}) \/ Refetch(Took(p), {c})) /\ server' = server + 1
  BY <1>1, <1>2 DEF EditorSaved, SettledReload
<1> DEFINE v == [[screen.view EXCEPT !.tab = t] EXCEPT !.page = 1]
<1>4. DOMAIN p = ContentFields /\ p.page = "content" /\ p.view = v
  BY DEF ContentInv, ContentHolds, ContentFields
<1>5. IsView(v)
  <2>1. IsView(screen.view)
    BY DEF ContentInv, ContentHolds
  <2> HIDE DEF p
  <2> QED BY <2>1 DEF IsView, ViewFields
<1> HIDE DEF p, v
<1>6. IsView(p.view)
  BY <1>4, <1>5
<1> QED BY <1>3, <1>4, <1>6, Heard DEF ContentInv, ContentHolds

LEMMA ContentStep == ContentInv /\ [ContentNext]_tabVars => ContentInv'
<1> SUFFICES ASSUME ContentInv, [ContentNext]_tabVars PROVE ContentInv'
  OBVIOUS
<1>1. CASE UNCHANGED tabVars
  BY <1>1 DEF tabVars, ContentInv, ContentHolds
<1>2. CASE PressRefresh
  <2>1. Refetch(screen, {}) /\ server' = server
    BY <1>2 DEF PressRefresh
  <2> QED BY <2>1, Refetched DEF ContentInv, ContentHolds
<1> QED BY <1>1, <1>2, ListReadStep, ListAnswerStep, ViewSteps, ContentButtonStep,
        ContentWriteStep, RowDoneStep, EditorSavedStep DEF ContentNext

LEMMA ContentIsShown == ContentInv => RowsMatchView
<1> SUFFICES ASSUME ContentInv, ShownRows # NoRows
             PROVE  /\ ShownRows.view = [screen.view EXCEPT !.search = screen.typed]
                    /\ ShownRows.age >= screen.confirmed
  BY DEF RowsMatchView
<1>1. screen.typed = screen.view.search /\ ShownRows = screen.rows
  BY DEF ShownRows
<1>2. [screen.view EXCEPT !.search = screen.typed] = screen.view
  <2>1. IsView(screen.view)
    BY DEF ContentInv, ContentHolds
  <2> QED BY <1>1, <2>1 DEF IsView, ViewFields
<1> QED BY <1>1, <1>2 DEF ContentInv, ContentHolds

(***************************************************************************)
(* QuestionBankAdmin: the rows are those of the filter.                      *)
(***************************************************************************)
BankFields ==
  {"page", "admin", "filter", "busy", "failed", "rows", "detail", "saving", "commands"}
CommandFields == {"kind", "by", "do", "expected", "n", "stage", "row"}

\* A list that is under way is that of the filter; everything else is a command.
BankCalls ==
  \A c \in calls : c = BankList(screen.filter) \/ (c.kind = "command" /\ DOMAIN c = CommandFields)

BankInv ==
  /\ Mounted("questions") /\ DOMAIN screen = BankFields /\ BankCalls
  /\ ~screen.busy /\ ~screen.failed => screen.rows = screen.filter

\* What no command changes.
SameBank ==
  /\ DOMAIN screen' = BankFields /\ screen'.page = screen.page /\ screen'.filter = screen.filter
  /\ screen'.busy = screen.busy /\ screen'.failed = screen.failed /\ screen'.rows = screen.rows

LEMMA BankStart == QuestionBankInit => BankInv
BY DEF QuestionBankInit, BankInv, BankFields, BankCalls, Mounted

LEMMA BankRead ==
  ASSUME BankInv, NEW p, NEW over, ReadBank(p, over, {}),
         DOMAIN p = BankFields, p.page = screen.page
  PROVE  BankInv'
<1>1. /\ screen' = [p EXCEPT !.busy = TRUE, !.failed = FALSE]
      /\ calls' = (calls \ (over \cup BankLists)) \cup {BankList(p.filter)}
  BY DEF ReadBank, Aborted
<1>2. /\ DOMAIN screen' = BankFields /\ screen'.page = screen.page /\ screen'.busy
      /\ screen'.filter = p.filter
  BY <1>1 DEF BankFields
<1>3. ASSUME NEW c \in calls, c \notin BankLists PROVE c.kind = "command" /\ DOMAIN c = CommandFields
  BY <1>3 DEF BankInv, BankCalls, BankLists, BankList
<1>4. BankCalls'
  BY <1>1, <1>2, <1>3 DEF BankCalls
<1> QED BY <1>2, <1>4 DEF BankInv, Mounted

\* A command begins, goes on or ends.
LEMMA CommandMoves ==
  ASSUME BankInv, SameBank, NEW d, calls' \subseteq calls \cup {d},
         d.kind = "command", DOMAIN d = CommandFields
  PROVE  BankInv'
BY DEF BankInv, BankCalls, SameBank, Mounted

LEMMA CommandEnds ==
  ASSUME BankInv, SameBank, calls' \subseteq calls
  PROVE  BankInv'
BY DEF BankInv, BankCalls, SameBank, Mounted

LEMMA BankAnswerStep ==
  ASSUME BankInv, NEW c \in calls, BankArrives(c) \/ BankFails(c)
  PROVE  BankInv'
<1>1. c = BankList(screen.filter)
  BY DEF BankArrives, BankFails, BankInv, BankCalls
<1>2. c.filter = screen.filter
  BY <1>1 DEF BankList
<1>3. PICK busy \in BOOLEAN : busy = (BankLists # {c})
  OBVIOUS
<1>4. \/ screen' = [screen EXCEPT !.busy = busy, !.rows = c.filter]
      \/ screen' = [screen EXCEPT !.busy = FALSE, !.failed = TRUE]
  BY <1>3 DEF BankArrives, BankFails
<1>5. /\ DOMAIN screen' = BankFields /\ screen'.page = screen.page
      /\ screen'.filter = screen.filter /\ (screen'.rows = screen.filter \/ screen'.failed)
  BY <1>2, <1>4 DEF BankInv, BankFields
<1>6. calls' \subseteq calls
  BY DEF BankArrives, BankFails, Ended
<1> QED BY <1>5, <1>6 DEF BankInv, BankCalls, Mounted

LEMMA CommandForms ==
  ASSUME NEW by, NEW do
  PROVE  Command(by, do).kind = "command" /\ DOMAIN Command(by, do) = CommandFields
BY DEF Command, CommandFields

LEMMA BankCommandStep ==
  ASSUME BankInv,
         \/ OpenQuestion \/ SavePresentation
         \/ \E to \in WorkflowStatus : PressWorkflow(to)
         \/ \E do \in WorkflowStatus \cup {"append"} : AnotherBegins(do)
  PROVE  BankInv'
<1>1. CASE OpenQuestion
  <2>1. screen' = screen /\ calls' = calls \cup {Command("page", "open")}
    BY <1>1 DEF OpenQuestion, Begins
  <2> QED BY <2>1, CommandForms, CommandMoves DEF SameBank, BankInv
<1>2. ASSUME NEW do, calls' = calls \cup {Numbered(do)}, SameBank PROVE BankInv'
  <2>1. Numbered(do).kind = "command" /\ DOMAIN Numbered(do) = CommandFields
    BY CommandForms DEF Numbered, CommandFields
  <2> QED BY <1>2, <2>1, CommandMoves
<1>3. CASE SavePresentation
  <2>1. screen' = [screen EXCEPT !.commands = @ + 1, !.saving = screen.commands + 1]
        /\ calls' = calls \cup {Numbered("append")}
    BY <1>3 DEF SavePresentation, Begins
  <2>2. SameBank
    BY <2>1 DEF SameBank, BankInv, BankFields
  <2> QED BY <1>2, <2>1, <2>2
<1>4. ASSUME NEW to, PressWorkflow(to) PROVE BankInv'
  <2>1. screen' = [screen EXCEPT !.commands = @ + 1] /\ calls' = calls \cup {Numbered(to)}
    BY <1>4 DEF PressWorkflow, Begins
  <2>2. SameBank
    BY <2>1 DEF SameBank, BankInv, BankFields
  <2> QED BY <1>2, <2>1, <2>2
<1>5. ASSUME NEW do, AnotherBegins(do) PROVE BankInv'
  <2> DEFINE d == [Command("other", do) EXCEPT !.expected = server.question.version,
                                               !.stage = "checked"]
  <2>1. screen' = screen /\ calls' = calls \cup {d}
    BY <1>5 DEF AnotherBegins
  <2>2. d.kind = "command" /\ DOMAIN d = CommandFields
    BY CommandForms DEF CommandFields
  <2> HIDE DEF d
  <2> QED BY <2>1, <2>2, CommandMoves DEF SameBank, BankInv
<1> QED BY <1>1, <1>3, <1>4, <1>5

LEMMA BankServerStep ==
  ASSUME BankInv, NEW c \in calls,
         CommandChecked(c) \/ CommandStored(c) \/ CommandAnswered(c) \/ CommandFails(c)
  PROVE  BankInv'
<1>1. c.kind = "command" /\ DOMAIN c = CommandFields
  BY DEF CommandChecked, CommandStored, CommandAnswered, CommandFails, BankInv, BankCalls, BankList
<1>2. CASE CommandChecked(c) \/ CommandStored(c)
  <2>1. screen' = screen /\ \E stage : calls' = (calls \ {c}) \cup {[c EXCEPT !.stage = stage]}
    BY <1>2 DEF CommandChecked, CommandStored, Advances
  <2>2. PICK stage : calls' = (calls \ {c}) \cup {[c EXCEPT !.stage = stage]}
    BY <2>1
  <2> DEFINE d == [c EXCEPT !.stage = stage]
  <2>3. d.kind = "command" /\ DOMAIN d = CommandFields /\ calls' \subseteq calls \cup {d}
    BY <1>1, <2>2 DEF CommandFields
  <2> HIDE DEF d
  <2> QED BY <2>1, <2>3, CommandMoves DEF SameBank, BankInv
<1>3. CASE CommandAnswered(c)
  <2> DEFINE d == [c EXCEPT !.stage = "answered", !.row = server.question]
  <2>1. screen' = screen /\ calls' \subseteq calls \cup {d}
    BY <1>3 DEF CommandAnswered
  <2>2. d.kind = "command" /\ DOMAIN d = CommandFields
    BY <1>1 DEF CommandFields
  <2> HIDE DEF d
  <2> QED BY <2>1, <2>2, CommandMoves DEF SameBank, BankInv
<1>4. CASE CommandFails(c)
  <2>1. PICK saving : screen' = [screen EXCEPT !.saving = saving]
    BY <1>4 DEF CommandFails
  <2>2. SameBank
    BY <2>1 DEF SameBank, BankInv, BankFields
  <2>3. calls' \subseteq calls
    BY <1>4 DEF CommandFails, Ended
  <2> QED BY <2>2, <2>3, CommandEnds
<1> QED BY <1>2, <1>3, <1>4

LEMMA CommandArrivesStep ==
  ASSUME BankInv, NEW c \in calls, CommandArrives(c)
  PROVE  BankInv'
<1>1. PICK saving : saving = IF c.row.version = screen.detail.version /\ c.n # screen.saving
                             THEN screen.saving ELSE 0
  OBVIOUS
<1> DEFINE p == [screen EXCEPT !.detail = c.row, !.saving = saving]
<1>2. \/ screen' = screen /\ calls' = calls \ {c}
      \/ screen' = p /\ calls' = calls \ {c}
      \/ ReadBank(p, {c}, {})
  BY <1>1 DEF CommandArrives, Ended
<1>3. /\ DOMAIN p = BankFields /\ p.page = screen.page /\ p.filter = screen.filter
      /\ p.busy = screen.busy /\ p.failed = screen.failed /\ p.rows = screen.rows
  BY DEF BankInv, BankFields
<1> HIDE DEF p
<1>4. CASE calls' = calls \ {c} /\ (screen' = screen \/ screen' = p)
  <2>1. SameBank /\ calls' \subseteq calls
    BY <1>3, <1>4 DEF SameBank, BankInv
  <2> QED BY <2>1, CommandEnds
<1>5. CASE ReadBank(p, {c}, {})
  BY <1>3, <1>5, BankRead
<1> QED BY <1>2, <1>4, <1>5

LEMMA BankStep == BankInv /\ [QuestionBankNext]_tabVars => BankInv'
<1> SUFFICES ASSUME BankInv, [QuestionBankNext]_tabVars PROVE BankInv'
  OBVIOUS
<1>1. CASE UNCHANGED tabVars
  BY <1>1 DEF tabVars, BankInv, BankCalls, Mounted
<1>2. ASSUME NEW filter, ChooseBankFilter(filter) PROVE BankInv'
  <2> DEFINE p == [screen EXCEPT !.filter = filter]
  <2>1. ReadBank(p, {}, {})
    BY <1>2 DEF ChooseBankFilter
  <2>2. DOMAIN p = BankFields /\ p.page = screen.page
    BY DEF BankInv, BankFields
  <2> HIDE DEF p
  <2> QED BY <2>1, <2>2, BankRead
<1>3. CASE PressReloadBank
  BY <1>3, BankRead DEF PressReloadBank, BankInv
<1> QED BY <1>1, <1>2, <1>3, BankAnswerStep, BankCommandStep, BankServerStep, CommandArrivesStep
        DEF QuestionBankNext

LEMMA BankShown == BankInv => RowsOfFilter
BY DEF BankInv, RowsOfFilter

(***************************************************************************)
(* SchoolDirector: rows of the present visit, assignments that stay read,    *)
(* one assessment per form.                                                *)
(***************************************************************************)
DirectorFields ==
  {"page", "known", "school", "visit", "section", "students", "asked", "staff", "seen",
   "overview", "papers", "pending", "show", "form", "forms", "key", "saving", "made",
   "submits", "confirmed"}
DirectorCallFields ==
  {"kind", "run", "query", "visit", "stage", "live", "newest", "base", "age", "n", "key"}

\* A live refresh asks for what the search field asks for.
LiveAsks(c, asked) == c.kind = "refresh" /\ c.live => c.query = asked
NoneLive(cs) == \A c \in cs : c.kind = "refresh" => ~c.live

\* A newest read of the teachers began after the last announced assignment, and
\* the server has read after it too.
ReadsNewest(c, confirmed) ==
  c.kind \in {"refresh", "staff"} /\ c.newest =>
    c.base = confirmed /\ (c.age = -1 \/ (c.age \in Nat /\ c.age >= confirmed))

StoredOnes(cs) == {c \in cs : c.kind = "write" /\ c.run = "assignment" /\ c.stage = "stored"}

\* The forms that were submitted or stored, each with the key that went with it.
FormKeys(cs, papers) ==
  {<<c.n, c.key>> : c \in {d \in cs : d.kind = "create"}} \cup {<<a.form, a.key>> : a \in papers}

DirectorShape(p, cs, sv) ==
  /\ p.page = "director" /\ DOMAIN p = DirectorFields
  /\ \A c \in cs : DOMAIN c = DirectorCallFields
  /\ DOMAIN sv = {"written", "papers"}

OfVisit(p, cs) ==
  /\ {p.students.visit, p.staff.visit, p.overview, p.papers} \subseteq {-1, p.visit}
  /\ p.students.visit # -1 => p.students.query = p.asked
  /\ \A c \in cs : LiveAsks(c, p.asked)

\* Assignments that were announced, and those the page is about to hear of, are
\* among those that were stored.
StaffHolds(p, cs, written) ==
  /\ written \in Nat /\ p.confirmed \in Nat /\ p.seen \in Nat /\ p.seen <= p.confirmed
  /\ p.staff.visit # -1 => p.staff.age >= p.seen
  /\ \A c \in cs : ReadsNewest(c, p.confirmed)
  /\ IsFiniteSet(StoredOnes(cs)) /\ p.confirmed + Cardinality(StoredOnes(cs)) <= written

\* A form has one key as long as it lives, and no form has the number of another.
FormsHold(p, cs, papers) ==
  /\ p.forms \in Nat /\ p.form \in {0, p.forms}
  /\ \A a \in papers : a = [form |-> a.form, key |-> a.key]
  /\ \A x \in FormKeys(cs, papers) :
       x[1] \in 1..p.forms /\ (x[1] = p.form => x[2] = p.key)
  /\ \A x, y \in FormKeys(cs, papers) : x[1] = y[1] => x = y

DirectorHolds(p, cs, sv) ==
  /\ DirectorShape(p, cs, sv)
  /\ OfVisit(p, cs)
  /\ StaffHolds(p, cs, sv.written)
  /\ FormsHold(p, cs, sv.papers)

DirectorInv == DirectorHolds(screen, calls, server)

-----------------------------------------------------------------------------
\* What the operators of the page leave as it was.

LEMMA FewerCalls ==
  ASSUME NEW p, NEW cs, NEW sv, DirectorHolds(p, cs, sv), NEW ds, ds \subseteq cs
  PROVE  DirectorHolds(p, ds, sv)
<1>1. DirectorShape(p, ds, sv) /\ OfVisit(p, ds)
  BY DEF DirectorHolds, DirectorShape, OfVisit
<1>2. StaffHolds(p, ds, sv.written)
  <2>1. StoredOnes(ds) \subseteq StoredOnes(cs)
    BY DEF StoredOnes
  <2>2. /\ IsFiniteSet(StoredOnes(ds)) /\ Cardinality(StoredOnes(ds)) <= Cardinality(StoredOnes(cs))
        /\ Cardinality(StoredOnes(ds)) \in Nat /\ Cardinality(StoredOnes(cs)) \in Nat
    BY <2>1, FS_Subset, FS_CardinalityType DEF DirectorHolds, StaffHolds
  <2> QED BY <2>2 DEF DirectorHolds, StaffHolds
<1>3. FormsHold(p, ds, sv.papers)
  <2>1. FormKeys(ds, sv.papers) \subseteq FormKeys(cs, sv.papers)
    BY DEF FormKeys
  <2> QED BY <2>1 DEF DirectorHolds, FormsHold
<1> QED BY <1>1, <1>2, <1>3 DEF DirectorHolds

\* A call that carries neither a form nor a stored assignment.
Harmless(d, p) ==
  /\ DOMAIN d = DirectorCallFields /\ d.kind # "create" /\ d.stage = "sent"
  /\ LiveAsks(d, p.asked) /\ ReadsNewest(d, p.confirmed)

LEMMA OneMore ==
  ASSUME NEW p, NEW cs, NEW sv, DirectorHolds(p, cs, sv), NEW d, Harmless(d, p)
  PROVE  DirectorHolds(p, cs \cup {d}, sv)
<1>1. StoredOnes(cs \cup {d}) = StoredOnes(cs)
  BY DEF StoredOnes, Harmless
<1>2. FormKeys(cs \cup {d}, sv.papers) = FormKeys(cs, sv.papers)
  BY DEF FormKeys, Harmless
<1>3. DirectorShape(p, cs \cup {d}, sv) /\ OfVisit(p, cs \cup {d})
  BY DEF DirectorHolds, DirectorShape, OfVisit, Harmless
<1>4. StaffHolds(p, cs \cup {d}, sv.written)
  BY <1>1 DEF DirectorHolds, StaffHolds, Harmless
<1>5. FormsHold(p, cs \cup {d}, sv.papers)
  BY <1>2 DEF DirectorHolds, FormsHold
<1> QED BY <1>3, <1>4, <1>5 DEF DirectorHolds

LEMMA Requesting ==
  ASSUME NEW p, NEW q, NEW kind, NEW run, NEW query, kind # "create",
         kind = "refresh" => query = p.asked, q.confirmed = p.confirmed
  PROVE  Harmless(Request(kind, q, run, query), p)
<1> DEFINE d == Request(kind, q, run, query)
<1>1. /\ DOMAIN d = DirectorCallFields /\ d.kind = kind /\ d.stage = "sent" /\ d.query = query
      /\ d.base = p.confirmed /\ d.age = -1
  BY DEF Request, DirectorCallFields
<1> HIDE DEF d
<1>2. Harmless(d, p)
  BY <1>1 DEF Harmless, LiveAsks, ReadsNewest
<1> QED BY <1>2 DEF d

\* Calls that were outdated or overtaken: the same ones, with a flag lowered.
Lowered(c, d) ==
  /\ DOMAIN d = DirectorCallFields
  /\ \A f \in DirectorCallFields \ {"live", "newest"} : d[f] = c[f]
  /\ d.live => c.live
  /\ d.newest => c.newest
  /\ c.kind = "create" \/ c.kind = "write" => d = c

LEMMA AllLowered ==
  ASSUME NEW p, NEW cs, NEW sv, DirectorHolds(p, cs, sv), NEW ds,
         \A d \in ds : \E c \in cs : Lowered(c, d)
  PROVE  DirectorHolds(p, ds, sv)
<1>1. \A c, d : Lowered(c, d) => /\ d.kind = c.kind /\ d.query = c.query /\ d.base = c.base
                                 /\ d.age = c.age
  BY DEF Lowered, DirectorCallFields
<1>2. StoredOnes(ds) \subseteq StoredOnes(cs)
  BY <1>1 DEF StoredOnes, Lowered
<1>3. FormKeys(ds, sv.papers) \subseteq FormKeys(cs, sv.papers)
  <2>1. \A d \in ds : d.kind = "create" => d \in cs
    BY <1>1 DEF Lowered
  <2> QED BY <2>1 DEF FormKeys
<1>4. DirectorShape(p, ds, sv)
  BY DEF DirectorHolds, DirectorShape, Lowered
<1>5. OfVisit(p, ds)
  <2>1. \A c, d : Lowered(c, d) /\ LiveAsks(c, p.asked) => LiveAsks(d, p.asked)
    BY <1>1 DEF Lowered, LiveAsks
  <2> QED BY <2>1 DEF DirectorHolds, OfVisit
<1>6. StaffHolds(p, ds, sv.written)
  <2>1. /\ IsFiniteSet(StoredOnes(ds)) /\ Cardinality(StoredOnes(ds)) <= Cardinality(StoredOnes(cs))
        /\ Cardinality(StoredOnes(ds)) \in Nat /\ Cardinality(StoredOnes(cs)) \in Nat
    BY <1>2, FS_Subset, FS_CardinalityType DEF DirectorHolds, StaffHolds
  <2>2. \A c, d : Lowered(c, d) /\ ReadsNewest(c, p.confirmed) => ReadsNewest(d, p.confirmed)
    BY <1>1 DEF Lowered, ReadsNewest
  <2> QED BY <2>1, <2>2 DEF DirectorHolds, StaffHolds
<1>7. FormsHold(p, ds, sv.papers)
  BY <1>3 DEF DirectorHolds, FormsHold
<1> QED BY <1>4, <1>5, <1>6, <1>7 DEF DirectorHolds

LEMMA OutdatedHolds ==
  ASSUME NEW p, NEW cs, NEW sv, DirectorHolds(p, cs, sv)
  PROVE  DirectorHolds(p, Outdated(cs), sv) /\ NoneLive(Outdated(cs))
<1>1. ASSUME NEW d \in Outdated(cs)
      PROVE  (\E c \in cs : Lowered(c, d)) /\ (d.kind = "refresh" => ~d.live)
  <2>1. PICK c \in cs : d = IF c.kind = "refresh" THEN [c EXCEPT !.live = FALSE] ELSE c
    BY DEF Outdated
  <2>2. DOMAIN c = DirectorCallFields
    BY DEF DirectorHolds, DirectorShape
  <2>3. Lowered(c, d) /\ (d.kind = "refresh" => ~d.live)
    BY <2>1, <2>2 DEF Lowered, DirectorCallFields
  <2> QED BY <2>3
<1> QED BY <1>1, AllLowered DEF NoneLive

LEMMA RereadHolds ==
  ASSUME NEW p, NEW cs, NEW sv, DirectorHolds(p, cs, sv)
  PROVE  DirectorHolds(p, Reread(cs), sv)
<1>1. ASSUME NEW d \in Reread(cs)
      PROVE  \E c \in cs : Lowered(c, d)
  <2>1. PICK c \in cs : d = IF c.kind \in {"refresh", "staff"} THEN [c EXCEPT !.newest = FALSE] ELSE c
    BY DEF Reread
  <2>2. DOMAIN c = DirectorCallFields
    BY DEF DirectorHolds, DirectorShape
  <2>3. Lowered(c, d)
    BY <2>1, <2>2 DEF Lowered, DirectorCallFields
  <2> QED BY <2>3
<1> QED BY <1>1, AllLowered

\* The page changes what the invariant says nothing of, hides rows, shows an
\* overview or assessments of the visit, or begins another visit with nothing.
LEMMA Repainted ==
  ASSUME NEW p, NEW cs, NEW sv, DirectorHolds(p, cs, sv), NEW q,
         DOMAIN q = DirectorFields, q.page = p.page,
         q.form = p.form, q.forms = p.forms, q.key = p.key,
         q.confirmed = p.confirmed, q.seen = p.seen,
         q.students = p.students \/ q.students.visit = -1,
         q.staff = p.staff \/ q.staff.visit = -1,
         q.overview \in {p.overview, -1, q.visit}, q.papers \in {p.papers, -1, q.visit},
         \/ q.visit = p.visit
         \/ /\ q.students.visit = -1 /\ q.staff.visit = -1
            /\ q.overview # p.overview \/ q.overview = -1
            /\ q.papers # p.papers \/ q.papers = -1,
         q.asked = p.asked \/ (NoneLive(cs) /\ q.students.visit = -1)
  PROVE  DirectorHolds(q, cs, sv)
<1>1. DirectorShape(q, cs, sv) /\ StaffHolds(q, cs, sv.written) /\ FormsHold(q, cs, sv.papers)
  BY DEF DirectorHolds, DirectorShape, StaffHolds, FormsHold
<1>2. OfVisit(q, cs)
  <2>1. \A c \in cs : LiveAsks(c, q.asked)
    BY DEF DirectorHolds, OfVisit, LiveAsks, NoneLive
  <2>2. {q.students.visit, q.staff.visit, q.overview, q.papers} \subseteq {-1, q.visit}
    BY DEF DirectorHolds, OfVisit
  <2>3. q.students.visit # -1 => q.students.query = q.asked
    BY DEF DirectorHolds, OfVisit
  <2> QED BY <2>1, <2>2, <2>3 DEF OfVisit
<1> QED BY <1>1, <1>2 DEF DirectorHolds

\* Rendering mounts the form, with the next number and a key of its own, or
\* unmounts it.
LEMMA RenderedHolds ==
  ASSUME NEW p, NEW cs, NEW sv, DirectorHolds(p, cs, sv)
  PROVE  DirectorHolds(Rendered(p), cs, sv)
<1> DEFINE mounted == [p EXCEPT !.form = p.forms + 1, !.forms = @ + 1, !.key = @ + 1,
                                !.saving = FALSE]
           closed == [p EXCEPT !.form = 0, !.saving = FALSE]
<1>1. Rendered(p) \in {mounted, p, closed}
  BY DEF Rendered
<1>2. \A q \in {mounted, closed} :
        /\ DOMAIN q = DirectorFields
        /\ q.page = p.page /\ q.visit = p.visit /\ q.students = p.students
        /\ q.staff = p.staff /\ q.overview = p.overview /\ q.papers = p.papers
        /\ q.asked = p.asked /\ q.confirmed = p.confirmed /\ q.seen = p.seen
  BY DEF DirectorHolds, DirectorShape, DirectorFields
<1>3. /\ mounted.form = p.forms + 1 /\ mounted.forms = p.forms + 1
      /\ closed.form = 0 /\ closed.forms = p.forms
  BY DEF DirectorHolds, DirectorShape, DirectorFields
<1> HIDE DEF mounted, closed
<1>4. \A q \in {mounted, closed} :
        DirectorShape(q, cs, sv) /\ OfVisit(q, cs) /\ StaffHolds(q, cs, sv.written)
  BY <1>2 DEF DirectorHolds, DirectorShape, OfVisit, StaffHolds
<1>5. FormsHold(mounted, cs, sv.papers) /\ FormsHold(closed, cs, sv.papers)
  <2> DEFINE keys == FormKeys(cs, sv.papers)
  <2>1. p.forms \in Nat /\ \A x \in keys : x[1] \in 1..p.forms
    BY DEF DirectorHolds, FormsHold
  <2>2. \A x \in keys : x[1] \in 1..(p.forms + 1) /\ x[1] # p.forms + 1 /\ x[1] # 0
    <3> HIDE DEF keys
    <3> QED BY <2>1
  <2> QED BY <1>3, <2>1, <2>2 DEF DirectorHolds, FormsHold
<1> QED BY <1>1, <1>4, <1>5 DEF DirectorHolds

LEMMA DirectorMoves ==
  ASSUME NEW p, NEW cs, DirectorHolds(p, cs, server), server' = server,
         screen' \in {p, Rendered(p)}, calls' \subseteq cs
  PROVE  DirectorInv'
<1>1. DirectorHolds(p, calls', server) /\ DirectorHolds(Rendered(p), calls', server)
  BY FewerCalls, RenderedHolds
<1> QED BY <1>1 DEF DirectorInv

LEMMA AskOverviewHolds ==
  ASSUME NEW p, NEW cs, DirectorHolds(p, cs, server), server' = server, AskOverview(p, cs)
  PROVE  DirectorInv'
<1> DEFINE q == [p EXCEPT !.overview = -1]
           d == Request("overview", p, "", "all")
<1>1. /\ DOMAIN q = DirectorFields
      /\ \A f \in DirectorFields \ {"overview"} : q[f] = p[f]
      /\ q.overview = -1
  BY DEF DirectorHolds, DirectorShape, DirectorFields
<1>2. screen' = Rendered(q) /\ calls' = Without("overview", cs) \cup {d}
  BY DEF AskOverview
<1>3. q.confirmed = p.confirmed
  BY <1>1 DEF DirectorFields
<1> HIDE DEF q
<1>4. DirectorHolds(q, cs, server)
  BY <1>1, Repainted DEF DirectorFields
<1>5. DirectorHolds(q, Without("overview", cs), server)
  BY <1>4, FewerCalls DEF Without
<1>6. Harmless(d, q)
  BY <1>3, Requesting
<1> HIDE DEF d
<1>7. DirectorHolds(q, Without("overview", cs) \cup {d}, server)
  BY <1>5, <1>6, OneMore
<1> QED BY <1>2, <1>7, DirectorMoves

\* A search or a reload: earlier refreshes are outdated, the rows asked for again.
LEMMA RefreshingHolds ==
  ASSUME NEW p, NEW cs, NEW sv, DirectorHolds(p, cs, sv), NEW run, NEW query
  PROVE  DirectorHolds(Asked(p, query), Refreshing(Asked(p, query), cs, run, query), sv)
<1> DEFINE q == Asked(p, query)
           d == Request("refresh", q, run, query)
<1>1. /\ DOMAIN q = DirectorFields
      /\ \A f \in DirectorFields \ {"students", "asked"} : q[f] = p[f]
      /\ q.students.visit = -1 /\ q.asked = query
  BY DEF Asked, DirectorHolds, DirectorShape, DirectorFields
<1>2. Refreshing(q, cs, run, query) = Outdated(cs) \cup {d}
  BY DEF Refreshing
<1> HIDE DEF q
<1>3. DirectorHolds(p, Outdated(cs), sv) /\ NoneLive(Outdated(cs))
  BY OutdatedHolds
<1>4. DirectorHolds(q, Outdated(cs), sv)
  BY <1>1, <1>3, Repainted DEF DirectorFields
<1>5. Harmless(d, q)
  BY <1>1, Requesting
<1> HIDE DEF d
<1>6. DirectorHolds(q, Outdated(cs) \cup {d}, sv)
  BY <1>4, <1>5, OneMore
<1> QED BY <1>2, <1>6 DEF q

\* Another school, or the same one again: nothing of an earlier visit is left.
LEMMA OpenedHolds ==
  ASSUME NEW p, NEW r, NEW cs, DirectorHolds(r, cs, server), server' = server, Opened(p, cs),
         DOMAIN p = DirectorFields, p.page = r.page, p.form = r.form, p.forms = r.forms,
         p.key = r.key, p.confirmed = r.confirmed, p.seen = r.seen
  PROVE  DirectorInv'
<1> DEFINE c == Cleared(p)
           q == Asked(c, "all")
           dropped == Without("papers", Reread(cs))
           first == Refreshing(q, dropped, "", "all")
           a == Request("refresh", q, "", "all")
           d == Request("overview", q, "", "all")
           e == Request("papers", q, "", "all")
<1>1. /\ DOMAIN c = DirectorFields /\ c.page = r.page /\ c.form = r.form /\ c.forms = r.forms
      /\ c.key = r.key /\ c.confirmed = r.confirmed /\ c.seen = r.seen
      /\ c.students.visit = -1 /\ c.staff.visit = -1 /\ c.overview = -1 /\ c.papers = -1
  BY DEF Cleared, NoStaff, DirectorFields
<1> HIDE DEF c
<1>2. /\ DOMAIN q = DirectorFields
      /\ \A f \in DirectorFields \ {"students", "asked"} : q[f] = c[f]
      /\ q.students.visit = -1 /\ q.asked = "all"
  BY <1>1 DEF Asked, DirectorFields
<1>3. screen' = Rendered(q)
      /\ \/ calls' = Without("overview", first) \cup {d}
         \/ calls' = (Without("overview", first) \cup {d}) \cup {e}
  BY DEF Opened, c
<1>4. first = Outdated(dropped) \cup {a}
  BY DEF Refreshing
<1> HIDE DEF q
<1>5. DirectorHolds(r, dropped, server)
  BY RereadHolds, FewerCalls DEF Without
<1> HIDE DEF dropped
<1>6. DirectorHolds(r, Outdated(dropped), server) /\ NoneLive(Outdated(dropped))
  BY <1>5, OutdatedHolds
<1>7. DirectorHolds(q, Outdated(dropped), server)
  BY <1>1, <1>2, <1>6, Repainted DEF DirectorFields
<1>8. Harmless(a, q) /\ Harmless(d, q) /\ Harmless(e, q)
  BY <1>2, Requesting
<1> HIDE DEF first, a, d, e
<1>9. DirectorHolds(q, first, server)
  BY <1>4, <1>7, <1>8, OneMore
<1>10. DirectorHolds(q, Without("overview", first), server)
  BY <1>9, FewerCalls DEF Without
<1>11. DirectorHolds(q, Without("overview", first) \cup {d}, server)
  BY <1>8, <1>10, OneMore
<1>12. DirectorHolds(q, (Without("overview", first) \cup {d}) \cup {e}, server)
  BY <1>8, <1>11, OneMore
<1> QED BY <1>3, <1>11, <1>12, DirectorMoves

-----------------------------------------------------------------------------
\* The steps of the page.

LEMMA DirectorStart == DirectorInit => DirectorInv
<1> SUFFICES ASSUME DirectorInit PROVE DirectorInv
  OBVIOUS
<1> DEFINE p == EmptyDirector
           d == Request("contexts", p, "", "all")
           sv == [written |-> 0, papers |-> {}]
<1>1. /\ DOMAIN p = DirectorFields /\ p.page = "director" /\ p.visit = 0
      /\ p.students.visit = -1 /\ p.staff.visit = -1 /\ p.overview = -1 /\ p.papers = -1
      /\ p.confirmed = 0 /\ p.seen = 0 /\ p.forms = 0 /\ p.form = 0 /\ p.key = 0
  BY DEF EmptyDirector, DirectorFields, NoStaff
<1>2. screen = p /\ calls = {} \cup {d} /\ server = sv
  BY DEF DirectorInit
<1>3. DOMAIN sv = {"written", "papers"} /\ sv.written = 0 /\ sv.papers = {}
  OBVIOUS
<1> HIDE DEF p, sv
<1>4. StoredOnes({}) = {} /\ FormKeys({}, {}) = {}
  BY DEF StoredOnes, FormKeys
<1>5. DirectorHolds(p, {}, sv)
  <2>1. DirectorShape(p, {}, sv) /\ OfVisit(p, {}) /\ FormsHold(p, {}, {})
    BY <1>1, <1>3, <1>4 DEF DirectorShape, OfVisit, FormsHold
  <2>2. StaffHolds(p, {}, 0)
    BY <1>1, <1>4, FS_EmptySet DEF StaffHolds
  <2> QED BY <1>3, <2>1, <2>2 DEF DirectorHolds
<1>6. Harmless(d, p)
  BY Requesting
<1> HIDE DEF d
<1>7. DirectorHolds(p, {} \cup {d}, sv)
  BY <1>5, <1>6, OneMore
<1> QED BY <1>2, <1>7 DEF DirectorInv

LEMMA AccountReadStep ==
  ASSUME DirectorInv, NEW b \in BOOLEAN, AccountRead(b)
  PROVE  DirectorInv'
<1>1. PICK school : school = IF b THEN screen.school ELSE "none"
  OBVIOUS
<1> DEFINE c == Cleared(screen)
           q == [c EXCEPT !.known = {}, !.visit = @ + 1, !.school = school]
           open == Without("overview", Without("papers", Without("contexts", calls)))
           rest == Outdated(Reread(open))
           d == Request("contexts", q, "", "all")
<1>2. /\ DOMAIN c = DirectorFields /\ c.school = screen.school
      /\ \A f \in {"page", "form", "forms", "key", "confirmed", "seen"} : c[f] = screen[f]
      /\ c.students.visit = -1 /\ c.staff.visit = -1 /\ c.overview = -1 /\ c.papers = -1
  BY DEF Cleared, NoStaff, DirectorInv, DirectorHolds, DirectorShape, DirectorFields
<1> HIDE DEF c
<1>3. /\ DOMAIN q = DirectorFields
      /\ \A f \in DirectorFields \ {"known", "visit", "school"} : q[f] = c[f]
      /\ q = [c EXCEPT !.known = {}, !.visit = @ + 1, !.school = IF b THEN @ ELSE "none"]
  BY <1>1, <1>2 DEF DirectorFields
<1>4. screen' = Rendered(q) /\ calls' \in {rest, rest \cup {d}} /\ server' = server
  BY <1>3 DEF AccountRead, c
<1> HIDE DEF q
<1>5. DirectorHolds(screen, open, server)
  BY FewerCalls DEF DirectorInv, Without
<1> HIDE DEF open
<1>6. DirectorHolds(screen, Reread(open), server)
  BY <1>5, RereadHolds
<1>7. DirectorHolds(screen, rest, server) /\ NoneLive(rest)
  BY <1>6, OutdatedHolds
<1> HIDE DEF rest
<1>8. DirectorHolds(q, rest, server)
  BY <1>2, <1>3, <1>7, Repainted DEF DirectorFields
<1>9. Harmless(d, q)
  BY Requesting
<1> HIDE DEF d
<1>10. DirectorHolds(q, rest \cup {d}, server)
  BY <1>8, <1>9, OneMore
<1> QED BY <1>4, <1>8, <1>10, DirectorMoves

LEMMA ContextsStep ==
  ASSUME DirectorInv, NEW c \in calls, ContextsArrive(c) \/ ContextsFail(c)
  PROVE  DirectorInv'
<1>1. CASE ContextsArrive(c)
  <2>1. PICK known, school :
          LET p == [screen EXCEPT !.known = known, !.school = school]
          IN IF known = {} THEN screen' = p /\ Ended(c) ELSE Opened(p, calls \ {c})
    BY <1>1 DEF ContextsArrive
  <2> DEFINE p == [screen EXCEPT !.known = known, !.school = school]
  <2>2. /\ DOMAIN p = DirectorFields
        /\ \A f \in DirectorFields \ {"known", "school"} : p[f] = screen[f]
    BY DEF DirectorInv, DirectorHolds, DirectorShape, DirectorFields
  <2>3. (screen' = p /\ Ended(c)) \/ Opened(p, calls \ {c})
    BY <2>1
  <2>4. server' = server /\ DirectorHolds(screen, calls \ {c}, server)
    BY <1>1, FewerCalls DEF ContextsArrive, DirectorInv
  <2> HIDE DEF p
  <2>5. CASE screen' = p /\ Ended(c)
    <3>1. DirectorHolds(p, calls, server)
      BY <2>2, Repainted DEF DirectorInv, DirectorFields
    <3> QED BY <2>4, <2>5, <3>1, DirectorMoves DEF Ended
  <2>6. CASE Opened(p, calls \ {c})
    BY <2>2, <2>4, <2>6, OpenedHolds DEF DirectorFields
  <2> QED BY <2>3, <2>5, <2>6
<1>2. CASE ContextsFail(c)
  BY <1>2, DirectorMoves DEF ContextsFail, Ended, DirectorInv
<1> QED BY <1>1, <1>2

LEMMA ChangeSchoolStep ==
  ASSUME DirectorInv, NEW s, ChangeSchool(s)
  PROVE  DirectorInv'
<1> DEFINE p == [screen EXCEPT !.school = s, !.visit = @ + 1, !.section = "people"]
<1>1. /\ DOMAIN p = DirectorFields
      /\ \A f \in DirectorFields \ {"school", "visit", "section"} : p[f] = screen[f]
  BY DEF DirectorInv, DirectorHolds, DirectorShape, DirectorFields
<1>2. Opened(p, calls) /\ server' = server
  BY DEF ChangeSchool
<1> HIDE DEF p
<1> QED BY <1>1, <1>2, OpenedHolds DEF DirectorFields, DirectorInv

LEMMA SelectSectionStep ==
  ASSUME DirectorInv, NEW s, SelectSection(s)
  PROVE  DirectorInv'
<1> DEFINE p == [screen EXCEPT !.section = s, !.papers = -1]
           rest == Without("papers", calls)
           d == Request("papers", p, "", "all")
<1>1. /\ DOMAIN p = DirectorFields /\ p.papers = -1
      /\ \A f \in DirectorFields \ {"section", "papers"} : p[f] = screen[f]
  BY DEF DirectorInv, DirectorHolds, DirectorShape, DirectorFields
<1>2. screen' = Rendered(p) /\ calls' \in {rest, rest \cup {d}} /\ server' = server
  BY DEF SelectSection
<1> HIDE DEF p
<1>3. DirectorHolds(screen, rest, server)
  BY FewerCalls DEF DirectorInv, Without
<1>4. DirectorHolds(p, rest, server)
  BY <1>1, <1>3, Repainted DEF DirectorFields
<1>5. Harmless(d, p)
  BY Requesting
<1> HIDE DEF d, rest
<1>6. DirectorHolds(p, rest \cup {d}, server)
  BY <1>4, <1>5, OneMore
<1> QED BY <1>2, <1>4, <1>6, DirectorMoves

LEMMA SearchStudentsStep ==
  ASSUME DirectorInv, NEW query, SearchStudents(query)
  PROVE  DirectorInv'
<1> DEFINE q == Asked(screen, query)
           next == Refreshing(q, calls, "", query)
<1>1. DirectorHolds(q, next, server)
  BY RefreshingHolds DEF DirectorInv
<1>2. screen' = q /\ calls' = next /\ server' = server
  BY DEF SearchStudents
<1> HIDE DEF q, next
<1> QED BY <1>1, <1>2, DirectorMoves

LEMMA RowsReloadedStep ==
  ASSUME DirectorInv, NEW c \in calls, RowsReloaded(c)
  PROVE  DirectorInv'
<1> DEFINE q == Asked(screen, c.query)
           next == Refreshing(q, calls \ {c}, c.run, c.query)
<1>1. DirectorHolds(screen, calls \ {c}, server)
  BY FewerCalls DEF DirectorInv
<1>2. DirectorHolds(q, next, server)
  BY <1>1, RefreshingHolds
<1>3. screen' = q /\ calls' = next /\ server' = server
  BY DEF RowsReloaded
<1> HIDE DEF q, next
<1> QED BY <1>2, <1>3, DirectorMoves

\* The server reads: it has taken every assignment the page was told of.
LEMMA RefreshReadsStep ==
  ASSUME DirectorInv, NEW c \in calls, RefreshReads(c)
  PROVE  DirectorInv'
<1> DEFINE d == [c EXCEPT !.age = server.written]
<1>1. screen' = screen /\ server' = server /\ calls' = (calls \ {c}) \cup {d}
      /\ c.kind \in {"refresh", "staff"}
  BY DEF RefreshReads
<1>2. /\ DOMAIN d = DirectorCallFields /\ d.age = server.written
      /\ \A f \in DirectorCallFields \ {"age"} : d[f] = c[f]
  BY DEF DirectorInv, DirectorHolds, DirectorShape, DirectorCallFields
<1> HIDE DEF d
<1>3. server.written \in Nat /\ server.written >= screen.confirmed /\ ReadsNewest(c, screen.confirmed)
  <2>1. Cardinality(StoredOnes(calls)) \in Nat
    BY FS_CardinalityType DEF DirectorInv, DirectorHolds, StaffHolds
  <2> QED BY <2>1 DEF DirectorInv, DirectorHolds, StaffHolds
<1>4. ReadsNewest(d, screen.confirmed)
  BY <1>1, <1>2, <1>3 DEF ReadsNewest, DirectorCallFields
<1>5. LiveAsks(d, screen.asked)
  BY <1>2 DEF LiveAsks, DirectorCallFields, DirectorInv, DirectorHolds, OfVisit
<1>6. d.kind # "create" /\ d.kind # "write"
  BY <1>1, <1>2 DEF DirectorCallFields
<1>7. StoredOnes(calls') \subseteq StoredOnes(calls)
  BY <1>1, <1>6 DEF StoredOnes
<1>8. FormKeys(calls', server.papers) \subseteq FormKeys(calls, server.papers)
  BY <1>1, <1>6 DEF FormKeys
<1>9. DirectorShape(screen, calls', server) /\ OfVisit(screen, calls')
  BY <1>1, <1>2, <1>5 DEF DirectorInv, DirectorHolds, DirectorShape, OfVisit
<1>10. StaffHolds(screen, calls', server.written)
  <2>1. /\ IsFiniteSet(StoredOnes(calls')) /\ Cardinality(StoredOnes(calls')) \in Nat
        /\ Cardinality(StoredOnes(calls)) \in Nat
        /\ Cardinality(StoredOnes(calls')) <= Cardinality(StoredOnes(calls))
    BY <1>7, FS_Subset, FS_CardinalityType DEF DirectorInv, DirectorHolds, StaffHolds
  <2> QED BY <1>1, <1>4, <2>1 DEF DirectorInv, DirectorHolds, StaffHolds
<1>11. FormsHold(screen, calls', server.papers)
  BY <1>8 DEF DirectorInv, DirectorHolds, FormsHold
<1> QED BY <1>1, <1>9, <1>10, <1>11 DEF DirectorInv, DirectorHolds

\* The end of run(), with whatever was adopted before.
LEMMA RunEndsHolds ==
  ASSUME NEW p, NEW c, DirectorHolds(p, calls, server), server' = server, RunEnds(p, c)
  PROVE  DirectorInv'
<1> DEFINE q == [p EXCEPT !.pending = ""]
<1>1. DOMAIN q = DirectorFields /\ \A f \in DirectorFields \ {"pending"} : q[f] = p[f]
  BY DEF DirectorHolds, DirectorShape, DirectorFields
<1>2. AskOverview(q, calls \ {c}) \/ (screen' = p /\ calls' = calls \ {c})
  BY DEF RunEnds, Ended
<1> HIDE DEF q
<1>3. DirectorHolds(q, calls, server)
  BY <1>1, Repainted DEF DirectorFields
<1>4. DirectorHolds(q, calls \ {c}, server)
  BY <1>3, FewerCalls
<1> QED BY <1>2, <1>4, AskOverviewHolds, DirectorMoves

\* Teachers and assignments are adopted from a read that began after every
\* announced assignment; the page then knows what it has shown.
LEMMA AdoptsHolds ==
  ASSUME NEW p, DirectorHolds(p, calls, server), NEW c \in calls, c.visit = p.visit,
         c.kind \in {"refresh", "staff"}, c.age # -1
  PROVE  DirectorHolds(AdoptsStaff(p, c), calls, server)
<1>1. PICK seen : seen = IF c.kind = "staff" /\ c.base > p.seen THEN c.base ELSE p.seen
  OBVIOUS
<1> DEFINE staff == [visit |-> c.visit, age |-> c.age]
           q == [p EXCEPT !.staff = staff, !.seen = seen]
<1>2. /\ DOMAIN q = DirectorFields /\ q.staff = staff /\ q.seen = seen
      /\ \A f \in DirectorFields \ {"staff", "seen"} : q[f] = p[f]
  BY DEF DirectorHolds, DirectorShape, DirectorFields
<1>3. AdoptsStaff(p, c) = IF ~c.newest THEN p ELSE q
  <2>1. q = [p EXCEPT !.staff = staff,
                      !.seen = IF c.kind = "staff" /\ c.base > @ THEN c.base ELSE @]
    BY <1>1 DEF DirectorHolds, DirectorShape, DirectorFields
  <2> HIDE DEF q
  <2> QED BY <2>1 DEF AdoptsStaff
<1> HIDE DEF q
<1>4. CASE c.newest
  <2>1. c.base = p.confirmed /\ c.age \in Nat /\ c.age >= p.confirmed
    BY <1>4 DEF DirectorHolds, StaffHolds, ReadsNewest
  <2>2. staff.visit = c.visit /\ staff.age = c.age
    OBVIOUS
  <2> HIDE DEF staff
  <2>3. seen \in Nat /\ seen <= p.confirmed
    BY <1>1, <2>1 DEF DirectorHolds, StaffHolds
  <2>4. DirectorShape(q, calls, server) /\ FormsHold(q, calls, server.papers)
    BY <1>2 DEF DirectorHolds, DirectorShape, FormsHold, DirectorFields
  <2>5. OfVisit(q, calls)
    BY <1>2, <2>2 DEF DirectorHolds, OfVisit, DirectorFields
  <2>6. StaffHolds(q, calls, server.written)
    <3>1. q.confirmed = p.confirmed
      BY <1>2 DEF DirectorFields
    <3>2. c.age >= seen
      BY <2>1, <2>3 DEF DirectorHolds, StaffHolds
    <3>3. /\ server.written \in Nat /\ q.confirmed \in Nat /\ q.seen \in Nat
          /\ q.seen <= q.confirmed
      BY <1>2, <2>3, <3>1 DEF DirectorHolds, StaffHolds
    <3>6. q.staff.age >= q.seen
      BY <1>2, <2>2, <3>2
    <3>4. \A d \in calls : ReadsNewest(d, q.confirmed)
      BY <3>1 DEF DirectorHolds, StaffHolds
    <3>5. IsFiniteSet(StoredOnes(calls))
          /\ q.confirmed + Cardinality(StoredOnes(calls)) <= server.written
      BY <3>1 DEF DirectorHolds, StaffHolds
    <3> QED BY <3>3, <3>4, <3>5, <3>6 DEF StaffHolds
  <2>7. DirectorHolds(q, calls, server)
    BY <2>4, <2>5, <2>6 DEF DirectorHolds
  <2> QED BY <1>3, <1>4, <2>7
<1> QED BY <1>3, <1>4

LEMMA RefreshArrivesStep ==
  ASSUME DirectorInv, NEW c \in calls, RefreshArrives(c)
  PROVE  DirectorInv'
<1> DEFINE p == [screen EXCEPT !.students = [visit |-> c.visit, query |-> c.query]]
<1>1. /\ server' = server /\ c.kind = "refresh" /\ c.age # -1
      /\ \/ RunEnds(screen, c)
         \/ c.live /\ c.visit = screen.visit /\ RunEnds(AdoptsStaff(p, c), c)
  BY DEF RefreshArrives, Here
<1>2. CASE c.live /\ c.visit = screen.visit /\ RunEnds(AdoptsStaff(p, c), c)
  <2>1. /\ DOMAIN p = DirectorFields /\ p.students.visit = c.visit /\ p.students.query = c.query
        /\ \A f \in DirectorFields \ {"students"} : p[f] = screen[f]
    BY DEF DirectorInv, DirectorHolds, DirectorShape, DirectorFields
  <2> HIDE DEF p
  <2>2. c.query = screen.asked
    BY <1>1, <1>2 DEF DirectorInv, DirectorHolds, OfVisit, LiveAsks
  <2>3. DirectorShape(p, calls, server) /\ FormsHold(p, calls, server.papers)
        /\ StaffHolds(p, calls, server.written)
    BY <2>1 DEF DirectorInv, DirectorHolds, DirectorShape, FormsHold, StaffHolds, DirectorFields
  <2>4. OfVisit(p, calls)
    BY <1>2, <2>1, <2>2 DEF DirectorInv, DirectorHolds, OfVisit, DirectorFields
  <2>5. DirectorHolds(p, calls, server) /\ p.visit = c.visit
    BY <1>2, <2>1, <2>3, <2>4 DEF DirectorHolds, DirectorFields
  <2>6. DirectorHolds(AdoptsStaff(p, c), calls, server)
    BY <1>1, <2>5, AdoptsHolds
  <2> QED BY <1>1, <1>2, <2>6, RunEndsHolds
<1> QED BY <1>1, <1>2, RunEndsHolds DEF DirectorInv

LEMMA StaffArrivesStep ==
  ASSUME DirectorInv, NEW c \in calls, StaffArrives(c)
  PROVE  DirectorInv'
<1>1. /\ server' = server /\ c.kind = "staff" /\ c.age # -1
      /\ \/ RunEnds(screen, c)
         \/ c.visit = screen.visit /\ RunEnds(AdoptsStaff(screen, c), c)
  BY DEF StaffArrives, Here
<1> QED BY <1>1, AdoptsHolds, RunEndsHolds DEF DirectorInv

\* A change of the page alone, with one call over or not.
LEMMA OnlyPage ==
  ASSUME DirectorInv, NEW q, DOMAIN q = DirectorFields,
         \A f \in DirectorFields \ {"pending", "overview", "papers", "show", "saving", "made"} :
           q[f] = screen[f],
         q.overview \in {screen.overview, -1, screen.visit},
         q.papers \in {screen.papers, -1, screen.visit}
  PROVE  DirectorHolds(q, calls, server)
BY Repainted DEF DirectorInv, DirectorFields

LEMMA DirectorAnswerStep ==
  ASSUME DirectorInv, NEW c \in calls,
         ReadFails(c) \/ OverviewArrives(c) \/ PapersArrive(c) \/ RowWritten(c) \/ RunFails(c)
  PROVE  DirectorInv'
<1> DEFINE freed == [screen EXCEPT !.pending = ""]
           known == [screen EXCEPT !.overview = c.visit]
           listed == [screen EXCEPT !.papers = c.visit]
<1>1. /\ server' = server
      /\ \/ RunEnds(screen, c)
         \/ calls' = calls \ {c} /\ screen' \in {screen, freed}
         \/ c.visit = screen.visit /\ calls' = calls \ {c}
            /\ screen' \in {known, Rendered(listed)}
  BY DEF ReadFails, OverviewArrives, PapersArrive, RowWritten, RunFails, Ended, Here
<1>2. /\ DOMAIN freed = DirectorFields /\ \A f \in DirectorFields \ {"pending"} : freed[f] = screen[f]
      /\ DOMAIN known = DirectorFields /\ \A f \in DirectorFields \ {"overview"} : known[f] = screen[f]
      /\ DOMAIN listed = DirectorFields /\ \A f \in DirectorFields \ {"papers"} : listed[f] = screen[f]
      /\ known.overview = c.visit /\ listed.papers = c.visit
  BY DEF DirectorInv, DirectorHolds, DirectorShape, DirectorFields
<1> HIDE DEF freed, known, listed
<1>3. DirectorHolds(freed, calls, server)
  BY <1>2, OnlyPage DEF DirectorFields
<1>4. c.visit = screen.visit => DirectorHolds(known, calls, server)
  BY <1>2, OnlyPage DEF DirectorFields
<1>5. c.visit = screen.visit => DirectorHolds(listed, calls, server)
  BY <1>2, OnlyPage DEF DirectorFields
<1> QED BY <1>1, <1>3, <1>4, <1>5, RunEndsHolds, DirectorMoves DEF DirectorInv

LEMMA RunWriteStep ==
  ASSUME DirectorInv, NEW what, RunWrite(what)
  PROVE  DirectorInv'
<1> DEFINE q == [screen EXCEPT !.pending = what, !.made = @ + 1]
           d == [Request("write", screen, what, screen.asked) EXCEPT !.n = screen.made]
<1>1. screen' = q /\ calls' = calls \cup {d} /\ server' = server
  BY DEF RunWrite
<1>2. DOMAIN q = DirectorFields /\ \A f \in DirectorFields \ {"pending", "made"} : q[f] = screen[f]
  BY DEF DirectorInv, DirectorHolds, DirectorShape, DirectorFields
<1>3. DOMAIN d = DirectorCallFields /\ d.kind = "write" /\ d.stage = "sent"
  BY DEF Request, DirectorCallFields
<1> HIDE DEF q, d
<1>4. DirectorHolds(q, calls, server)
  BY <1>2, OnlyPage DEF DirectorFields
<1>5. Harmless(d, q)
  BY <1>3 DEF Harmless, LiveAsks, ReadsNewest
<1>6. DirectorHolds(q, calls \cup {d}, server)
  BY <1>4, <1>5, OneMore
<1> QED BY <1>1, <1>6, DirectorMoves

\* An assignment is stored: one more that the page is about to hear of.
LEMMA WriteStoredStep ==
  ASSUME DirectorInv, NEW c \in calls, WriteStored(c)
  PROVE  DirectorInv'
<1> DEFINE d == [c EXCEPT !.stage = "stored"]
<1>1. screen' = screen /\ c.kind = "write" /\ c.stage = "sent" /\ calls' = (calls \ {c}) \cup {d}
      /\ server' = IF c.run = "assignment" THEN [server EXCEPT !.written = @ + 1] ELSE server
  BY DEF WriteStored, Advances
<1>2. DOMAIN d = DirectorCallFields /\ \A f \in DirectorCallFields \ {"stage"} : d[f] = c[f]
  BY DEF DirectorInv, DirectorHolds, DirectorShape, DirectorCallFields
<1> HIDE DEF d
<1>3. d.kind = "write" /\ d.run = c.run
  BY <1>1, <1>2 DEF DirectorCallFields
<1>4. /\ DOMAIN server' = {"written", "papers"} /\ server'.papers = server.papers
      /\ server'.written = IF c.run = "assignment" THEN server.written + 1 ELSE server.written
  BY <1>1 DEF DirectorInv, DirectorHolds, DirectorShape
<1>5. DirectorShape(screen, calls', server') /\ OfVisit(screen, calls')
  BY <1>1, <1>2, <1>3, <1>4 DEF DirectorInv, DirectorHolds, DirectorShape, OfVisit, LiveAsks
<1>6. FormsHold(screen, calls', server'.papers)
  <2>1. FormKeys(calls', server'.papers) \subseteq FormKeys(calls, server.papers)
    BY <1>1, <1>3, <1>4 DEF FormKeys
  <2> QED BY <1>4, <2>1 DEF DirectorInv, DirectorHolds, FormsHold
<1>7. StaffHolds(screen, calls', server'.written)
  <2> DEFINE before == StoredOnes(calls)
  <2>1. IsFiniteSet(before) /\ screen.confirmed + Cardinality(before) <= server.written
        /\ screen.confirmed \in Nat /\ server.written \in Nat
    BY DEF DirectorInv, DirectorHolds, StaffHolds
  <2>2. StoredOnes(calls') \in SUBSET (IF c.run = "assignment" THEN before \cup {d} ELSE before)
    BY <1>1, <1>3 DEF StoredOnes
  <2> HIDE DEF before
  <2>3. /\ IsFiniteSet(before \cup {d}) /\ Cardinality(before) \in Nat
        /\ Cardinality(before \cup {d}) \in Nat
        /\ Cardinality(before \cup {d}) <= Cardinality(before) + 1
    <3>1. IsFiniteSet(before \cup {d})
          /\ Cardinality(before \cup {d}) \in {Cardinality(before), Cardinality(before) + 1}
      BY <2>1, FS_AddElement
    <3>2. Cardinality(before) \in Nat /\ Cardinality(before \cup {d}) \in Nat
      BY <2>1, <3>1, FS_CardinalityType
    <3> QED BY <3>1, <3>2
  <2>4. /\ IsFiniteSet(StoredOnes(calls')) /\ Cardinality(StoredOnes(calls')) \in Nat
        /\ Cardinality(StoredOnes(calls')) <=
             IF c.run = "assignment" THEN Cardinality(before) + 1 ELSE Cardinality(before)
    <3>1. CASE c.run = "assignment"
      <4>1. /\ IsFiniteSet(StoredOnes(calls'))
            /\ Cardinality(StoredOnes(calls')) <= Cardinality(before \cup {d})
        BY <2>2, <2>3, <3>1, FS_Subset
      <4>2. Cardinality(StoredOnes(calls')) \in Nat
        BY <4>1, FS_CardinalityType
      <4> QED BY <2>3, <3>1, <4>1, <4>2
    <3>2. CASE c.run # "assignment"
      BY <2>1, <2>2, <3>2, FS_Subset, FS_CardinalityType
    <3> QED BY <3>1, <3>2
  <2>5. screen.confirmed + Cardinality(StoredOnes(calls')) <= server'.written
        /\ server'.written \in Nat
    BY <1>4, <2>1, <2>3, <2>4
  <2>6. \A e \in calls' : ReadsNewest(e, screen.confirmed)
    BY <1>1, <1>3 DEF DirectorInv, DirectorHolds, StaffHolds, ReadsNewest
  <2> QED BY <1>1, <2>4, <2>5, <2>6 DEF DirectorInv, DirectorHolds, StaffHolds
<1> QED BY <1>1, <1>5, <1>6, <1>7 DEF DirectorInv, DirectorHolds

\* The page hears of an assignment: earlier reads are overtaken by a new one.
LEMMA TeachersReloadedStep ==
  ASSUME DirectorInv, NEW c \in calls, TeachersReloaded(c)
  PROVE  DirectorInv'
<1> DEFINE p == [screen EXCEPT !.confirmed = @ + 1]
           d == [Request("staff", p, c.run, "all") EXCEPT !.visit = c.visit]
           rest == Reread(calls \ {c})
<1>1. /\ c \in StoredOnes(calls) /\ server' = server /\ screen' = p
      /\ calls' = rest \cup {d}
  BY DEF TeachersReloaded, StoredOnes
<1>2. /\ DOMAIN p = DirectorFields /\ p.confirmed = screen.confirmed + 1
      /\ \A f \in DirectorFields \ {"confirmed"} : p[f] = screen[f]
  BY DEF DirectorInv, DirectorHolds, DirectorShape, DirectorFields
<1>3. /\ DOMAIN d = DirectorCallFields /\ d.kind = "staff" /\ d.stage = "sent"
      /\ d.base = p.confirmed /\ d.age = -1
  BY DEF Request, DirectorCallFields
<1> HIDE DEF p, d
<1>4. DirectorHolds(screen, calls \ {c}, server)
  BY FewerCalls DEF DirectorInv
<1>5. DirectorHolds(screen, rest, server)
  BY <1>4, RereadHolds
<1>6. ASSUME NEW e \in rest PROVE (e.kind \in {"refresh", "staff"} => ~e.newest)
                                 /\ (e.kind = "write" => e \in calls \ {c})
  <2>1. PICK b \in calls \ {c} : e = IF b.kind \in {"refresh", "staff"}
                                      THEN [b EXCEPT !.newest = FALSE] ELSE b
    BY DEF Reread
  <2>2. DOMAIN b = DirectorCallFields
    BY DEF DirectorInv, DirectorHolds, DirectorShape
  <2>3. CASE b.kind \in {"refresh", "staff"}
    <3>1. e.kind = b.kind /\ ~e.newest
      BY <2>1, <2>2, <2>3 DEF DirectorCallFields
    <3> QED BY <2>3, <3>1
  <2>4. CASE b.kind \notin {"refresh", "staff"}
    BY <2>1, <2>4
  <2> QED BY <2>3, <2>4
<1> HIDE DEF rest
<1>7. DirectorShape(p, rest \cup {d}, server) /\ OfVisit(p, rest \cup {d})
  BY <1>2, <1>3, <1>5 DEF DirectorHolds, DirectorShape, OfVisit, LiveAsks, DirectorFields
<1>8. FormsHold(p, rest \cup {d}, server.papers)
  <2>1. FormKeys(rest \cup {d}, server.papers) = FormKeys(rest, server.papers)
    BY <1>3 DEF FormKeys
  <2>2. p.form = screen.form /\ p.forms = screen.forms /\ p.key = screen.key
    BY <1>2 DEF DirectorFields
  <2> QED BY <1>5, <2>1, <2>2 DEF DirectorHolds, FormsHold
<1>9. StaffHolds(p, rest \cup {d}, server.written)
  <2> DEFINE before == StoredOnes(calls)
  <2>1. IsFiniteSet(before) /\ screen.confirmed + Cardinality(before) <= server.written
        /\ screen.confirmed \in Nat /\ server.written \in Nat /\ c \in before
    BY <1>1 DEF DirectorInv, DirectorHolds, StaffHolds
  <2>2. StoredOnes(rest \cup {d}) \in SUBSET (before \ {c})
    BY <1>3, <1>6 DEF StoredOnes
  <2> HIDE DEF before
  <2>3. /\ IsFiniteSet(before \ {c}) /\ Cardinality(before) \in Nat
        /\ Cardinality(before \ {c}) = Cardinality(before) - 1
    <3>1. IsFiniteSet(before \ {c}) /\ Cardinality(before \ {c}) = Cardinality(before) - 1
      BY <2>1, FS_RemoveElement
    <3> QED BY <2>1, <3>1, FS_CardinalityType
  <2>4. /\ IsFiniteSet(StoredOnes(rest \cup {d})) /\ Cardinality(StoredOnes(rest \cup {d})) \in Nat
        /\ Cardinality(StoredOnes(rest \cup {d})) <= Cardinality(before) - 1
    <3>1. /\ IsFiniteSet(StoredOnes(rest \cup {d}))
          /\ Cardinality(StoredOnes(rest \cup {d})) <= Cardinality(before \ {c})
      BY <2>2, <2>3, FS_Subset
    <3>2. Cardinality(StoredOnes(rest \cup {d})) \in Nat
      BY <3>1, FS_CardinalityType
    <3> QED BY <2>3, <3>1, <3>2
  <2>5. p.confirmed + Cardinality(StoredOnes(rest \cup {d})) <= server.written
        /\ p.confirmed \in Nat
    BY <1>2, <2>1, <2>3, <2>4
  <2>6. \A e \in rest \cup {d} : ReadsNewest(e, p.confirmed)
    BY <1>3, <1>6 DEF ReadsNewest
  <2>7. p.seen \in Nat /\ p.seen <= p.confirmed /\ (p.staff.visit # -1 => p.staff.age >= p.seen)
    BY <1>2, <2>1 DEF DirectorInv, DirectorHolds, StaffHolds, DirectorFields
  <2> QED BY <2>1, <2>4, <2>5, <2>6, <2>7 DEF StaffHolds
<1> QED BY <1>1, <1>7, <1>8, <1>9 DEF DirectorInv, DirectorHolds

LEMMA ToggleCreatorStep ==
  ASSUME DirectorInv, ToggleCreator
  PROVE  DirectorInv'
<1> DEFINE q == [screen EXCEPT !.show = ~@]
<1>1. screen' = Rendered(q) /\ calls' = calls /\ server' = server
  BY DEF ToggleCreator
<1>2. DOMAIN q = DirectorFields /\ \A f \in DirectorFields \ {"show"} : q[f] = screen[f]
  BY DEF DirectorInv, DirectorHolds, DirectorShape, DirectorFields
<1> HIDE DEF q
<1>3. DirectorHolds(q, calls, server)
  BY <1>2, OnlyPage DEF DirectorFields
<1> QED BY <1>1, <1>3, DirectorMoves

\* A submission goes with the form's number and key.
LEMMA SubmitFormStep ==
  ASSUME DirectorInv, SubmitForm
  PROVE  DirectorInv'
<1> DEFINE p == Submission(screen)
           q == [p EXCEPT !.submits = @ + 1]
           d == [Request("create", screen, "", "all") EXCEPT !.n = screen.form, !.key = p.key]
<1>1. screen' = q /\ calls' = calls \cup {d} /\ server' = server /\ screen.form # 0
  BY DEF SubmitForm
<1>2. DOMAIN q = DirectorFields /\ \A f \in DirectorFields \ {"saving", "submits"} : q[f] = screen[f]
  BY DEF DirectorInv, DirectorHolds, DirectorShape, DirectorFields, Submission
<1>3. p.key = screen.key
  BY DEF DirectorInv, DirectorHolds, DirectorShape, DirectorFields, Submission
<1>4. /\ DOMAIN d = DirectorCallFields /\ d.kind = "create" /\ d.stage = "sent"
      /\ d.n = screen.form /\ d.key = screen.key
  BY <1>3 DEF Request, DirectorCallFields
<1> HIDE DEF p, q, d
<1>5. DirectorHolds(q, calls, server)
  BY <1>2, Repainted DEF DirectorInv, DirectorFields
<1>6. DirectorShape(q, calls \cup {d}, server) /\ OfVisit(q, calls \cup {d})
  BY <1>4, <1>5 DEF DirectorHolds, DirectorShape, OfVisit, LiveAsks
<1>7. StaffHolds(q, calls \cup {d}, server.written)
  <2>1. StoredOnes(calls \cup {d}) = StoredOnes(calls)
    BY <1>4 DEF StoredOnes
  <2> QED BY <1>4, <1>5, <2>1 DEF DirectorHolds, StaffHolds, ReadsNewest
<1>8. FormsHold(q, calls \cup {d}, server.papers)
  <2> DEFINE k == <<screen.form, screen.key>>
             keys == FormKeys(calls, server.papers)
             more == FormKeys(calls \cup {d}, server.papers)
  <2>1. more = keys \cup {k}
    BY <1>4 DEF FormKeys
  <2>2. q.form = screen.form /\ q.forms = screen.forms /\ q.key = screen.key
    BY <1>2 DEF DirectorFields
  <2>3. k[1] = screen.form /\ k[2] = screen.key /\ \A x \in keys : x = <<x[1], x[2]>>
    BY DEF FormKeys
  <2>4. /\ q.forms \in Nat /\ q.form \in {0, q.forms}
        /\ \A a \in server.papers : a = [form |-> a.form, key |-> a.key]
        /\ \A x \in keys : x[1] \in 1..q.forms /\ (x[1] = q.form => x[2] = q.key)
        /\ \A x, y \in keys : x[1] = y[1] => x = y
    BY <1>5 DEF DirectorHolds, FormsHold
  <2>5. \A x \in keys : x[1] = k[1] => x = k
    BY <2>2, <2>3, <2>4
  <2> HIDE DEF keys, more, k
  <2>6. k[1] \in 1..q.forms /\ (k[1] = q.form => k[2] = q.key)
    BY <1>1, <2>2, <2>3, <2>4
  <2>7. /\ \A x \in more : x[1] \in 1..q.forms /\ (x[1] = q.form => x[2] = q.key)
        /\ \A x, y \in more : x[1] = y[1] => x = y
    BY <2>1, <2>4, <2>5, <2>6
  <2> QED BY <2>4, <2>7 DEF FormsHold, more
<1> QED BY <1>1, <1>6, <1>7, <1>8 DEF DirectorInv, DirectorHolds

\* A request for an assessment is stored, or its key is known already.
LEMMA CreateStoredStep ==
  ASSUME DirectorInv, NEW c \in calls, CreateStored(c)
  PROVE  DirectorInv'
<1> DEFINE d == [c EXCEPT !.stage = "stored"]
           a == [form |-> c.n, key |-> c.key]
           added == [server EXCEPT !.papers = @ \cup {a}]
<1>1. /\ screen' = screen /\ c.kind = "create" /\ calls' = (calls \ {c}) \cup {d}
      /\ server' \in {server, added}
  BY DEF CreateStored, Advances
<1>2. DOMAIN d = DirectorCallFields /\ \A f \in DirectorCallFields \ {"stage"} : d[f] = c[f]
  BY DEF DirectorInv, DirectorHolds, DirectorShape, DirectorCallFields
<1>3. /\ DOMAIN added = {"written", "papers"} /\ added.papers = server.papers \cup {a}
      /\ added.written = server.written
  BY DEF DirectorInv, DirectorHolds, DirectorShape
<1> HIDE DEF d, added
<1>4. d.kind = "create" /\ d.n = c.n /\ d.key = c.key
  BY <1>1, <1>2 DEF DirectorCallFields
<1>5. /\ DOMAIN server' = {"written", "papers"} /\ server'.papers \subseteq server.papers \cup {a}
      /\ server'.written = server.written
  BY <1>1, <1>3 DEF DirectorInv, DirectorHolds, DirectorShape
<1>6. DirectorShape(screen, calls', server') /\ OfVisit(screen, calls')
  BY <1>1, <1>2, <1>4, <1>5 DEF DirectorInv, DirectorHolds, DirectorShape, OfVisit, LiveAsks
<1>7. StaffHolds(screen, calls', server'.written)
  <2>1. StoredOnes(calls') = StoredOnes(calls)
    BY <1>1, <1>4 DEF StoredOnes
  <2> QED BY <1>1, <1>4, <1>5, <2>1 DEF DirectorInv, DirectorHolds, StaffHolds, ReadsNewest
<1>8. FormsHold(screen, calls', server'.papers)
  <2>1. a = [form |-> a.form, key |-> a.key] /\ a.form = c.n /\ a.key = c.key
    OBVIOUS
  <2> HIDE DEF a
  <2>2. FormKeys(calls', server'.papers) \subseteq FormKeys(calls, server.papers)
    BY <1>1, <1>4, <1>5, <2>1 DEF FormKeys
  <2> QED BY <1>5, <2>1, <2>2 DEF DirectorInv, DirectorHolds, FormsHold
<1> QED BY <1>1, <1>6, <1>7, <1>8 DEF DirectorInv, DirectorHolds

LEMMA CreateAnswerStep ==
  ASSUME DirectorInv, NEW c \in calls, CreateDone(c) \/ CreateFails(c)
  PROVE  DirectorInv'
<1> DEFINE p == [screen EXCEPT !.show = FALSE, !.papers = -1]
           q == [screen EXCEPT !.saving = FALSE]
           rest == Without("papers", calls \ {c})
           d == Request("papers", p, "", "all")
<1>1. /\ server' = server
      /\ \/ calls' = calls \ {c} /\ screen' \in {screen, q}
         \/ AskOverview(p, rest \cup {d})
  BY DEF CreateDone, CreateFails, Ended
<1>2. /\ DOMAIN p = DirectorFields /\ p.papers = -1
      /\ \A f \in DirectorFields \ {"show", "papers"} : p[f] = screen[f]
      /\ DOMAIN q = DirectorFields /\ \A f \in DirectorFields \ {"saving"} : q[f] = screen[f]
  BY DEF DirectorInv, DirectorHolds, DirectorShape, DirectorFields
<1> HIDE DEF p, q
<1>3. DirectorHolds(p, calls, server)
  BY <1>2, OnlyPage DEF DirectorFields
<1>4. DirectorHolds(q, calls, server)
  BY <1>2, OnlyPage DEF DirectorFields
<1>5. DirectorHolds(p, rest, server)
  BY <1>3, FewerCalls DEF Without
<1>6. Harmless(d, p)
  BY Requesting
<1> HIDE DEF d, rest
<1>7. DirectorHolds(p, rest \cup {d}, server)
  BY <1>5, <1>6, OneMore
<1> QED BY <1>1, <1>4, <1>7, AskOverviewHolds, DirectorMoves DEF DirectorInv

LEMMA DirectorStep == DirectorInv /\ [DirectorNext]_tabVars => DirectorInv'
<1> SUFFICES ASSUME DirectorInv, [DirectorNext]_tabVars PROVE DirectorInv'
  OBVIOUS
<1>1. CASE UNCHANGED tabVars
  BY <1>1 DEF tabVars, DirectorInv
<1>2. ASSUME StudentsSection \/ ClassesSection PROVE DirectorInv'
  BY <1>2, RunWriteStep, SearchStudentsStep
     DEF StudentsSection, ClassesSection, AddStudent, MoveStudent, SaveStudent, ToggleStudent,
         CreateClass, RenameClass, SaveAssignment, StopAssignment
<1>3. ASSUME NEW c \in calls,
             \/ ContextsArrive(c) \/ ContextsFail(c) \/ RefreshReads(c) \/ RefreshArrives(c)
             \/ StaffArrives(c) \/ ReadFails(c) \/ OverviewArrives(c) \/ PapersArrive(c)
             \/ WriteStored(c) \/ RowWritten(c) \/ RowsReloaded(c) \/ TeachersReloaded(c)
             \/ RunFails(c) \/ CreateStored(c) \/ CreateDone(c) \/ CreateFails(c)
      PROVE  DirectorInv'
  BY <1>3, ContextsStep, RefreshReadsStep, RefreshArrivesStep, StaffArrivesStep,
     DirectorAnswerStep, WriteStoredStep, RowsReloadedStep, TeachersReloadedStep,
     CreateStoredStep, CreateAnswerStep
<1> QED BY <1>1, <1>2, <1>3, AccountReadStep, ChangeSchoolStep, SelectSectionStep,
        ToggleCreatorStep, SubmitFormStep DEF DirectorNext

LEMMA DirectorIsRight ==
  DirectorInv => RowsOfThisVisit /\ AssignmentsStayRead /\ OneAssessmentPerForm
<1> SUFFICES ASSUME DirectorInv
             PROVE  RowsOfThisVisit /\ AssignmentsStayRead /\ OneAssessmentPerForm
  OBVIOUS
<1>1. RowsOfThisVisit /\ AssignmentsStayRead
  BY DEF DirectorInv, DirectorHolds, OfVisit, StaffHolds, RowsOfThisVisit, AssignmentsStayRead
<1>2. OneAssessmentPerForm
  <2>1. SUFFICES ASSUME NEW a \in server.papers, NEW b \in server.papers, a.form = b.form
                 PROVE  a = b
    BY DEF OneAssessmentPerForm
  <2>2. /\ <<a.form, a.key>> \in FormKeys(calls, server.papers)
        /\ <<b.form, b.key>> \in FormKeys(calls, server.papers)
    BY DEF FormKeys
  <2>3. <<a.form, a.key>> = <<b.form, b.key>>
    BY <2>1, <2>2 DEF DirectorInv, DirectorHolds, FormsHold
  <2>4. a.key = b.key
    BY <2>3
  <2> QED BY <2>1, <2>4 DEF DirectorInv, DirectorHolds, FormsHold
<1> QED BY <1>1, <1>2

(***************************************************************************)
(* SchoolsAdmin: rows of the school that is open.                          *)
(***************************************************************************)
SchoolsFields ==
  {"page", "list", "selected", "loading", "rows", "chosen", "dialog", "creating", "archiving",
   "made", "overlapped"}
SchoolCallFields == {"kind", "school", "stage", "n"}

RowsWithin(rows, s) == {rows.classes, rows.students, rows.teachers} \subseteq {s, "none"}

\* One school is being worked on: what is open, loaded or under way is of it.
WorkingOn(p, cs, s) ==
  /\ p.selected \in {s, "none"}
  /\ \A c \in cs : c.kind \notin {"list", "create"} => c.school \in {s, "none"}
  /\ p.loading \/ RowsWithin(p.rows, s)

SchoolsHold(p, cs) ==
  /\ p.page = "schools" /\ DOMAIN p = SchoolsFields
  /\ DOMAIN p.rows = {"classes", "students", "teachers"}
  /\ \A c \in cs : DOMAIN c = SchoolCallFields
  /\ ~p.overlapped => \E s : WorkingOn(p, cs, s)

SchoolsInv == SchoolsHold(screen, calls)

LEMMA SchoolsStart == SchoolsInit => SchoolsInv
<1> SUFFICES ASSUME SchoolsInit PROVE SchoolsInv
  OBVIOUS
<1>1. /\ screen.page = "schools" /\ DOMAIN screen = SchoolsFields /\ screen.selected = "none"
      /\ screen.rows = EmptyRows
  BY DEF SchoolsInit, SchoolsFields
<1>2. \A c \in calls : DOMAIN c = SchoolCallFields /\ c.kind = "list"
  BY DEF SchoolsInit, SchoolCallFields
<1>3. DOMAIN EmptyRows = {"classes", "students", "teachers"} /\ RowsWithin(EmptyRows, "none")
  BY DEF EmptyRows, RowsWithin
<1>4. WorkingOn(screen, calls, "none")
  BY <1>1, <1>2, <1>3 DEF WorkingOn
<1> QED BY <1>1, <1>2, <1>3, <1>4 DEF SchoolsInv, SchoolsHold

\* Nothing is opened or left: the rows, the selected school and what is asked
\* for stay within the school being worked on.
LEMMA SchoolsKept ==
  ASSUME SchoolsInv, DOMAIN screen' = SchoolsFields, screen'.page = screen.page,
         screen'.overlapped = screen.overlapped,
         DOMAIN screen'.rows = {"classes", "students", "teachers"},
         \A c \in calls' : DOMAIN c = SchoolCallFields,
         \A s : WorkingOn(screen, calls, s) =>
           /\ screen'.selected \in {s, "none"}
           /\ \A c \in calls' \ calls : c.kind \notin {"list", "create"} => c.school \in {s, "none"}
           /\ screen'.loading \/ RowsWithin(screen'.rows, s)
  PROVE  SchoolsInv'
<1>1. \A s : WorkingOn(screen, calls, s) => WorkingOn(screen', calls', s)
  BY DEF WorkingOn
<1> QED BY <1>1 DEF SchoolsInv, SchoolsHold

SameSchools(p, q) ==
  /\ DOMAIN q = SchoolsFields /\ q.page = p.page /\ q.overlapped = p.overlapped
  /\ q.rows = p.rows /\ q.loading = p.loading

\* The same for a step that touches neither the rows nor the loading.
LEMMA SchoolsMove ==
  ASSUME SchoolsInv, SameSchools(screen, screen'), NEW ds, calls' \subseteq calls \cup ds,
         screen'.selected \in {screen.selected, "none"} \/ \E c \in calls :
           c.kind \notin {"list", "create"} /\ screen'.selected = c.school,
         \A d \in ds : /\ DOMAIN d = SchoolCallFields
                       /\ \/ d.kind \in {"list", "create"}
                          \/ d.school = screen.selected
                          \/ \E c \in calls : c.kind \notin {"list", "create"} /\ c.school = d.school
  PROVE  SchoolsInv'
BY SchoolsKept DEF SchoolsInv, SchoolsHold, SameSchools, WorkingOn

LEMMA SchoolsStay ==
  ASSUME SchoolsInv, SameSchools(screen, screen'), calls' \subseteq calls,
         screen'.selected = screen.selected
  PROVE  SchoolsInv'
BY SchoolsKept DEF SchoolsInv, SchoolsHold, SameSchools, WorkingOn

\* A school is opened: from now on it is the one being worked on.
LEMMA SchoolOpens ==
  ASSUME SchoolsInv, NEW p, NEW s, NEW over, NEW origin, Opens(p, s, over, origin),
         DOMAIN p = SchoolsFields, p.page = screen.page, p.overlapped = screen.overlapped,
         p.rows = screen.rows
  PROVE  SchoolsInv'
<1> DEFINE d == Operation("workspace", s, origin)
<1>1. /\ DOMAIN screen' = SchoolsFields /\ screen'.page = p.page /\ screen'.selected = s
      /\ screen'.loading /\ screen'.rows = p.rows
      /\ screen'.overlapped = (p.overlapped \/ calls \ over # {})
  BY DEF Opens, Busy, SchoolsFields
<1>2. calls' = (calls \ over) \cup {d}
  BY DEF Opens
<1>3. DOMAIN d = SchoolCallFields /\ d.school = s
  BY DEF Operation, SchoolCallFields
<1> HIDE DEF d
<1>4. ~screen'.overlapped => WorkingOn(screen', calls', s)
  BY <1>1, <1>2, <1>3 DEF WorkingOn
<1> QED BY <1>1, <1>2, <1>3, <1>4 DEF SchoolsInv, SchoolsHold

LEMMA OpenSchoolStep ==
  ASSUME SchoolsInv, \/ \E s : OpenSchool(s)
                     \/ \E c \in calls : CreatedOpens(c)
  PROVE  SchoolsInv'
<1>1. ASSUME NEW s, OpenSchool(s) PROVE SchoolsInv'
  <2> DEFINE p == [screen EXCEPT !.made = @ + 1]
  <2>1. Opens(p, s, {}, "card")
    BY <1>1 DEF OpenSchool
  <2>2. DOMAIN p = SchoolsFields /\ p.page = screen.page /\ p.overlapped = screen.overlapped
        /\ p.rows = screen.rows
    BY DEF SchoolsInv, SchoolsHold, SchoolsFields
  <2> HIDE DEF p
  <2> QED BY <2>1, <2>2, SchoolOpens
<1>2. ASSUME NEW c \in calls, CreatedOpens(c) PROVE SchoolsInv'
  <2> DEFINE p == [screen EXCEPT !.list = server]
  <2>1. Opens(p, c.school, {c}, "wizard")
    BY <1>2 DEF CreatedOpens
  <2>2. DOMAIN p = SchoolsFields /\ p.page = screen.page /\ p.overlapped = screen.overlapped
        /\ p.rows = screen.rows
    BY DEF SchoolsInv, SchoolsHold, SchoolsFields
  <2> HIDE DEF p
  <2> QED BY <2>1, <2>2, SchoolOpens
<1> QED BY <1>1, <1>2

LEMMA BackToPortfolioStep ==
  ASSUME SchoolsInv, BackToPortfolio
  PROVE  SchoolsInv'
<1>1. /\ DOMAIN screen' = SchoolsFields /\ screen'.page = screen.page /\ screen'.selected = "none"
      /\ screen'.loading = screen.loading /\ screen'.rows = screen.rows /\ calls' = calls
      /\ screen'.overlapped = (screen.overlapped \/ calls # {})
  BY DEF BackToPortfolio, Busy, SchoolsInv, SchoolsHold, SchoolsFields
<1>2. ~screen'.overlapped => ~screen.overlapped
  BY <1>1
<1>3. \A s : WorkingOn(screen, calls, s) => WorkingOn(screen', calls', s)
  BY <1>1 DEF WorkingOn
<1> QED BY <1>1, <1>2, <1>3 DEF SchoolsInv, SchoolsHold

\* The rows that arrive are those of the school they were asked for.
LEMMA WorkspaceArrivesStep ==
  ASSUME SchoolsInv, NEW c \in calls, WorkspaceArrives(c)
  PROVE  SchoolsInv'
<1>1. PICK rows \in WorkspaceRead(c), hasClass \in BOOLEAN :
        screen' = [screen EXCEPT !.rows = rows, !.loading = FALSE,
                     !.creating = @ /\ c.stage # "wizard",
                     !.chosen = IF hasClass /\ rows.classes = c.school THEN c.school ELSE @]
  BY DEF WorkspaceArrives
<1>2. /\ DOMAIN screen' = SchoolsFields /\ screen'.page = screen.page
      /\ screen'.overlapped = screen.overlapped /\ screen'.selected = screen.selected
      /\ screen'.rows = rows
  BY <1>1 DEF SchoolsInv, SchoolsHold, SchoolsFields
<1>3. PICK a \in {c.school, "none"}, b \in {c.school, "none"}, d \in {c.school, "none"} :
        rows = [classes |-> a, students |-> b, teachers |-> d]
  BY DEF WorkspaceRead
<1>4. DOMAIN rows = {"classes", "students", "teachers"} /\ RowsWithin(rows, c.school)
  BY <1>3 DEF RowsWithin
<1>5. calls' = calls \ {c} /\ c.kind = "workspace"
  BY DEF WorkspaceArrives, Ended
<1>6. \A s : WorkingOn(screen, calls, s) => RowsWithin(rows, s)
  BY <1>4, <1>5 DEF WorkingOn, RowsWithin
<1> QED BY <1>2, <1>4, <1>5, <1>6, SchoolsKept DEF SchoolsInv, SchoolsHold, WorkingOn

LEMMA AddedRowsArriveStep ==
  ASSUME SchoolsInv, NEW c \in calls, AddedRowsArrive(c)
  PROVE  SchoolsInv'
<1>1. PICK rows : /\ rows \in {[screen.rows EXCEPT !.classes = c.school],
                              [screen.rows EXCEPT !.students = c.school]}
                  /\ screen' = [screen EXCEPT !.rows = rows]
  BY DEF AddedRowsArrive, SchoolsInv, SchoolsHold, SchoolsFields
<1>2. /\ DOMAIN screen' = SchoolsFields /\ screen'.page = screen.page
      /\ screen'.overlapped = screen.overlapped /\ screen'.selected = screen.selected
      /\ screen'.loading = screen.loading /\ screen'.rows = rows
  BY <1>1 DEF SchoolsInv, SchoolsHold, SchoolsFields
<1>3. /\ DOMAIN rows = {"classes", "students", "teachers"}
      /\ rows.classes \in {screen.rows.classes, c.school}
      /\ rows.students \in {screen.rows.students, c.school}
      /\ rows.teachers = screen.rows.teachers
  BY <1>1 DEF SchoolsInv, SchoolsHold
<1>4. calls' = calls \ {c} /\ c.kind \in {"class", "student"}
  BY DEF AddedRowsArrive, Ended
<1>5. \A s : WorkingOn(screen, calls, s) => screen'.loading \/ RowsWithin(rows, s)
  BY <1>2, <1>3, <1>4 DEF WorkingOn, RowsWithin
<1> QED BY <1>2, <1>3, <1>4, <1>5, SchoolsKept DEF SchoolsInv, SchoolsHold, WorkingOn

LEMMA ClosingSame ==
  ASSUME SchoolsInv, NEW d
  PROVE  SameSchools(screen, Closing(d)) /\ Closing(d).selected = screen.selected
BY DEF Closing, SameSchools, SchoolsInv, SchoolsHold, SchoolsFields

\* Dialogs, and the operations that are begun in them.
LEMMA SchoolButtonStep ==
  ASSUME SchoolsInv,
         \/ Portfolio \/ ClassesTab \/ WizardDialog \/ RenameDialog \/ ArchiveDialog
         \/ ClassDialog \/ StudentDialog
         \/ \E d : OpenSchoolDialog(d)
  PROVE  SchoolsInv'
<1>1. /\ SameSchools(screen, screen') /\ screen'.selected = screen.selected
      /\ \/ calls' = calls
         \/ \E kind, s : /\ calls' = calls \cup {Operation(kind, s, "sent")}
                         /\ kind \in {"list", "create"} \/ s = screen.selected
  <2>1. ASSUME NEW d, OpenSchoolDialog(d) \/ CancelDialog(d) \/ ChooseClass
        PROVE  SameSchools(screen, screen') /\ screen'.selected = screen.selected /\ calls' = calls
    BY <2>1 DEF OpenSchoolDialog, CancelDialog, ChooseClass, SameSchools, SchoolsInv, SchoolsHold,
                SchoolsFields
  <2>2. ASSUME LoadSchools \/ HandleCreateSchool
        PROVE  /\ SameSchools(screen, screen') /\ screen'.selected = screen.selected
               /\ \E kind, s : /\ calls' = calls \cup {Operation(kind, s, "sent")}
                               /\ kind \in {"list", "create"}
    BY <2>2 DEF LoadSchools, HandleCreateSchool, SameSchools, SchoolsInv, SchoolsHold, SchoolsFields
  <2>3. ASSUME HandleRenameSchool \/ HandleDeleteSchool \/ HandleCreateClass \/ HandleAddStudent
        PROVE  /\ SameSchools(screen, screen') /\ screen'.selected = screen.selected
               /\ \E kind : calls' = calls \cup {Operation(kind, screen.selected, "sent")}
    BY <2>3 DEF HandleRenameSchool, HandleDeleteSchool, HandleCreateClass, HandleAddStudent,
                SameSchools, SchoolsInv, SchoolsHold, SchoolsFields
  <2>4. \/ \E d : OpenSchoolDialog(d) \/ CancelDialog(d) \/ ChooseClass
        \/ LoadSchools \/ HandleCreateSchool \/ HandleRenameSchool \/ HandleDeleteSchool
        \/ HandleCreateClass \/ HandleAddStudent
    BY DEF Portfolio, ClassesTab, WizardDialog, RenameDialog, ArchiveDialog, ClassDialog,
           StudentDialog
  <2> QED BY <2>1, <2>2, <2>3, <2>4
<1>2. CASE calls' = calls
  BY <1>1, <1>2, SchoolsStay
<1>3. ASSUME NEW kind, NEW s, calls' = calls \cup {Operation(kind, s, "sent")},
             kind \in {"list", "create"} \/ s = screen.selected
      PROVE  SchoolsInv'
  <2> DEFINE d == Operation(kind, s, "sent")
  <2>1. DOMAIN d = SchoolCallFields /\ d.kind = kind /\ d.school = s
    BY DEF Operation, SchoolCallFields
  <2>2. calls' \subseteq calls \cup {d}
    BY <1>3
  <2> HIDE DEF d
  <2> QED BY <1>1, <1>3, <2>1, <2>2, SchoolsMove
<1> QED BY <1>1, <1>2, <1>3

LEMMA SchoolAnswerStep ==
  ASSUME SchoolsInv, NEW c \in calls,
         \/ SchoolsArrive(c) \/ SchoolCreated(c) \/ SchoolRenamed(c) \/ SchoolArchived(c)
         \/ ArchivedListed(c) \/ RowAdded(c) \/ SchoolCallFails(c)
  PROVE  SchoolsInv'
<1>1. DOMAIN c = SchoolCallFields
  BY DEF SchoolsInv, SchoolsHold
<1>2. CASE SchoolsArrive(c) \/ ArchivedListed(c) \/ SchoolCallFails(c)
  <2>1. SameSchools(screen, screen') /\ screen'.selected = screen.selected /\ calls' \subseteq calls
    BY <1>2 DEF SchoolsArrive, ArchivedListed, SchoolCallFails, Ended, SameSchools, SchoolsInv,
                SchoolsHold, SchoolsFields
  <2> QED BY <2>1, SchoolsStay
<1>3. CASE SchoolCreated(c) \/ RowAdded(c)
  <2>1. PICK stage : /\ calls' = (calls \ {c}) \cup {[c EXCEPT !.stage = stage]}
                     /\ stage = "listing" \/ c.kind \in {"class", "student"}
    BY <1>3 DEF SchoolCreated, RowAdded, Advances
  <2> DEFINE d == [c EXCEPT !.stage = stage]
  <2>2. DOMAIN d = SchoolCallFields /\ d.kind = c.kind /\ d.school = c.school
    BY <1>1 DEF SchoolCallFields
  <2>3. calls' \subseteq calls \cup {d}
    BY <2>1
  <2> HIDE DEF d
  <2>4. SameSchools(screen, screen') /\ screen'.selected = screen.selected
    BY <1>3, ClosingSame DEF SchoolCreated, RowAdded
  <2> QED BY <2>2, <2>3, <2>4, SchoolsMove
<1>4. CASE SchoolRenamed(c)
  <2> DEFINE d == [c EXCEPT !.kind = "list", !.school = "none"]
             p == Closing("rename")
  <2>1. DOMAIN d = SchoolCallFields /\ d.kind = "list"
    BY <1>1 DEF SchoolCallFields
  <2>2. calls' \subseteq calls \cup {d} /\ c.kind = "rename"
        /\ screen' = [p EXCEPT !.selected = c.school]
    BY <1>4 DEF SchoolRenamed
  <2>3. SameSchools(screen, p)
    BY ClosingSame
  <2> HIDE DEF d, p
  <2>4. SameSchools(screen, screen') /\ screen'.selected = c.school
    BY <2>2, <2>3 DEF SameSchools, SchoolsFields
  <2> QED BY <2>1, <2>2, <2>4, SchoolsMove
<1>5. CASE SchoolArchived(c)
  <2> DEFINE d == [c EXCEPT !.stage = "listing"]
             p == Closing("archive")
  <2>1. DOMAIN d = SchoolCallFields /\ d.kind = "archive" /\ d.school = c.school
    BY <1>1, <1>5 DEF SchoolCallFields, SchoolArchived
  <2>2. calls' \subseteq calls \cup {d} /\ c.kind = "archive"
        /\ screen' = [p EXCEPT !.selected = "none"]
    BY <1>5 DEF SchoolArchived, Advances
  <2>3. SameSchools(screen, p)
    BY ClosingSame
  <2> HIDE DEF d, p
  <2>4. SameSchools(screen, screen') /\ screen'.selected = "none"
    BY <2>2, <2>3 DEF SameSchools, SchoolsFields
  <2> QED BY <2>1, <2>2, <2>4, SchoolsMove
<1> QED BY <1>2, <1>3, <1>4, <1>5

LEMMA SchoolsStep == SchoolsInv /\ [SchoolsNext]_tabVars => SchoolsInv'
<1> SUFFICES ASSUME SchoolsInv, [SchoolsNext]_tabVars PROVE SchoolsInv'
  OBVIOUS
<1>1. CASE UNCHANGED tabVars
  BY <1>1 DEF tabVars, SchoolsInv
<1>2. ASSUME WorkspaceBar PROVE SchoolsInv'
  BY <1>2, BackToPortfolioStep, SchoolButtonStep DEF WorkspaceBar
<1>3. ASSUME NEW c \in calls,
             \/ SchoolsArrive(c) \/ WorkspaceArrives(c) \/ SchoolCreated(c) \/ CreatedOpens(c)
             \/ SchoolRenamed(c) \/ SchoolArchived(c) \/ ArchivedListed(c) \/ RowAdded(c)
             \/ AddedRowsArrive(c)
             \/ SchoolCallFails(c)
      PROVE  SchoolsInv'
  BY <1>3, WorkspaceArrivesStep, AddedRowsArriveStep, SchoolAnswerStep, OpenSchoolStep
<1>4. ASSUME NEW s \in AdminSchools, OpenSchool(s) PROVE SchoolsInv'
  BY <1>4, OpenSchoolStep
<1> QED BY <1>1, <1>2, <1>3, <1>4, SchoolButtonStep DEF SchoolsNext

LEMMA SchoolsAreShown == SchoolsInv => UnhurriedRows
BY DEF SchoolsInv, SchoolsHold, WorkingOn, RowsWithin, UnhurriedRows, RowsOf

(***************************************************************************)
(* SupervisorRoster: the students are those of the scope, school and search. *)
(***************************************************************************)
RosterFields ==
  {"page", "allowed", "scope", "contexts", "busy", "error", "school", "rows", "rowsOf",
   "rowsError", "loading", "tab", "search", "at"}
OfRoster(r, p) == r.scope = p.scope /\ r.school = p.school /\ r.search = p.search

\* The scope is asked for once, and while the page waits for it there are neither
\* rows nor a request for any; rows, here or under way, are of what is selected.
RosterHolds(p, cs) ==
  /\ p.page = "roster" /\ DOMAIN p = RosterFields
  /\ \A c \in cs : \/ c.kind = "scope" /\ p.busy
                   \/ c.kind = "roster" /\ ~p.busy /\ OfRoster(c.rows, p)
  /\ \A c, d \in cs : c.kind = "scope" /\ d.kind = "scope" => c = d
  /\ \A r \in p.rows : ~p.busy /\ OfRoster(r, p)

RosterInv == RosterHolds(screen, calls)

\* The roster effect: what was asked for is dropped, and asked for again as the
\* page has it now.
LEMMA RosterLoaded ==
  ASSUME NEW p, NEW cs, LoadRoster(p, cs), p.page = "roster", DOMAIN p = RosterFields,
         \A c \in cs \ RosterCalls : c.kind = "scope" /\ p.busy,
         \A c, d \in cs \ RosterCalls : c = d,
         p.at = 1 \/ \A r \in p.rows : ~p.busy /\ OfRoster(r, p)
  PROVE  RosterInv'
<1> DEFINE cleared == IF p.at = 1 THEN [p EXCEPT !.rows = {}, !.rowsOf = "none"] ELSE p
           q == [cleared EXCEPT !.rowsError = FALSE]
           d == [kind |-> "roster",
                 rows |-> [scope |-> p.scope, school |-> p.school, search |-> p.search,
                           page |-> p.at]]
<1>1. /\ DOMAIN q = RosterFields /\ q.page = p.page /\ q.busy = p.busy /\ q.scope = p.scope
      /\ q.school = p.school /\ q.search = p.search
      /\ \A r \in q.rows : ~p.busy /\ OfRoster(r, p)
  BY DEF RosterFields
<1>2. d.kind = "roster" /\ OfRoster(d.rows, p)
  BY DEF OfRoster
<1>3. \/ screen' = [q EXCEPT !.loading = FALSE] /\ calls' = cs \ RosterCalls
      \/ /\ screen' = [q EXCEPT !.loading = TRUE] /\ ~p.busy
         /\ calls' = (cs \ RosterCalls) \cup {d}
  BY DEF LoadRoster
<1> HIDE DEF q, d
<1>4. /\ DOMAIN screen' = RosterFields /\ screen'.page = p.page /\ screen'.busy = p.busy
      /\ screen'.scope = p.scope /\ screen'.school = p.school /\ screen'.search = p.search
      /\ screen'.rows = q.rows
  BY <1>1, <1>3 DEF RosterFields
<1>5. \A r : OfRoster(r, screen') <=> OfRoster(r, p)
  BY <1>4 DEF OfRoster
<1> QED BY <1>1, <1>2, <1>3, <1>4, <1>5 DEF RosterInv, RosterHolds

LEMMA RosterStart == RosterInit => RosterInv
<1> SUFFICES ASSUME RosterInit PROVE RosterInv
  OBVIOUS
<1>1. PICK p : /\ p.page = "roster" /\ DOMAIN p = RosterFields /\ p.busy /\ p.rows = {}
               /\ screen \in {p, [p EXCEPT !.tab = "overview"]} /\ calls = {ScopeRequest(p)}
  BY DEF RosterInit, RosterFields
<1>2. screen.page = "roster" /\ DOMAIN screen = RosterFields /\ screen.busy /\ screen.rows = {}
  BY <1>1 DEF RosterFields
<1>3. ScopeRequest(p).kind = "scope"
  BY DEF ScopeRequest
<1> QED BY <1>1, <1>2, <1>3 DEF RosterInv, RosterHolds

LEMMA RosterAnswerStep ==
  ASSUME RosterInv, NEW c \in calls, RosterArrives(c) \/ RosterFails(c)
  PROVE  RosterInv'
<1>1. c.kind = "roster" /\ ~screen.busy /\ OfRoster(c.rows, screen) /\ calls' = calls \ {c}
  BY DEF RosterArrives, RosterFails, Ended, RosterInv, RosterHolds
<1>2. PICK rows : /\ rows = IF screen.at = 1 THEN {c.rows} ELSE screen.rows \cup {c.rows}
                  /\ \A r \in rows : OfRoster(r, screen)
  BY <1>1 DEF RosterInv, RosterHolds
<1>3. \/ screen' = [screen EXCEPT !.loading = FALSE, !.rowsOf = screen.school, !.rows = rows]
      \/ screen' = [[screen EXCEPT !.rows = {}, !.rowsOf = "none"]
                      EXCEPT !.loading = FALSE, !.rowsError = TRUE]
      \/ screen' = [screen EXCEPT !.loading = FALSE, !.rowsError = TRUE]
  BY <1>2 DEF RosterArrives, RosterFails, RosterInv, RosterHolds, RosterFields
<1>4. /\ DOMAIN screen' = RosterFields /\ screen'.page = screen.page /\ screen'.busy = screen.busy
      /\ screen'.scope = screen.scope /\ screen'.school = screen.school
      /\ screen'.search = screen.search
      /\ screen'.rows \in {rows, {}, screen.rows}
  BY <1>3 DEF RosterInv, RosterHolds, RosterFields
<1>5. \A r : OfRoster(r, screen') <=> OfRoster(r, screen)
  BY <1>4 DEF OfRoster
<1>6. \A r \in screen'.rows : ~screen'.busy /\ OfRoster(r, screen')
  BY <1>1, <1>2, <1>4, <1>5 DEF RosterInv, RosterHolds
<1> QED BY <1>1, <1>4, <1>5, <1>6 DEF RosterInv, RosterHolds

\* The scope is read again: everything is forgotten.
LEMMA ReadScopeStep ==
  ASSUME RosterInv, NEW allowed, ReadScope(screen, allowed)
  PROVE  RosterInv'
<1>1. PICK school : school = IF allowed THEN screen.school ELSE "none"
  OBVIOUS
<1> DEFINE q == [Forgotten(screen) EXCEPT !.scope = @ + 1, !.allowed = allowed, !.busy = allowed,
                                          !.school = school]
<1>2. DOMAIN Forgotten(screen) = RosterFields /\ Forgotten(screen).page = "roster"
      /\ Forgotten(screen).rows = {} /\ Forgotten(screen).school = screen.school
  BY DEF Forgotten, RosterInv, RosterHolds, RosterFields
<1>3. q = [Forgotten(screen) EXCEPT !.scope = @ + 1, !.allowed = allowed, !.busy = allowed,
                                    !.school = IF allowed THEN @ ELSE "none"]
  BY <1>1, <1>2
<1>4. LoadRoster(q, IF allowed THEN {ScopeRequest(q)} ELSE {})
  BY <1>3 DEF ReadScope
<1>5. DOMAIN q = RosterFields /\ q.page = "roster" /\ q.rows = {} /\ q.busy = allowed
  BY <1>2 DEF RosterFields
<1>6. ScopeRequest(q).kind = "scope"
  BY DEF ScopeRequest
<1> HIDE DEF q
<1> QED BY <1>4, <1>5, <1>6, RosterLoaded

LEMMA ScopeAnswerStep ==
  ASSUME RosterInv, NEW c \in calls, ScopeArrives(c) \/ ScopeFails(c)
  PROVE  RosterInv'
<1>1. c.kind = "scope" /\ screen.busy /\ screen.rows = {} /\ calls \ {c} = {}
  BY DEF ScopeArrives, ScopeFails, RosterInv, RosterHolds
<1>2. PICK contexts, school, p :
        /\ \/ p = [screen EXCEPT !.contexts = contexts, !.busy = FALSE, !.school = school]
           \/ p = [screen EXCEPT !.error = TRUE, !.busy = FALSE]
        /\ LoadRoster(p, calls \ {c})
  BY DEF ScopeArrives, ScopeFails
<1>3. DOMAIN p = RosterFields /\ p.page = "roster" /\ p.rows = {}
  BY <1>1, <1>2 DEF RosterInv, RosterHolds, RosterFields
<1> QED BY <1>1, <1>2, <1>3, RosterLoaded

\* The effect runs after a change that leaves the scope alone.
LEMMA RosterChanged ==
  ASSUME RosterInv, NEW p, LoadRoster(p, calls), DOMAIN p = RosterFields,
         p.page = screen.page, p.busy = screen.busy,
         \/ p.at = 1
         \/ /\ p.rows = screen.rows /\ p.scope = screen.scope
            /\ p.school = screen.school /\ p.search = screen.search
  PROVE  RosterInv'
<1>1. \A c \in calls \ RosterCalls : c.kind = "scope" /\ p.busy
  BY DEF RosterCalls, RosterInv, RosterHolds
<1>2. \A c, d \in calls \ RosterCalls : c = d
  BY <1>1 DEF RosterInv, RosterHolds
<1>3. p.at = 1 \/ \A r \in p.rows : ~p.busy /\ OfRoster(r, p)
  BY DEF RosterInv, RosterHolds, OfRoster
<1>4. p.page = "roster"
  BY DEF RosterInv, RosterHolds
<1> QED BY <1>1, <1>2, <1>3, <1>4, RosterLoaded

LEMMA RosterButtonStep ==
  ASSUME RosterInv,
         \/ \E s \in RosterSchools : PickSchool(s)
         \/ \E w \in Wanted : SearchRoster(w)
         \/ \E t \in {"overview", "students"} : SelectTab(t) \/ AddressedTab(t)
         \/ ShowMore \/ ShowLess \/ RetryRoster
  PROVE  RosterInv'
<1> DEFINE OK(p) == /\ DOMAIN p = RosterFields /\ p.page = screen.page /\ p.busy = screen.busy
                    /\ \/ p.at = 1
                       \/ /\ p.rows = screen.rows /\ p.scope = screen.scope
                          /\ p.school = screen.school /\ p.search = screen.search
<1>1. ASSUME NEW s, PickSchool(s) PROVE \E p : LoadRoster(p, calls) /\ OK(p)
  <2> DEFINE p == [screen EXCEPT !.school = s, !.rowsOf = "none", !.rows = {}, !.at = 1]
  <2>1. LoadRoster(p, calls)
    BY <1>1 DEF PickSchool
  <2>2. OK(p)
    BY DEF RosterInv, RosterHolds, RosterFields
  <2> QED BY <2>1, <2>2
<1>2. ASSUME NEW w, SearchRoster(w) PROVE \E p : LoadRoster(p, calls) /\ OK(p)
  <2>1. LoadRoster(Sought(w), calls)
    BY <1>2 DEF SearchRoster
  <2>2. OK(Sought(w))
    BY DEF Sought, RosterInv, RosterHolds, RosterFields
  <2> QED BY <2>1, <2>2
<1>3. ASSUME NEW t, SelectTab(t) PROVE \E p : LoadRoster(p, calls) /\ OK(p)
  <2>1. PICK at : at = IF t = "students" THEN 1 ELSE screen.at
    OBVIOUS
  <2> DEFINE p == [screen EXCEPT !.tab = t, !.at = at]
  <2>2. LoadRoster(p, calls)
    BY <1>3, <2>1 DEF SelectTab, RosterInv, RosterHolds, RosterFields
  <2>3. OK(p)
    BY DEF RosterInv, RosterHolds, RosterFields
  <2> QED BY <2>2, <2>3
<1>4. ASSUME NEW t, AddressedTab(t) PROVE \E p : LoadRoster(p, calls) /\ OK(p)
  <2> DEFINE p == [screen EXCEPT !.tab = t]
  <2>1. LoadRoster(p, calls)
    BY <1>4 DEF AddressedTab
  <2>2. OK(p)
    BY DEF RosterInv, RosterHolds, RosterFields
  <2> QED BY <2>1, <2>2
<1>5. CASE ShowMore
  <2> DEFINE p == [screen EXCEPT !.at = @ + 1]
  <2>1. LoadRoster(p, calls)
    BY <1>5 DEF ShowMore
  <2>2. OK(p)
    BY DEF RosterInv, RosterHolds, RosterFields
  <2> QED BY <2>1, <2>2, RosterChanged
<1>6. CASE ShowLess
  <2> DEFINE p == [screen EXCEPT !.at = 1, !.rows = {}, !.rowsOf = "none"]
  <2>1. LoadRoster(p, calls)
    BY <1>6 DEF ShowLess
  <2>2. OK(p)
    BY DEF RosterInv, RosterHolds, RosterFields
  <2> QED BY <2>1, <2>2, RosterChanged
<1>7. CASE RetryRoster
  <2>1. LoadRoster(screen, calls) /\ OK(screen)
    BY <1>7 DEF RetryRoster, RosterInv, RosterHolds
  <2> QED BY <2>1, RosterChanged
<1>8. ASSUME NEW p, LoadRoster(p, calls), OK(p) PROVE RosterInv'
  BY <1>8, RosterChanged
<1> HIDE DEF OK
<1> QED BY <1>1, <1>2, <1>3, <1>4, <1>5, <1>6, <1>7, <1>8

LEMMA RosterStep == RosterInv /\ [RosterNext]_tabVars => RosterInv'
<1> SUFFICES ASSUME RosterInv, [RosterNext]_tabVars PROVE RosterInv'
  OBVIOUS
<1>1. CASE UNCHANGED tabVars
  BY <1>1 DEF tabVars, RosterInv, RosterHolds
<1>2. ASSUME (\E a \in BOOLEAN : AccountChecked(a)) \/ RetryScope PROVE RosterInv'
  <2>1. ASSUME NEW a \in BOOLEAN, AccountChecked(a) PROVE RosterInv'
    BY <2>1, ReadScopeStep DEF AccountChecked
  <2>2. CASE RetryScope
    <3>1. ReadScope(screen, screen.allowed)
      BY <2>2 DEF RetryScope
    <3> QED BY <3>1, ReadScopeStep
  <2> QED BY <1>2, <2>1, <2>2
<1> QED BY <1>1, <1>2, RosterAnswerStep, ScopeAnswerStep, RosterButtonStep DEF RosterNext

LEMMA RosterIsShown == RosterInv => RosterOfScope
BY DEF RosterInv, RosterHolds, OfRoster, RosterOfScope, VisibleRoster

(***************************************************************************)
(* ContentEditors: no link is erased against a taxonomy that was not there,   *)
(* and no save overwrites what the form never showed.                        *)
(***************************************************************************)
EditorFields ==
  {"page", "kind", "editing", "open", "core", "required", "catalog", "loading", "row", "base",
   "locked", "mismatch", "subject", "skills", "owed", "saving", "related"}
EditorCallFields == {"kind", "expected", "base", "skills", "owed", "answer", "stage"}
EditorKinds == {"topic", "lesson", "library", "course", "newcourse"}

\* A lesson whose taxonomy failed.
LessonWithout(p) == p.kind = "lesson" /\ p.catalog = "failed"

\* The skills of the form are those that are owed: all of them as long as no
\* taxonomy was compared with them, and then those that it has.  A lesson may never
\* be compared, or with a taxonomy that failed.  Another subject owes none, nor
\* does, before its row is there, what waits for the row.
SkillsHold(p, known) ==
  /\ p.subject # "none" =>
       \/ p.skills = p.owed \cap known
       \/ p.skills = p.owed /\ (p.catalog # "here" \/ p.kind = "lesson")
       \/ p.skills = {} /\ LessonWithout(p)
  /\ p.subject = "other" => p.owed = {}
  /\ p.kind # "lesson" /\ p.catalog # "here" /\ p.row = 0 => p.skills = {} /\ p.owed = {}

\* The revision the editor holds is one that was, and with the last one it has the
\* last text; one call is under way at most, and while the editor waits for it.
RowHolds(p, cs, sv) ==
  /\ p.row <= sv.rev /\ (p.row = sv.rev => p.base = sv.body)
  /\ p.row # 0 => ~p.loading /\ (p.kind = "course" => p.catalog = "here")
  /\ p.loading => p.kind # "newcourse" /\ (p.kind = "course" => p.catalog = "loading")
  /\ \A c, d \in cs : c = d
  /\ cs # {} => p.saving /\ ~p.loading

\* What a call sends was on the form, and what it answers with is the last text if
\* it is the last revision.
EditorCallHolds(c, p, sv) ==
  /\ DOMAIN c = EditorCallFields
  /\ c.kind # "relate" /\ c.stage = "sent" =>
       c.skills = c.owed \cap sv.catalog \/ (p.kind = "lesson" /\ c.skills = c.owed)
  /\ p.kind = "course" => /\ p.catalog = "here" /\ c.kind \in {"update", "relate"}
                          /\ c.skills \subseteq sv.catalog
  /\ c.kind \in {"update", "relate"} =>
       /\ c.expected \in Nat \ {0} /\ c.expected <= sv.rev /\ c.base = p.base
       /\ c.expected = sv.rev => c.base = sv.body
       /\ c.stage = "ok" => c.answer \in Nat \ {0} /\ c.answer <= sv.rev
       /\ c.stage = "ok" /\ c.answer = sv.rev =>
            sv.body = IF c.kind = "update" THEN c.answer ELSE c.base

EditorShape(p, sv) ==
  /\ p.page = "editor" /\ DOMAIN p = EditorFields /\ p.kind \in EditorKinds
  /\ p.catalog \in {"loading", "here", "failed"} /\ p.subject \in {"own", "other", "none"}
  /\ p.row \in Nat
  /\ DOMAIN sv = {"rev", "body", "skills", "catalog", "locked"} /\ sv.rev \in Nat \ {0}

EditorHolds(p, cs, sv) ==
  /\ EditorShape(p, sv) /\ SkillsHold(p, sv.catalog) /\ RowHolds(p, cs, sv)
  /\ \A c \in cs : EditorCallHolds(c, p, sv)

EditorInv == EditorHolds(screen, calls, server)

LEMMA EditorStart == EditorInit => EditorInv
<1> SUFFICES ASSUME EditorInit PROVE EditorInv
  OBVIOUS
<1>1. PICK kind \in Kinds, editing \in BOOLEAN, core \in {EditorSubjects, {"other"}},
           required \in {{}} \cup {{k} : k \in Skills}, subject \in {"own", "other", "none"} :
       /\ kind = "course" => editing
       /\ kind = "newcourse" => ~editing
       /\ required # {} => kind = "lesson" /\ subject = IF "own" \in core THEN "own" ELSE "none"
       /\ kind = "course" => subject = "none"
       /\ kind = "lesson" => subject \in core \cup {"none"}
       /\ screen = [page |-> "editor", kind |-> kind, editing |-> editing, open |-> TRUE,
                    core |-> core, required |-> required, catalog |-> "loading",
                    loading |-> editing, row |-> 0, base |-> 0, locked |-> FALSE,
                    mismatch |-> FALSE, subject |-> subject,
                    skills |-> IF subject = "none" THEN {} ELSE required,
                    owed |-> required, saving |-> FALSE, related |-> TRUE]
  BY Zenon DEF EditorInit
<1>2. kind \in EditorKinds
  BY ContentEditorsAssumption DEF ContentEditorsAssumption, EditorKinds
<1>3. calls = {} /\ DOMAIN server = {"rev", "body", "skills", "catalog", "locked"} /\ server.rev = 1
  BY DEF EditorInit
<1>4. EditorShape(screen, server)
  <2>1. /\ screen.page = "editor" /\ DOMAIN screen = EditorFields /\ screen.kind = kind
        /\ screen.catalog = "loading" /\ screen.subject = subject /\ screen.row = 0
    BY <1>1 DEF EditorFields
  <2> QED BY <1>2, <1>3, <2>1 DEF EditorShape
<1>5. SkillsHold(screen, server.catalog)
  <2>1. /\ screen.kind = kind /\ screen.catalog = "loading" /\ screen.subject = subject
        /\ screen.owed = required /\ (subject # "none" => screen.skills = required)
        /\ subject = "none" => screen.skills = {}
    BY <1>1
  <2>2. /\ kind # "lesson" => required = {}
        /\ subject = "other" => required = {}
    BY <1>1
  <2> QED BY <2>1, <2>2 DEF SkillsHold, LessonWithout
<1>6. RowHolds(screen, calls, server)
  BY <1>1, <1>3 DEF RowHolds
<1> QED BY <1>3, <1>4, <1>5, <1>6 DEF EditorInv, EditorHolds

-----------------------------------------------------------------------------
\* The effects leave everything but the subject and the skills alone.
SameBut(p, q, fields) ==
  DOMAIN q = EditorFields /\ \A f \in EditorFields \ fields : q[f] = p[f]

\* They run when what they look at has changed.
LEMMA CleanedForm ==
  ASSUME NEW p, DOMAIN p = EditorFields
  PROVE  /\ SameBut(p, Cleaned(p), {"subject", "skills"})
         /\ \/ Look(p) = Look(screen) /\ Cleaned(p) = p
            \/ Cleaned(p).subject = "none" /\ Cleaned(p).skills = {}
            \/ /\ Cleaned(p).subject = p.subject
               /\ Cleaned(p).skills = IF Settled(p) THEN p.skills \cap Offers(p) ELSE p.skills
<1>1. CASE Look(p) = Look(screen)
  BY <1>1 DEF Cleaned, SameBut
<1>2. CASE Look(p) # Look(screen) /\ ~Knows(p) /\ (p.kind = "lesson" \/ Settled(p))
  <2>1. Cleaned(p) = [p EXCEPT !.subject = "none", !.skills = {}]
    BY <1>2 DEF Cleaned
  <2> QED BY <2>1 DEF SameBut, EditorFields
<1>3. CASE Look(p) # Look(screen) /\ ~(~Knows(p) /\ (p.kind = "lesson" \/ Settled(p)))
  <2>1. PICK skills : skills = IF Settled(p) THEN p.skills \cap Offers(p) ELSE p.skills
    OBVIOUS
  <2>2. Cleaned(p) = [p EXCEPT !.skills = skills]
    BY <1>3, <2>1 DEF Cleaned
  <2> QED BY <2>1, <2>2 DEF SameBut, EditorFields
<1> QED BY <1>1, <1>2, <1>3

\* A form whose skills are owed is cleaned into one whose skills are.
LEMMA CleanedHolds ==
  ASSUME NEW p, EditorShape(p, server),
         p.kind = "course" => p.catalog = "here",
         p.subject # "none" => p.skills = p.owed \/ p.skills = p.owed \cap server.catalog
                               \/ LessonWithout(p),
         p.subject = "other" => p.owed = {},
         p.kind # "lesson" /\ p.catalog # "here" /\ p.row = 0 => p.skills = {} /\ p.owed = {},
         ~Settled(p) \/ Look(p) = Look(screen) => SkillsHold(p, server.catalog)
  PROVE  /\ EditorShape(Cleaned(p), server) /\ SkillsHold(Cleaned(p), server.catalog)
         /\ SameBut(p, Cleaned(p), {"subject", "skills"})
<1> DEFINE q == Cleaned(p)
<1>1. /\ SameBut(p, q, {"subject", "skills"})
      /\ \/ Look(p) = Look(screen) /\ q = p
         \/ q.subject = "none" /\ q.skills = {}
         \/ /\ q.subject = p.subject
            /\ q.skills = IF Settled(p) THEN p.skills \cap Offers(p) ELSE p.skills
  BY CleanedForm DEF EditorShape
<1> HIDE DEF q
<1>2. /\ DOMAIN q = EditorFields /\ q.page = p.page /\ q.kind = p.kind /\ q.catalog = p.catalog
      /\ q.row = p.row /\ q.owed = p.owed
  BY <1>1 DEF SameBut, EditorFields
<1>3. EditorShape(q, server)
  <2>1. q.subject \in {"own", "other", "none"}
    BY <1>1 DEF EditorShape
  <2> QED BY <1>2, <2>1 DEF EditorShape
<1> SUFFICES SkillsHold(q, server.catalog)
  BY <1>1, <1>3 DEF q
<1>4. CASE Look(p) = Look(screen) /\ q = p
  BY <1>4
<1>5. CASE q.subject = "none" /\ q.skills = {}
  BY <1>2, <1>5 DEF SkillsHold
<1>6. CASE q.subject = p.subject /\ Settled(p) /\ q.skills = p.skills \cap Offers(p)
  <2>1. CASE p.catalog = "here" /\ p.subject = "own"
    <3>1. q.skills = q.owed \cap server.catalog
      BY <1>2, <1>6, <2>1 DEF Offers, LessonWithout
    <3> QED BY <1>2, <1>6, <2>1, <3>1 DEF SkillsHold
  <2>2. CASE p.catalog = "here" /\ p.subject # "own"
    <3>1. q.skills = {}
      BY <1>6, <2>2 DEF Offers
    <3> QED BY <1>2, <1>6, <2>2, <3>1 DEF SkillsHold, EditorShape
  <2>3. CASE p.catalog # "here"
    <3>1. q.skills = {} /\ LessonWithout(p)
      BY <1>6, <2>3 DEF Offers, Settled, LessonSettled, FormSettled, LessonWithout, EditorShape
    <3> QED BY <1>2, <1>6, <2>3, <3>1 DEF SkillsHold, LessonWithout
  <2> QED BY <2>1, <2>2, <2>3
<1>7. CASE q.subject = p.subject /\ ~Settled(p) /\ q.skills = p.skills
  BY <1>2, <1>7 DEF SkillsHold, LessonWithout
<1> QED BY <1>1, <1>4, <1>5, <1>6, <1>7

\* A step that changes neither the row nor a call keeps what is said of them.
LEMMA EditorFormChanges ==
  ASSUME EditorInv, NEW fields \in SUBSET {"subject", "skills", "owed", "open", "related", "catalog"},
         SameBut(screen, screen', fields), EditorShape(screen', server),
         SkillsHold(screen', server.catalog),
         screen.catalog = "here" \/ screen.kind = "course" => screen'.catalog = screen.catalog,
         calls' = calls, server' = server
  PROVE  EditorInv'
<1>1. /\ screen'.kind = screen.kind /\ screen'.row = screen.row /\ screen'.base = screen.base
      /\ screen'.loading = screen.loading /\ screen'.saving = screen.saving
  BY DEF SameBut, EditorFields
<1>2. RowHolds(screen', calls, server) /\ \A c \in calls : EditorCallHolds(c, screen', server)
  BY <1>1 DEF EditorInv, EditorHolds, RowHolds, EditorCallHolds
<1> QED BY <1>2 DEF EditorInv, EditorHolds

LEMMA TaxonomyHereStep == EditorInv /\ TaxonomyHere => EditorInv'
<1> SUFFICES ASSUME EditorInv, TaxonomyHere PROVE EditorInv'
  OBVIOUS
<1>1. PICK outcome \in {"here", "failed"} : screen' = Cleaned([screen EXCEPT !.catalog = outcome])
  BY DEF TaxonomyHere
<1> DEFINE p == [screen EXCEPT !.catalog = outcome]
<1>2. EditorShape(screen, server) /\ SkillsHold(screen, server.catalog)
  BY DEF EditorInv, EditorHolds
<1>3. screen.kind # "course" /\ screen.catalog = "loading" /\ calls' = calls /\ server' = server
  BY DEF TaxonomyHere
<1>4. /\ SameBut(screen, p, {"catalog"}) /\ p.catalog = outcome /\ p.kind = screen.kind
      /\ p.page = screen.page /\ p.row = screen.row /\ p.subject = screen.subject
      /\ p.skills = screen.skills /\ p.owed = screen.owed /\ p.editing = screen.editing
  BY <1>2 DEF EditorShape, SameBut, EditorFields
<1>5. EditorShape(p, server)
  BY <1>2, <1>4 DEF EditorShape, SameBut
<1> HIDE DEF p
<1>6. screen' = Cleaned(p)
  BY <1>1 DEF p
<1>7. ~Settled(p) \/ Look(p) = Look(screen) => SkillsHold(p, server.catalog)
  <2>0. Look(p) # Look(screen)
    BY <1>3, <1>4 DEF Look
  <2> SUFFICES ASSUME ~Settled(p) PROVE SkillsHold(p, server.catalog)
    BY <2>0
  <2>1. p.kind # "lesson"
    BY <1>4 DEF Settled, LessonSettled
  <2>2. outcome = "here" => p.row = 0
    BY <1>2, <1>3, <1>4, <2>1 DEF Settled, FormSettled, EditorShape, EditorKinds
  <2> QED BY <1>2, <1>3, <1>4, <2>1, <2>2 DEF SkillsHold, LessonWithout
<1>8. /\ EditorShape(screen', server) /\ SkillsHold(screen', server.catalog)
      /\ SameBut(p, screen', {"subject", "skills"})
  <2>1. /\ p.subject # "none" => p.skills = p.owed \/ p.skills = p.owed \cap server.catalog
        /\ p.subject = "other" => p.owed = {}
        /\ p.kind # "lesson" /\ p.catalog # "here" /\ p.row = 0 => p.skills = {} /\ p.owed = {}
    BY <1>2, <1>3, <1>4 DEF SkillsHold, LessonWithout
  <2> QED BY <1>3, <1>4, <1>5, <1>6, <1>7, <2>1, CleanedHolds
<1>9. SameBut(screen, screen', {"subject", "skills", "catalog"})
  BY <1>4, <1>8 DEF SameBut
<1> QED BY <1>3, <1>8, <1>9, EditorFormChanges

LEMMA RowHereStep == EditorInv /\ RowHere => EditorInv'
<1> SUFFICES ASSUME EditorInv, RowHere PROVE EditorInv'
  OBVIOUS
<1>1. PICK o : o = IF screen.kind = "course" THEN [screen EXCEPT !.catalog = "here"] ELSE screen
  OBVIOUS
<1> DEFINE p == FilledForm(o)
<1>2. screen' = Cleaned(p) /\ screen.loading /\ calls' = calls /\ server' = server
  BY <1>1 DEF RowHere
<1>3. EditorShape(screen, server) /\ RowHolds(screen, calls, server)
  BY DEF EditorInv, EditorHolds
<1>4. /\ DOMAIN o = EditorFields /\ o.kind = screen.kind /\ o.page = screen.page
      /\ o.catalog = IF screen.kind = "course" THEN "here" ELSE screen.catalog
  BY <1>1, <1>3 DEF EditorShape, EditorFields
<1>5. /\ DOMAIN p = EditorFields /\ p.kind = o.kind /\ p.page = o.page /\ p.catalog = o.catalog
      /\ p.row = server.rev /\ p.base = server.body /\ p.subject = "own"
      /\ p.skills = server.skills /\ p.owed = server.skills /\ p.loading = FALSE
  BY <1>4 DEF FilledForm, EditorFields
<1> HIDE DEF p
<1>6. EditorShape(p, server)
  BY <1>3, <1>4, <1>5 DEF EditorShape
<1>7. ~Settled(p) \/ Look(p) = Look(screen) => SkillsHold(p, server.catalog)
  <2>1. CASE Look(p) = Look(screen)
    <3>1. screen.row = 0 /\ p.row # 0
      BY <1>2, <1>3, <1>5 DEF RowHolds, EditorShape
    <3>2. p.kind \notin {"topic", "library"}
      BY <1>4, <1>5, <2>1, <3>1 DEF Look
    <3>3. p.kind \notin {"newcourse", "course"}
      BY <1>2, <1>3, <1>4, <1>5, <2>1 DEF Look, RowHolds
    <3>4. p.kind = "lesson"
      BY <1>6, <3>2, <3>3 DEF EditorShape, EditorKinds
    <3> QED BY <1>5, <3>4 DEF SkillsHold
  <2> SUFFICES ASSUME ~Settled(p) PROVE SkillsHold(p, server.catalog)
    BY <2>1
  <2>2. p.catalog # "here" /\ ~LessonWithout(p) /\ p.row # 0
    BY <1>3, <1>4, <1>5
       DEF Settled, LessonSettled, FormSettled, LessonWithout, EditorShape, EditorKinds
  <2> QED BY <1>5, <2>2 DEF SkillsHold
<1>8. /\ EditorShape(screen', server) /\ SkillsHold(screen', server.catalog)
      /\ SameBut(p, screen', {"subject", "skills"})
  <2>1. p.row # 0
    BY <1>3, <1>5 DEF EditorShape
  <2> QED BY <1>2, <1>4, <1>5, <1>6, <1>7, <2>1, CleanedHolds
<1>9. calls = {}
  BY <1>2, <1>3 DEF RowHolds
<1>10. /\ screen'.kind = p.kind /\ screen'.row = p.row /\ screen'.base = p.base
       /\ screen'.loading = p.loading /\ screen'.catalog = p.catalog
  BY <1>8 DEF SameBut, EditorFields
<1>11. RowHolds(screen', calls, server)
  BY <1>3, <1>4, <1>5, <1>9, <1>10 DEF RowHolds, EditorShape
<1> QED BY <1>2, <1>8, <1>9, <1>11 DEF EditorInv, EditorHolds

LEMMA RowFailsStep == EditorInv /\ (RowReadFails \/ CancelEditor) => EditorInv'
<1> SUFFICES ASSUME EditorInv, RowReadFails \/ CancelEditor PROVE EditorInv'
  OBVIOUS
<1>1. EditorShape(screen, server) /\ SkillsHold(screen, server.catalog)
  BY DEF EditorInv, EditorHolds
<1>2. CASE CancelEditor
  <2>1. /\ SameBut(screen, screen', {"open"}) /\ screen'.catalog = screen.catalog
        /\ screen'.kind = screen.kind /\ screen'.page = screen.page /\ screen'.row = screen.row
        /\ screen'.subject = screen.subject /\ screen'.skills = screen.skills
        /\ screen'.owed = screen.owed
    BY <1>1, <1>2 DEF CancelEditor, EditorShape, SameBut, EditorFields
  <2>2. EditorShape(screen', server) /\ SkillsHold(screen', server.catalog)
    BY <1>1, <2>1 DEF EditorShape, SkillsHold, LessonWithout, SameBut
  <2> QED BY <1>2, <2>1, <2>2, EditorFormChanges DEF CancelEditor
<1>3. CASE RowReadFails
  <2>1. screen' = [screen EXCEPT !.loading = FALSE] /\ calls' = calls /\ server' = server
    BY <1>3 DEF RowReadFails
  <2>2. /\ DOMAIN screen' = EditorFields /\ screen'.catalog = screen.catalog
        /\ screen'.kind = screen.kind /\ screen'.page = screen.page /\ screen'.row = screen.row
        /\ screen'.subject = screen.subject /\ screen'.skills = screen.skills
        /\ screen'.owed = screen.owed /\ screen'.base = screen.base
        /\ screen'.saving = screen.saving /\ screen'.loading = FALSE
    BY <1>1, <2>1 DEF EditorShape, EditorFields
  <2>3. EditorShape(screen', server) /\ SkillsHold(screen', server.catalog)
    BY <1>1, <2>2 DEF EditorShape, SkillsHold, LessonWithout
  <2>4. RowHolds(screen', calls, server) /\ \A c \in calls : EditorCallHolds(c, screen', server)
    BY <2>2 DEF EditorInv, EditorHolds, RowHolds, EditorCallHolds
  <2> QED BY <2>1, <2>3, <2>4 DEF EditorInv, EditorHolds
<1> QED BY <1>2, <1>3

-----------------------------------------------------------------------------
\* The form.
LEMMA PickSubjectStep ==
  ASSUME EditorInv, NEW s \in EditorSubjects, PickSubject(s)
  PROVE  EditorInv'
<1> DEFINE p == [screen EXCEPT !.subject = s, !.skills = {}, !.owed = {}]
<1>1. screen' = Cleaned(p) /\ calls' = calls /\ server' = server
  BY DEF PickSubject
<1>2. EditorShape(screen, server) /\ SkillsHold(screen, server.catalog)
  BY DEF EditorInv, EditorHolds
<1>3. /\ SameBut(screen, p, {"subject", "skills", "owed"}) /\ p.kind = screen.kind
      /\ p.page = screen.page /\ p.catalog = screen.catalog /\ p.row = screen.row
      /\ p.subject = s /\ p.skills = {} /\ p.owed = {}
  BY <1>2 DEF EditorShape, SameBut, EditorFields
<1> HIDE DEF p
<1>4. EditorShape(p, server) /\ SkillsHold(p, server.catalog)
  BY <1>2, <1>3 DEF EditorShape, SkillsHold, SameBut, EditorSubjects
<1>5. p.kind = "course" => p.catalog = "here"
  BY <1>3 DEF PickSubject, FormInput, CourseShown, EditorInv, EditorHolds, RowHolds
<1>6. /\ EditorShape(screen', server) /\ SkillsHold(screen', server.catalog)
      /\ SameBut(p, screen', {"subject", "skills"})
  BY <1>1, <1>3, <1>4, <1>5, CleanedHolds
<1>7. SameBut(screen, screen', {"subject", "skills", "owed"}) /\ screen'.catalog = screen.catalog
  BY <1>3, <1>6 DEF SameBut, EditorFields
<1> QED BY <1>1, <1>6, <1>7, EditorFormChanges

LEMMA TickSkillStep ==
  ASSUME EditorInv, NEW k \in Skills, TickSkill(k)
  PROVE  EditorInv'
<1>1. EditorShape(screen, server) /\ SkillsHold(screen, server.catalog)
  BY DEF EditorInv, EditorHolds
<1>2. screen.catalog = "here" /\ screen.subject = "own" /\ k \in server.catalog
  BY DEF TickSkill, Offers
<1>3. PICK skills, owed : /\ screen' = [screen EXCEPT !.skills = skills, !.owed = owed]
                          /\ \/ skills = screen.skills \ {k} /\ owed = screen.owed \ {k}
                             \/ skills = screen.skills \cup {k} /\ owed = screen.owed \cup {k}
  BY DEF TickSkill
<1>4. /\ SameBut(screen, screen', {"skills", "owed"}) /\ screen'.kind = screen.kind
      /\ screen'.page = screen.page /\ screen'.catalog = screen.catalog
      /\ screen'.row = screen.row /\ screen'.subject = screen.subject
      /\ screen'.skills = skills /\ screen'.owed = owed
  BY <1>1, <1>3 DEF EditorShape, SameBut, EditorFields
<1>5. skills = owed \cap server.catalog \/ (screen.kind = "lesson" /\ skills = owed)
  BY <1>1, <1>2, <1>3 DEF SkillsHold, LessonWithout
<1>6. EditorShape(screen', server) /\ SkillsHold(screen', server.catalog)
  BY <1>1, <1>2, <1>4, <1>5 DEF EditorShape, SkillsHold, LessonWithout, SameBut
<1>7. calls' = calls /\ server' = server
  BY DEF TickSkill
<1> QED BY <1>4, <1>6, <1>7, EditorFormChanges

\* What is sent begins with the form as it is.
LEMMA EditorSends ==
  ASSUME EditorInv, ~screen.saving, ~screen.loading, NEW d,
         screen' = [screen EXCEPT !.saving = TRUE], calls' = calls \cup {d}, server' = server,
         EditorCallHolds(d, screen, server)
  PROVE  EditorInv'
<1>1. EditorShape(screen, server) /\ SkillsHold(screen, server.catalog)
  BY DEF EditorInv, EditorHolds
<1>2. /\ DOMAIN screen' = EditorFields /\ screen'.catalog = screen.catalog
      /\ screen'.kind = screen.kind /\ screen'.page = screen.page /\ screen'.row = screen.row
      /\ screen'.subject = screen.subject /\ screen'.skills = screen.skills
      /\ screen'.owed = screen.owed /\ screen'.base = screen.base
      /\ screen'.loading = screen.loading /\ screen'.saving = TRUE
  BY <1>1 DEF EditorShape, EditorFields
<1>3. EditorShape(screen', server) /\ SkillsHold(screen', server.catalog)
  BY <1>1, <1>2 DEF EditorShape, SkillsHold, LessonWithout
<1>4. calls' = {d}
  BY DEF EditorInv, EditorHolds, RowHolds
<1>5. RowHolds(screen', {d}, server) /\ EditorCallHolds(d, screen', server)
  BY <1>2 DEF EditorInv, EditorHolds, RowHolds, EditorCallHolds
<1> QED BY <1>3, <1>4, <1>5 DEF EditorInv, EditorHolds

LEMMA SaveFormStep ==
  ASSUME EditorInv, SaveForm, Complete, screen.catalog = "here" \/ screen.kind = "course"
                                        \/ (screen.kind = "lesson" /\ screen.catalog # "loading")
  PROVE  EditorInv'
<1> DEFINE d == [kind |-> IF screen.row # 0 THEN "update" ELSE "create", expected |-> screen.row,
                 base |-> screen.base, skills |-> screen.skills, owed |-> screen.owed,
                 answer |-> 0, stage |-> "sent"]
<1>1. EditorShape(screen, server) /\ SkillsHold(screen, server.catalog)
      /\ RowHolds(screen, calls, server)
  BY DEF EditorInv, EditorHolds
<1>2. /\ ~screen.saving /\ ~screen.loading /\ screen.subject # "none" /\ screen.skills # {}
      /\ screen.kind = "course" => screen.row # 0
  BY DEF Complete, FormInput, Editing, CourseShown
<1>3. screen.kind = "course" => screen.catalog = "here"
  BY <1>1, <1>2 DEF RowHolds
<1>4. \/ screen.skills = screen.owed \cap server.catalog
      \/ screen.kind = "lesson" /\ screen.skills = screen.owed
  BY <1>1, <1>2, <1>3 DEF SkillsHold, LessonWithout, EditorShape
<1>5. screen.row \in Nat /\ server.rev \in Nat \ {0}
  BY <1>1 DEF EditorShape
<1>6. EditorCallHolds(d, screen, server)
  BY <1>1, <1>2, <1>3, <1>4, <1>5 DEF EditorCallHolds, EditorCallFields, RowHolds
<1>7. screen' = [screen EXCEPT !.saving = TRUE] /\ calls' = calls \cup {d} /\ server' = server
  BY DEF SaveForm
<1> HIDE DEF d
<1> QED BY <1>2, <1>6, <1>7, EditorSends

LEMMA RelateStep == EditorInv /\ Relate => EditorInv'
<1> SUFFICES ASSUME EditorInv, Relate PROVE EditorInv'
  OBVIOUS
<1> DEFINE d == [kind |-> "relate", expected |-> screen.row, base |-> screen.base, skills |-> {},
                 owed |-> {}, answer |-> 0, stage |-> "sent"]
<1>1. EditorShape(screen, server) /\ RowHolds(screen, calls, server)
  BY DEF EditorInv, EditorHolds
<1>2. ~screen.saving /\ ~screen.loading /\ screen.row # 0
  BY DEF Relate, FormInput, Editing
<1>3. screen.row \in Nat /\ server.rev \in Nat \ {0}
  BY <1>1 DEF EditorShape
<1>4. EditorCallHolds(d, screen, server)
  BY <1>1, <1>2, <1>3 DEF EditorCallHolds, EditorCallFields, RowHolds
<1>5. screen' = [screen EXCEPT !.saving = TRUE] /\ calls' = calls \cup {d} /\ server' = server
  BY DEF Relate
<1> HIDE DEF d
<1> QED BY <1>2, <1>4, <1>5, EditorSends

LEMMA EditorButtonStep ==
  ASSUME EditorInv,
         \/ TopicEditor \/ LessonEditor \/ LibraryEditor \/ CoursePanel
         \/ CourseSettings \/ CourseAttachments \/ CourseCurriculum
  PROVE  EditorInv'
<1>1. CASE FillForm
  BY <1>1, PickSubjectStep, TickSkillStep DEF FillForm
<1>2. CASE TopicSubmit \/ LibrarySubmit \/ CreateCourse
  BY <1>2, SaveFormStep DEF TopicSubmit, LibrarySubmit, CreateCourse
<1>3. CASE screen.kind = "lesson" /\ LessonSubmit
  BY <1>3, SaveFormStep DEF LessonSubmit
<1>4. CASE screen.kind = "course" /\ SaveSettings
  BY <1>4, SaveFormStep DEF SaveSettings
<1>5. CASE LinkTopic \/ WriteModules
  BY <1>5, RelateStep DEF LinkTopic, WriteModules
<1> QED BY <1>1, <1>2, <1>3, <1>4, <1>5
        DEF TopicEditor, LessonEditor, LibraryEditor, CoursePanel, CourseSettings,
            CourseAttachments, CourseCurriculum

-----------------------------------------------------------------------------
\* The server and the answers.
LEMMA AnotherWritesStep == EditorInv /\ AnotherWrites => EditorInv'
<1> SUFFICES ASSUME EditorInv, AnotherWrites PROVE EditorInv'
  OBVIOUS
<1>1. PICK skills : server' = [server EXCEPT !.rev = @ + 1, !.body = server.rev + 1, !.skills = skills]
  BY DEF AnotherWrites
<1>2. EditorShape(screen, server)
  BY DEF EditorInv, EditorHolds
<1>3. /\ DOMAIN server' = {"rev", "body", "skills", "catalog", "locked"}
      /\ server'.rev = server.rev + 1 /\ server'.catalog = server.catalog
      /\ server.rev \in Nat \ {0} /\ screen.row \in Nat
  BY <1>1, <1>2 DEF EditorShape
<1>4. screen' = screen /\ calls' = calls
  BY DEF AnotherWrites
<1>5. EditorShape(screen, server')
  BY <1>2, <1>3 DEF EditorShape
<1>6. RowHolds(screen, calls, server')
  BY <1>3 DEF EditorInv, EditorHolds, RowHolds
<1>7. ASSUME NEW c \in calls PROVE EditorCallHolds(c, screen, server')
  <2>1. EditorCallHolds(c, screen, server)
    BY DEF EditorInv, EditorHolds
  <2> QED BY <1>3, <2>1 DEF EditorCallHolds
<1> QED BY <1>3, <1>4, <1>5, <1>6, <1>7 DEF EditorInv, EditorHolds

\* The call goes on, and the server may have written it.
LEMMA EditorGoesOn ==
  ASSUME EditorInv, NEW c \in calls, NEW d, screen' = screen,
         calls' = (calls \ {c}) \cup {d}, EditorCallHolds(d, screen, server'),
         EditorShape(screen, server'), server'.catalog = server.catalog,
         server' = server \/ server'.rev = server.rev + 1
  PROVE  EditorInv'
<1>1. calls = {c}
  BY DEF EditorInv, EditorHolds, RowHolds
<1>2. server.rev \in Nat /\ screen.row \in Nat
  BY DEF EditorInv, EditorHolds, EditorShape
<1>3. RowHolds(screen, {d}, server')
  BY <1>1, <1>2 DEF EditorInv, EditorHolds, RowHolds
<1> QED BY <1>1, <1>3 DEF EditorInv, EditorHolds

LEMMA EditorStoredStep ==
  ASSUME EditorInv, NEW c \in calls, EditorStored(c)
  PROVE  EditorInv'
<1>1. EditorShape(screen, server) /\ EditorCallHolds(c, screen, server)
  BY DEF EditorInv, EditorHolds
<1>2. c.stage = "sent" /\ screen' = screen
  BY DEF EditorStored
<1>3. ASSUME NEW stage \in {"ok", "refused"}, Advances(c, stage), server' = server,
             stage = "ok" => c.kind = "create"
      PROVE  EditorInv'
  <2> DEFINE d == [c EXCEPT !.stage = stage]
  <2>1. DOMAIN d = EditorCallFields /\ d.stage = stage /\ d.kind = c.kind
        /\ \A f \in EditorCallFields \ {"stage"} : d[f] = c[f]
    BY <1>1 DEF EditorCallHolds, EditorCallFields
  <2>2. calls' = (calls \ {c}) \cup {d}
    BY <1>3 DEF Advances
  <2> HIDE DEF d
  <2>3. EditorCallHolds(d, screen, server)
    BY <1>1, <1>3, <2>1 DEF EditorCallHolds, EditorCallFields
  <2> QED BY <1>1, <1>2, <1>3, <2>2, <2>3, EditorGoesOn
<1>4. CASE c.kind # "create" /\ c.expected = server.rev
  <2> DEFINE d == [c EXCEPT !.stage = "ok", !.answer = server.rev + 1]
  <2>1. DOMAIN d = EditorCallFields /\ d.stage = "ok" /\ d.answer = server.rev + 1
        /\ \A f \in EditorCallFields \ {"stage", "answer"} : d[f] = c[f]
    BY <1>1 DEF EditorCallHolds, EditorCallFields
  <2>2. PICK body, skills :
          /\ server' = [server EXCEPT !.rev = @ + 1, !.body = body, !.skills = skills]
          /\ body = IF c.kind = "update" THEN server.rev + 1 ELSE server.body
    BY <1>4 DEF EditorStored
  <2>3. calls' = (calls \ {c}) \cup {d}
    BY <1>4 DEF EditorStored
  <2> HIDE DEF d
  <2>4. /\ DOMAIN server' = {"rev", "body", "skills", "catalog", "locked"}
        /\ server'.rev = server.rev + 1 /\ server'.catalog = server.catalog
        /\ server.rev \in Nat \ {0} /\ server'.body = body
    BY <1>1, <2>2 DEF EditorShape
  <2>5. EditorShape(screen, server')
    BY <1>1, <2>4 DEF EditorShape
  <2>6. d.kind = c.kind /\ d.expected = c.expected /\ d.base = c.base /\ d.skills = c.skills
    BY <2>1 DEF EditorCallFields
  <2>7. EditorCallHolds(d, screen, server')
    BY <1>1, <1>2, <1>4, <2>1, <2>2, <2>4, <2>6 DEF EditorCallHolds
  <2> QED BY <1>2, <2>3, <2>4, <2>5, <2>7, EditorGoesOn
<1> QED BY <1>3, <1>4 DEF EditorStored

\* The call is over, and the page may go on with what it answered.
LEMMA EditorIsOver ==
  ASSUME EditorInv, NEW c \in calls, Ended(c), server' = server,
         EditorShape(screen', server), SkillsHold(screen', server.catalog),
         screen'.row <= server.rev, screen'.row = server.rev => screen'.base = server.body,
         screen'.kind = screen.kind, screen'.loading = screen.loading,
         screen'.catalog = screen.catalog
  PROVE  EditorInv'
<1>1. calls' = {} /\ ~screen.loading
  BY DEF EditorInv, EditorHolds, RowHolds, Ended
<1>2. screen.kind = "course" => screen.catalog = "here"
  BY DEF EditorInv, EditorHolds, EditorCallHolds
<1>3. RowHolds(screen', {}, server)
  BY <1>1, <1>2 DEF RowHolds
<1> QED BY <1>1, <1>3 DEF EditorInv, EditorHolds

\* What the form holds does not depend on the other fields.
LEMMA SkillsKeep ==
  ASSUME EditorInv, NEW fields \in SUBSET {"open", "saving", "related"},
         SameBut(screen, screen', fields)
  PROVE  /\ EditorShape(screen', server) /\ SkillsHold(screen', server.catalog)
         /\ screen'.row <= server.rev /\ (screen'.row = server.rev => screen'.base = server.body)
         /\ screen'.kind = screen.kind /\ screen'.loading = screen.loading
         /\ screen'.catalog = screen.catalog
<1>1. EditorShape(screen, server) /\ SkillsHold(screen, server.catalog)
      /\ RowHolds(screen, calls, server)
  BY DEF EditorInv, EditorHolds
<1>2. /\ DOMAIN screen' = EditorFields /\ screen'.catalog = screen.catalog
      /\ screen'.kind = screen.kind /\ screen'.page = screen.page /\ screen'.row = screen.row
      /\ screen'.subject = screen.subject /\ screen'.skills = screen.skills
      /\ screen'.owed = screen.owed /\ screen'.base = screen.base
      /\ screen'.loading = screen.loading
  BY DEF SameBut, EditorFields
<1>3. EditorShape(screen', server) /\ SkillsHold(screen', server.catalog)
  BY <1>1, <1>2 DEF EditorShape, SkillsHold, LessonWithout
<1> QED BY <1>1, <1>2, <1>3 DEF RowHolds

LEMMA EditorSaveDoneStep ==
  ASSUME EditorInv, NEW c \in calls, EditorSaveDone(c)
  PROVE  EditorInv'
<1>1. /\ EditorShape(screen, server) /\ EditorCallHolds(c, screen, server)
      /\ RowHolds(screen, calls, server)
  BY DEF EditorInv, EditorHolds
<1>2. CASE ~screen.open \/ screen.kind # "course"
  <2>1. screen' = screen \/ screen' = [screen EXCEPT !.open = FALSE, !.saving = FALSE]
    BY <1>2 DEF EditorSaveDone
  <2>2. SameBut(screen, screen', {"open", "saving"})
    BY <1>1, <2>1 DEF EditorShape, SameBut, EditorFields
  <2> QED BY <2>2, SkillsKeep, EditorIsOver DEF EditorSaveDone
<1>3. CASE screen.open /\ screen.kind = "course"
  <2> DEFINE p == [screen EXCEPT !.row = c.answer, !.base = c.answer, !.subject = "own",
                                 !.skills = c.skills, !.owed = c.skills, !.saving = FALSE]
  <2>1. screen' = Cleaned(p)
    BY <1>3 DEF EditorSaveDone
  <2>2. /\ c.kind = "update" /\ c.stage = "ok" /\ screen.catalog = "here"
        /\ c.answer \in Nat \ {0} /\ c.answer <= server.rev
        /\ c.answer = server.rev => server.body = c.answer
        /\ c.skills \subseteq server.catalog
    BY <1>1, <1>3 DEF EditorSaveDone, EditorCallHolds
  <2>3. /\ DOMAIN p = EditorFields /\ p.page = screen.page /\ p.kind = screen.kind
        /\ p.catalog = screen.catalog /\ p.subject = "own" /\ p.skills = c.skills
        /\ p.owed = c.skills /\ p.row = c.answer /\ p.base = c.answer
        /\ p.loading = screen.loading
    BY <1>1 DEF EditorShape, EditorFields
  <2> HIDE DEF p
  <2>4. EditorShape(p, server)
    BY <1>1, <2>2, <2>3 DEF EditorShape
  <2>5. Settled(p)
    BY <1>3, <2>3 DEF Settled
  <2>6. SkillsHold(p, server.catalog)
    BY <1>3, <2>2, <2>3 DEF SkillsHold
  <2>7. /\ EditorShape(screen', server) /\ SkillsHold(screen', server.catalog)
        /\ SameBut(p, screen', {"subject", "skills"})
    BY <1>3, <2>1, <2>2, <2>3, <2>4, <2>5, <2>6, CleanedHolds
  <2>8. /\ screen'.row = p.row /\ screen'.base = p.base /\ screen'.kind = p.kind
        /\ screen'.loading = p.loading /\ screen'.catalog = p.catalog
    BY <2>7 DEF SameBut, EditorFields
  <2> QED BY <2>2, <2>3, <2>7, <2>8, EditorIsOver DEF EditorSaveDone
<1> QED BY <1>2, <1>3

LEMMA RelateDoneStep ==
  ASSUME EditorInv, NEW c \in calls, RelateDone(c)
  PROVE  EditorInv'
<1>1. /\ EditorShape(screen, server) /\ EditorCallHolds(c, screen, server)
      /\ RowHolds(screen, calls, server) /\ SkillsHold(screen, server.catalog)
  BY DEF EditorInv, EditorHolds
<1> DEFINE d == [c EXCEPT !.stage = "refresh"]
<1>2. /\ DOMAIN d = EditorCallFields /\ d.stage = "refresh" /\ d.kind = c.kind
      /\ d.expected = c.expected /\ d.base = c.base /\ d.skills = c.skills
  BY <1>1 DEF EditorCallHolds, EditorCallFields
<1>3. calls' = {d} /\ server' = server
  BY <1>1 DEF RelateDone, Advances, RowHolds
<1> HIDE DEF d
<1>4. /\ c.kind = "relate" /\ c.stage = "ok" /\ c.answer \in Nat \ {0} /\ c.answer <= server.rev
      /\ c.answer = server.rev => server.body = screen.base
  BY <1>1 DEF RelateDone, EditorCallHolds
<1>5. screen' = [screen EXCEPT !.row = c.answer, !.related = FALSE]
  BY DEF RelateDone, Adopts
<1>6. /\ DOMAIN screen' = EditorFields /\ screen'.catalog = screen.catalog
      /\ screen'.kind = screen.kind /\ screen'.page = screen.page /\ screen'.row = c.answer
      /\ screen'.subject = screen.subject /\ screen'.skills = screen.skills
      /\ screen'.owed = screen.owed /\ screen'.base = screen.base
      /\ screen'.loading = screen.loading /\ screen'.saving = screen.saving
  BY <1>1, <1>5 DEF EditorShape, EditorFields
<1>7. EditorShape(screen', server) /\ SkillsHold(screen', server.catalog)
  BY <1>1, <1>4, <1>6 DEF EditorShape, SkillsHold, LessonWithout
<1>8. RowHolds(screen', {d}, server)
  BY <1>1, <1>4, <1>6 DEF RowHolds, EditorCallHolds
<1>9. EditorCallHolds(d, screen', server)
  BY <1>1, <1>2, <1>4, <1>6 DEF EditorCallHolds
<1> QED BY <1>3, <1>7, <1>8, <1>9 DEF EditorInv, EditorHolds

LEMMA EditorEndsStep ==
  ASSUME EditorInv, NEW c \in calls, RelateRefreshed(c) \/ EditorCallFails(c)
  PROVE  EditorInv'
<1>1. PICK related : \/ screen' = [screen EXCEPT !.saving = FALSE, !.related = related]
                     \/ screen' = [screen EXCEPT !.saving = FALSE]
  BY DEF RelateRefreshed, EditorCallFails
<1>2. SameBut(screen, screen', {"saving", "related"})
  BY <1>1 DEF EditorInv, EditorHolds, EditorShape, SameBut, EditorFields
<1> QED BY <1>2, SkillsKeep, EditorIsOver DEF RelateRefreshed, EditorCallFails

LEMMA EditorStep == EditorInv /\ [EditorNext]_tabVars => EditorInv'
<1>1. EditorInv /\ UNCHANGED tabVars => EditorInv'
  BY DEF tabVars, EditorInv
<1> QED BY <1>1, TaxonomyHereStep, RowHereStep, RowFailsStep, AnotherWritesStep, EditorButtonStep,
           EditorStoredStep, EditorSaveDoneStep, RelateDoneStep, EditorEndsStep DEF EditorNext

LEMMA EditorIsRight == EditorInv => LinksKept /\ NoBlindOverwrite
BY DEF EditorInv, EditorHolds, EditorCallHolds, LinksKept, NoBlindOverwrite

(***************************************************************************)
(* HomepageEditor: the stored home page is not overwritten by the defaults.  *)
(***************************************************************************)
HomepageFields ==
  {"page", "present", "loading", "loadFailed", "catalog", "saving", "base", "edits", "changed",
   "visitor", "patched"}
HomepageCallFields == {"kind", "version", "base", "part"}

\* A draft that may be saved was filled from the server; so was what a save sends.
HomepageCall(c) ==
  /\ DOMAIN c = HomepageCallFields
  /\ c.kind = "save" => c.base # Default /\ c.version \in Int

HomepageHolds(p, cs, sv) ==
  /\ p.page = "homepage" /\ DOMAIN p = HomepageFields
  /\ ~p.loading /\ ~p.loadFailed => p.base # Default
  /\ p.patched \in Int /\ (p.patched # 0 => p.visitor = p.patched)
  /\ \A c \in cs : HomepageCall(c)
  /\ DOMAIN sv = {"version", "blind"} /\ sv.version \in Nat /\ ~sv.blind

HomepageInv == HomepageHolds(screen, calls, server)

LEMMA ReadingForm ==
  ASSUME NEW kind
  PROVE  /\ DOMAIN Reading(kind) = HomepageCallFields /\ Reading(kind).kind = kind
         /\ Reading(kind).version = Default /\ Default \in Int
BY DEF Reading, HomepageCallFields, Default

LEMMA HomepageStart == HomepageInit => HomepageInv
<1> SUFFICES ASSUME HomepageInit PROVE HomepageInv
  OBVIOUS
<1>1. /\ screen.page = "homepage" /\ DOMAIN screen = HomepageFields /\ screen.loading
      /\ screen.patched = 0
  BY DEF HomepageInit, HomepageFields
<1>2. \A c \in calls : \E kind \in {"settings", "catalog", "visitor"} : c = Reading(kind)
  BY DEF HomepageInit
<1>4. ASSUME NEW c \in calls PROVE HomepageCall(c)
  <2>1. PICK kind \in {"settings", "catalog", "visitor"} : c = Reading(kind)
    BY <1>2
  <2>2. DOMAIN c = HomepageCallFields /\ c.kind = kind
    BY <2>1, ReadingForm
  <2> QED BY <2>2 DEF HomepageCall
<1>3. DOMAIN server = {"version", "blind"} /\ server.version \in {0, 1} /\ server.blind \in {FALSE}
  BY DEF HomepageInit
<1>5. server.version \in Nat /\ ~server.blind
  <2>1. server.blind = FALSE
    BY <1>3
  <2> QED BY <1>3, <2>1
<1>6. screen.patched \in Int /\ ~(screen.patched # 0)
  BY <1>1
<1> QED BY <1>1, <1>3, <1>4, <1>5, <1>6 DEF HomepageInv, HomepageHolds

\* What editing leaves alone.
SameHomepage ==
  /\ DOMAIN screen' = HomepageFields /\ screen'.page = screen.page
  /\ screen'.loading = screen.loading /\ screen'.loadFailed = screen.loadFailed
  /\ screen'.base = screen.base /\ screen'.visitor = screen.visitor
  /\ screen'.patched = screen.patched

LEMMA HomepageKept ==
  ASSUME HomepageInv, SameHomepage, NEW d, HomepageCall(d), calls' \subseteq calls \cup {d},
         DOMAIN server' = {"version", "blind"}, server'.version \in Nat, ~server'.blind
  PROVE  HomepageInv'
BY DEF HomepageInv, HomepageHolds, SameHomepage

LEMMA HomepageStays ==
  ASSUME HomepageInv, SameHomepage, calls' \subseteq calls, server' = server
  PROVE  HomepageInv'
BY DEF HomepageInv, HomepageHolds, SameHomepage

LEMMA HomepageEditStep ==
  ASSUME HomepageInv,
         \/ \E part : Edit(part)
         \/ \E part : ChooseImage(part)
         \/ HandleSave
  PROVE  HomepageInv'
<1> USE DEF HomepageInv, HomepageHolds
<1>1. ASSUME NEW part, Edit(part) PROVE HomepageInv'
  <2>1. SameHomepage
    BY <1>1 DEF Edit, SameHomepage, HomepageFields
  <2> QED BY <1>1, <2>1, HomepageStays DEF Edit
<1>2. ASSUME NEW part, ChooseImage(part) PROVE HomepageInv'
  <2> DEFINE d == [Reading("file") EXCEPT !.version = screen.changed, !.part = part]
  <2>1. SameHomepage
    BY <1>2 DEF ChooseImage, SameHomepage, HomepageFields
  <2>2. calls' = calls \cup {d} /\ server' = server
    BY <1>2 DEF ChooseImage
  <2>3. HomepageCall(d)
    BY ReadingForm DEF HomepageCall, HomepageCallFields
  <2> HIDE DEF d
  <2> QED BY <2>1, <2>2, <2>3, HomepageKept
<1>3. CASE HandleSave
  <2> DEFINE d == [Reading("save") EXCEPT !.base = screen.base]
  <2>1. SameHomepage
    BY <1>3 DEF HandleSave, SameHomepage, HomepageFields
  <2>2. calls' = calls \cup {d} /\ server' = server
    BY <1>3 DEF HandleSave
  <2>3. HomepageCall(d)
    BY <1>3, ReadingForm DEF HandleSave, MaySave, HomepageCall, HomepageCallFields
  <2> HIDE DEF d
  <2> QED BY <2>1, <2>2, <2>3, HomepageKept
<1> QED BY <1>1, <1>2, <1>3

LEMMA HomepageAnswerStep ==
  ASSUME HomepageInv, NEW c \in calls,
         ImageRead(c) \/ CatalogAnswers(c) \/ SaveFails(c) \/ VisitorFails(c)
  PROVE  HomepageInv'
<1> USE DEF HomepageInv, HomepageHolds
<1>1. calls' \subseteq calls /\ server' = server
  BY DEF ImageRead, CatalogAnswers, SaveFails, VisitorFails, Ended
<1>2. CASE ImageRead(c)
  <2>1. screen' \in {screen, [screen EXCEPT !.edits = @ \cup {c.part}]}
    BY <1>2 DEF ImageRead
  <2>2. SameHomepage
    BY <2>1 DEF SameHomepage, HomepageFields
  <2> QED BY <1>1, <2>2, HomepageStays
<1>3. CASE CatalogAnswers(c)
  <2>1. screen' \in {[screen EXCEPT !.catalog = "ready"], [screen EXCEPT !.catalog = "failed"]}
    BY <1>3 DEF CatalogAnswers
  <2>2. SameHomepage
    BY <2>1 DEF SameHomepage, HomepageFields
  <2> QED BY <1>1, <2>2, HomepageStays
<1>4. CASE SaveFails(c)
  <2>1. PICK present : screen' = [screen EXCEPT !.saving = FALSE, !.present = present]
    BY <1>4 DEF SaveFails
  <2>2. SameHomepage
    BY <2>1 DEF SameHomepage, HomepageFields
  <2> QED BY <1>1, <2>2, HomepageStays
<1>5. CASE VisitorFails(c)
  <2>1. SameHomepage
    BY <1>5 DEF VisitorFails, SameHomepage
  <2> QED BY <1>1, <2>1, HomepageStays
<1> QED BY <1>2, <1>3, <1>4, <1>5

LEMMA HomepageServerStep ==
  ASSUME HomepageInv,
         \/ AnotherAdminSaves
         \/ \E c \in calls : SettingsRead(c) \/ SaveStored(c)
  PROVE  HomepageInv'
<1> USE DEF HomepageInv, HomepageHolds
<1>1. CASE AnotherAdminSaves
  <2>1. /\ DOMAIN server' = {"version", "blind"} /\ server'.version \in Nat /\ ~server'.blind
        /\ SameHomepage
    BY <1>1 DEF AnotherAdminSaves, SameHomepage
  <2> QED BY <1>1, <2>1 DEF AnotherAdminSaves, SameHomepage
<1>2. ASSUME NEW c \in calls, NEW version \in Int, screen' = screen,
             calls' = (calls \ {c}) \cup {[c EXCEPT !.version = version]},
             DOMAIN server' = {"version", "blind"}, server'.version \in Nat, ~server'.blind
      PROVE  HomepageInv'
  <2> DEFINE d == [c EXCEPT !.version = version]
  <2>1. HomepageCall(d)
    BY <1>2 DEF HomepageCall, HomepageCallFields
  <2>2. calls' \subseteq calls \cup {d} /\ SameHomepage
    BY <1>2 DEF SameHomepage
  <2> HIDE DEF d
  <2> QED BY <1>2, <2>1, <2>2, HomepageKept
<1>3. ASSUME NEW c \in calls, SettingsRead(c) PROVE HomepageInv'
  BY <1>2, <1>3 DEF SettingsRead
<1>4. ASSUME NEW c \in calls, SaveStored(c) PROVE HomepageInv'
  <2>1. c.base # Default
    BY <1>4 DEF SaveStored, HomepageCall
  <2>2. DOMAIN server' = {"version", "blind"} /\ server'.version = server.version + 1 /\ ~server'.blind
    BY <1>4, <2>1 DEF SaveStored
  <2> QED BY <1>2, <1>4, <2>2 DEF SaveStored
<1> QED BY <1>1, <1>3, <1>4

LEMMA HomepageShowsStep ==
  ASSUME HomepageInv, NEW c \in calls,
         SettingsArrive(c) \/ SettingsFail(c) \/ HomepageSaved(c) \/ VisitorArrives(c)
  PROVE  HomepageInv'
<1> USE DEF HomepageInv, HomepageHolds
<1>1. calls' \subseteq calls /\ server' = server
  BY DEF SettingsArrive, SettingsFail, HomepageSaved, VisitorArrives, Ended
<1>2. CASE SettingsArrive(c)
  <2>1. DOMAIN screen' = HomepageFields /\ screen'.page = screen.page /\ screen'.base # Default
        /\ screen'.visitor = screen.visitor /\ screen'.patched = screen.patched
    BY <1>2 DEF SettingsArrive, HomepageFields
  <2> QED BY <1>1, <2>1
<1>3. CASE SettingsFail(c)
  <2>1. DOMAIN screen' = HomepageFields /\ screen'.page = screen.page /\ screen'.loadFailed
        /\ screen'.visitor = screen.visitor /\ screen'.patched = screen.patched
    BY <1>3 DEF SettingsFail, HomepageFields
  <2> QED BY <1>1, <2>1
<1>4. CASE HomepageSaved(c)
  <2>1. c.version \in Int /\ c.version # Default
    BY <1>4 DEF HomepageSaved, HomepageCall
  <2>2. DOMAIN screen' = HomepageFields /\ screen'.page = screen.page /\ screen'.base = c.version
        /\ screen'.visitor = c.version /\ screen'.patched = c.version
    BY <1>4 DEF HomepageSaved, Broadcast, HomepageFields
  <2> QED BY <1>1, <2>1, <2>2
<1>5. CASE VisitorArrives(c)
  <2>1. screen' = [screen EXCEPT !.visitor = VisitorShows(c)]
        /\ (screen.patched # 0 => VisitorShows(c) = screen.patched)
    BY <1>5 DEF VisitorArrives, VisitorShows
  <2>2. /\ DOMAIN screen' = HomepageFields /\ screen'.page = screen.page
        /\ screen'.base = screen.base /\ screen'.loading = screen.loading
        /\ screen'.loadFailed = screen.loadFailed /\ screen'.patched = screen.patched
        /\ (screen.patched # 0 => screen'.visitor = screen.patched)
    BY <2>1 DEF HomepageFields
  <2> QED BY <1>1, <2>2
<1> QED BY <1>2, <1>3, <1>4, <1>5

LEMMA HomepageStep == HomepageInv /\ [HomepageNext]_tabVars => HomepageInv'
<1> SUFFICES ASSUME HomepageInv, [HomepageNext]_tabVars PROVE HomepageInv'
  OBVIOUS
<1>1. CASE UNCHANGED tabVars
  BY <1>1 DEF tabVars, HomepageInv
<1>2. CASE \/ EditBrand \/ EditHero \/ EditHeroTexts \/ EditGallery \/ PickPreset
           \/ EditTestimonials \/ EditSections
  BY <1>2, HomepageEditStep DEF EditBrand, EditHero, EditHeroTexts, EditGallery, PickPreset,
     EditTestimonials, EditSections
<1>3. CASE HandleSave \/ \E part \in HomepageParts \ {"sections"} : ChooseImage(part)
  BY <1>3, HomepageEditStep
<1> QED BY <1>1, <1>2, <1>3, HomepageAnswerStep, HomepageServerStep, HomepageShowsStep
        DEF HomepageNext

LEMMA HomepageIsKept == HomepageInv => HomepageIsNeverLost
BY DEF HomepageInv, HomepageHolds, HomepageIsNeverLost

(***************************************************************************)
(* PlatformFonts: what the site shows is what the editor shows.              *)
(***************************************************************************)
FontsFields ==
  {"page", "present", "loading", "saving", "fonts", "applied", "changed", "events"}

\* Once something was announced the two agree, closed or open; and the bootstrap
\* asked before anything was.
FontsHold(p, cs) ==
  /\ p.page = "fonts" /\ DOMAIN p = FontsFields /\ p.events \in Nat
  /\ p.events > 0 => p.applied = p.fonts
  /\ \A c \in cs : DOMAIN c = {"kind", "version", "asked", "n", "fonts"}
                   /\ (c.kind = "bootstrap" => c.asked = 0)

FontsInv == FontsHold(screen, calls)

LEMMA FontCallForms ==
  ASSUME NEW kind
  PROVE  /\ DOMAIN FontCall(kind) = {"kind", "version", "asked", "n", "fonts"}
         /\ FontCall(kind).asked = 0
BY DEF FontCall

LEMMA FontsStart == FontsInit => FontsInv
<1> SUFFICES ASSUME FontsInit PROVE FontsInv
  OBVIOUS
<1>1. /\ screen.page = "fonts" /\ DOMAIN screen = FontsFields /\ screen.events = 0
      /\ \A c \in calls : c = FontCall("manager") \/ c = FontCall("idle")
  BY DEF FontsInit, FontsFields
<1> QED BY <1>1, FontCallForms DEF FontsInv, FontsHold

\* A call is begun, goes on or is over, and nothing that is shown changes, or both
\* the form and the document change together.
LEMMA FontsMove ==
  ASSUME FontsInv, NEW d, calls' \subseteq calls \cup {d},
         DOMAIN d = {"kind", "version", "asked", "n", "fonts"}, d.kind = "bootstrap" => d.asked = 0,
         screen'.page = screen.page, DOMAIN screen' = FontsFields,
         \/ /\ screen'.events = screen.events /\ screen'.applied = screen.applied
            /\ screen'.fonts = screen.fonts
         \/ screen'.events \in {screen.events, screen.events + 1} /\ screen'.applied = screen'.fonts
  PROVE  FontsInv'
BY DEF FontsInv, FontsHold

LEMMA FontsEnd ==
  ASSUME FontsInv, calls' \subseteq calls,
         screen'.page = screen.page, DOMAIN screen' = FontsFields,
         \/ /\ screen'.events = screen.events /\ screen'.applied = screen.applied
            /\ screen'.fonts = screen.fonts
         \/ screen'.events \in {screen.events, screen.events + 1} /\ screen'.applied = screen'.fonts
  PROVE  FontsInv'
BY DEF FontsInv, FontsHold

LEMMA FontsReadStep ==
  ASSUME FontsInv, NEW c \in calls,
         FontsIdle(c) \/ FontsRead(c) \/ FontsArrive(c) \/ BootstrapArrives(c)
  PROVE  FontsInv'
<1> USE DEF FontsInv, FontsHold
<1>1. CASE FontsIdle(c)
  BY <1>1, FontCallForms, FontsMove DEF FontsIdle, Ended
<1>2. CASE FontsRead(c)
  <2> DEFINE d == [c EXCEPT !.version = server]
  <2>1. DOMAIN d = {"kind", "version", "asked", "n", "fonts"} /\ (d.kind = "bootstrap" => d.asked = 0)
    OBVIOUS
  <2>2. calls' = (calls \ {c}) \cup {d} /\ screen' = screen
    BY <1>2 DEF FontsRead
  <2> HIDE DEF d
  <2> QED BY <2>1, <2>2, FontsMove
<1>3. CASE FontsArrive(c)
  <2>1. PICK read : screen' = IF ~screen.present THEN screen
                 ELSE [screen EXCEPT !.loading = FALSE, !.fonts = FontsFrom(read),
                                     !.applied = FontsFrom(read)]
    BY <1>3 DEF FontsArrive
  <2>2. screen'.page = screen.page /\ DOMAIN screen' = FontsFields /\ screen'.events = screen.events
        /\ (screen' = screen \/ screen'.applied = screen'.fonts)
    BY <2>1 DEF FontsFields
  <2> QED BY <1>3, <2>2, FontsEnd DEF FontsArrive, Ended
<1>4. CASE BootstrapArrives(c)
  <2>1. PICK read : screen' = IF StillWanted(c) THEN [screen EXCEPT !.applied = FontsFrom(read)]
                              ELSE screen
    BY <1>4 DEF BootstrapArrives
  <2>2. calls' \subseteq calls
    BY <1>4 DEF BootstrapArrives, Ended
  <2>3. CASE ~StillWanted(c)
    BY <2>1, <2>2, <2>3
  <2>4. CASE StillWanted(c)
    <3>1. screen.events = 0
      BY <1>4, <2>4 DEF StillWanted, BootstrapArrives
    <3>2. screen'.page = screen.page /\ DOMAIN screen' = FontsFields /\ screen'.events = screen.events
      BY <2>1, <2>4 DEF FontsFields
    <3> QED BY <2>2, <3>1, <3>2
  <2> QED BY <2>3, <2>4
<1> QED BY <1>1, <1>2, <1>3, <1>4

LEMMA UpdateForms ==
  ASSUME NEW p, DOMAIN p = FontsFields, NEW fonts
  PROVE  /\ DOMAIN UpdateFonts(p, fonts) = FontsFields /\ UpdateFonts(p, fonts).page = p.page
         /\ UpdateFonts(p, fonts).applied = UpdateFonts(p, fonts).fonts
         /\ UpdateFonts(p, fonts).events = p.events + 1
BY DEF UpdateFonts, FontsFields

LEMMA FontsEditStep ==
  ASSUME FontsInv,
         \/ FontButtons \/ ChangeFont \/ ChooseFontFile \/ LeaveFonts
         \/ \E c \in calls : FontFileRead(c)
  PROVE  FontsInv'
<1> USE DEF FontsInv, FontsHold
<1> DEFINE d == [FontCall("file") EXCEPT !.n = screen.changed + 1, !.fonts = screen.fonts]
<1>1. DOMAIN d = {"kind", "version", "asked", "n", "fonts"} /\ d.kind = "file"
  BY DEF FontCall
<1>2. ASSUME NEW fonts, NEW changed, calls' = calls,
             screen' = [UpdateFonts(screen, fonts) EXCEPT !.changed = changed]
      PROVE  FontsInv'
  <2>1. DOMAIN screen' = FontsFields /\ screen'.page = screen.page
        /\ screen'.applied = screen'.fonts /\ screen'.events = screen.events + 1
    BY <1>2, UpdateForms DEF FontsFields
  <2> QED BY <1>2, <2>1, FontsEnd
<1>3. CASE ChangeFont
  BY <1>2, <1>3 DEF ChangeFont, UpdateFonts
<1>4. CASE ResetToDefault
  BY <1>2, <1>4 DEF ResetToDefault, UpdateFonts
<1>5. CASE ChooseFontFile
  <2>1. calls' = calls \cup {d} /\ screen' = [screen EXCEPT !.changed = @ + 1]
    BY <1>5 DEF ChooseFontFile
  <2>2. DOMAIN screen' = FontsFields /\ screen'.page = screen.page /\ screen'.events = screen.events
        /\ screen'.applied = screen.applied /\ screen'.fonts = screen.fonts
    BY <2>1 DEF FontsFields
  <2> HIDE DEF d
  <2> QED BY <1>1, <2>1, <2>2, FontsMove
<1>6. CASE SaveFonts
  <2>1. calls' = calls \cup {FontCall("save")} /\ screen' = [screen EXCEPT !.saving = TRUE]
    BY <1>6 DEF SaveFonts
  <2>2. DOMAIN screen' = FontsFields /\ screen'.page = screen.page /\ screen'.events = screen.events
        /\ screen'.applied = screen.applied /\ screen'.fonts = screen.fonts
    BY <2>1 DEF FontsFields
  <2> QED BY FontCallForms, <2>1, <2>2, FontsMove
<1>7. CASE LeaveFonts
  <2>1. calls' = calls /\ screen' = [screen EXCEPT !.present = FALSE]
    BY <1>7 DEF LeaveFonts
  <2>2. DOMAIN screen' = FontsFields /\ screen'.page = screen.page /\ screen'.events = screen.events
        /\ screen'.applied = screen.applied /\ screen'.fonts = screen.fonts
    BY <2>1 DEF FontsFields
  <2> QED BY <2>1, <2>2, FontsEnd
<1>8. ASSUME NEW c \in calls, FontFileRead(c) PROVE FontsInv'
  <2>1. calls' \subseteq calls
    BY <1>8 DEF FontFileRead, Ended
  <2>2. PICK fonts : screen' = UpdateFonts(screen, fonts) \/ screen' = screen
    BY <1>8 DEF FontFileRead
  <2> QED BY <2>1, <2>2, UpdateForms, FontsEnd
<1> QED BY <1>3, <1>4, <1>5, <1>6, <1>7, <1>8 DEF FontButtons

LEMMA FontsSaveStep ==
  ASSUME FontsInv, NEW c \in calls, FontsStored(c) \/ FontsSaved(c) \/ FontsSaveFails(c)
  PROVE  FontsInv'
<1> USE DEF FontsInv, FontsHold
<1>1. CASE FontsStored(c)
  <2> DEFINE d == [c EXCEPT !.version = server + 1]
  <2>1. DOMAIN d = {"kind", "version", "asked", "n", "fonts"} /\ (d.kind = "bootstrap" => d.asked = 0)
    OBVIOUS
  <2>2. calls' = (calls \ {c}) \cup {d} /\ screen' = screen
    BY <1>1 DEF FontsStored
  <2> HIDE DEF d
  <2> QED BY <2>1, <2>2, FontsMove
<1>2. CASE FontsSaved(c)
  <2>1. screen' = [UpdateFonts(screen, FontsFrom(c.version)) EXCEPT !.saving = FALSE]
        /\ calls' \subseteq calls
    BY <1>2 DEF FontsSaved, Ended
  <2>2. DOMAIN screen' = FontsFields /\ screen'.page = screen.page
        /\ screen'.applied = screen'.fonts /\ screen'.events = screen.events + 1
    BY <2>1, UpdateForms DEF FontsFields
  <2> QED BY <2>1, <2>2, FontsEnd
<1>3. CASE FontsSaveFails(c)
  <2>1. screen' = [screen EXCEPT !.saving = FALSE] /\ calls' \subseteq calls
    BY <1>3 DEF FontsSaveFails, Ended
  <2>2. DOMAIN screen' = FontsFields /\ screen'.page = screen.page /\ screen'.events = screen.events
        /\ screen'.applied = screen.applied /\ screen'.fonts = screen.fonts
    BY <2>1 DEF FontsFields
  <2> QED BY <2>1, <2>2, FontsEnd
<1> QED BY <1>1, <1>2, <1>3

LEMMA FontsStep == FontsInv /\ [FontsNext]_tabVars => FontsInv'
<1>1. FontsInv /\ UNCHANGED tabVars => FontsInv'
  BY DEF tabVars, FontsInv
<1> QED BY <1>1, FontsReadStep, FontsEditStep, FontsSaveStep DEF FontsNext

LEMMA FontsAreShown == FontsInv => AppliedIsEdited
BY DEF FontsInv, FontsHold, AppliedIsEdited

(***************************************************************************)
(* QuestionImport: only batches that passed are offered or imported.         *)
(***************************************************************************)
ImportFields == {"page", "batch", "passed", "hurried", "imports"}
ImportCallFields == {"kind", "n", "dry", "batch", "stage"}

\* A dry run that passed is in the record of the server; unless somebody hurried,
\* all of them are of the batch on the screen.
DryRun(c, p, checked) ==
  /\ DOMAIN c = ImportCallFields /\ c.kind = "import" /\ c.batch \in Batches
  /\ c.dry => /\ c.stage = "passed" => c.batch \in checked
              /\ ~p.hurried => c.batch = p.batch

OfferHolds(p, cs, checked) ==
  /\ p.page = "import" /\ DOMAIN p = ImportFields /\ p.batch \in Batches
  /\ p.passed /\ ~p.hurried => p.batch \in checked
  /\ \A c \in cs : DryRun(c, p, checked)

\* What the server holds of a batch, written or not, passed.
StoredHolds(sv) ==
  /\ DOMAIN sv = {"batch", "checked", "others"} /\ DOMAIN sv.batch = BatchIds
  /\ \A id \in BatchIds :
       /\ DOMAIN sv.batch[id] = {"status", "text"}
       /\ sv.batch[id].status # "none" => [id |-> id, text |-> sv.batch[id].text] \in sv.checked

ImportInv == OfferHolds(screen, calls, server.checked) /\ StoredHolds(server)

LEMMA ImportStart == ImportInit => ImportInv
<1> SUFFICES ASSUME ImportInit PROVE ImportInv
  OBVIOUS
<1>1. PICK batch \in Batches :
        /\ screen = [page |-> "import", batch |-> batch, passed |-> FALSE, hurried |-> FALSE,
                     imports |-> 0]
        /\ calls = {}
        /\ server = [batch |-> [id \in BatchIds |-> NothingStored], checked |-> {}, others |-> 0]
  BY DEF ImportInit
<1>2. OfferHolds(screen, calls, server.checked)
  BY <1>1 DEF OfferHolds, ImportFields
<1>3. DOMAIN NothingStored = {"status", "text"} /\ NothingStored.status = "none"
  BY DEF NothingStored
<1>4. StoredHolds(server)
  BY <1>1, <1>3 DEF StoredHolds
<1> QED BY <1>2, <1>4 DEF ImportInv

\* A batch is an identifier with a text.
LEMMA BatchIs ==
  ASSUME NEW batch \in Batches
  PROVE  batch.id \in BatchIds /\ batch = [id |-> batch.id, text |-> batch.text]
BY DEF Batches

\* The server writes the batch of a name down, with one of its statuses.
LEMMA StoredHeld ==
  ASSUME StoredHolds(server), NEW batch \in Batches, NEW status,
         DOMAIN server' = {"batch", "checked", "others"},
         server'.batch = [server.batch EXCEPT ![batch.id] =
                            [status |-> status, text |-> batch.text]],
         server.checked \subseteq server'.checked, batch \in server'.checked
  PROVE  StoredHolds(server')
<1>1. batch.id \in BatchIds /\ batch = [id |-> batch.id, text |-> batch.text]
  BY BatchIs
<1>2. \A id \in BatchIds :
        server'.batch[id] = IF id = batch.id THEN [status |-> status, text |-> batch.text]
                                             ELSE server.batch[id]
  BY DEF StoredHolds
<1>3. DOMAIN server'.batch = BatchIds
  BY DEF StoredHolds
<1> QED BY <1>1, <1>2, <1>3 DEF StoredHolds

LEMMA OfferGrows ==
  ASSUME NEW p, NEW cs, NEW checked, NEW more, checked \subseteq more, OfferHolds(p, cs, checked)
  PROVE  OfferHolds(p, cs, more)
BY DEF OfferHolds, DryRun

LEMMA PreflightIs ==
  ASSUME StoredHolds(server), NEW batch
  PROVE  LET next == Preflight(server, batch)
         IN /\ DOMAIN next = {"batch", "checked", "others"}
            /\ next.batch = [server.batch EXCEPT ![batch.id] =
                               [status |-> "preflight", text |-> batch.text]]
            /\ next.checked = server.checked \cup {batch}
BY DEF Preflight, StoredHolds

LEMMA ImportPageStep ==
  ASSUME ImportInv,
         \/ \E batch \in Batches : TypeBatch(batch)
         \/ \E dry \in BOOLEAN : ImportBatch(dry)
  PROVE  ImportInv'
<1> USE DEF ImportInv, OfferHolds
<1>1. ASSUME NEW batch \in Batches, TypeBatch(batch) PROVE ImportInv'
  <2>1. PICK hurried : hurried = (screen.hurried \/ Checks # {})
    OBVIOUS
  <2>2. screen' = [screen EXCEPT !.batch = batch, !.passed = FALSE, !.hurried = hurried]
        /\ calls' = calls /\ server' = server
    BY <1>1, <2>1 DEF TypeBatch, Retyped
  <2>3. /\ screen'.page = "import" /\ DOMAIN screen' = ImportFields /\ screen'.batch = batch
        /\ screen'.passed = FALSE /\ screen'.hurried = hurried
    BY <2>2 DEF ImportFields
  <2>4. ASSUME NEW c \in calls PROVE DryRun(c, screen', server.checked)
    <3>1. c.dry /\ c.kind = "import" => hurried
      BY <2>1 DEF Checks
    <3> QED BY <3>1, <2>3 DEF DryRun
  <2> QED BY <2>2, <2>3, <2>4
<1>2. ASSUME NEW dry \in BOOLEAN, ImportBatch(dry) PROVE ImportInv'
  <2> DEFINE d == [kind |-> "import", n |-> screen.imports, dry |-> dry,
                   batch |-> screen.batch, stage |-> "sent"]
  <2>1. screen' = [screen EXCEPT !.imports = @ + 1] /\ calls' = calls \cup {d} /\ server' = server
    BY <1>2 DEF ImportBatch
  <2>2. /\ screen'.page = "import" /\ DOMAIN screen' = ImportFields /\ screen'.batch = screen.batch
        /\ screen'.passed = screen.passed /\ screen'.hurried = screen.hurried
    BY <2>1 DEF ImportFields
  <2>3. DryRun(d, screen', server.checked)
    BY <2>2 DEF DryRun, ImportCallFields
  <2> HIDE DEF d
  <2> QED BY <2>1, <2>2, <2>3 DEF DryRun
<1> QED BY <1>1, <1>2

LEMMA ImportServerStep ==
  ASSUME ImportInv,
         \/ \E batch \in Batches : AnotherChecks(batch)
         \/ \E id \in BatchIds : RollbackBatch(id)
         \/ \E c \in calls : BatchChecked(c) \/ BatchWritten(c)
  PROVE  ImportInv'
<1> USE DEF ImportInv
<1>1. ASSUME NEW batch \in Batches, AnotherChecks(batch) PROVE ImportInv'
  <2> DEFINE next == Preflight(server, batch)
  <2>1. server' = [next EXCEPT !.others = @ + 1] /\ calls' = calls /\ screen' = screen
    BY <1>1 DEF AnotherChecks
  <2>2. /\ DOMAIN next = {"batch", "checked", "others"}
        /\ next.batch = [server.batch EXCEPT ![batch.id] =
                           [status |-> "preflight", text |-> batch.text]]
        /\ next.checked = server.checked \cup {batch}
    BY PreflightIs
  <2> HIDE DEF next
  <2>3. /\ DOMAIN server' = {"batch", "checked", "others"}
        /\ server'.batch = next.batch /\ server'.checked = next.checked
    BY <2>1, <2>2
  <2>4. StoredHolds(server') /\ server.checked \subseteq server'.checked
    BY <2>2, <2>3, StoredHeld
  <2> QED BY <2>1, <2>4, OfferGrows
<1>2. ASSUME NEW id \in BatchIds, RollbackBatch(id) PROVE ImportInv'
  <2>1. server' = [server EXCEPT !.batch[id].status = "rolled_back", !.others = @ + 1]
        /\ server.batch[id].status = "imported"
    BY <1>2 DEF RollbackBatch
  <2>2. /\ DOMAIN server' = {"batch", "checked", "others"} /\ server'.checked = server.checked
        /\ server'.batch = [server.batch EXCEPT ![id].status = "rolled_back"]
    BY <2>1 DEF StoredHolds
  <2> DEFINE b == [server.batch[id] EXCEPT !.status = "rolled_back"]
  <2>3. DOMAIN b = {"status", "text"} /\ b.text = server.batch[id].text
    BY DEF StoredHolds
  <2>4. DOMAIN server'.batch = BatchIds
    BY <2>2 DEF StoredHolds
  <2>5. \A i \in BatchIds : server'.batch[i] = IF i = id THEN b ELSE server.batch[i]
    BY <2>2 DEF StoredHolds
  <2> HIDE DEF b
  <2>6. [id |-> id, text |-> server.batch[id].text] \in server.checked
    BY <2>1 DEF StoredHolds
  <2>7. StoredHolds(server')
    BY <2>2, <2>3, <2>4, <2>5, <2>6 DEF StoredHolds
  <2> QED BY <1>2, <2>2, <2>7 DEF RollbackBatch
<1>3. ASSUME NEW c \in calls, NEW d, calls' = (calls \ {c}) \cup {d}, screen' = screen,
             d = [c EXCEPT !.stage = "passed"], StoredHolds(server'),
             server.checked \subseteq server'.checked, c.dry => c.batch \in server'.checked
      PROVE  ImportInv'
  <2>1. OfferHolds(screen, calls, server'.checked)
    BY <1>3, OfferGrows
  <2>2. DryRun(c, screen, server'.checked)
    BY <2>1 DEF OfferHolds
  <2>3. DryRun(d, screen, server'.checked)
    BY <1>3, <2>2 DEF DryRun, ImportCallFields
  <2> QED BY <1>3, <2>1, <2>3 DEF OfferHolds
<1>4. ASSUME NEW c \in calls, BatchChecked(c) PROVE ImportInv'
  <2>1. c.batch \in Batches
    BY DEF OfferHolds, DryRun
  <2>2. /\ DOMAIN server' = {"batch", "checked", "others"}
        /\ server'.batch = [server.batch EXCEPT ![c.batch.id] =
                              [status |-> "preflight", text |-> c.batch.text]]
        /\ server'.checked = server.checked \cup {c.batch}
    BY <1>4, PreflightIs DEF BatchChecked
  <2>3. StoredHolds(server')
    BY <2>1, <2>2, StoredHeld
  <2> QED BY <1>3, <1>4, <2>2, <2>3 DEF BatchChecked, Advances
<1>5. ASSUME NEW c \in calls, BatchWritten(c) PROVE ImportInv'
  <2>1. c.batch \in Batches
    BY DEF OfferHolds, DryRun
  <2>2. c.batch \in server.checked
    BY <1>5, <2>1, BatchIs DEF BatchWritten, PreflightOf, StoredHolds
  <2>3. /\ DOMAIN server' = {"batch", "checked", "others"}
        /\ server'.batch = [server.batch EXCEPT ![c.batch.id] =
                              [status |-> "imported", text |-> c.batch.text]]
        /\ server'.checked = server.checked
    BY <1>5 DEF BatchWritten, StoredHolds
  <2>4. StoredHolds(server')
    BY <2>1, <2>2, <2>3, StoredHeld
  <2> QED BY <1>3, <1>5, <2>2, <2>3, <2>4 DEF BatchWritten, Advances
<1> QED BY <1>1, <1>2, <1>4, <1>5

LEMMA ImportAnswerStep ==
  ASSUME ImportInv, NEW c \in calls, ImportArrives(c) \/ ImportFails(c)
  PROVE  ImportInv'
<1> USE DEF ImportInv, OfferHolds
<1>1. PICK passed : /\ screen' = [screen EXCEPT !.passed = passed] \/ screen' = screen
                    /\ passed = FALSE \/ (passed = c.dry /\ c.stage = "passed")
  BY DEF ImportArrives, ImportFails
<1>2. calls' \subseteq calls /\ server' = server
  BY DEF ImportArrives, ImportFails, Ended
<1>3. /\ screen'.page = "import" /\ DOMAIN screen' = ImportFields /\ screen'.batch = screen.batch
      /\ screen'.hurried = screen.hurried
      /\ screen'.passed => screen.passed \/ (c.dry /\ c.stage = "passed")
  BY <1>1 DEF ImportFields
<1>4. DryRun(c, screen, server.checked)
  OBVIOUS
<1>5. screen'.passed /\ ~screen'.hurried => screen'.batch \in server.checked
  BY <1>3, <1>4 DEF DryRun
<1> QED BY <1>2, <1>3, <1>5 DEF DryRun

LEMMA ImportStep == ImportInv /\ [ImportNext]_tabVars => ImportInv'
<1>1. ImportInv /\ UNCHANGED tabVars => ImportInv'
  BY DEF tabVars, ImportInv
<1> QED BY <1>1, ImportPageStep, ImportServerStep, ImportAnswerStep DEF ImportNext

LEMMA ImportShown == ImportInv => ImportIsChecked
BY DEF ImportInv, OfferHolds, StoredHolds, ImportIsChecked, OfferedWasChecked, ImportedWasChecked

\* Numbers in order: there are rows that list the set, and in any such rows a
\* number stands where as many are not above it.
Listed(S, rows) ==
  /\ rows \in [1..Cardinality(S) -> S]
  /\ \A i, j \in DOMAIN rows : i < j => rows[i] < rows[j]

LEMMA ListedExists ==
  ASSUME NEW S, IsFiniteSet(S), S \subseteq Nat
  PROVE  \E rows : Listed(S, rows)
<1> DEFINE n == Cardinality(S)
           rows == [i \in 1..n |-> CHOOSE a \in S : Cardinality(Below(S, a)) = i - 1]
<1>1. n \in Nat
  BY FS_CardinalityType
<1>2. \A i \in 1..n : rows[i] \in S /\ Cardinality(Below(S, rows[i])) = i - 1
  <2> SUFFICES ASSUME NEW i \in 1..n
               PROVE  rows[i] \in S /\ Cardinality(Below(S, rows[i])) = i - 1
    OBVIOUS
  <2>1. i - 1 \in 0..(n - 1)
    BY <1>1
  <2>2. \E a \in S : Cardinality(Below(S, a)) = i - 1
    BY <2>1, EachHasItsPlace
  <2> QED BY <2>2
<1>3. DOMAIN rows = 1..n /\ rows \in [1..n -> S]
  BY <1>2
<1> HIDE DEF rows
<1>4. ASSUME NEW i \in 1..n, NEW j \in 1..n, i < j PROVE rows[i] < rows[j]
  <2>1. rows[i] \in Nat /\ rows[j] \in Nat /\ rows[i] \in S /\ rows[j] \in S
    BY <1>2
  <2>2. Cardinality(Below(S, rows[i])) < Cardinality(Below(S, rows[j]))
    BY <1>1, <1>2, <1>4
  <2>3. CASE rows[j] < rows[i]
    <3>1. Cardinality(Below(S, rows[j])) < Cardinality(Below(S, rows[i]))
      BY <2>1, <2>3, BelowGrows
    <3>2. Cardinality(Below(S, rows[j])) \in Int /\ Cardinality(Below(S, rows[i])) \in Int
      BY <1>1, <1>2
    <3> QED BY <2>2, <3>1, <3>2
  <2>4. CASE rows[j] = rows[i]
    <3>1. Cardinality(Below(S, rows[i])) \in Int
      BY <1>1, <1>2
    <3> QED BY <2>2, <2>4, <3>1
  <2> QED BY <2>1, <2>3, <2>4
<1>5. Listed(S, rows)
  BY <1>3, <1>4 DEF Listed
<1> QED BY <1>5

LEMMA CountedUpTo ==
  ASSUME NEW n \in Nat
  PROVE  IsFiniteSet(1..n) /\ Cardinality(1..n) = n
<1>1. 1 \in Int /\ n \in Int
  OBVIOUS
<1>2. IsFiniteSet(1..n) /\ Cardinality(1..n) = IF 1 > n THEN 0 ELSE n - 1 + 1
  BY <1>1, FS_Interval
<1> QED BY <1>2

LEMMA ListedPlace ==
  ASSUME NEW S, IsFiniteSet(S), S \subseteq Nat, NEW rows, Listed(S, rows), NEW a \in S
  PROVE  rows[Cardinality({b \in S : b <= a})] = a
<1> DEFINE n == Cardinality(S)
<1>1. n \in Nat
  BY FS_CardinalityType
<1>2. rows \in [1..n -> S] /\ DOMAIN rows = 1..n
  BY DEF Listed
<1>3. IsFiniteSet(1..n) /\ Cardinality(1..n) = n
  BY <1>1, CountedUpTo
<1>4. \A i, j \in 1..n : rows[i] = rows[j] => i = j
  <2> SUFFICES ASSUME NEW i \in 1..n, NEW j \in 1..n, i < j PROVE rows[i] # rows[j]
    BY <1>1
  <2>1. rows[i] < rows[j] /\ rows[i] \in Nat
    BY <1>2 DEF Listed
  <2> QED BY <2>1
<1>5. rows \in Injection(1..n, S)
  BY <1>2, <1>4, Fun_IsInj
<1>6. \A b \in S : \E i \in 1..n : rows[i] = b
  <2>1. Cardinality(1..n) = Cardinality(S) <=> rows \in Surjection(1..n, S)
    BY <1>5, FS_Injection
  <2>2. rows \in Surjection(1..n, S)
    BY <1>3, <2>1
  <2> DEFINE N == 1..n
  <2>3. rows \in Surjection(N, S)
    BY <2>2
  <2> HIDE DEF N
  <2>4. \A b \in S : \E i \in N : rows[i] = b
    BY <2>3, Fun_SurjectionProperties
  <2> QED BY <2>4 DEF N
<1>7. PICK m \in 1..n : rows[m] = a
  BY <1>6
<1> DEFINE U == {b \in S : b <= a}
           f == [i \in 1..m |-> rows[i]]
<1>8. \A i \in 1..n : rows[i] <= a <=> i <= m
  <2> SUFFICES ASSUME NEW i \in 1..n PROVE rows[i] <= a <=> i <= m
    OBVIOUS
  <2>1. rows[i] \in Nat /\ a \in Nat
    BY <1>2
  <2>2. CASE i < m
    BY <1>2, <1>7, <2>1, <2>2 DEF Listed
  <2>3. CASE i = m
    BY <1>7, <2>1, <2>3
  <2>4. CASE m < i
    <3>1. a < rows[i]
      BY <1>2, <1>7, <2>4 DEF Listed
    <3> QED BY <2>1, <2>4, <3>1
  <2> QED BY <1>1, <2>2, <2>3, <2>4
<1>9. f \in [1..m -> U] /\ \A i, j \in 1..m : f[i] = f[j] => i = j
  BY <1>1, <1>2, <1>4, <1>8
<1>10. \A b \in U : \E i \in 1..m : f[i] = b
  <2> SUFFICES ASSUME NEW b \in U PROVE \E i \in 1..m : f[i] = b
    OBVIOUS
  <2>1. PICK i \in 1..n : rows[i] = b
    BY <1>6
  <2>2. i \in 1..m
    BY <1>1, <1>8, <2>1
  <2> QED BY <2>1, <2>2
<1> HIDE DEF f, U
<1>11. f \in Bijection(1..m, U)
  BY <1>9, <1>10, Fun_IsBij
<1>12. IsFiniteSet(1..m) /\ Cardinality(1..m) = m
  <2>1. m \in Nat
    BY <1>1
  <2> QED BY <2>1, CountedUpTo
<1>13. ExistsBijection(1..m, U)
  BY <1>11 DEF ExistsBijection
<1>14. Cardinality(U) = m
  BY <1>12, <1>13, FS_Bijection
<1> QED BY <1>7, <1>14 DEF U

(***************************************************************************)
(* QuestionForm: the answer that is stored is the one that was ticked, and    *)
(* the skills belong together.                                              *)
(***************************************************************************)
FormScreenFields == {"page", "form", "image", "uploads", "pending"}
FormFieldNames ==
  {"subject", "main", "sub", "type", "filled", "ticked", "embedded", "labels", "texts"}

Belongs(q) ==
  /\ q.main # "" => ScopeOf[q.main] = q.subject
  /\ q.sub # "" => ScopeOf[q.sub] = q.main
Meant(q) == q.options # <<>> => q.options[q.correct] = q.meant /\ q.labels = q.options

FormIs(form) ==
  /\ DOMAIN form = FormFieldNames /\ Belongs(form)
  /\ form.filled \subseteq 1..Places /\ form.ticked \in 1..Places

FormHolds(p, cs, sv) ==
  /\ p.page = "questionform" /\ DOMAIN p = FormScreenFields /\ FormIs(p.form)
  /\ \A c \in cs : c.kind = "create" => Belongs(c) /\ Meant(c)
  /\ Belongs(sv) /\ Meant(sv)

FormInv == FormHolds(screen, calls, server)

LEMMA PlacesAre == Places \in Nat /\ 1 \in 1..Places
<1>1. Places \in 2..4
  BY QuestionFormAssumption, Zenon DEF QuestionFormAssumption
<1> QED BY <1>1

LEMMA EmptyFormIs == FormIs(EmptyForm) /\ Belongs(NothingCreated) /\ Meant(NothingCreated)
<1>1. 1 \in 1..Places
  BY PlacesAre
<1>2. FormIs(EmptyForm)
  BY <1>1 DEF FormIs, EmptyForm, FormFieldNames, Belongs
<1>3. Belongs(NothingCreated) /\ Meant(NothingCreated)
  BY DEF NothingCreated, Belongs, Meant
<1> QED BY <1>2, <1>3

LEMMA FormStart == QuestionFormInit => FormInv
<1> SUFFICES ASSUME QuestionFormInit PROVE FormInv
  OBVIOUS
<1>1. /\ screen.page = "questionform" /\ DOMAIN screen = FormScreenFields
      /\ screen.form = EmptyForm /\ calls = {} /\ server = NothingCreated
  BY DEF QuestionFormInit, FormScreenFields
<1> QED BY <1>1, EmptyFormIs DEF FormInv, FormHolds

\* What may be sent has the answer that was ticked at the place it names.
LEMMA SentIsMeant ==
  ASSUME NEW form, FormIs(form), Sendable(form), form.type # "essay"
  PROVE  /\ SentOptions(form)[SentCorrect(form)] = form.ticked
         /\ SentLabels(form) = SentOptions(form)
<1>1. CASE KeepsPlaces(form)
  <2>1. SentOptions(form) = ImageOptions(form) /\ SentCorrect(form) = form.ticked
        /\ SentLabels(form) = ImageOptions(form)
    BY <1>1 DEF SentOptions, SentCorrect, SentLabels
  <2>2. form.ticked \in 1..Len(ImageOptions(form))
    BY <2>1 DEF Sendable
  <2>3. PICK n \in Nat : n = IF form.type = "true_false" THEN 2 ELSE Places
    BY PlacesAre
  <2>4. ImageOptions(form) = [i \in 1..n |-> i]
    BY <2>3 DEF ImageOptions
  <2>5. Len([i \in 1..n |-> i]) = n
    OBVIOUS
  <2>6. ImageOptions(form)[form.ticked] = form.ticked
    BY <2>2, <2>4, <2>5
  <2> QED BY <2>1, <2>6
<1>2. CASE ~KeepsPlaces(form)
  <2> DEFINE S == form.filled
  <2>1. S \subseteq Nat /\ IsFiniteSet(S)
    <3>1. Places \in Nat
      BY PlacesAre
    <3>2. IsFiniteSet(1..Places) /\ S \in SUBSET (1..Places)
      BY <3>1, CountedUpTo DEF FormIs
    <3>3. IsFiniteSet(S)
      BY <3>2, FS_Subset
    <3> QED BY <3>2, <3>3
  <2>2. SentOptions(form) = TextOptions(form) /\ SentLabels(form) = TextOptions(form)
    BY <1>2 DEF SentOptions, SentLabels
  <2>3. form.ticked \in S /\ SentCorrect(form) = Cardinality({b \in S : b <= form.ticked})
    <3>1. SentCorrect(form) = IF form.ticked \in form.filled
                              THEN Cardinality({place \in form.filled : place <= form.ticked})
                              ELSE 0
      BY <1>2 DEF SentCorrect
    <3>2. SentCorrect(form) \in 1..Len(SentOptions(form))
      BY DEF Sendable
    <3>3. SentCorrect(form) # 0
      <4> DEFINE n == Len(SentOptions(form))
      <4>1. SentCorrect(form) \in 1..n
        BY <3>2
      <4> HIDE DEF n
      <4> QED BY <4>1
    <3> QED BY <3>1, <3>3
  <2>4. Listed(S, TextOptions(form))
    <3>1. \E rows \in [1..Cardinality(S) -> S] :
            \A i, j \in DOMAIN rows : i < j => rows[i] < rows[j]
      BY <2>1, ListedExists DEF Listed
    <3> QED BY <3>1 DEF TextOptions, Listed
  <2> HIDE DEF S
  <2>5. TextOptions(form)[Cardinality({b \in S : b <= form.ticked})] = form.ticked
    BY <2>1, <2>3, <2>4, ListedPlace
  <2> QED BY <2>2, <2>3, <2>5
<1> QED BY <1>1, <1>2

\* A field of the form changes.
LEMMA FormFills ==
  ASSUME FormInv, NEW form, Fills(form), FormIs(form)
  PROVE  FormInv'
<1>1. screen' = [screen EXCEPT !.form = form] /\ calls' = calls /\ server' = server
  BY DEF Fills
<1>2. screen'.page = screen.page /\ DOMAIN screen' = FormScreenFields /\ screen'.form = form
  BY <1>1 DEF FormInv, FormHolds, FormScreenFields
<1> QED BY <1>1, <1>2 DEF FormInv, FormHolds

LEMMA ScopeStep ==
  ASSUME FormInv,
         \/ \E subject \in FormSubjects : ChooseSubject(subject)
         \/ \E skill \in MainSkills : ChooseMainSkill(skill)
         \/ \E skill \in SubSkills : ChooseSubSkill(skill)
  PROVE  FormInv'
<1>1. FormIs(screen.form)
  BY DEF FormInv, FormHolds
<1>2. ASSUME NEW subject, ChooseSubject(subject) PROVE FormInv'
  <2> DEFINE form == [screen.form EXCEPT !.subject = subject, !.main = "", !.sub = ""]
  <2>1. FormIs(form)
    BY <1>1 DEF FormIs, FormFieldNames, Belongs
  <2>2. Fills(form)
    BY <1>2 DEF ChooseSubject
  <2> HIDE DEF form
  <2> QED BY <2>1, <2>2, FormFills
<1>3. ASSUME NEW skill, ChooseMainSkill(skill) PROVE FormInv'
  <2> DEFINE form == Rescoped(screen.form, skill)
  <2>1. FormIs(form)
    BY <1>1, <1>3 DEF FormIs, FormFieldNames, Belongs, Rescoped, ChooseMainSkill
  <2>2. Fills(form)
    BY <1>3 DEF ChooseMainSkill
  <2> HIDE DEF form
  <2> QED BY <2>1, <2>2, FormFills
<1>4. ASSUME NEW skill, ChooseSubSkill(skill) PROVE FormInv'
  <2> DEFINE form == [screen.form EXCEPT !.sub = skill]
  <2>1. FormIs(form)
    BY <1>1, <1>4 DEF FormIs, FormFieldNames, Belongs, ChooseSubSkill
  <2>2. Fills(form)
    BY <1>4 DEF ChooseSubSkill
  <2> HIDE DEF form
  <2> QED BY <2>1, <2>2, FormFills
<1> QED BY <1>2, <1>3, <1>4

\* Other fields do not bear on the skills.
LEMMA OptionStep ==
  ASSUME FormInv,
         \/ \E type \in QuestionType : ChooseType(type)
         \/ \E place \in 1..Places : UpdateOption(place) \/ TickCorrect(place)
         \/ ToggleEmbedded \/ TogglePresentation
  PROVE  FormInv'
<1>1. FormIs(screen.form)
  BY DEF FormInv, FormHolds
<1>2. ASSUME NEW form, Fills(form), DOMAIN form = FormFieldNames,
             \A f \in {"subject", "main", "sub"} : form[f] = screen.form[f],
             form.filled \subseteq 1..Places, form.ticked \in 1..Places
      PROVE  FormInv'
  <2>1. FormIs(form)
    BY <1>1, <1>2 DEF FormIs, Belongs
  <2> QED BY <1>2, <2>1, FormFills
<1>3. ASSUME NEW type, ChooseType(type) PROVE FormInv'
  <2> DEFINE form == [screen.form EXCEPT !.type = type]
  <2>1. /\ DOMAIN form = FormFieldNames /\ \A f \in {"subject", "main", "sub"} : form[f] = screen.form[f]
        /\ form.filled \subseteq 1..Places /\ form.ticked \in 1..Places
    BY <1>1 DEF FormIs, FormFieldNames
  <2>2. Fills(form)
    BY <1>3 DEF ChooseType
  <2> HIDE DEF form
  <2> QED BY <1>2, <2>1, <2>2
<1>4. ASSUME NEW place \in 1..Places, UpdateOption(place) PROVE FormInv'
  <2>1. PICK filled : /\ Fills([screen.form EXCEPT !.filled = filled])
                      /\ filled = screen.form.filled \cup {place} \/ filled = screen.form.filled \ {place}
    BY <1>4 DEF UpdateOption
  <2> DEFINE form == [screen.form EXCEPT !.filled = filled]
  <2>2. /\ DOMAIN form = FormFieldNames /\ \A f \in {"subject", "main", "sub"} : form[f] = screen.form[f]
        /\ form.filled = filled /\ form.ticked \in 1..Places
    BY <1>1 DEF FormIs, FormFieldNames
  <2>3. filled \subseteq 1..Places
    BY <1>1, <2>1 DEF FormIs
  <2> HIDE DEF form
  <2>4. Fills(form)
    BY <2>1 DEF form
  <2> QED BY <1>2, <2>2, <2>3, <2>4
<1>5. ASSUME NEW place \in 1..Places, TickCorrect(place) PROVE FormInv'
  <2> DEFINE form == [screen.form EXCEPT !.ticked = place]
  <2>1. /\ DOMAIN form = FormFieldNames /\ \A f \in {"subject", "main", "sub"} : form[f] = screen.form[f]
        /\ form.filled \subseteq 1..Places /\ form.ticked \in 1..Places
    BY <1>1 DEF FormIs, FormFieldNames
  <2>2. Fills(form)
    BY <1>5 DEF TickCorrect
  <2> HIDE DEF form
  <2> QED BY <1>2, <2>1, <2>2
<1>6. CASE ToggleEmbedded \/ TogglePresentation
  <2>1. PICK embedded, labels, texts :
          \/ Fills([screen.form EXCEPT !.embedded = embedded, !.texts = texts])
          \/ Fills([screen.form EXCEPT !.labels = labels])
          \/ Fills([screen.form EXCEPT !.texts = texts])
    BY <1>6 DEF ToggleEmbedded, TogglePresentation
  <2>2. PICK form : /\ Fills(form)
                    /\ \/ form = [screen.form EXCEPT !.embedded = embedded, !.texts = texts]
                       \/ form = [screen.form EXCEPT !.labels = labels]
                       \/ form = [screen.form EXCEPT !.texts = texts]
    BY <2>1
  <2>3. /\ DOMAIN form = FormFieldNames /\ \A f \in {"subject", "main", "sub"} : form[f] = screen.form[f]
        /\ form.filled \subseteq 1..Places /\ form.ticked \in 1..Places
    BY <1>1, <2>2 DEF FormIs, FormFieldNames
  <2> QED BY <1>2, <2>2, <2>3
<1> QED BY <1>3, <1>4, <1>5, <1>6

LEMMA ImageStep ==
  ASSUME FormInv, UploadImage \/ RemoveImage \/ \E c \in calls : UploadEnds(c) \/ CreateRefused(c)
  PROVE  FormInv'
<1>1. PICK pending, uploads, image :
        \/ screen' = [screen EXCEPT !.pending = pending, !.uploads = uploads]
        \/ screen' = [screen EXCEPT !.pending = pending, !.image = image]
        \/ screen' = [screen EXCEPT !.image = image]
        \/ screen' = [screen EXCEPT !.pending = pending]
  BY DEF UploadImage, RemoveImage, UploadEnds, CreateRefused
<1>2. screen'.page = screen.page /\ DOMAIN screen' = FormScreenFields /\ screen'.form = screen.form
  BY <1>1 DEF FormInv, FormHolds, FormScreenFields
<1>3. \A c \in calls' : c \in calls \/ c.kind = "media"
  <2>1. CASE UploadImage
    BY <2>1 DEF UploadImage
  <2>2. CASE RemoveImage
    BY <2>2 DEF RemoveImage
  <2>3. CASE \E c \in calls : UploadEnds(c) \/ CreateRefused(c)
    <3>1. \E c \in calls : calls' = calls \ {c}
      BY <2>3 DEF UploadEnds, CreateRefused, Ended
    <3> QED BY <3>1
  <2> QED BY <2>1, <2>2, <2>3
<1>4. server' = server
  BY DEF UploadImage, RemoveImage, UploadEnds, CreateRefused
<1> QED BY <1>2, <1>3, <1>4 DEF FormInv, FormHolds

LEMMA CreateQuestionStep == FormInv /\ CreateQuestion => FormInv'
<1> SUFFICES ASSUME FormInv, CreateQuestion PROVE FormInv'
  OBVIOUS
<1>1. FormIs(screen.form) /\ Sendable(screen.form)
  BY DEF FormInv, FormHolds, CreateQuestion
<1>2. PICK options, labels, correct, meant :
        /\ options = SentOptions(screen.form) /\ labels = SentLabels(screen.form)
        /\ correct = SentCorrect(screen.form)
        /\ meant = IF screen.form.type = "essay" THEN 0 ELSE screen.form.ticked
  OBVIOUS
<1> DEFINE d == [kind |-> "create", subject |-> screen.form.subject, main |-> screen.form.main,
                 sub |-> screen.form.sub, options |-> options, labels |-> labels,
                 correct |-> correct, meant |-> meant]
<1>3. calls' = calls \cup {d} /\ server' = server
  BY <1>2 DEF CreateQuestion
<1>4. screen' = [screen EXCEPT !.pending = "create"]
  BY DEF CreateQuestion
<1>5. screen'.page = screen.page /\ DOMAIN screen' = FormScreenFields /\ screen'.form = screen.form
  BY <1>4 DEF FormInv, FormHolds, FormScreenFields
<1>6. Belongs(d)
  BY <1>1 DEF FormIs, Belongs
<1>7. CASE screen.form.type = "essay"
  <2>1. options = <<>>
    BY <1>2, <1>7 DEF SentOptions
  <2>2. Meant(d)
    BY <2>1 DEF Meant
  <2> HIDE DEF d
  <2> QED BY <1>3, <1>5, <1>6, <2>2 DEF FormInv, FormHolds
<1>8. CASE screen.form.type # "essay"
  <2>1. options[correct] = meant /\ labels = options
    BY <1>1, <1>2, <1>8, SentIsMeant
  <2>2. Meant(d)
    BY <2>1 DEF Meant
  <2> HIDE DEF d
  <2> QED BY <1>3, <1>5, <1>6, <2>2 DEF FormInv, FormHolds
<1> QED BY <1>7, <1>8

LEMMA QuestionCreatedStep ==
  ASSUME FormInv, NEW c \in calls, QuestionCreated(c)
  PROVE  FormInv'
<1>1. Belongs(c) /\ Meant(c) /\ calls' \subseteq calls
  BY DEF FormInv, FormHolds, QuestionCreated, Ended
<1>2. /\ server'.subject = c.subject /\ server'.main = c.main /\ server'.sub = c.sub
      /\ server'.options = c.options /\ server'.labels = c.labels
      /\ server'.correct = c.correct /\ server'.meant = c.meant
  BY DEF QuestionCreated, NothingCreated
<1>3. Belongs(server') /\ Meant(server')
  BY <1>1, <1>2 DEF Belongs, Meant
<1>4. screen' = [screen EXCEPT !.form = EmptyForm, !.image = 0, !.pending = ""]
  BY DEF QuestionCreated
<1>5. screen'.page = screen.page /\ DOMAIN screen' = FormScreenFields /\ screen'.form = EmptyForm
  BY <1>4 DEF FormInv, FormHolds, FormScreenFields
<1> QED BY <1>1, <1>3, <1>5, EmptyFormIs DEF FormInv, FormHolds

LEMMA QuestionFormStep == FormInv /\ [QuestionFormNext]_tabVars => FormInv'
<1>1. FormInv /\ UNCHANGED tabVars => FormInv'
  BY DEF tabVars, FormInv
<1> QED BY <1>1, ScopeStep, OptionStep, ImageStep, CreateQuestionStep, QuestionCreatedStep
        DEF QuestionFormNext

LEMMA QuestionIsMeant == FormInv => CreatedAsMeant
BY DEF FormInv, FormHolds, Belongs, Meant, CreatedAsMeant, AnswerIsMeant, SkillsFit

-----------------------------------------------------------------------------
(***************************************************************************)
(* The pages together: whichever page the tab shows keeps its invariant.      *)
(***************************************************************************)
StaffInv ==
  \/ TaxonomyInv \/ EditorInv \/ ContentInv \/ DirectorInv \/ SchoolsInv
  \/ RosterInv \/ HomepageInv \/ AdsInv \/ FontsInv \/ BankInv
  \/ ImportInv \/ FormInv \/ UsersAdminInv \/ SessionsInv

LEMMA PageIsMounted ==
  /\ TaxonomyInv => Mounted("taxonomy")
  /\ EditorInv => Mounted("editor")
  /\ ContentInv => Mounted("content")
  /\ DirectorInv => Mounted("director")
  /\ SchoolsInv => Mounted("schools")
  /\ RosterInv => Mounted("roster")
  /\ HomepageInv => Mounted("homepage")
  /\ AdsInv => Mounted("ads")
  /\ FontsInv => Mounted("fonts")
  /\ BankInv => Mounted("questions")
  /\ ImportInv => Mounted("import")
  /\ FormInv => Mounted("questionform")
  /\ UsersAdminInv => Mounted("users")
  /\ SessionsInv => Mounted("sessions")
<1>1. TaxonomyInv => Mounted("taxonomy")
  BY DEF TaxonomyInv, TaxonomyShape, Mounted
<1>2. EditorInv => Mounted("editor")
  BY DEF EditorInv, EditorHolds, EditorShape, Mounted
<1>3. ContentInv => Mounted("content")
  BY DEF ContentInv, ContentHolds, Mounted
<1>4. DirectorInv => Mounted("director")
  BY DEF DirectorInv, DirectorHolds, DirectorShape, Mounted
<1>5. SchoolsInv => Mounted("schools")
  BY DEF SchoolsInv, SchoolsHold, Mounted
<1>6. RosterInv => Mounted("roster")
  BY DEF RosterInv, RosterHolds, Mounted
<1>7. HomepageInv => Mounted("homepage")
  BY DEF HomepageInv, HomepageHolds, Mounted
<1>8. AdsInv => Mounted("ads")
  BY DEF AdsInv, AdsHold, Mounted
<1>9. FontsInv => Mounted("fonts")
  BY DEF FontsInv, FontsHold, Mounted
<1>10. BankInv => Mounted("questions")
  BY DEF BankInv, Mounted
<1>11. ImportInv => Mounted("import")
  BY DEF ImportInv, OfferHolds, Mounted
<1>12. FormInv => Mounted("questionform")
  BY DEF FormInv, FormHolds, Mounted
<1>13. UsersAdminInv => Mounted("users")
  BY DEF UsersAdminInv, Mounted
<1>14. SessionsInv => Mounted("sessions")
  BY DEF SessionsInv, Mounted
<1> QED BY <1>1, <1>2, <1>3, <1>4, <1>5, <1>6, <1>7,
           <1>8, <1>9, <1>10, <1>11, <1>12, <1>13, <1>14

\* What is known of the page that is mounted.
LEMMA MountedHolds ==
  ASSUME StaffInv
  PROVE  /\ Mounted("taxonomy") => TaxonomyInv
         /\ Mounted("editor") => EditorInv
         /\ Mounted("content") => ContentInv
         /\ Mounted("director") => DirectorInv
         /\ Mounted("schools") => SchoolsInv
         /\ Mounted("roster") => RosterInv
         /\ Mounted("homepage") => HomepageInv
         /\ Mounted("ads") => AdsInv
         /\ Mounted("fonts") => FontsInv
         /\ Mounted("questions") => BankInv
         /\ Mounted("import") => ImportInv
         /\ Mounted("questionform") => FormInv
         /\ Mounted("users") => UsersAdminInv
         /\ Mounted("sessions") => SessionsInv
BY PageIsMounted DEF StaffInv, Mounted

LEMMA StaffStart == Init => StaffInv
BY TaxonomyStart, EditorStart, ContentStart, DirectorStart, SchoolsStart,
   RosterStart, HomepageStart, AdsStart, FontsStart, BankStart,
   ImportStart, FormStart, UsersAdminStart, SessionsStart
   DEF Init, StaffInv

LEMMA StaffStep == StaffInv /\ [Next]_tabVars => StaffInv'
<1> SUFFICES ASSUME StaffInv, [Next]_tabVars PROVE StaffInv'
  OBVIOUS
<1>1. ASSUME UNCHANGED tabVars PROVE StaffInv'
  <2>1. CASE TaxonomyInv
    BY <1>1, <2>1, TaxonomyStep DEF StaffInv
  <2>2. CASE EditorInv
    BY <1>1, <2>2, EditorStep DEF StaffInv
  <2>3. CASE ContentInv
    BY <1>1, <2>3, ContentStep DEF StaffInv
  <2>4. CASE DirectorInv
    BY <1>1, <2>4, DirectorStep DEF StaffInv
  <2>5. CASE SchoolsInv
    BY <1>1, <2>5, SchoolsStep DEF StaffInv
  <2>6. CASE RosterInv
    BY <1>1, <2>6, RosterStep DEF StaffInv
  <2>7. CASE HomepageInv
    BY <1>1, <2>7, HomepageStep DEF StaffInv
  <2>8. CASE AdsInv
    BY <1>1, <2>8, AdsStep DEF StaffInv
  <2>9. CASE FontsInv
    BY <1>1, <2>9, FontsStep DEF StaffInv
  <2>10. CASE BankInv
    BY <1>1, <2>10, BankStep DEF StaffInv
  <2>11. CASE ImportInv
    BY <1>1, <2>11, ImportStep DEF StaffInv
  <2>12. CASE FormInv
    BY <1>1, <2>12, QuestionFormStep DEF StaffInv
  <2>13. CASE UsersAdminInv
    BY <1>1, <2>13, UsersAdminStep DEF StaffInv
  <2>14. CASE SessionsInv
    BY <1>1, <2>14, SessionsStep DEF StaffInv
  <2> QED BY <2>1, <2>2, <2>3, <2>4, <2>5, <2>6, <2>7,
             <2>8, <2>9, <2>10, <2>11, <2>12, <2>13, <2>14 DEF StaffInv
<1>2. ASSUME Mounted("taxonomy"), TaxonomyNext PROVE StaffInv'
  BY <1>2, MountedHolds, TaxonomyStep DEF StaffInv
<1>3. ASSUME Mounted("editor"), EditorNext PROVE StaffInv'
  BY <1>3, MountedHolds, EditorStep DEF StaffInv
<1>4. ASSUME Mounted("content"), ContentNext PROVE StaffInv'
  BY <1>4, MountedHolds, ContentStep DEF StaffInv
<1>5. ASSUME Mounted("director"), DirectorNext PROVE StaffInv'
  BY <1>5, MountedHolds, DirectorStep DEF StaffInv
<1>6. ASSUME Mounted("schools"), SchoolsNext PROVE StaffInv'
  BY <1>6, MountedHolds, SchoolsStep DEF StaffInv
<1>7. ASSUME Mounted("roster"), RosterNext PROVE StaffInv'
  BY <1>7, MountedHolds, RosterStep DEF StaffInv
<1>8. ASSUME Mounted("homepage"), HomepageNext PROVE StaffInv'
  BY <1>8, MountedHolds, HomepageStep DEF StaffInv
<1>9. ASSUME Mounted("ads"), AdsNext PROVE StaffInv'
  BY <1>9, MountedHolds, AdsStep DEF StaffInv
<1>10. ASSUME Mounted("fonts"), FontsNext PROVE StaffInv'
  BY <1>10, MountedHolds, FontsStep DEF StaffInv
<1>11. ASSUME Mounted("questions"), QuestionBankNext PROVE StaffInv'
  BY <1>11, MountedHolds, BankStep DEF StaffInv
<1>12. ASSUME Mounted("import"), ImportNext PROVE StaffInv'
  BY <1>12, MountedHolds, ImportStep DEF StaffInv
<1>13. ASSUME Mounted("questionform"), QuestionFormNext PROVE StaffInv'
  BY <1>13, MountedHolds, QuestionFormStep DEF StaffInv
<1>14. ASSUME Mounted("users"), UsersAdminNext PROVE StaffInv'
  BY <1>14, MountedHolds, UsersAdminStep DEF StaffInv
<1>15. ASSUME Mounted("sessions"), SessionsNext PROVE StaffInv'
  BY <1>15, MountedHolds, SessionsStep DEF StaffInv
<1> QED BY <1>1, <1>2, <1>3, <1>4, <1>5, <1>6, <1>7, <1>8,
           <1>9, <1>10, <1>11, <1>12, <1>13, <1>14, <1>15 DEF Next

\* The accounts and the assessment sessions on the screen are those of the server
\* once nothing is under way (UsersAdminPage.tsx, AssessmentSessionPanel.tsx), for
\* any number of commands and any order of their answers.
THEOREM TablesTrue == Spec => []TablesAreTrue
<1>1. StaffInv => TablesAreTrue
  <2> SUFFICES ASSUME StaffInv PROVE TablesAreTrue
    OBVIOUS
  <2>1. TableIsTrue
    BY MountedHolds, TableShownTrue DEF TableIsTrue, Mounted
  <2>2. SessionsAreTrue
    BY MountedHolds, SessionsShown DEF SessionsAreTrue, Mounted
  <2> QED BY <2>1, <2>2 DEF TablesAreTrue
<1> QED BY <1>1, StaffStart, StaffStep, PTL DEF Spec

\* The rows of a list that is not loading belong to the view on the screen, however
\* late and in whatever order the answers arrive: topics, content, question bank,
\* the schools of the director, of the administrator and of the roster.
THEOREM RowsShownOfView == Spec => []RowsAreOfTheView
<1>1. StaffInv => RowsAreOfTheView
  <2> SUFFICES ASSUME StaffInv PROVE RowsAreOfTheView
    OBVIOUS
  <2>1. TopicsAreTheSubjects
    BY MountedHolds, TaxonomyIsShown DEF TopicsAreTheSubjects, Mounted
  <2>2. RowsMatchView
    BY MountedHolds, ContentIsShown DEF RowsMatchView, Mounted
  <2>3. RowsOfFilter
    BY MountedHolds, BankShown DEF RowsOfFilter, Mounted
  <2>4. RowsOfThisVisit
    BY MountedHolds, DirectorIsRight DEF RowsOfThisVisit, Mounted
  <2>5. UnhurriedRows
    BY MountedHolds, SchoolsAreShown DEF UnhurriedRows, Mounted
  <2>6. RosterOfScope
    BY MountedHolds, RosterIsShown DEF RosterOfScope, Mounted
  <2> QED BY <2>1, <2>2, <2>3, <2>4, <2>5, <2>6 DEF RowsAreOfTheView
<1> QED BY <1>1, StaffStart, StaffStep, PTL DEF Spec

\* What was written stays on the screen, no older answer overwrites what was edited,
\* and the site shows what the editors show: taxonomy, content editors, assignments
\* of staff, home page, announcements and fonts.
THEOREM EditsKept == Spec => []EditsAreKept
<1>1. StaffInv => EditsAreKept
  <2> SUFFICES ASSUME StaffInv PROVE EditsAreKept
    OBVIOUS
  <2>1. SettledShowsWrites
    BY MountedHolds, TaxonomyIsShown DEF SettledShowsWrites, Mounted
  <2>2. LinksKept /\ NoBlindOverwrite
    BY MountedHolds, EditorIsRight DEF LinksKept, NoBlindOverwrite, Mounted
  <2>3. AssignmentsStayRead
    BY MountedHolds, DirectorIsRight DEF AssignmentsStayRead, Mounted
  <2>4. HomepageIsNeverLost
    BY MountedHolds, HomepageIsKept DEF HomepageIsNeverLost, Mounted
  <2>5. AdsStayTrue
    BY MountedHolds, AdsAreTrue DEF AdsStayTrue, Mounted
  <2>6. AppliedIsEdited
    BY MountedHolds, FontsAreShown DEF AppliedIsEdited, Mounted
  <2> QED BY <2>1, <2>2, <2>3, <2>4, <2>5, <2>6 DEF EditsAreKept
<1> QED BY <1>1, StaffStart, StaffStep, PTL DEF Spec

\* A form sends what was meant, once: an assessment of the director, a batch of
\* questions after its dry run, and a new question whose correct answer is the one
\* that was ticked, whatever was left blank, with skills that belong together.
THEOREM WhatIsSentIsMeant == Spec => []SentAsMeant
<1>1. StaffInv => SentAsMeant
  <2> SUFFICES ASSUME StaffInv PROVE SentAsMeant
    OBVIOUS
  <2>1. OneAssessmentPerForm
    BY MountedHolds, DirectorIsRight DEF OneAssessmentPerForm, Mounted
  <2>2. ImportIsChecked
    BY MountedHolds, ImportShown DEF ImportIsChecked, Mounted
  <2>3. CreatedAsMeant
    BY MountedHolds, QuestionIsMeant DEF CreatedAsMeant, Mounted
  <2> QED BY <2>1, <2>2, <2>3 DEF SentAsMeant
<1> QED BY <1>1, StaffStart, StaffStep, PTL DEF Spec
=============================================================================
