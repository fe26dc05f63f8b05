-------------------------- MODULE LearnerPageProofs --------------------------
(***************************************************************************)
(* Theorems about the pages of a learner and what the server does for them:   *)
(* signing in (SignIn), goals (MasteryGoals), study plans (StudyPlan), the     *)
(* attempt (AttemptPage), the course player (CoursePlayer), the learning space *)
(* (LearningSpace), the review library (ReviewLibrary) and the review practice *)
(* (ReviewPractice), each for its own specification; and the theorems about    *)
(* the pages together (MCLearnerPages), which are those its run checks.       *)
(***************************************************************************)
EXTENDS MCLearnerPages, FiniteSetTheorems, TLAPS

(***************************************************************************)
(* SignIn: the user and the token of the client are those of its cookie.      *)
(***************************************************************************)
SignInScreens ==
  [page : {"signin"}, user : Anyone, token : Tokens, loading : BOOLEAN,
   menu : BOOLEAN, open : BOOLEAN, signUp : BOOLEAN, input : Anyone,
   codeSent : BOOLEAN, smart : BOOLEAN, submitting : BOOLEAN,
   overtaken : BOOLEAN, crossed : BOOLEAN, lost : BOOLEAN,
   signIns : 0..MaxSignIns, asks : 0..MaxAsks]
SignInServers ==
  [cookie : 0..MaxSessions, made : 0..MaxSessions, owner : [Sessions -> Anyone],
   token : [Sessions -> 0..MaxTokens]]

WhoIsCalls == [kind : {"me"}, session : 0..MaxSessions]
CsrfCalls == [kind : {"csrf"}, n : 0..MaxAsks, after : {"logout", "write"},
              session : 0..MaxSessions, token : Tokens]
LogoutCalls == [kind : {"logout"}, n : 0..MaxAsks, session : 0..MaxSessions, token : Tokens,
                stage : {"sent", "done", "refused"}]
CodeCalls == [kind : {"code"}]
AuthCalls == [kind : {"login", "signup"}, account : SignInAccounts, n : 0..MaxSignIns,
              new : 0..MaxSessions]

SignInTypes ==
  /\ screen \in SignInScreens /\ server \in SignInServers
  /\ calls \subseteq WhoIsCalls \cup CsrfCalls \cup LogoutCalls \cup CodeCalls \cup AuthCalls

\* The requests that carry a cookie.
Carries(c) == c.kind \in {"me", "csrf", "logout"}

\* Sessions are made one after the other, and nobody has the cookie of a session before
\* the answer that brings it.
SessionsFresh ==
  /\ server.cookie <= server.made
  /\ \A s \in Sessions : s > server.made => server.owner[s] = "none"
  /\ \A c \in calls : Carries(c) => c.session <= server.made
  /\ \A c \in calls : AuthCall(c) /\ c.new # 0 =>
       /\ c.new <= server.made /\ c.new # server.cookie
       /\ server.owner[c.new] = c.account
       /\ \A d \in calls : (Carries(d) => d.session # c.new) /\ (AuthCall(d) /\ d.new = c.new => d = c)

\* The question about the user: until it is answered nothing but a sign-in changes the
\* user, and it is asked once.
QuestionOpen ==
  /\ \A c, d \in calls : c.kind = "me" /\ d.kind = "me" => c = d
  /\ ~screen.loading => \A c \in calls : c.kind # "me"
  /\ screen.loading /\ ~screen.overtaken =>
       /\ screen.user = "none" /\ screen.token = NoToken
       /\ \A c \in calls : c.kind \notin {"csrf", "logout"}
       /\ \A c \in calls : c.kind = "me" => c.session = server.cookie

\* A request for a token that nothing crossed is the only one, and what it brings is
\* the token of the cookie.
TokenWaits ==
  ~screen.crossed =>
    /\ screen.token # NoToken => screen.token = TokenOf(server.cookie)
    /\ \A c \in TokenReads(calls) :
         /\ screen.token = NoToken /\ c.session = server.cookie
         /\ c.token # NoToken => c.token = TokenOf(server.cookie)
         /\ \A d \in TokenReads(calls) : d = c

SignInInv ==
  SignInTypes /\ SessionsFresh /\ QuestionOpen /\ TokenWaits /\ UserIsTheSession

LEMMA SignInCallForms ==
  ASSUME SignInTypes, NEW c \in calls
  PROVE  /\ c.kind = "me" => c \in WhoIsCalls
         /\ c.kind = "csrf" => c \in CsrfCalls
         /\ c.kind = "logout" => c \in LogoutCalls
         /\ c.kind = "code" => c \in CodeCalls
         /\ AuthCall(c) => c \in AuthCalls
BY DEF SignInTypes, WhoIsCalls, CsrfCalls, LogoutCalls, CodeCalls, AuthCalls, AuthCall

LEMMA NoTokenIsToken == NoToken \in Tokens
BY SignInAssumption DEF NoToken, Tokens

LEMMA TokenOfType ==
  ASSUME server \in SignInServers, NEW s \in 0..MaxSessions
  PROVE  TokenOf(s) \in Tokens
<1>1. CASE s = 0
  BY <1>1, SignInAssumption DEF TokenOf, Tokens
<1>2. CASE s # 0
  <2>1. s \in Sessions /\ server.token[s] \in 0..MaxTokens
    BY <1>2, SignInAssumption DEF Sessions, SignInServers
  <2> QED BY <1>2, <2>1 DEF TokenOf, Tokens
<1> QED BY <1>1, <1>2

\* The fields that the dialog and the menus set.
LEMMA DialogTypes ==
  ASSUME NEW p \in SignInScreens, NEW open \in BOOLEAN, NEW signUp \in BOOLEAN,
         NEW menu \in BOOLEAN, NEW input \in Anyone, NEW sent \in BOOLEAN,
         NEW smart \in BOOLEAN, NEW submitting \in BOOLEAN
  PROVE  /\ [p EXCEPT !.open = open] \in SignInScreens
         /\ [p EXCEPT !.signUp = signUp] \in SignInScreens
         /\ [p EXCEPT !.menu = menu] \in SignInScreens
         /\ [p EXCEPT !.input = input] \in SignInScreens
         /\ [p EXCEPT !.codeSent = sent] \in SignInScreens
         /\ [p EXCEPT !.smart = smart] \in SignInScreens
         /\ [p EXCEPT !.submitting = submitting] \in SignInScreens
         /\ [p EXCEPT !.open = open, !.signUp = signUp] \in SignInScreens
         /\ [p EXCEPT !.open = open, !.signUp = signUp, !.menu = menu] \in SignInScreens
         /\ [p EXCEPT !.open = open, !.menu = menu] \in SignInScreens
         /\ [p EXCEPT !.open = open, !.input = input, !.codeSent = sent] \in SignInScreens
         /\ [p EXCEPT !.signUp = signUp, !.input = input] \in SignInScreens
         /\ [p EXCEPT !.input = input, !.codeSent = sent] \in SignInScreens
         /\ [p EXCEPT !.smart = smart, !.codeSent = sent] \in SignInScreens
<1>1. [p EXCEPT !.open = open] \in SignInScreens
  BY DEF SignInScreens
<1>2. [p EXCEPT !.signUp = signUp] \in SignInScreens
  BY DEF SignInScreens
<1>3. [p EXCEPT !.menu = menu] \in SignInScreens
  BY DEF SignInScreens
<1>4. [p EXCEPT !.input = input] \in SignInScreens
  BY DEF SignInScreens
<1>5. [p EXCEPT !.codeSent = sent] \in SignInScreens
  BY DEF SignInScreens
<1>6. [p EXCEPT !.smart = smart] \in SignInScreens
  BY DEF SignInScreens
<1>7. [p EXCEPT !.submitting = submitting] \in SignInScreens
  BY DEF SignInScreens
<1>8. [p EXCEPT !.open = open, !.signUp = signUp] \in SignInScreens
  BY DEF SignInScreens
<1>9. [p EXCEPT !.open = open, !.signUp = signUp, !.menu = menu] \in SignInScreens
  BY DEF SignInScreens
<1>10. [p EXCEPT !.open = open, !.menu = menu] \in SignInScreens
  BY DEF SignInScreens
<1>11. [p EXCEPT !.open = open, !.input = input, !.codeSent = sent] \in SignInScreens
  BY DEF SignInScreens
<1>12. [p EXCEPT !.signUp = signUp, !.input = input] \in SignInScreens
  BY DEF SignInScreens
<1>13. [p EXCEPT !.input = input, !.codeSent = sent] \in SignInScreens
  BY DEF SignInScreens
<1>14. [p EXCEPT !.smart = smart, !.codeSent = sent] \in SignInScreens
  BY DEF SignInScreens
<1> QED BY <1>1, <1>2, <1>3, <1>4, <1>5, <1>6, <1>7, <1>8, <1>9, <1>10, <1>11, <1>12, <1>13, <1>14

\* What the invariant says of the page.
SameUser ==
  /\ screen'.page = screen.page /\ screen'.user = screen.user /\ screen'.token = screen.token
  /\ screen'.loading = screen.loading /\ screen'.overtaken = screen.overtaken
  /\ screen'.crossed = screen.crossed /\ screen'.lost = screen.lost

\* A step that changes neither the user nor the server keeps the invariant, whatever
\* sign-ins and codes it asks for.
LEMMA QuietStep ==
  ASSUME SignInInv, SignInTypes', SameUser, server' = server,
         \A c \in calls' : c \in calls \/ c.kind = "code" \/ (AuthCall(c) /\ c.new = 0),
         \A c \in calls : c.kind = "logout" => c \in calls'
  PROVE  SignInInv'
<1>1. SessionsFresh'
  <2>1. \A c \in calls' : Carries(c) => c \in calls
    BY DEF Carries, AuthCall
  <2>2. \A c \in calls' : AuthCall(c) /\ c.new # 0 => c \in calls
    BY DEF AuthCall
  <2>3. /\ server'.cookie <= server'.made
        /\ \A s \in Sessions : s > server'.made => server'.owner[s] = "none"
        /\ \A c \in calls' : Carries(c) => c.session <= server'.made
    BY <2>1 DEF SignInInv, SessionsFresh
  <2>4. ASSUME NEW c \in calls', AuthCall(c), c.new # 0
        PROVE  /\ c.new <= server'.made /\ c.new # server'.cookie
               /\ server'.owner[c.new] = c.account
               /\ \A d \in calls' : (Carries(d) => d.session # c.new)
                                    /\ (AuthCall(d) /\ d.new = c.new => d = c)
    BY <2>1, <2>2, <2>4 DEF SignInInv, SessionsFresh
  <2> QED BY <2>3, <2>4 DEF SessionsFresh, Carries, AuthCall
<1>2. \A c \in calls' : c.kind \in {"me", "csrf", "logout"} => c \in calls
  BY DEF AuthCall
<1>3. QuestionOpen'
  BY <1>2 DEF SignInInv, QuestionOpen, SameUser
<1>4. TokenWaits'
  <2>1. TokenOf(server.cookie)' = TokenOf(server.cookie)
    BY DEF TokenOf
  <2>2. \A c \in TokenReads(calls)' : c \in TokenReads(calls)
    BY <1>2 DEF TokenReads
  <2> QED BY <2>1, <2>2 DEF SignInInv, TokenWaits, SameUser, TokenReads
<1>5. UserIsTheSession'
  BY DEF SignInInv, UserIsTheSession, Mounted, SameUser, OwnerOf
<1> QED BY <1>1, <1>3, <1>4, <1>5 DEF SignInInv

LEMMA BecomesStep ==
  ASSUME SignInInv, NEW p \in SignInScreens, Becomes(p), SameUser
  PROVE  SignInInv'
<1>1. SignInTypes'
  BY DEF SignInInv, SignInTypes, Becomes
<1> QED BY <1>1, QuietStep DEF Becomes

\* The dialog and the menus, but for what they ask the server.
DialogMoves ==
  \/ FollowLink \/ AddressAsks \/ CloseAuthDialog \/ LeaveByLink \/ ToggleSignUp \/ SendAgain
  \/ \E account \in SignInAccounts : TypeInput(account)
  \/ Becomes([screen EXCEPT !.menu = ~@])
  \/ Becomes([screen EXCEPT !.open = TRUE, !.signUp = FALSE])

LEMMA DialogStep == SignInInv /\ DialogMoves => SignInInv'
<1> SUFFICES ASSUME SignInInv, DialogMoves PROVE SignInInv'
  OBVIOUS
<1>1. screen \in SignInScreens /\ screen.menu \in BOOLEAN /\ screen.signUp \in BOOLEAN
      /\ "none" \in Anyone /\ SignInAccounts \subseteq Anyone
  BY DEF SignInInv, SignInTypes, SignInScreens, Anyone
<1>2. CASE FollowLink
  <2>1. PICK p \in SignInScreens : p = [screen EXCEPT !.menu = FALSE]
    BY <1>1, DialogTypes
  <2>2. Becomes(p) /\ SameUser
    BY <1>1, <1>2, <2>1 DEF FollowLink, Becomes, SameUser, SignInScreens
  <2> QED BY <2>2, BecomesStep
<1>3. CASE AddressAsks
  <2>1. PICK signUp \in BOOLEAN, menu \in {FALSE, screen.menu} :
          Becomes([screen EXCEPT !.open = TRUE, !.signUp = signUp, !.menu = menu])
    BY <1>3 DEF AddressAsks
  <2>2. PICK p \in SignInScreens :
          p = [screen EXCEPT !.open = TRUE, !.signUp = signUp, !.menu = menu]
    BY <1>1, DialogTypes
  <2>3. Becomes(p) /\ SameUser
    BY <1>1, <2>1, <2>2 DEF Becomes, SameUser, SignInScreens
  <2> QED BY <2>3, BecomesStep
<1>4. CASE CloseAuthDialog
  <2>1. PICK p \in SignInScreens :
          p = [screen EXCEPT !.open = FALSE, !.input = "none", !.codeSent = FALSE]
    BY <1>1, DialogTypes
  <2>2. Becomes(p) /\ SameUser
    BY <1>1, <1>4, <2>1 DEF CloseAuthDialog, Becomes, SameUser, SignInScreens
  <2> QED BY <2>2, BecomesStep
<1>5. CASE LeaveByLink
  <2>1. PICK p \in SignInScreens : p = [screen EXCEPT !.open = FALSE, !.menu = FALSE]
    BY <1>1, DialogTypes
  <2>2. Becomes(p) /\ SameUser
    BY <1>1, <1>5, <2>1 DEF LeaveByLink, Becomes, SameUser, SignInScreens
  <2> QED BY <2>2, BecomesStep
<1>6. CASE ToggleSignUp
  <2>1. PICK p \in SignInScreens : p = [screen EXCEPT !.signUp = ~screen.signUp, !.input = "none"]
    BY <1>1, DialogTypes
  <2>2. Becomes(p) /\ SameUser
    BY <1>1, <1>6, <2>1 DEF ToggleSignUp, Becomes, SameUser, SignInScreens
  <2> QED BY <2>2, BecomesStep
<1>7. CASE SendAgain
  <2>1. PICK p \in SignInScreens : p = [screen EXCEPT !.codeSent = FALSE]
    BY <1>1, DialogTypes
  <2>2. Becomes(p) /\ SameUser
    BY <1>1, <1>7, <2>1 DEF SendAgain, Becomes, SameUser, SignInScreens
  <2> QED BY <2>2, BecomesStep
<1>8. ASSUME NEW account \in SignInAccounts, TypeInput(account) PROVE SignInInv'
  <2>1. PICK p \in SignInScreens : p = [screen EXCEPT !.input = account, !.codeSent = FALSE]
    BY <1>1, DialogTypes
  <2>2. Becomes(p) /\ SameUser
    BY <1>1, <1>8, <2>1 DEF TypeInput, Becomes, SameUser, SignInScreens
  <2> QED BY <2>2, BecomesStep
<1>9. CASE Becomes([screen EXCEPT !.menu = ~@])
  <2>1. PICK p \in SignInScreens : p = [screen EXCEPT !.menu = ~screen.menu]
    BY <1>1, DialogTypes
  <2>2. Becomes(p) /\ SameUser
    BY <1>1, <1>9, <2>1 DEF Becomes, SameUser, SignInScreens
  <2> QED BY <2>2, BecomesStep
<1>10. CASE Becomes([screen EXCEPT !.open = TRUE, !.signUp = FALSE])
  <2>1. PICK p \in SignInScreens : p = [screen EXCEPT !.open = TRUE, !.signUp = FALSE]
    BY <1>1, DialogTypes
  <2>2. Becomes(p) /\ SameUser
    BY <1>1, <1>10, <2>1 DEF Becomes, SameUser, SignInScreens
  <2> QED BY <2>2, BecomesStep
<1> QED BY <1>2, <1>3, <1>4, <1>5, <1>6, <1>7, <1>8, <1>9, <1>10 DEF DialogMoves

\* A sign-in, a new account or a code is asked for.
LEMMA AuthenticatesStep ==
  ASSUME SignInInv, NEW p \in SignInScreens, NEW kind \in {"login", "signup"},
         NEW account \in SignInAccounts, Authenticates(p, kind, account),
         p.page = screen.page, p.user = screen.user, p.token = screen.token,
         p.loading = screen.loading, p.overtaken = screen.overtaken,
         p.crossed = screen.crossed, p.lost = screen.lost, p.signIns = screen.signIns
  PROVE  SignInInv'
<1> DEFINE c == [kind |-> kind, account |-> account, n |-> screen.signIns, new |-> 0]
<1>1. screen.signIns \in 0..MaxSignIns /\ screen.signIns < MaxSignIns
  BY DEF SignInInv, SignInTypes, SignInScreens, Authenticates
<1>2. screen' \in SignInScreens
  <2>1. screen' = [p EXCEPT !.signIns = screen.signIns + 1]
    BY DEF Authenticates
  <2>2. screen.signIns + 1 \in 0..MaxSignIns
    BY <1>1, SignInAssumption
  <2> QED BY <2>1, <2>2 DEF SignInScreens
<1>3. SameUser
  BY DEF Authenticates, SameUser, SignInScreens
<1>4. c \in AuthCalls /\ AuthCall(c) /\ c.new = 0
  BY <1>1, SignInAssumption DEF AuthCalls, AuthCall
<1>5. calls' = calls \cup {c} /\ server' = server
  BY DEF Authenticates
<1>6. SignInTypes'
  BY <1>2, <1>4, <1>5 DEF SignInInv, SignInTypes
<1> QED BY <1>3, <1>4, <1>5, <1>6, QuietStep

LEMMA OrdersStep ==
  SignInInv /\ (HandleSmartLogin \/ VerifyCode \/ SendCode
                \/ \E account \in SignInAccounts : HandleEmailAuth(account)) => SignInInv'
<1> SUFFICES ASSUME SignInInv,
               HandleSmartLogin \/ VerifyCode \/ SendCode
               \/ \E account \in SignInAccounts : HandleEmailAuth(account)
             PROVE  SignInInv'
  OBVIOUS
<1>1. screen \in SignInScreens /\ screen.input \in Anyone
  BY DEF SignInInv, SignInTypes, SignInScreens
<1>2. PICK p \in SignInScreens : p = [screen EXCEPT !.smart = TRUE]
  BY <1>1, DialogTypes
<1>3. PICK q \in SignInScreens : q = [screen EXCEPT !.submitting = TRUE]
  BY <1>1, DialogTypes
<1>4. CASE HandleSmartLogin \/ VerifyCode
  <2>1. screen.input \in SignInAccounts /\ Authenticates(p, "login", screen.input)
    BY <1>1, <1>2, <1>4, SignInAssumption DEF HandleSmartLogin, VerifyCode, PhoneTyped, Anyone
  <2> QED BY <1>1, <1>2, <2>1, AuthenticatesStep DEF SignInScreens
<1>5. ASSUME NEW account \in SignInAccounts, HandleEmailAuth(account) PROVE SignInInv'
  <2>1. Authenticates(q, "signup", account)
    BY <1>3, <1>5 DEF HandleEmailAuth
  <2> QED BY <1>1, <1>3, <2>1, AuthenticatesStep DEF SignInScreens
<1>6. CASE SendCode
  <2>1. SameUser /\ screen' = p
    BY <1>1, <1>2, <1>6 DEF SendCode, SameUser, SignInScreens
  <2>2. calls' = calls \cup {[kind |-> "code"]} /\ server' = server
    BY <1>6 DEF SendCode
  <2>3. SignInTypes'
    BY <2>1, <2>2 DEF SignInInv, SignInTypes, CodeCalls
  <2> QED BY <2>1, <2>2, <2>3, QuietStep
<1> QED BY <1>4, <1>5, <1>6

\* Requests that carry a cookie carry the present one or that of an earlier request;
\* owners only lose their sessions, to a request that carries one.
LEMMA CookieCarried ==
  ASSUME SignInInv, server'.cookie = server.cookie, server'.made = server.made,
         \A c \in calls' : \/ c \in calls
                           \/ /\ Carries(c)
                              /\ \/ c.session = server.cookie
                                 \/ \E d \in calls : Carries(d) /\ d.session = c.session,
         \A s \in Sessions :
            \/ server'.owner[s] = server.owner[s]
            \/ server'.owner[s] = "none" /\ \E d \in calls : Carries(d) /\ d.session = s
  PROVE  SessionsFresh'
<1>1. \A c \in calls' : AuthCall(c) => c \in calls /\ c \in AuthCalls
  BY SignInCallForms DEF AuthCall, Carries, SignInInv
<1>2. \A c \in calls' : Carries(c) => c.session <= server.made
  BY DEF SignInInv, SessionsFresh
<1>3. \A s \in Sessions : s > server.made => server'.owner[s] = "none"
  BY DEF SignInInv, SessionsFresh
<1>4. ASSUME NEW c \in calls', AuthCall(c), c.new # 0
      PROVE  /\ c.new <= server.made /\ c.new # server.cookie
             /\ server'.owner[c.new] = c.account
             /\ \A d \in calls' : (Carries(d) => d.session # c.new)
                                  /\ (AuthCall(d) /\ d.new = c.new => d = c)
  <2>1. /\ c \in calls /\ c.new <= server.made /\ c.new # server.cookie
        /\ server.owner[c.new] = c.account
        /\ \A d \in calls : (Carries(d) => d.session # c.new)
                            /\ (AuthCall(d) /\ d.new = c.new => d = c)
    BY <1>1, <1>4 DEF SignInInv, SessionsFresh
  <2>2. c.new \in Sessions
    BY <1>1, <1>4, SignInAssumption DEF AuthCalls, Sessions
  <2>3. server'.owner[c.new] = server.owner[c.new]
    BY <2>1, <2>2
  <2> QED BY <1>1, <2>1, <2>3
<1> QED BY <1>2, <1>3, <1>4 DEF SessionsFresh, AuthCall, Carries, SignInInv

\* What a step leaves of the token that is waited for.
LEMMA FewerReads ==
  ASSUME SignInInv, TokenReads(calls') \subseteq TokenReads(calls),
         server'.cookie = server.cookie, server'.token = server.token,
         screen'.token = screen.token, screen.crossed => screen'.crossed
  PROVE  TokenWaits'
<1>1. TokenOf(server.cookie)' = TokenOf(server.cookie)
  BY DEF TokenOf
<1>2. TokenReads(calls)' = TokenReads(calls')
  BY DEF TokenReads
<1>3. screen'.crossed \/ ~screen.crossed
  OBVIOUS
<1> QED BY <1>1, <1>2, <1>3 DEF SignInInv, TokenWaits

\* A call that stays as it was or is over.
LEMMA EndedCodeStep ==
  ASSUME SignInInv, NEW c \in calls, CodeSent(c) \/ AuthFails(c)
  PROVE  SignInInv'
<1>1. screen \in SignInScreens /\ screen.codeSent \in BOOLEAN
  BY DEF SignInInv, SignInTypes, SignInScreens
<1>2. c.kind # "logout" /\ calls' = calls \ {c} /\ server' = server
  BY DEF CodeSent, AuthFails, Ended, AuthCall
<1>3. SameUser /\ screen' \in SignInScreens
  <2>1. CASE CodeSent(c)
    <3>1. PICK sent \in BOOLEAN :
            screen' = [screen EXCEPT !.smart = FALSE, !.codeSent = screen.codeSent \/ sent]
      BY <1>1, <2>1 DEF CodeSent, SignInScreens
    <3>2. PICK b \in BOOLEAN : b = (screen.codeSent \/ sent)
      OBVIOUS
    <3>3. screen' = [screen EXCEPT !.smart = FALSE, !.codeSent = b]
      BY <3>1, <3>2
    <3>4. screen' \in SignInScreens
      BY <1>1, <3>3 DEF SignInScreens
    <3>5. SameUser
      BY <1>1, <3>3 DEF SameUser, SignInScreens
    <3> QED BY <3>4, <3>5
  <2>2. CASE AuthFails(c)
    <3>1. screen' = [screen EXCEPT !.smart = FALSE] \/ screen' = [screen EXCEPT !.submitting = FALSE]
      BY <2>2 DEF AuthFails, DoneWaiting
    <3>2. screen' \in SignInScreens
      BY <1>1, <3>1 DEF SignInScreens
    <3>3. SameUser
      BY <1>1, <3>1 DEF SameUser, SignInScreens
    <3> QED BY <3>2, <3>3
  <2> QED BY <2>1, <2>2
<1>4. SignInTypes'
  BY <1>2, <1>3 DEF SignInInv, SignInTypes
<1> QED BY <1>2, <1>3, <1>4, QuietStep

LEMMA WhoIsStep ==
  ASSUME SignInInv, NEW c \in calls, MeArrives(c) \/ MeFails(c)
  PROVE  SignInInv'
<1>1. c \in WhoIsCalls /\ c.kind = "me" /\ calls' = calls \ {c} /\ server' = server
  BY SignInCallForms DEF MeArrives, MeFails, Ended, SignInInv
<1>2. OwnerOf(c.session) \in Anyone
  <2>1. c.session \in 0..MaxSessions /\ server.owner \in [Sessions -> Anyone]
    BY <1>1 DEF WhoIsCalls, SignInInv, SignInTypes, SignInServers
  <2> QED BY <2>1, SignInAssumption DEF OwnerOf, Sessions, Anyone
<1>3. /\ screen' \in SignInScreens /\ ~screen'.loading /\ screen'.token = screen.token
      /\ screen'.crossed = screen.crossed /\ screen'.overtaken = screen.overtaken
      /\ screen'.lost = (screen.lost \/ MeFails(c)) /\ screen'.page = "signin"
      /\ MeArrives(c) => screen'.user = OwnerOf(c.session)
  <2>1. screen \in SignInScreens /\ "none" \in Anyone
    BY DEF SignInInv, SignInTypes, Anyone
  <2>2. CASE MeArrives(c) /\ ~MeFails(c)
    BY <1>2, <2>1, <2>2 DEF MeArrives, SignInScreens
  <2>3. CASE MeFails(c)
    <3>1. screen' \in SignInScreens
      BY <2>1, <2>3 DEF MeFails, SignInScreens
    <3>2. ~screen'.loading /\ screen'.token = screen.token /\ screen'.crossed = screen.crossed
          /\ screen'.overtaken = screen.overtaken /\ screen'.lost /\ screen'.user = "none"
          /\ screen'.page = "signin"
      BY <2>1, <2>3 DEF MeFails, SignInScreens
    <3>3. MeArrives(c) => screen'.user = OwnerOf(c.session)
      BY DEF MeArrives
    <3> QED BY <2>1, <2>3, <3>1, <3>2, <3>3 DEF SignInScreens
  <2> QED BY <2>2, <2>3
<1>4. SignInTypes'
  BY <1>1, <1>3 DEF SignInInv, SignInTypes
<1>5. SessionsFresh'
  BY <1>1, CookieCarried
<1>6. QuestionOpen'
  BY <1>1, <1>3 DEF SignInInv, QuestionOpen
<1>7. TokenWaits'
  BY <1>1, <1>3, FewerReads DEF TokenReads
<1>8. UserIsTheSession'
  <2>1. screen.loading
    BY <1>1 DEF SignInInv, QuestionOpen
  <2>2. ~screen.overtaken => c.session = server.cookie
    BY <1>1, <2>1 DEF SignInInv, QuestionOpen
  <2>3. OwnerOf(server.cookie)' = OwnerOf(server.cookie)
    BY <1>1 DEF OwnerOf
  <2> QED BY <1>3, <2>2, <2>3 DEF UserIsTheSession
<1> QED BY <1>4, <1>5, <1>6, <1>7, <1>8 DEF SignInInv

\* The header shows somebody: the question about the user was answered, or a sign-in
\* overtook it.
LEMMA SomebodyIsKnown ==
  ASSUME SignInInv, screen.user # "none"
  PROVE  ~screen.loading \/ screen.overtaken
BY DEF SignInInv, QuestionOpen

LEMMA EnsureCsrfStep ==
  ASSUME SignInInv, NEW after \in {"logout", "write"}, screen.user # "none", EnsureCsrf(after)
  PROVE  SignInInv'
<1> DEFINE asked == [screen EXCEPT !.asks = screen.asks + 1]
           logout == Logout(screen.asks, screen.token)
           read == [kind |-> "csrf", n |-> screen.asks, after |-> after,
                    session |-> server.cookie, token |-> NoToken]
<1>1. /\ screen \in SignInScreens /\ server \in SignInServers
      /\ screen.asks \in 0..MaxAsks /\ screen.asks < MaxAsks /\ server' = server
  BY DEF SignInInv, SignInTypes, SignInScreens, EnsureCsrf
<1>2. asked \in SignInScreens
  <2>1. screen.asks + 1 \in 0..MaxAsks
    BY <1>1, SignInAssumption
  <2> QED BY <1>1, <2>1 DEF SignInScreens
<1>3. logout \in LogoutCalls /\ read \in CsrfCalls
  <2>1. screen.token \in Tokens /\ server.cookie \in 0..MaxSessions
    BY <1>1 DEF SignInScreens, SignInServers
  <2> QED BY <1>1, <2>1, NoTokenIsToken DEF Logout, LogoutCalls, CsrfCalls
<1>4. /\ logout.kind = "logout" /\ logout.stage = "sent" /\ logout.session = server.cookie
      /\ read.kind = "csrf" /\ read.session = server.cookie /\ read.token = NoToken
  BY DEF Logout
<1>5. ~screen.loading \/ screen.overtaken
  BY SomebodyIsKnown
<1> HIDE DEF asked, logout, read
<1>6. CASE screen.token # NoToken
  <2>1. screen' = asked /\ (calls' = calls \/ calls' = calls \cup {logout})
    BY <1>6 DEF EnsureCsrf, asked, logout
  <2>2. SignInTypes'
    BY <1>1, <1>2, <1>3, <2>1 DEF SignInInv, SignInTypes
  <2>3. SameUser
    BY <1>1, <2>1 DEF SameUser, asked, SignInScreens
  <2>4. SessionsFresh'
    BY <1>1, <1>4, <2>1, CookieCarried DEF Carries
  <2>5. QuestionOpen'
    BY <1>4, <1>5, <2>1, <2>3 DEF SignInInv, QuestionOpen, SameUser
  <2>6. TokenWaits'
    BY <1>1, <1>4, <2>1, <2>3, FewerReads DEF TokenReads, SameUser
  <2>7. UserIsTheSession'
    <3>1. OwnerOf(server.cookie)' = OwnerOf(server.cookie)
      BY <1>1 DEF OwnerOf
    <3>2. calls \subseteq calls'
      BY <2>1
    <3> QED BY <2>3, <3>1, <3>2 DEF SignInInv, UserIsTheSession, SameUser, Mounted
  <2> QED BY <2>2, <2>4, <2>5, <2>6, <2>7 DEF SignInInv
<1>7. CASE screen.token = NoToken
  <2>1. /\ screen' = [asked EXCEPT !.crossed = screen.crossed \/ TokenReads(calls) # {}]
        /\ calls' = calls \cup {read}
    BY <1>1, <1>7 DEF EnsureCsrf, asked, read, SignInScreens
  <2>2. /\ screen' \in SignInScreens
        /\ screen'.page = screen.page /\ screen'.user = screen.user
        /\ screen'.token = screen.token /\ screen'.loading = screen.loading
        /\ screen'.overtaken = screen.overtaken /\ screen'.lost = screen.lost
        /\ screen'.crossed = (screen.crossed \/ TokenReads(calls) # {})
    BY <1>1, <1>2, <2>1 DEF asked, SignInScreens
  <2>3. SignInTypes'
    BY <1>1, <1>3, <2>1, <2>2 DEF SignInInv, SignInTypes
  <2>4. SessionsFresh'
    BY <1>1, <1>4, <2>1, CookieCarried DEF Carries
  <2>5. QuestionOpen'
    BY <1>4, <1>5, <2>1, <2>2 DEF SignInInv, QuestionOpen
  <2>6. TokenWaits'
    <3>1. ~screen'.crossed => TokenReads(calls)' = {read}
      BY <1>4, <2>1, <2>2 DEF TokenReads
    <3> QED BY <1>1, <1>4, <1>7, <2>2, <3>1 DEF TokenWaits
  <2>7. UserIsTheSession'
    <3>1. OwnerOf(server.cookie)' = OwnerOf(server.cookie)
      BY <1>1 DEF OwnerOf
    <3>2. calls \subseteq calls'
      BY <2>1
    <3> QED BY <2>2, <3>1, <3>2 DEF SignInInv, UserIsTheSession, Mounted
  <2> QED BY <2>3, <2>4, <2>5, <2>6, <2>7 DEF SignInInv
<1> QED BY <1>6, <1>7

\* A request for a token, while the question about the user is not open.
LEMMA TokenReplacedStep ==
  ASSUME SignInInv, NEW c \in calls, TokenReplaced(c)
  PROVE  SignInInv'
<1> DEFINE fresh == [session |-> c.session, version |-> server.token[c.session] + 1]
           read == [c EXCEPT !.token = fresh]
<1>1. c \in CsrfCalls /\ c.kind = "csrf" /\ server \in SignInServers /\ screen' = screen
  BY SignInCallForms DEF TokenReplaced, SignInInv, SignInTypes
<1>2. c.session \in Sessions /\ c.session # 0
  BY <1>1, SignInAssumption DEF TokenReplaced, OwnerOf, CsrfCalls, Sessions
<1>3. server.token[c.session] + 1 \in 0..MaxTokens
  <2>1. server.token[c.session] \in 0..MaxTokens /\ server.token[c.session] < MaxTokens
    BY <1>1, <1>2 DEF TokenReplaced, SignInServers
  <2> QED BY <2>1, SignInAssumption
<1>4. fresh \in Tokens
  BY <1>1, <1>3 DEF Tokens, CsrfCalls
<1>5. /\ read \in CsrfCalls /\ read.kind = "csrf" /\ read.session = c.session
      /\ read.token = fresh
  BY <1>1, <1>4 DEF CsrfCalls
<1>6. /\ server' \in SignInServers
      /\ server'.cookie = server.cookie /\ server'.made = server.made
      /\ server'.owner = server.owner
      /\ server'.token[c.session] = server.token[c.session] + 1
  BY <1>1, <1>2, <1>3 DEF TokenReplaced, SignInServers
<1>7. calls' = (calls \ {c}) \cup {read}
  BY DEF TokenReplaced
<1> HIDE DEF read
<1>8. SignInTypes'
  BY <1>1, <1>5, <1>6, <1>7 DEF SignInInv, SignInTypes
<1>9. SessionsFresh'
  BY <1>1, <1>5, <1>6, <1>7, CookieCarried DEF Carries
<1>10. QuestionOpen'
  BY <1>1, <1>5, <1>7 DEF SignInInv, QuestionOpen
<1>11. TokenWaits'
  <2> SUFFICES ASSUME ~screen.crossed PROVE TokenWaits'
    BY <1>1 DEF TokenWaits
  <2>1. /\ screen.token = NoToken /\ c.session = server.cookie
        /\ \A d \in TokenReads(calls) : d = c
    BY <1>1 DEF SignInInv, TokenWaits, TokenReads
  <2>2. TokenReads(calls)' = {read}
    BY <1>5, <1>7, <2>1 DEF TokenReads
  <2>3. TokenOf(server.cookie)' = fresh
    BY <1>2, <1>6, <2>1 DEF TokenOf
  <2> QED BY <1>1, <1>5, <1>6, <2>1, <2>2, <2>3 DEF TokenWaits
<1>12. UserIsTheSession'
  <2>1. OwnerOf(server.cookie)' = OwnerOf(server.cookie)
    BY <1>6 DEF OwnerOf
  <2>2. \A d \in calls : d.kind = "logout" => d \in calls'
    BY <1>1, <1>7
  <2> QED BY <1>1, <2>1, <2>2 DEF SignInInv, UserIsTheSession, Mounted
<1> QED BY <1>8, <1>9, <1>10, <1>11, <1>12 DEF SignInInv

LEMMA CsrfAnsweredStep ==
  ASSUME SignInInv, NEW c \in calls, CsrfArrives(c) \/ CsrfFails(c)
  PROVE  SignInInv'
<1>1. /\ c \in CsrfCalls /\ c.kind = "csrf" /\ server \in SignInServers
      /\ screen \in SignInScreens /\ server' = server
  BY SignInCallForms DEF CsrfArrives, CsrfFails, SignInInv, SignInTypes
<1>2. OwnerOf(server.cookie)' = OwnerOf(server.cookie)
  BY <1>1 DEF OwnerOf
<1>3. CASE CsrfArrives(c)
  <2> DEFINE logout == Logout(c.n, c.token)
  <2>1. /\ logout \in LogoutCalls /\ logout.kind = "logout" /\ logout.stage = "sent"
        /\ logout.session = server.cookie
    BY <1>1 DEF Logout, LogoutCalls, CsrfCalls, SignInServers
  <2>2. /\ \/ calls' = calls \ {c}
           \/ calls' = (calls \ {c}) \cup {logout}
        /\ screen' = [screen EXCEPT !.token = c.token]
    BY <1>3 DEF CsrfArrives
  <2>3. /\ screen' \in SignInScreens /\ screen'.token = c.token
        /\ screen'.page = screen.page /\ screen'.user = screen.user
        /\ screen'.loading = screen.loading /\ screen'.overtaken = screen.overtaken
        /\ screen'.crossed = screen.crossed /\ screen'.lost = screen.lost
    BY <1>1, <2>2 DEF SignInScreens, CsrfCalls
  <2> HIDE DEF logout
  <2>4. SignInTypes'
    BY <1>1, <2>1, <2>2, <2>3 DEF SignInInv, SignInTypes
  <2>5. SessionsFresh'
    BY <1>1, <2>1, <2>2, CookieCarried DEF Carries
  <2>6. QuestionOpen'
    BY <1>1, <2>1, <2>2, <2>3 DEF SignInInv, QuestionOpen
  <2>7. TokenWaits'
    <3> SUFFICES ASSUME ~screen.crossed PROVE TokenWaits'
      BY <2>3 DEF TokenWaits
    <3>1. c.token = TokenOf(server.cookie) /\ \A d \in TokenReads(calls) : d = c
      BY <1>1, <1>3 DEF SignInInv, TokenWaits, TokenReads, CsrfArrives
    <3>2. TokenReads(calls)' = {}
      BY <2>1, <2>2, <3>1 DEF TokenReads
    <3>3. TokenOf(server.cookie)' = TokenOf(server.cookie)
      BY <1>1 DEF TokenOf
    <3> QED BY <2>3, <3>1, <3>2, <3>3 DEF TokenWaits
  <2>8. UserIsTheSession'
    <3>1. \A d \in calls : d.kind = "logout" => d \in calls'
      BY <1>1, <2>2
    <3> QED BY <1>2, <2>3, <3>1 DEF SignInInv, UserIsTheSession, Mounted
  <2> QED BY <2>4, <2>5, <2>6, <2>7, <2>8 DEF SignInInv
<1>4. CASE CsrfFails(c)
  <2>1. PICK b \in BOOLEAN : b = (screen.crossed \/ c.token # NoToken)
    OBVIOUS
  <2>2. screen' = [screen EXCEPT !.crossed = b] /\ calls' = calls \ {c}
    BY <1>4, <2>1 DEF CsrfFails, Ended
  <2>3. /\ screen' \in SignInScreens /\ screen'.token = screen.token
        /\ screen'.page = screen.page /\ screen'.user = screen.user
        /\ screen'.loading = screen.loading /\ screen'.overtaken = screen.overtaken
        /\ screen'.crossed = b /\ screen'.lost = screen.lost
    BY <1>1, <2>2 DEF SignInScreens
  <2>4. SignInTypes'
    BY <1>1, <2>2, <2>3 DEF SignInInv, SignInTypes
  <2>5. SessionsFresh'
    BY <1>1, <2>2, CookieCarried
  <2>6. QuestionOpen'
    BY <1>1, <2>2, <2>3 DEF SignInInv, QuestionOpen
  <2>7. TokenWaits'
    BY <1>1, <2>1, <2>2, <2>3, FewerReads DEF TokenReads
  <2>8. UserIsTheSession'
    <3>1. \A d \in calls : d.kind = "logout" => d \in calls'
      BY <1>1, <2>2
    <3> QED BY <1>2, <2>3, <3>1 DEF SignInInv, UserIsTheSession, Mounted
  <2> QED BY <2>4, <2>5, <2>6, <2>7, <2>8 DEF SignInInv
<1> QED BY <1>3, <1>4

\* A new session is nobody's yet: no request carries it.
LEMMA NewSession ==
  ASSUME SignInInv, server.made < MaxSessions, NEW account \in SignInAccounts
  PROVE  /\ WithSession(account) \in SignInServers
         /\ server.made + 1 \in Sessions /\ server.made + 1 \in 0..MaxSessions
         /\ WithSession(account).made = server.made + 1
         /\ WithSession(account).cookie = server.cookie
         /\ WithSession(account).token = server.token
         /\ WithSession(account).owner[server.made + 1] = account
         /\ \A s \in Sessions : s # server.made + 1 =>
              WithSession(account).owner[s] = server.owner[s]
<1>1. server \in SignInServers /\ server.made \in 0..MaxSessions
  BY DEF SignInInv, SignInTypes, SignInServers
<1>2. server.made + 1 \in Sessions /\ server.made + 1 \in 0..MaxSessions
  BY <1>1, SignInAssumption DEF Sessions
<1>3. account \in Anyone /\ server.owner \in [Sessions -> Anyone]
  BY <1>1 DEF Anyone, SignInServers
<1> DEFINE owner == [server.owner EXCEPT ![server.made + 1] = account]
<1>4. /\ owner \in [Sessions -> Anyone] /\ owner[server.made + 1] = account
      /\ \A s \in Sessions : s # server.made + 1 => owner[s] = server.owner[s]
  BY <1>2, <1>3
<1>5. WithSession(account) = [server EXCEPT !.made = server.made + 1, !.owner = owner]
  BY <1>1 DEF WithSession, SignInServers
<1> HIDE DEF owner
<1>6. /\ WithSession(account) \in SignInServers
      /\ WithSession(account).owner = owner
      /\ WithSession(account).made = server.made + 1
      /\ WithSession(account).cookie = server.cookie
      /\ WithSession(account).token = server.token
  BY <1>1, <1>2, <1>4, <1>5 DEF SignInServers
<1> QED BY <1>2, <1>4, <1>6

LEMMA SessionCreatedStep ==
  ASSUME SignInInv, NEW c \in calls, SessionCreated(c)
  PROVE  SignInInv'
<1> DEFINE made == server.made + 1
           answer == [c EXCEPT !.new = made]
<1>1. /\ c \in AuthCalls /\ AuthCall(c) /\ c.new = 0 /\ c.account \in SignInAccounts
      /\ server.made < MaxSessions /\ screen' = screen /\ server \in SignInServers
      /\ server' = WithSession(c.account) /\ calls' = (calls \ {c}) \cup {answer}
  BY SignInCallForms DEF SessionCreated, SignInInv, SignInTypes, AuthCalls
<1>2. /\ server' \in SignInServers /\ made \in Sessions /\ made \in 0..MaxSessions
      /\ server'.made = made /\ server'.cookie = server.cookie /\ server'.token = server.token
      /\ server'.owner[made] = c.account
      /\ \A s \in Sessions : s # made => server'.owner[s] = server.owner[s]
  BY <1>1, NewSession
<1>3. /\ answer \in AuthCalls /\ AuthCall(answer) /\ answer.new = made
      /\ answer.account = c.account
  BY <1>1, <1>2 DEF AuthCalls, AuthCall
<1>4. server.made \in 0..MaxSessions /\ server.cookie \in 0..MaxSessions /\ server.made < made
      /\ made # 0
  BY <1>1 DEF SignInServers
<1> HIDE DEF made, answer
<1>5. SignInTypes'
  BY <1>1, <1>2, <1>3 DEF SignInInv, SignInTypes
<1>6. \A d \in calls' : Carries(d) \/ d.kind = "code" => d \in calls
  BY <1>1, <1>3 DEF AuthCall, Carries
<1>7. SessionsFresh'
  <2>1. server'.cookie <= server'.made
    BY <1>2, <1>4 DEF SignInInv, SessionsFresh
  <2>2. \A s \in Sessions : s > server'.made => server'.owner[s] = "none"
    BY <1>2, <1>4, SignInAssumption DEF SignInInv, SessionsFresh, Sessions
  <2>3. \A d \in calls : Carries(d) => d.session <= server.made /\ d.session \in 0..MaxSessions
    BY SignInCallForms DEF SignInInv, SessionsFresh, Carries, WhoIsCalls, CsrfCalls, LogoutCalls
  <2>4. \A d \in calls' : Carries(d) => d.session <= server'.made /\ d.session # made
    BY <1>2, <1>4, <1>6, <2>3
  <2>5. \A d \in calls : AuthCall(d) => d.new \in 0..MaxSessions
    BY SignInCallForms DEF AuthCalls, SignInInv
  <2>6. \A d \in calls : AuthCall(d) /\ d.new # 0 => d.new <= server.made /\ d.new # made
    BY <1>4, <2>5 DEF SignInInv, SessionsFresh
  <2>7. /\ made <= server'.made /\ made # server'.cookie
        /\ \A d \in calls' : AuthCall(d) /\ d.new = made => d = answer
    BY <1>1, <1>2, <1>4, <2>6 DEF SignInInv, SessionsFresh
  <2>8. ASSUME NEW d \in calls, d # c, AuthCall(d), d.new # 0
        PROVE  /\ d.new <= server'.made /\ d.new # server'.cookie
               /\ server'.owner[d.new] = d.account
               /\ \A e \in calls' : (Carries(e) => e.session # d.new)
                                    /\ (AuthCall(e) /\ e.new = d.new => e = d)
    <3>1. d.new \in Sessions /\ d.new # made /\ d.new <= server.made
      BY <2>5, <2>6, <2>8, SignInAssumption DEF Sessions
    <3>2. d.new <= server'.made /\ server'.owner[d.new] = d.account /\ d.new # server'.cookie
      BY <1>2, <1>4, <2>8, <3>1 DEF SignInInv, SessionsFresh, Sessions
    <3>3. \A e \in calls : (Carries(e) => e.session # d.new)
                           /\ (AuthCall(e) /\ e.new = d.new => e = d)
      BY <2>8 DEF SignInInv, SessionsFresh
    <3>4. ~Carries(answer) /\ answer.new # d.new
      BY <1>3, <3>1 DEF AuthCall, Carries
    <3> QED BY <1>1, <3>2, <3>3, <3>4
  <2>9. ASSUME NEW d \in calls', AuthCall(d), d.new # 0
        PROVE  /\ d.new <= server'.made /\ d.new # server'.cookie
               /\ server'.owner[d.new] = d.account
               /\ \A e \in calls' : (Carries(e) => e.session # d.new)
                                    /\ (AuthCall(e) /\ e.new = d.new => e = d)
    <3>1. CASE d = answer
      BY <1>2, <1>3, <2>4, <2>7, <3>1
    <3>2. CASE d # answer
      BY <1>1, <2>8, <2>9, <3>2
    <3> QED BY <3>1, <3>2
  <2> QED BY <2>1, <2>2, <2>4, <2>9 DEF SessionsFresh, AuthCall, Carries
<1>8. QuestionOpen'
  BY <1>1, <1>2, <1>6 DEF SignInInv, QuestionOpen, Carries
<1>9. TokenWaits'
  BY <1>1, <1>2, <1>6, FewerReads DEF TokenReads, Carries
<1>10. UserIsTheSession'
  <2>1. server.cookie # made
    BY <1>2, <1>4 DEF SignInInv, SessionsFresh
  <2>2. OwnerOf(server.cookie)' = OwnerOf(server.cookie)
    BY <1>2, <1>4, <2>1, SignInAssumption DEF OwnerOf, Sessions
  <2>3. \A d \in calls : d.kind = "logout" => d \in calls'
    BY <1>1 DEF AuthCall
  <2> QED BY <1>1, <2>2, <2>3 DEF SignInInv, UserIsTheSession, Mounted
<1> QED BY <1>5, <1>7, <1>8, <1>9, <1>10 DEF SignInInv

\* The answer of a sign-in.
LEMMA SignedInStep ==
  ASSUME SignInInv, NEW c \in calls, SignedIn(c)
  PROVE  SignInInv'
<1>1. /\ c \in AuthCalls /\ AuthCall(c) /\ c.new # 0 /\ c.new \in 0..MaxSessions
      /\ c.account \in Anyone /\ screen \in SignInScreens /\ server \in SignInServers
      /\ calls' = calls \ {c} /\ server' = [server EXCEPT !.cookie = c.new]
  BY SignInCallForms DEF SignedIn, SignInInv, SignInTypes, AuthCalls, Anyone, Ended
<1>2. /\ server' \in SignInServers /\ server'.cookie = c.new /\ server'.made = server.made
      /\ server'.owner = server.owner /\ server'.token = server.token
  BY <1>1 DEF SignInServers
<1>3. PICK crossed \in BOOLEAN : crossed = (screen.crossed \/ TokenReads(calls) # {})
  OBVIOUS
<1>4. PICK overtaken \in BOOLEAN : overtaken = (screen.overtaken \/ screen.loading)
  OBVIOUS
<1> DEFINE p == DoneWaiting(screen, c)
<1>5. /\ p \in SignInScreens
      /\ p.page = screen.page /\ p.loading = screen.loading /\ p.lost = screen.lost
      /\ p.overtaken = screen.overtaken /\ p.crossed = screen.crossed
      /\ p.codeSent = screen.codeSent /\ p.input = screen.input
  <2>1. p = [screen EXCEPT !.smart = FALSE] \/ p = [screen EXCEPT !.submitting = FALSE]
    BY DEF DoneWaiting
  <2>2. p \in SignInScreens
    BY <1>1, <2>1 DEF SignInScreens
  <2> HIDE DEF p
  <2> QED BY <1>1, <2>1, <2>2 DEF SignInScreens
<1>6. PICK token \in Tokens : token = TokenOf(c.new)
  BY <1>1, TokenOfType
<1>7. PICK input \in Anyone, sent \in BOOLEAN :
        screen' = [p EXCEPT !.user = c.account, !.token = token, !.open = FALSE,
                            !.menu = FALSE, !.input = input, !.codeSent = sent,
                            !.overtaken = overtaken, !.crossed = crossed]
  <2>1. "none" \in Anyone /\ screen.input \in Anyone /\ screen.codeSent \in BOOLEAN
    BY <1>1 DEF Anyone, SignInScreens
  <2>2. PICK input \in Anyone : input = IF c.kind = "login" THEN "none" ELSE p.input
    BY <1>5, <2>1
  <2>3. PICK sent \in BOOLEAN : sent = IF c.kind = "login" THEN FALSE ELSE p.codeSent
    BY <1>5, <2>1
  <2>4. screen' = [p EXCEPT !.user = c.account, !.token = token, !.open = FALSE,
                            !.menu = FALSE, !.input = input, !.codeSent = sent,
                            !.overtaken = overtaken, !.crossed = crossed]
    BY <1>3, <1>4, <1>5, <1>6, <2>2, <2>3 DEF SignedIn, SignInScreens
  <2> QED BY <2>4
<1> HIDE DEF p
<1>8. /\ screen' \in SignInScreens /\ screen'.user = c.account
      /\ screen'.token = TokenOf(c.new) /\ screen'.loading = screen.loading
      /\ screen'.overtaken = overtaken /\ screen'.crossed = crossed
  <2> DEFINE q == [p EXCEPT !.open = FALSE, !.menu = FALSE, !.input = input, !.codeSent = sent]
  <2>1. q \in SignInScreens /\ q.loading = screen.loading
    BY <1>5 DEF SignInScreens
  <2>2. screen' = [q EXCEPT !.user = c.account, !.token = token,
                            !.overtaken = overtaken, !.crossed = crossed]
    BY <1>5, <1>7 DEF SignInScreens
  <2> HIDE DEF q
  <2>3. screen' \in SignInScreens
    BY <1>1, <2>1, <2>2 DEF SignInScreens
  <2>4. /\ screen'.user = c.account /\ screen'.token = token
        /\ screen'.loading = q.loading
        /\ screen'.overtaken = overtaken /\ screen'.crossed = crossed
    BY <2>1, <2>2 DEF SignInScreens
  <2> QED BY <1>6, <2>1, <2>3, <2>4
<1>9. SignInTypes'
  BY <1>1, <1>2, <1>8 DEF SignInInv, SignInTypes
<1>10. /\ c.new <= server.made /\ c.new # server.cookie /\ server.owner[c.new] = c.account
       /\ \A d \in calls : (Carries(d) => d.session # c.new)
                           /\ (AuthCall(d) /\ d.new = c.new => d = c)
  BY <1>1 DEF SignInInv, SessionsFresh
<1>11. SessionsFresh'
  <2>1. \A d \in calls' : d \in calls /\ d # c
    BY <1>1
  <2>2. server'.cookie <= server'.made
    BY <1>2, <1>10
  <2>3. /\ \A s \in Sessions : s > server'.made => server'.owner[s] = "none"
        /\ \A d \in calls' : Carries(d) => d.session <= server'.made
    BY <1>2, <2>1 DEF SignInInv, SessionsFresh
  <2>4. ASSUME NEW d \in calls', AuthCall(d), d.new # 0
        PROVE  /\ d.new <= server'.made /\ d.new # server'.cookie
               /\ server'.owner[d.new] = d.account
               /\ \A e \in calls' : (Carries(e) => e.session # d.new)
                                    /\ (AuthCall(e) /\ e.new = d.new => e = d)
    <3>1. d.new # c.new
      BY <1>10, <2>1, <2>4
    <3> QED BY <1>2, <2>1, <2>4, <3>1 DEF SignInInv, SessionsFresh
  <2> QED BY <2>2, <2>3, <2>4 DEF SessionsFresh, AuthCall, Carries
<1>12. QuestionOpen'
  BY <1>1, <1>4, <1>8 DEF SignInInv, QuestionOpen
<1>13. TokenWaits'
  <2>1. ~crossed => TokenReads(calls)' = {}
    BY <1>1, <1>3 DEF TokenReads
  <2>2. TokenOf(server.cookie)' = TokenOf(c.new)
    BY <1>2 DEF TokenOf
  <2> QED BY <1>8, <2>1, <2>2 DEF TokenWaits
<1>14. UserIsTheSession'
  <2>1. OwnerOf(server.cookie)' = c.account
    BY <1>1, <1>2, <1>10 DEF OwnerOf
  <2> QED BY <1>8, <2>1 DEF UserIsTheSession
<1> QED BY <1>9, <1>11, <1>12, <1>13, <1>14 DEF SignInInv

\* The browser comes back from Google: a page that was just opened.
LEMMA SiteOpenedType ==
  ASSUME NEW ask, NEW signIns \in 0..MaxSignIns, NEW asks \in 0..MaxAsks
  PROVE  /\ SiteOpened(ask) \in SignInScreens
         /\ [SiteOpened(ask) EXCEPT !.signIns = signIns, !.asks = asks] \in SignInScreens
<1>1. SiteOpened(ask) \in SignInScreens
  <2>1. (ask # "no") \in BOOLEAN /\ (ask = "signup") \in BOOLEAN
    OBVIOUS
  <2>2. 0 \in 0..MaxSignIns /\ 0 \in 0..MaxAsks
    BY SignInAssumption
  <2> QED BY <2>1, <2>2, NoTokenIsToken DEF SiteOpened, SignInScreens, Anyone
<1> QED BY <1>1 DEF SignInScreens

\* A page that was just opened, and its question.
LEMMA OpenedPage ==
  ASSUME screen' \in SignInScreens, server' \in SignInServers,
         server'.cookie <= server'.made,
         \A s \in Sessions : s > server'.made => server'.owner[s] = "none",
         calls' = {WhoIs(server'.cookie)},
         screen'.loading, ~screen'.overtaken, screen'.user = "none", screen'.token = NoToken
  PROVE  SignInInv'
<1> DEFINE me == WhoIs(server'.cookie)
<1>1. me \in WhoIsCalls /\ me.kind = "me" /\ me.session = server'.cookie /\ calls' = {me}
  BY DEF WhoIs, WhoIsCalls, SignInServers
<1> HIDE DEF me
<1>2. SignInTypes'
  BY <1>1 DEF SignInTypes
<1>3. SessionsFresh'
  BY <1>1 DEF SessionsFresh, AuthCall
<1>4. QuestionOpen'
  BY <1>1 DEF QuestionOpen
<1>5. TokenWaits'
  BY <1>1 DEF TokenWaits, TokenReads
<1>6. UserIsTheSession'
  BY DEF UserIsTheSession
<1> QED BY <1>2, <1>3, <1>4, <1>5, <1>6 DEF SignInInv

LEMMA GoogleStep ==
  ASSUME SignInInv, NEW account \in SignInAccounts, SignInWithGoogle(account)
  PROVE  SignInInv'
<1>1. /\ screen \in SignInScreens /\ server \in SignInServers
      /\ screen.signIns \in 0..MaxSignIns /\ screen.asks \in 0..MaxAsks
      /\ screen.signIns < MaxSignIns
  BY DEF SignInInv, SignInTypes, SignInScreens, SignInWithGoogle
<1>2. /\ screen' \in SignInScreens /\ screen'.loading /\ ~screen'.overtaken
      /\ screen'.user = "none" /\ screen'.token = NoToken
  <2>1. screen.signIns + 1 \in 0..MaxSignIns
    BY <1>1, SignInAssumption
  <2>2. screen' = [SiteOpened("login") EXCEPT !.signIns = screen.signIns + 1, !.asks = screen.asks]
    BY DEF SignInWithGoogle
  <2>3. screen' \in SignInScreens
    BY <1>1, <2>1, <2>2, SiteOpenedType
  <2> QED BY <2>2, <2>3 DEF SiteOpened
<1>3. /\ server' \in SignInServers /\ server'.cookie <= server'.made
      /\ \A s \in Sessions : s > server'.made => server'.owner[s] = "none"
  <2>1. CASE UNCHANGED server
    BY <1>1, <2>1 DEF SignInInv, SessionsFresh
  <2>2. CASE /\ server.made < MaxSessions
             /\ server' = [WithSession(account) EXCEPT !.cookie = server.made + 1]
    <3> DEFINE w == WithSession(account)
    <3>1. /\ w \in SignInServers /\ server.made + 1 \in 0..MaxSessions
          /\ w.made = server.made + 1
          /\ \A s \in Sessions : s # server.made + 1 => w.owner[s] = server.owner[s]
      BY <2>2, NewSession
    <3> HIDE DEF w
    <3>2. server' = [w EXCEPT !.cookie = server.made + 1]
      BY <2>2 DEF w
    <3>3. /\ server' \in SignInServers /\ server'.cookie = server.made + 1
          /\ server'.made = server.made + 1 /\ server'.owner = w.owner
      BY <3>1, <3>2 DEF SignInServers
    <3>4. \A s \in Sessions : s > server'.made => s # server.made + 1 /\ s > server.made
      BY <1>1, <3>3, SignInAssumption DEF Sessions, SignInServers
    <3> QED BY <1>1, <3>1, <3>3, <3>4 DEF SignInInv, SessionsFresh, SignInServers
  <2> QED BY <2>1, <2>2 DEF SignInWithGoogle
<1>4. calls' = {WhoIs(server'.cookie)}
  BY DEF SignInWithGoogle
<1> QED BY <1>2, <1>3, <1>4, OpenedPage

\* A sign-out reaches the server: it may revoke the session that it carries.
LEMMA LoggedOutStep ==
  ASSUME SignInInv, NEW c \in calls, LoggedOut(c)
  PROVE  SignInInv'
<1>1. /\ c \in LogoutCalls /\ c.kind = "logout" /\ c.stage = "sent" /\ screen' = screen
      /\ server \in SignInServers /\ c.session \in 0..MaxSessions
  BY SignInCallForms DEF LoggedOut, SignInInv, SignInTypes, LogoutCalls
<1>2. PICK stage \in {"done", "refused"} :
        /\ calls' = (calls \ {c}) \cup {[c EXCEPT !.stage = stage]}
        /\ \/ server' = server
           \/ /\ stage = "done" /\ OwnerOf(c.session) # "none"
              /\ server' = [server EXCEPT !.owner[c.session] = "none"]
  BY DEF LoggedOut, Advances
<1> DEFINE answer == [c EXCEPT !.stage = stage]
<1>3. /\ answer \in LogoutCalls /\ answer.kind = "logout" /\ answer.stage = stage
      /\ answer.session = c.session
  BY <1>1, <1>2 DEF LogoutCalls
<1> HIDE DEF answer
<1>4. calls' = (calls \ {c}) \cup {answer}
  BY <1>2 DEF answer
<1>5. /\ server' \in SignInServers /\ server'.cookie = server.cookie
      /\ server'.made = server.made /\ server'.token = server.token
      /\ \A s \in Sessions : \/ server'.owner[s] = server.owner[s]
                             \/ server'.owner[s] = "none" /\ s = c.session
      /\ stage = "refused" => server' = server
  <2>1. CASE server' = server
    BY <1>1, <2>1
  <2>2. CASE server' # server
    <3>1. /\ stage = "done" /\ OwnerOf(c.session) # "none"
          /\ server' = [server EXCEPT !.owner[c.session] = "none"]
      BY <1>2, <2>2
    <3>2. c.session \in Sessions
      BY <1>1, <3>1, SignInAssumption DEF OwnerOf, Sessions
    <3> DEFINE owner == [server.owner EXCEPT ![c.session] = "none"]
    <3>3. /\ owner \in [Sessions -> Anyone]
          /\ \A s \in Sessions : owner[s] = server.owner[s] \/ (owner[s] = "none" /\ s = c.session)
      BY <1>1, <3>2 DEF SignInServers, Anyone
    <3>4. server' = [server EXCEPT !.owner = owner]
      BY <1>1, <3>1 DEF SignInServers
    <3> HIDE DEF owner
    <3>5. server' \in SignInServers /\ server'.owner = owner /\ server'.cookie = server.cookie
          /\ server'.made = server.made /\ server'.token = server.token
      BY <1>1, <3>3, <3>4 DEF SignInServers
    <3> QED BY <3>1, <3>3, <3>5
  <2> QED BY <2>1, <2>2
<1>6. SignInTypes'
  BY <1>1, <1>3, <1>4, <1>5 DEF SignInInv, SignInTypes
<1>7. SessionsFresh'
  <2>1. \A d \in calls' : d \in calls \/ (Carries(d) /\ d.session = c.session)
    BY <1>3, <1>4 DEF Carries
  <2>2. Carries(c)
    BY <1>1 DEF Carries
  <2>3. \A s \in Sessions : \/ server'.owner[s] = server.owner[s]
                            \/ server'.owner[s] = "none" /\ \E d \in calls : Carries(d) /\ d.session = s
    BY <1>5, <2>2
  <2> QED BY <1>5, <2>1, <2>2, <2>3, CookieCarried
<1>8. QuestionOpen'
  BY <1>1, <1>3, <1>4, <1>5 DEF SignInInv, QuestionOpen
<1>9. TokenWaits'
  BY <1>1, <1>3, <1>4, <1>5, FewerReads DEF TokenReads
<1>10. UserIsTheSession'
  <2>1. CASE stage = "done"
    BY <1>3, <1>4, <2>1 DEF UserIsTheSession
  <2>2. CASE stage = "refused"
    <3>1. server' = server /\ OwnerOf(server.cookie)' = OwnerOf(server.cookie)
      BY <1>5, <2>2 DEF OwnerOf
    <3>2. \A d \in calls : d.kind = "logout" /\ d.stage = "done" => d \in calls'
      BY <1>1, <1>4
    <3> QED BY <1>1, <3>1, <3>2 DEF SignInInv, UserIsTheSession, Mounted
  <2> QED BY <2>1, <2>2
<1> QED BY <1>6, <1>7, <1>8, <1>9, <1>10 DEF SignInInv

LEMMA SignedOutStep ==
  ASSUME SignInInv, NEW c \in calls, SignedOut(c)
  PROVE  SignInInv'
<1>1. /\ c \in LogoutCalls /\ c.kind = "logout" /\ calls' = calls \ {c}
      /\ screen \in SignInScreens /\ server \in SignInServers
      /\ server' = [server EXCEPT !.cookie = 0]
  BY SignInCallForms DEF SignedOut, SignInInv, SignInTypes, Ended
<1>2. /\ server' \in SignInServers /\ server'.cookie = 0 /\ server'.made = server.made
      /\ server'.owner = server.owner /\ server'.token = server.token
  <2>1. 0 \in 0..MaxSessions
    BY SignInAssumption
  <2> QED BY <1>1, <2>1 DEF SignInServers
<1>3. PICK crossed \in BOOLEAN : crossed = (screen.crossed \/ TokenReads(calls) # {})
  OBVIOUS
<1>4. PICK signUp \in BOOLEAN :
        screen' = [screen EXCEPT !.user = "none", !.token = NoToken, !.menu = FALSE,
                                 !.open = TRUE, !.signUp = signUp, !.crossed = crossed]
  <2>1. PICK signUp \in {FALSE, screen.open /\ screen.signUp} :
          screen' = [Loses(screen, signUp) EXCEPT !.crossed = @ \/ TokenReads(calls) # {}]
    BY DEF SignedOut
  <2>2. signUp \in BOOLEAN
    BY <2>1
  <2>3. screen' = [screen EXCEPT !.user = "none", !.token = NoToken, !.menu = FALSE,
                                 !.open = TRUE, !.signUp = signUp, !.crossed = crossed]
    BY <1>1, <1>3, <2>1 DEF Loses, SignInScreens
  <2> QED BY <2>2, <2>3
<1>5. /\ screen' \in SignInScreens /\ screen'.user = "none" /\ screen'.token = NoToken
      /\ screen'.loading = screen.loading /\ screen'.overtaken = screen.overtaken
      /\ screen'.crossed = crossed
  <2> DEFINE q == [screen EXCEPT !.menu = FALSE, !.open = TRUE, !.signUp = signUp]
  <2>1. /\ q \in SignInScreens /\ q.loading = screen.loading
        /\ q.overtaken = screen.overtaken
    BY <1>1 DEF SignInScreens
  <2>2. screen' = [q EXCEPT !.user = "none", !.token = NoToken, !.crossed = crossed]
    BY <1>1, <1>4 DEF SignInScreens
  <2> HIDE DEF q
  <2>3. "none" \in Anyone
    BY DEF Anyone
  <2>4. screen' \in SignInScreens
    BY <2>1, <2>2, <2>3, NoTokenIsToken DEF SignInScreens
  <2> QED BY <2>1, <2>2, <2>4 DEF SignInScreens
<1>6. SignInTypes'
  BY <1>1, <1>2, <1>5 DEF SignInInv, SignInTypes
<1>7. SessionsFresh'
  <2>1. 0 <= server.made
    BY <1>1 DEF SignInServers
  <2> QED BY <1>1, <1>2, <2>1 DEF SignInInv, SessionsFresh, Carries, AuthCall
<1>8. QuestionOpen'
  BY <1>1, <1>5 DEF SignInInv, QuestionOpen
<1>9. TokenWaits'
  <2>1. ~crossed => TokenReads(calls)' = {}
    BY <1>1, <1>3 DEF TokenReads
  <2> QED BY <1>5, <2>1 DEF TokenWaits
<1>10. UserIsTheSession'
  <2>1. OwnerOf(server.cookie)' = "none"
    BY <1>2 DEF OwnerOf
  <2> QED BY <1>5, <2>1 DEF UserIsTheSession
<1> QED BY <1>6, <1>7, <1>8, <1>9, <1>10 DEF SignInInv

LEMMA SignOutFailsStep ==
  ASSUME SignInInv, NEW c \in calls, SignOutFails(c)
  PROVE  SignInInv'
<1>1. /\ c \in LogoutCalls /\ c.kind = "logout" /\ calls' = calls \ {c}
      /\ screen \in SignInScreens /\ server' = server
  BY SignInCallForms DEF SignOutFails, SignInInv, SignInTypes, Ended
<1>2. PICK lost \in BOOLEAN : lost = (screen.lost \/ c.stage = "done")
  OBVIOUS
<1>3. screen' = [screen EXCEPT !.lost = lost]
  BY <1>2 DEF SignOutFails
<1>4. /\ screen' \in SignInScreens /\ screen'.user = screen.user
      /\ screen'.token = screen.token /\ screen'.page = screen.page
      /\ screen'.loading = screen.loading /\ screen'.overtaken = screen.overtaken
      /\ screen'.crossed = screen.crossed /\ screen'.lost = lost
  BY <1>1, <1>3 DEF SignInScreens
<1>5. SignInTypes'
  BY <1>1, <1>4 DEF SignInInv, SignInTypes
<1>6. SessionsFresh'
  BY <1>1, CookieCarried
<1>7. QuestionOpen'
  BY <1>1, <1>4 DEF SignInInv, QuestionOpen
<1>8. TokenWaits'
  BY <1>1, <1>4, FewerReads DEF TokenReads
<1>9. UserIsTheSession'
  <2>1. OwnerOf(server.cookie)' = OwnerOf(server.cookie)
    BY <1>1 DEF OwnerOf
  <2>2. ~lost => \A d \in calls : d.kind = "logout" /\ d.stage = "done" => d \in calls'
    BY <1>1, <1>2
  <2> QED BY <1>2, <1>4, <2>1, <2>2 DEF SignInInv, UserIsTheSession, Mounted
<1> QED BY <1>5, <1>6, <1>7, <1>8, <1>9 DEF SignInInv

LEMMA SignInStep == SignInInv /\ [SignInNext]_tabVars => SignInInv'
<1> SUFFICES ASSUME SignInInv, [SignInNext]_tabVars PROVE SignInInv'
  OBVIOUS
<1>1. CASE UNCHANGED tabVars
  <2>1. SameUser /\ server' = server /\ SignInTypes' /\ calls' = calls
    BY <1>1 DEF tabVars, SameUser, SignInInv, SignInTypes
  <2> QED BY <2>1, QuietStep
<1>2. ASSUME NEW c \in calls,
             \/ MeArrives(c) \/ MeFails(c) \/ TokenReplaced(c) \/ CsrfArrives(c) \/ CsrfFails(c)
             \/ CodeSent(c) \/ SessionCreated(c) \/ SignedIn(c) \/ AuthFails(c)
             \/ LoggedOut(c) \/ SignedOut(c) \/ SignOutFails(c)
      PROVE  SignInInv'
  BY <1>2, WhoIsStep, TokenReplacedStep, CsrfAnsweredStep, EndedCodeStep, SessionCreatedStep,
     SignedInStep, LoggedOutStep, SignedOutStep, SignOutFailsStep
<1>3. CASE UserMenu \/ NavigationMenu \/ PageWrites
  <2>1. CASE SignOut \/ PageWrites
    BY <2>1, EnsureCsrfStep DEF SignOut, PageWrites
  <2>2. CASE ~(SignOut \/ PageWrites)
    <3>1. DialogMoves
      BY <1>3, <2>2 DEF UserMenu, NavigationMenu, DialogMoves
    <3> QED BY <3>1, DialogStep
  <2> QED BY <2>1, <2>2
<1>4. CASE AddressAsks \/ LoginDialog
  <2>1. CASE \E account \in SignInAccounts \ PhoneAccounts : SignInWithGoogle(account)
    BY <2>1, GoogleStep
  <2>2. CASE SendCode \/ VerifyCode \/ HandleSmartLogin \/ SignUpForm
    BY <2>2, OrdersStep DEF SignUpForm
  <2>3. CASE DialogMoves
    BY <2>3, DialogStep
  <2> QED BY <1>4, <2>1, <2>2, <2>3 DEF LoginDialog, SmartLoginForm, CodePanel, DialogMoves
<1> QED BY <1>1, <1>2, <1>3, <1>4 DEF SignInNext

LEMMA SignInShown == SignInInv => SessionIsOne
BY DEF SignInInv, SessionIsOne, TokenWaits, TokenIsCurrent

LEMMA SignInStart == SignInInit => SignInInv
<1> SUFFICES ASSUME SignInInit PROVE SignInInv
  OBVIOUS
<1>1. PICK visitor \in Anyone, session \in {0, 1} :
        /\ server = [cookie |-> session, made |-> session,
                     owner |-> [s \in Sessions |-> IF s = 1 THEN visitor ELSE "none"],
                     token |-> [s \in Sessions |-> 0]]
        /\ calls = {WhoIs(session)} /\ (session = 0 => visitor = "none")
  BY DEF SignInInit
<1>2. PICK ask : screen = SiteOpened(ask)
  BY DEF SignInInit
<1>3. /\ screen \in SignInScreens /\ screen.loading /\ ~screen.overtaken
      /\ screen.user = "none" /\ screen.token = NoToken
  <2>1. 0 \in 0..MaxSignIns /\ 0 \in 0..MaxAsks
    BY SignInAssumption
  <2>2. screen \in SignInScreens
    BY <1>2, <2>1, SiteOpenedType
  <2> QED BY <1>2, <2>2 DEF SiteOpened
<1>4. server \in SignInServers /\ server.cookie = session /\ server.made = session
  <2>1. session \in 0..MaxSessions /\ 0 \in 0..MaxTokens /\ "none" \in Anyone
    BY SignInAssumption DEF Anyone
  <2> QED BY <1>1, <2>1 DEF SignInServers
<1>5. WhoIs(session) \in WhoIsCalls /\ WhoIs(session).kind = "me"
      /\ WhoIs(session).session = session
  BY <1>1, SignInAssumption DEF WhoIs, WhoIsCalls
<1>6. SignInTypes
  BY <1>1, <1>3, <1>4, <1>5 DEF SignInTypes
<1>7. SessionsFresh
  BY <1>1, <1>4, <1>5 DEF SessionsFresh, AuthCall, Sessions
<1>8. QuestionOpen /\ TokenWaits /\ UserIsTheSession
  BY <1>1, <1>3, <1>4, <1>5 DEF QuestionOpen, TokenWaits, TokenReads, UserIsTheSession
<1> QED BY <1>6, <1>7, <1>8 DEF SignInInv

\* The user that the header shows is the owner of the session of the browser's cookie
\* and the kept token is that session's (AuthProvider.tsx), for any accounts and any
\* number of sign-ins, sign-outs and requests under way at once.
THEOREM SessionCorrect == SignInSpec => []SessionIsOne
<1>1. SignInInit => SignInInv
  BY SignInStart
<1> QED BY <1>1, SignInShown, SignInStep, PTL DEF SignInSpec

(***************************************************************************)
(* MasteryGoals: one active goal of a horizon in a scope.                     *)
(***************************************************************************)
GoalSubject == GoalSubjects \cup {"all"}
GoalScreens ==
  [page : {"goals"}, path : GoalPaths \cup {"none"}, subject : GoalSubject,
   goals : SUBSET GoalIds, busy : BOOLEAN, failed : BOOLEAN, saving : BOOLEAN, blind : BOOLEAN]
GoalReads == [kind : {"goals"}, path : GoalPaths, subject : GoalSubject, read : BOOLEAN,
              rows : SUBSET GoalIds]
GoalCreates == [kind : {"create"}, path : GoalPaths, subject : GoalSubject, horizon : Horizons,
                goal : GoalIds \cup {0}, n : {0}]
GoalStatuses == [kind : {"status"}, goal : GoalIds, stage : {"sent", "stored"}]

GoalTypes ==
  /\ screen \in GoalScreens /\ server \in [GoalIds -> GoalRows]
  /\ calls \subseteq GoalReads \cup GoalCreates \cup GoalStatuses

\* One write is under way, while the panel says so; one list is read, and it is the one
\* of the scope that is selected.
OneWrite ==
  \A c \in calls : c.kind \in GoalWrites =>
    screen.saving /\ \A d \in calls : d.kind \in GoalWrites => d = c

OneRead ==
  \A c \in calls : c.kind = "goals" =>
    /\ screen.busy /\ screen.path # "none"
    /\ c.path = screen.path /\ c.subject = screen.subject
    /\ \A d \in calls : d.kind = "goals" => d = c

\* A goal that leaves the list is not active any more.
LeavesInactive ==
  \A c \in calls : c.kind = "status" /\ c.stage = "stored" => ~server[c.goal].active

SameKind(g, h) ==
  /\ server[g].path = server[h].path /\ server[g].subject = server[h].subject
  /\ server[g].horizon = server[h].horizon

\* The list has every active goal of its scope, or the answer that adds it is coming;
\* what is being created has no twin, and no two goals are twins.
ListKnows ==
  /\ screen.path # "none" /\ ~screen.busy /\ ~screen.failed =>
       \A g \in ActiveGoals(screen.path, screen.subject) :
         g \in screen.goals \/ \E c \in calls : c.kind = "create" /\ c.goal = g
  /\ \A c \in calls : c.kind = "goals" =>
       /\ \A d \in calls : d.kind # "create"
       /\ c.read => ActiveGoals(c.path, c.subject) \subseteq c.rows
  /\ \A c \in calls : c.kind = "create" /\ c.goal = 0 =>
       \A g \in GoalIds : ~( /\ server[g].active /\ server[g].path = c.path
                             /\ server[g].subject = c.subject /\ server[g].horizon = c.horizon )
  /\ \A g, h \in GoalIds : server[g].active /\ server[h].active /\ SameKind(g, h) => g = h

GoalInv ==
  GoalTypes /\ OneWrite /\ OneRead /\ LeavesInactive /\ (~screen.blind => ListKnows)

LEMMA GoalCallForms ==
  ASSUME GoalTypes, NEW c \in calls
  PROVE  /\ c.kind \in {"goals", "create", "status"}
         /\ c.kind = "goals" => c \in GoalReads
         /\ c.kind = "create" => c \in GoalCreates
         /\ c.kind = "status" => c \in GoalStatuses
BY DEF GoalTypes, GoalReads, GoalCreates, GoalStatuses

\* A step that leaves the goals alone and has no more writes than before keeps what is
\* said of writes.
LEMMA FewerWrites ==
  ASSUME GoalInv, server' = server, screen'.saving = screen.saving,
         \A c \in calls' : c.kind \in GoalWrites => c \in calls
  PROVE  OneWrite' /\ LeavesInactive'
BY DEF GoalInv, OneWrite, LeavesInactive, GoalWrites

\* A list that is read knows every goal, if no goal is being created.
LEMMA ReadingKnows ==
  ASSUME GoalInv, server' = server, screen'.path = "none" \/ screen'.busy,
         ~screen'.blind => ~screen.blind,
         \A c \in calls' : c.kind = "create" => c \in calls,
         \A c \in calls' : c.kind = "goals" =>
            /\ ~screen'.blind => \A d \in calls' : d.kind # "create"
            /\ c.read => ActiveGoals(c.path, c.subject) \subseteq c.rows
  PROVE  ~screen'.blind => ListKnows'
<1> SUFFICES ASSUME ~screen'.blind PROVE ListKnows'
  OBVIOUS
<1>1. ListKnows
  BY DEF GoalInv
<1> QED BY <1>1 DEF ListKnows, ActiveGoals, SameKind

LEMMA LoadGoalsStep ==
  ASSUME GoalInv, NEW p \in GoalScreens, LoadGoals(p), server' = server,
         p.saving = screen.saving, p.blind = screen.blind
  PROVE  GoalInv'
<1>1. GoalTypes
  BY DEF GoalInv
<1>2. CASE p.path = "none"
  <2>1. /\ screen' \in GoalScreens /\ screen'.path = "none" /\ screen'.saving = screen.saving
        /\ screen'.blind = screen.blind
        /\ \A c \in calls' : c \in calls /\ c.kind # "goals"
    BY <1>2 DEF LoadGoals, GoalScreens, GoalCalls
  <2>2. GoalTypes' /\ OneRead'
    BY <1>1, <2>1 DEF GoalTypes, OneRead
  <2>3. OneWrite' /\ LeavesInactive'
    BY <2>1, FewerWrites
  <2>4. ~screen'.blind => ListKnows'
    BY <2>1, ReadingKnows
  <2> QED BY <2>2, <2>3, <2>4 DEF GoalInv
<1>3. CASE p.path # "none"
  <2> DEFINE q == GoalsRequest(p)
  <2>1. /\ q \in GoalReads /\ q.kind = "goals" /\ q.path = p.path /\ q.subject = p.subject
        /\ ~q.read
    BY <1>3 DEF GoalsRequest, GoalReads, GoalScreens
  <2>2. PICK blind \in BOOLEAN : blind = (screen.blind \/ GoalCalls({"create"}) # {})
    OBVIOUS
  <2>3. /\ screen' = [p EXCEPT !.busy = TRUE, !.failed = FALSE, !.blind = blind]
        /\ calls' = (calls \ GoalCalls({"goals"})) \cup {q}
    BY <1>3, <2>2 DEF LoadGoals, GoalScreens
  <2> HIDE DEF q
  <2>4. /\ screen' \in GoalScreens /\ screen'.path = p.path /\ screen'.subject = p.subject
        /\ screen'.saving = screen.saving /\ screen'.blind = blind /\ screen'.busy
    BY <2>3 DEF GoalScreens
  <2>5. \A c \in calls' : c = q \/ (c \in calls /\ c.kind # "goals")
    BY <2>3 DEF GoalCalls
  <2>6. GoalTypes' /\ OneRead'
    BY <1>1, <1>3, <2>1, <2>4, <2>5 DEF GoalTypes, OneRead
  <2>7. OneWrite' /\ LeavesInactive'
    BY <2>1, <2>4, <2>5, FewerWrites DEF GoalWrites
  <2>8. ~blind => \A d \in calls' : d.kind # "create"
    BY <2>1, <2>2, <2>5 DEF GoalCalls
  <2>9. ~screen'.blind => ListKnows'
    BY <2>1, <2>2, <2>4, <2>5, <2>8, ReadingKnows
  <2> QED BY <2>6, <2>7, <2>9 DEF GoalInv
<1> QED BY <1>2, <1>3

LEMMA GoalsReadStep ==
  ASSUME GoalInv, NEW c \in calls, GoalsRead(c)
  PROVE  GoalInv'
<1> DEFINE rows == ActiveGoals(c.path, c.subject)
           answer == [c EXCEPT !.read = TRUE, !.rows = rows]
<1>1. GoalTypes /\ c \in GoalReads /\ c.kind = "goals" /\ screen' = screen /\ server' = server
      /\ calls' = (calls \ {c}) \cup {answer}
  BY GoalCallForms DEF GoalInv, GoalsRead
<1>2. rows \subseteq GoalIds
  BY DEF ActiveGoals
<1>3. /\ answer \in GoalReads /\ answer.kind = "goals" /\ answer.path = c.path
      /\ answer.subject = c.subject /\ answer.rows = rows
  BY <1>1, <1>2 DEF GoalReads
<1> HIDE DEF answer
<1>4. GoalTypes' /\ OneRead'
  BY <1>1, <1>3 DEF GoalTypes, OneRead, GoalInv
<1>5. OneWrite' /\ LeavesInactive'
  BY <1>1, <1>3, FewerWrites DEF GoalWrites
<1>6. screen.busy /\ \A d \in calls' : d.kind = "goals" => d = answer
  BY <1>1, <1>3 DEF GoalInv, OneRead
<1>7. ~screen.blind => \A d \in calls' : d.kind # "create"
  BY <1>1, <1>3 DEF GoalInv, ListKnows
<1>8. ~screen'.blind => ListKnows'
  BY <1>1, <1>3, <1>6, <1>7, ReadingKnows
<1> QED BY <1>4, <1>5, <1>8 DEF GoalInv

LEMMA GoalsAnsweredStep ==
  ASSUME GoalInv, NEW c \in calls, GoalsArrive(c) \/ GoalsFail(c)
  PROVE  GoalInv'
<1>1. /\ GoalTypes /\ c \in GoalReads /\ c.kind = "goals" /\ server' = server
      /\ calls' = calls \ {c} /\ screen \in GoalScreens
  BY GoalCallForms DEF GoalInv, GoalsArrive, GoalsFail, Ended, GoalTypes
<1>2. /\ screen' \in GoalScreens /\ screen'.saving = screen.saving
      /\ screen'.blind = screen.blind /\ screen'.path = screen.path
      /\ screen'.subject = screen.subject
      /\ screen'.failed \/ (screen'.goals = c.rows /\ c.read)
  <2>1. CASE GoalsArrive(c)
    BY <1>1, <2>1 DEF GoalsArrive, GoalScreens, GoalReads
  <2>2. CASE GoalsFail(c)
    BY <1>1, <2>2 DEF GoalsFail, GoalScreens
  <2> QED BY <2>1, <2>2
<1>3. \A d \in calls' : d \in calls /\ d.kind # "goals"
  BY <1>1 DEF GoalInv, OneRead
<1>4. GoalTypes' /\ OneRead'
  BY <1>1, <1>2, <1>3 DEF GoalTypes, OneRead
<1>5. OneWrite' /\ LeavesInactive'
  BY <1>1, <1>2, <1>3, FewerWrites
<1>6. ~screen'.blind => ListKnows'
  <2> SUFFICES ASSUME ~screen'.blind PROVE ListKnows'
    OBVIOUS
  <2>1. ListKnows /\ c.path = screen.path /\ c.subject = screen.subject
    BY <1>1, <1>2 DEF GoalInv, OneRead
  <2> QED BY <1>1, <1>2, <1>3, <2>1 DEF ListKnows, ActiveGoals, SameKind
<1> QED BY <1>4, <1>5, <1>6 DEF GoalInv

LEMMA CreateGoalStep ==
  ASSUME GoalInv, NEW horizon \in Horizons, CreateGoal(horizon)
  PROVE  GoalInv'
<1>1. /\ GoalTypes /\ screen \in GoalScreens /\ screen.path # "none" /\ ~screen.saving
      /\ server' = server /\ \A g \in screen.goals : server[g].horizon # horizon
  BY DEF GoalInv, GoalTypes, CreateGoal, MayCreate
<1>2. \A c \in calls : c.kind \notin GoalWrites
  BY <1>1 DEF GoalInv, OneWrite
<1>3. Cardinality(GoalCalls({"create"})) = 0
  <2>1. GoalCalls({"create"}) = {}
    BY <1>2 DEF GoalCalls, GoalWrites
  <2> QED BY <2>1, FS_EmptySet
<1> DEFINE q == [kind |-> "create", path |-> screen.path, subject |-> screen.subject,
                 horizon |-> horizon, goal |-> 0, n |-> 0]
<1>4. /\ q \in GoalCreates /\ q.kind = "create" /\ q.goal = 0 /\ q.path = screen.path
      /\ q.subject = screen.subject /\ q.horizon = horizon
  BY <1>1 DEF GoalCreates, GoalScreens
<1>5. calls' = calls \cup {q}
  BY <1>3 DEF CreateGoal
<1>6. PICK blind \in BOOLEAN : blind = (screen.blind \/ screen.busy \/ screen.failed)
  OBVIOUS
<1>7. screen' = [screen EXCEPT !.saving = TRUE, !.blind = blind]
  BY <1>1, <1>6 DEF CreateGoal, GoalScreens
<1> HIDE DEF q
<1>8. /\ screen' \in GoalScreens /\ screen'.saving /\ screen'.blind = blind
      /\ screen'.path = screen.path /\ screen'.subject = screen.subject
      /\ screen'.goals = screen.goals /\ screen'.busy = screen.busy
      /\ screen'.failed = screen.failed
  BY <1>1, <1>7 DEF GoalScreens
<1>9. GoalTypes'
  BY <1>1, <1>4, <1>5, <1>8 DEF GoalTypes
<1>10. OneWrite' /\ LeavesInactive'
  BY <1>1, <1>2, <1>4, <1>5, <1>8 DEF GoalInv, OneWrite, LeavesInactive
<1>11. OneRead'
  BY <1>4, <1>5, <1>8 DEF GoalInv, OneRead
<1>12. ~screen'.blind => ListKnows'
  <2> SUFFICES ASSUME ~blind PROVE ListKnows'
    BY <1>8
  <2>1. ListKnows /\ ~screen.busy /\ ~screen.failed
    BY <1>6 DEF GoalInv
  <2>2. \A c \in calls : c.kind # "goals"
    BY <2>1 DEF GoalInv, OneRead
  <2>3. \A g \in ActiveGoals(screen.path, screen.subject) : g \in screen.goals
    BY <1>1, <1>2, <2>1 DEF ListKnows, GoalWrites
  <2>4. \A g \in GoalIds : ~( /\ server[g].active /\ server[g].path = screen.path
                              /\ server[g].subject = screen.subject
                              /\ server[g].horizon = horizon )
    BY <1>1, <2>3 DEF ActiveGoals
  <2>5. \A c \in calls' : c.kind = "create" /\ c.goal = 0 => c = q
    BY <1>2, <1>5 DEF GoalWrites
  <2>6. \A g \in ActiveGoals(screen.path, screen.subject)' : g \in screen'.goals
    BY <1>1, <1>8, <2>3 DEF ActiveGoals
  <2>7. \A c \in calls' : c.kind # "goals"
    BY <1>4, <1>5, <2>2
  <2>8. \A g, h \in GoalIds : server[g].active /\ server[h].active /\ SameKind(g, h) => g = h
    BY <2>1 DEF ListKnows
  <2> QED BY <1>1, <1>4, <2>4, <2>5, <2>6, <2>7, <2>8 DEF ListKnows, SameKind
<1> QED BY <1>9, <1>10, <1>11, <1>12 DEF GoalInv

\* The server takes the goal.
LEMMA GoalCreatedStep ==
  ASSUME GoalInv, NEW c \in calls, GoalCreated(c)
  PROVE  GoalInv'
<1>1. /\ GoalTypes /\ c \in GoalCreates /\ c.kind = "create" /\ c.goal = 0 /\ screen' = screen
      /\ server \in [GoalIds -> GoalRows]
  BY GoalCallForms DEF GoalInv, GoalCreated, GoalTypes
<1>2. PICK new \in GoalIds :
        /\ server[new] = NoGoal
        /\ server' = [server EXCEPT ![new] = [path |-> c.path, subject |-> c.subject,
                                              horizon |-> c.horizon, active |-> TRUE]]
        /\ calls' = (calls \ {c}) \cup {[c EXCEPT !.goal = new]}
  BY DEF GoalCreated
<1> DEFINE answer == [c EXCEPT !.goal = new]
           row == [path |-> c.path, subject |-> c.subject, horizon |-> c.horizon, active |-> TRUE]
<1>3. /\ answer \in GoalCreates /\ answer.kind = "create" /\ answer.goal = new
      /\ answer.path = c.path /\ answer.subject = c.subject /\ answer.horizon = c.horizon
  BY <1>1 DEF GoalCreates
<1>4. row \in GoalRows /\ row.active /\ row.path = c.path /\ row.subject = c.subject
      /\ row.horizon = c.horizon
  BY <1>1 DEF GoalCreates, GoalRows, GoalSubject
<1>5. calls' = (calls \ {c}) \cup {answer} /\ server' = [server EXCEPT ![new] = row]
  BY <1>2
<1> HIDE DEF answer, row
<1>6. /\ server' \in [GoalIds -> GoalRows] /\ server'[new] = row
      /\ \A g \in GoalIds : g # new => server'[g] = server[g]
  BY <1>1, <1>4, <1>5
<1>7. GoalTypes'
  BY <1>1, <1>3, <1>5, <1>6 DEF GoalTypes
<1>8. screen.saving /\ \A d \in calls : d.kind \in GoalWrites => d = c
  BY <1>1 DEF GoalInv, OneWrite, GoalWrites
<1>9. OneWrite' /\ LeavesInactive'
  <2>1. \A d \in calls' : d.kind \in GoalWrites => d = answer
    BY <1>5, <1>8
  <2> QED BY <1>1, <1>3, <1>8, <2>1 DEF OneWrite, LeavesInactive, GoalWrites
<1>10. OneRead'
  BY <1>1, <1>3, <1>5 DEF GoalInv, OneRead
<1>11. ~screen'.blind => ListKnows'
  <2> SUFFICES ASSUME ~screen.blind PROVE ListKnows'
    BY <1>1
  <2>1. ListKnows
    BY DEF GoalInv
  <2>2. \A g \in GoalIds : ~( /\ server[g].active /\ server[g].path = c.path
                              /\ server[g].subject = c.subject /\ server[g].horizon = c.horizon )
    BY <1>1, <2>1 DEF ListKnows
  <2>3. \A g, h \in GoalIds : server'[g].active /\ server'[h].active /\ SameKind(g, h)' => g = h
    <3> SUFFICES ASSUME NEW g \in GoalIds, NEW h \in GoalIds, g # h,
                        server'[g].active, server'[h].active, SameKind(g, h)'
                 PROVE  FALSE
      OBVIOUS
    <3>1. CASE g = new
      BY <1>4, <1>6, <2>2, <3>1 DEF SameKind
    <3>2. CASE h = new
      BY <1>4, <1>6, <2>2, <3>2 DEF SameKind
    <3>3. CASE g # new /\ h # new
      BY <1>6, <2>1, <3>3 DEF SameKind, ListKnows
    <3> QED BY <3>1, <3>2, <3>3
  <2>4. \A d \in calls : d.kind # "goals"
    BY <1>1, <2>1 DEF ListKnows
  <2>5. \A d \in calls' : d.kind # "goals" /\ (d.kind = "create" => d.goal = new)
    BY <1>3, <1>5, <1>8, <2>4 DEF GoalWrites
  <2>6. \A d \in calls : d.kind = "create" => d.goal = 0
    BY <1>1, <1>8 DEF GoalWrites
  <2>7. ASSUME screen.path # "none", ~screen.busy, ~screen.failed,
               NEW g \in ActiveGoals(screen.path, screen.subject)'
        PROVE  g \in screen.goals \/ \E d \in calls' : d.kind = "create" /\ d.goal = g
    <3>1. CASE g = new
      BY <1>3, <1>5, <3>1
    <3>2. CASE g # new
      <4>1. g \in ActiveGoals(screen.path, screen.subject) /\ g # 0
        BY <1>1, <1>6, <2>7, <3>2, MasteryGoalsAssumption DEF ActiveGoals, GoalIds
      <4> QED BY <2>1, <2>6, <2>7, <4>1 DEF ListKnows
    <3> QED BY <3>1, <3>2
  <2>8. new # 0
    BY MasteryGoalsAssumption DEF GoalIds
  <2> QED BY <1>1, <2>3, <2>5, <2>7, <2>8 DEF ListKnows
<1> QED BY <1>7, <1>9, <1>10, <1>11 DEF GoalInv

\* A write is over.
LEMMA GoalWriteEnds ==
  ASSUME GoalInv, NEW c \in calls, c.kind \in GoalWrites,
         GoalAdded(c) \/ GoalLeaves(c) \/ GoalWriteFails(c)
  PROVE  GoalInv'
<1>1. /\ GoalTypes /\ calls' = calls \ {c} /\ server' = server /\ screen \in GoalScreens
      /\ c.kind = "create" => c \in GoalCreates
      /\ c.kind = "status" => c \in GoalStatuses
  BY GoalCallForms DEF GoalInv, GoalTypes, GoalAdded, GoalLeaves, GoalWriteFails, Ended
<1>2. /\ screen' \in GoalScreens /\ screen'.path = screen.path
      /\ screen'.subject = screen.subject /\ screen'.busy = screen.busy
      /\ screen'.failed = screen.failed
      /\ \/ /\ c.kind = "create" /\ c.goal # 0 /\ screen'.blind = screen.blind
            /\ screen'.goals = screen.goals \cup {c.goal}
         \/ /\ c.kind = "status" /\ c.stage = "stored" /\ screen'.blind = screen.blind
            /\ screen'.goals = screen.goals \ {c.goal}
         \/ /\ screen'.goals = screen.goals
            /\ screen'.blind = (screen.blind \/ (c.kind = "create" /\ c.goal # 0))
  <2>1. CASE GoalAdded(c)
    <3>1. screen.goals \cup {c.goal} \in SUBSET GoalIds
      BY <1>1, <2>1 DEF GoalAdded, GoalCreates, GoalScreens
    <3>2. screen' = [screen EXCEPT !.goals = screen.goals \cup {c.goal}, !.saving = FALSE]
      BY <1>1, <2>1 DEF GoalAdded, GoalScreens
    <3> QED BY <1>1, <2>1, <3>1, <3>2 DEF GoalAdded, GoalScreens
  <2>2. CASE GoalLeaves(c)
    <3>1. screen.goals \ {c.goal} \in SUBSET GoalIds
      BY <1>1 DEF GoalScreens
    <3>2. screen' = [screen EXCEPT !.goals = screen.goals \ {c.goal}, !.saving = FALSE]
      BY <1>1, <2>2 DEF GoalLeaves, GoalScreens
    <3> QED BY <1>1, <2>2, <3>1, <3>2 DEF GoalLeaves, GoalScreens
  <2>3. CASE GoalWriteFails(c)
    <3>1. PICK blind \in BOOLEAN : blind = (screen.blind \/ (c.kind = "create" /\ c.goal # 0))
      OBVIOUS
    <3>2. screen' = [screen EXCEPT !.saving = FALSE, !.blind = blind]
      BY <1>1, <2>3, <3>1 DEF GoalWriteFails, GoalScreens
    <3> QED BY <1>1, <3>1, <3>2 DEF GoalScreens
  <2> QED BY <2>1, <2>2, <2>3
<1>3. \A d \in calls' : d \in calls /\ d.kind \notin GoalWrites
  BY <1>1 DEF GoalInv, OneWrite
<1>4. GoalTypes'
  BY <1>1, <1>2 DEF GoalTypes
<1>5. OneWrite' /\ LeavesInactive' /\ OneRead'
  BY <1>2, <1>3 DEF GoalInv, OneWrite, LeavesInactive, OneRead, GoalWrites
<1>6. ~screen'.blind => ListKnows'
  <2> SUFFICES ASSUME ~screen'.blind PROVE ListKnows'
    OBVIOUS
  <2>1. ListKnows
    BY <1>2 DEF GoalInv
  <2>2. \A d \in calls : d.kind = "create" => d = c
    BY DEF GoalInv, OneWrite, GoalWrites
  <2>3. c.kind = "status" /\ c.stage = "stored" => ~server[c.goal].active
    BY DEF GoalInv, LeavesInactive
  <2>4. ASSUME screen.path # "none", ~screen.busy, ~screen.failed,
               NEW g \in ActiveGoals(screen.path, screen.subject)
        PROVE  g \in screen'.goals
    <3>1. g \in GoalIds /\ server[g].active /\ g # 0
      BY MasteryGoalsAssumption DEF ActiveGoals, GoalIds
    <3>2. g \in screen.goals \/ (c.kind = "create" /\ c.goal = g)
      BY <2>1, <2>2, <2>4 DEF ListKnows
    <3> QED BY <1>2, <2>3, <3>1, <3>2
  <2>5. ActiveGoals(screen.path, screen.subject)' = ActiveGoals(screen.path, screen.subject)
    BY <1>1, <1>2 DEF ActiveGoals
  <2> QED BY <1>1, <1>2, <1>3, <2>1, <2>4, <2>5 DEF ListKnows, ActiveGoals, SameKind, GoalWrites
<1> QED BY <1>4, <1>5, <1>6 DEF GoalInv

LEMMA SetGoalStatusStep ==
  ASSUME GoalInv, NEW g \in GoalIds, SetGoalStatus(g)
  PROVE  GoalInv'
<1> DEFINE q == [kind |-> "status", goal |-> g, stage |-> "sent"]
<1>1. /\ GoalTypes /\ calls' = calls \cup {q} /\ server' = server /\ screen \in GoalScreens
      /\ ~screen.saving /\ screen' = [screen EXCEPT !.saving = TRUE]
  BY DEF GoalInv, GoalTypes, SetGoalStatus
<1>2. q \in GoalStatuses /\ q.kind = "status" /\ q.stage = "sent"
  BY DEF GoalStatuses
<1> HIDE DEF q
<1>3. /\ screen' \in GoalScreens /\ screen'.path = screen.path
      /\ screen'.subject = screen.subject /\ screen'.busy = screen.busy
      /\ screen'.failed = screen.failed /\ screen'.goals = screen.goals
      /\ screen'.blind = screen.blind /\ screen'.saving
  BY <1>1 DEF GoalScreens
<1>4. GoalTypes'
  BY <1>1, <1>2, <1>3 DEF GoalTypes
<1>5. OneWrite' /\ LeavesInactive'
  <2>1. \A d \in calls : d.kind \notin GoalWrites
    BY <1>1 DEF GoalInv, OneWrite
  <2> QED BY <1>1, <1>2, <1>3, <2>1 DEF GoalInv, OneWrite, LeavesInactive
<1>6. OneRead'
  BY <1>1, <1>2, <1>3 DEF GoalInv, OneRead
<1>7. ~screen'.blind => ListKnows'
  BY <1>1, <1>2, <1>3 DEF GoalInv, ListKnows, ActiveGoals, SameKind
<1> QED BY <1>4, <1>5, <1>6, <1>7 DEF GoalInv

LEMMA GoalStatusStoredStep ==
  ASSUME GoalInv, NEW c \in calls, GoalStatusStored(c)
  PROVE  GoalInv'
<1> DEFINE answer == [c EXCEPT !.stage = "stored"]
<1>1. /\ GoalTypes /\ c \in GoalStatuses /\ c.kind = "status" /\ c.goal \in GoalIds
      /\ screen' = screen /\ server \in [GoalIds -> GoalRows]
      /\ server' = [server EXCEPT ![c.goal].active = FALSE]
      /\ calls' = (calls \ {c}) \cup {answer} /\ server[c.goal].active
  BY GoalCallForms DEF GoalInv, GoalStatusStored, GoalTypes, GoalStatuses, Advances
<1>2. /\ answer \in GoalStatuses /\ answer.kind = "status" /\ answer.stage = "stored"
      /\ answer.goal = c.goal
  BY <1>1 DEF GoalStatuses
<1> HIDE DEF answer
<1>3. /\ server' \in [GoalIds -> GoalRows] /\ ~server'[c.goal].active
      /\ \A g \in GoalIds : /\ server'[g].path = server[g].path
                            /\ server'[g].subject = server[g].subject
                            /\ server'[g].horizon = server[g].horizon
                            /\ server'[g].active => server[g].active
  <2> DEFINE row == [server[c.goal] EXCEPT !.active = FALSE]
  <2>1. server[c.goal] # NoGoal
    BY <1>1 DEF NoGoal
  <2>2. /\ row \in GoalRows /\ ~row.active /\ row.path = server[c.goal].path
        /\ row.subject = server[c.goal].subject /\ row.horizon = server[c.goal].horizon
    BY <1>1, <2>1 DEF GoalRows
  <2>3. server' = [server EXCEPT ![c.goal] = row]
    BY <1>1
  <2> HIDE DEF row
  <2> QED BY <1>1, <2>2, <2>3
<1>4. GoalTypes'
  BY <1>1, <1>2, <1>3 DEF GoalTypes
<1>5. OneWrite' /\ LeavesInactive'
  <2>1. screen.saving /\ \A d \in calls : d.kind \in GoalWrites => d = c
    BY <1>1 DEF GoalInv, OneWrite, GoalWrites
  <2> QED BY <1>1, <1>2, <1>3, <2>1 DEF OneWrite, LeavesInactive, GoalWrites
<1>6. OneRead'
  BY <1>1, <1>2 DEF GoalInv, OneRead
<1>7. ~screen'.blind => ListKnows'
  <2> SUFFICES ASSUME ~screen.blind PROVE ListKnows'
    BY <1>1
  <2>1. ListKnows
    BY DEF GoalInv
  <2>2. \A d \in calls' : d.kind \in {"goals", "create"} => d \in calls
    BY <1>1, <1>2
  <2>3. \A d \in calls : d.kind = "create" => d \in calls'
    BY <1>1
  <2>4. \A path, subject : \A g \in GoalIds :
          /\ server'[g].active /\ server'[g].path = path
          /\ subject \in {"all", server'[g].subject}
          => g \in ActiveGoals(path, subject)
    BY <1>3 DEF ActiveGoals
  <2>5. /\ screen'.path # "none" /\ ~screen'.busy /\ ~screen'.failed =>
             \A g \in ActiveGoals(screen.path, screen.subject)' :
               g \in screen'.goals \/ \E d \in calls' : d.kind = "create" /\ d.goal = g
        /\ \A d \in calls' : d.kind = "goals" =>
             /\ \A e \in calls' : e.kind # "create"
             /\ d.read => ActiveGoals(d.path, d.subject)' \subseteq d.rows
    BY <1>1, <2>1, <2>2, <2>3, <2>4 DEF ListKnows, ActiveGoals
  <2>6. \A d \in calls' : d.kind = "create" /\ d.goal = 0 =>
          \A g \in GoalIds : ~( /\ server'[g].active /\ server'[g].path = d.path
                                /\ server'[g].subject = d.subject
                                /\ server'[g].horizon = d.horizon )
    BY <1>3, <2>1, <2>2 DEF ListKnows
  <2>7. \A g, h \in GoalIds : server'[g].active /\ server'[h].active /\ SameKind(g, h)' => g = h
    BY <1>3, <2>1 DEF ListKnows, SameKind
  <2> QED BY <2>5, <2>6, <2>7 DEF ListKnows, ActiveGoals
<1> QED BY <1>4, <1>5, <1>6, <1>7 DEF GoalInv

LEMMA GoalsStep == GoalInv /\ [GoalsNext]_tabVars => GoalInv'
<1> SUFFICES ASSUME GoalInv, [GoalsNext]_tabVars PROVE GoalInv'
  OBVIOUS
<1>1. CASE UNCHANGED tabVars
  BY <1>1 DEF tabVars, GoalInv, GoalTypes, OneWrite, OneRead, LeavesInactive, ListKnows,
              ActiveGoals, SameKind
<1>2. screen \in GoalScreens
  BY DEF GoalInv, GoalTypes
<1>3. ASSUME NEW path \in GoalPaths \cup {"none"}, ChooseGoalPath(path) PROVE GoalInv'
  <2> DEFINE p == [screen EXCEPT !.path = path, !.subject = "all"]
  <2>1. p \in GoalScreens /\ p.saving = screen.saving /\ p.blind = screen.blind
    BY <1>2 DEF GoalScreens, GoalSubject
  <2>2. LoadGoals(p) /\ server' = server
    BY <1>3 DEF ChooseGoalPath
  <2> HIDE DEF p
  <2> QED BY <2>1, <2>2, LoadGoalsStep
<1>4. ASSUME NEW subject \in GoalSubjects \cup {"all"}, ChooseGoalSubject(subject) PROVE GoalInv'
  <2> DEFINE p == [screen EXCEPT !.subject = subject]
  <2>1. p \in GoalScreens /\ p.saving = screen.saving /\ p.blind = screen.blind
    BY <1>2 DEF GoalScreens, GoalSubject
  <2>2. LoadGoals(p) /\ server' = server
    BY <1>4 DEF ChooseGoalSubject
  <2> HIDE DEF p
  <2> QED BY <2>1, <2>2, LoadGoalsStep
<1>5. CASE GoalsPanel
  BY <1>5, CreateGoalStep, SetGoalStatusStep DEF GoalsPanel
<1>6. ASSUME NEW c \in calls, GoalsRead(c) \/ GoalsArrive(c) \/ GoalsFail(c) PROVE GoalInv'
  BY <1>6, GoalsReadStep, GoalsAnsweredStep
<1>7. ASSUME NEW c \in calls, GoalCreated(c) \/ GoalStatusStored(c) PROVE GoalInv'
  BY <1>7, GoalCreatedStep, GoalStatusStoredStep
<1>8. ASSUME NEW c \in calls, GoalAdded(c) \/ GoalLeaves(c) \/ GoalWriteFails(c) PROVE GoalInv'
  <2>1. c.kind \in GoalWrites
    BY <1>8 DEF GoalAdded, GoalLeaves, GoalWriteFails, GoalWrites
  <2> QED BY <1>8, <2>1, GoalWriteEnds
<1> QED BY <1>1, <1>3, <1>4, <1>5, <1>6, <1>7, <1>8 DEF GoalsNext

LEMMA GoalsShown == GoalInv => OneGoalPerHorizon
<1> SUFFICES ASSUME GoalInv, ~screen.blind, NEW scope \in GoalScopes, NEW horizon \in Horizons
             PROVE  Cardinality({g \in GoalIds : /\ server[g].active
                                                 /\ server[g].horizon = horizon
                                                 /\ <<server[g].path, server[g].subject>> = scope}) <= 1
  BY DEF OneGoalPerHorizon
<1> DEFINE twins == {g \in GoalIds : /\ server[g].active /\ server[g].horizon = horizon
                                     /\ <<server[g].path, server[g].subject>> = scope}
<1>1. \A g, h \in twins : g = h
  BY DEF GoalInv, ListKnows, SameKind
<1> HIDE DEF twins
<1>2. CASE twins = {}
  BY <1>2, FS_EmptySet DEF twins
<1>3. CASE twins # {}
  <2>1. PICK g \in twins : TRUE
    BY <1>3
  <2>2. twins = {g}
    BY <1>1, <2>1
  <2>3. Cardinality(twins) = 1
    BY <2>2, FS_Singleton
  <2> QED BY <2>3 DEF twins
<1> QED BY <1>2, <1>3

LEMMA GoalsStart == GoalsInit => GoalInv
<1> SUFFICES ASSUME GoalsInit PROVE GoalInv
  OBVIOUS
<1>1. PICK path \in GoalPaths \cup {"none"}, subject \in GoalSubjects \cup {"all"} :
        /\ screen = [page |-> "goals", path |-> path, subject |-> subject, goals |-> {},
                     busy |-> path # "none", failed |-> FALSE, saving |-> FALSE,
                     blind |-> FALSE]
        /\ calls = IF path = "none" THEN {} ELSE {GoalsRequest(screen)}
  BY DEF GoalsInit
<1>2. screen \in GoalScreens
  BY <1>1 DEF GoalScreens, GoalSubject
<1>3. server \in [GoalIds -> GoalRows] /\ \A g \in GoalIds : ~server[g].active
  BY DEF GoalsInit, NoGoal, GoalRows
<1>4. \A c \in calls : /\ c \in GoalReads /\ c.kind = "goals" /\ ~c.read /\ screen.path # "none"
                       /\ c.path = screen.path /\ c.subject = screen.subject
                       /\ \A d \in calls : d = c
  <2> DEFINE q == GoalsRequest(screen)
  <2>1. path # "none" =>
          /\ q \in GoalReads /\ q.kind = "goals" /\ ~q.read
          /\ q.path = screen.path /\ q.subject = screen.subject
    BY <1>1, <1>2 DEF GoalsRequest, GoalReads, GoalScreens
  <2>2. screen.path = path /\ (IF path = "none" THEN calls = {} ELSE calls = {q})
    BY <1>1
  <2> HIDE DEF q
  <2> QED BY <2>1, <2>2
<1>5. GoalTypes /\ OneWrite /\ OneRead /\ LeavesInactive
  BY <1>1, <1>2, <1>3, <1>4 DEF GoalTypes, OneWrite, OneRead, LeavesInactive, GoalWrites
<1>6. ListKnows
  BY <1>3, <1>4 DEF ListKnows, ActiveGoals
<1> QED BY <1>5, <1>6 DEF GoalInv

\* The panel gives a learner at most one active goal of a horizon in a scope
\* (canCreateShort and canCreateLong of ReviewLibraryPage.tsx), for any paths, subjects
\* and number of goals, unless a goal was asked for without the list of its scope.
THEOREM GoalsCorrect == GoalsSpec => []OneGoalPerHorizon
<1>1. GoalsInit => GoalInv
  BY GoalsStart
<1> QED BY <1>1, GoalsShown, GoalsStep, PTL DEF GoalsSpec

(***************************************************************************)
(* StudyPlan: the plan on the screen is of the view, and an archived plan stays *)
(* archived.                                                               *)
(***************************************************************************)
PlanOrNone == PlanRows \cup {NoPlan}
PlanScreens ==
  [page : {"plan"}, path : PlanPaths \cup {"none"}, view : PlanStatuses,
   current : PlanOrNone, draft : PlanDrafts, subject : AllPlanSubjects \cup {"none"},
   options : SUBSET AllPlanSubjects, busy : BOOLEAN, saving : BOOLEAN,
   loadError : BOOLEAN, writes : 0..MaxPlanWrites]
PlanServers == [plans : SUBSET PlanRows, clock : 0..MaxPlanClock]

TaxonomyCalls == [kind : {"taxonomy"}]
ListCalls == [kind : {"list"}, path : PlanPaths \cup {"none"}, view : PlanStatuses,
              read : BOOLEAN, id : 0..MaxPlanClock]
DetailCalls == [kind : {"detail"}, path : PlanPaths \cup {"none"}, view : PlanStatuses,
                id : 0..MaxPlanClock, read : BOOLEAN, row : PlanOrNone]
CourseCalls == [kind : {"courses"}, subject : AllPlanSubjects]
PlanWrites == [kind : {"write"}, what : {"create", "update", "archive", "remove"},
               plan : PlanOrNone, path : PlanPaths, draft : PlanDrafts,
               stage : {"sent", "stored"}, row : PlanOrNone]

PlanTypes ==
  /\ screen \in PlanScreens /\ server \in PlanServers
  /\ calls \subseteq TaxonomyCalls \cup ListCalls \cup DetailCalls \cup CourseCalls \cup PlanWrites

\* A plan is named once; names and stamps come from the clock.
PlansNamed ==
  \A r \in server.plans :
    /\ r.id <= server.clock /\ r.stamp <= server.clock
    /\ \A q \in server.plans : q.id = r.id => q = r

\* What the page has of a plan is true of it as long as the stamp is the plan's.
Known(k) ==
  k # NoPlan =>
    /\ k.stamp <= server.clock
    /\ \A r \in server.plans : r.id = k.id /\ r.stamp = k.stamp => r.status = k.status

PlansKnown ==
  /\ Known(screen.current)
  /\ \A c \in calls : c.kind = "detail" => Known(c.row)
  /\ \A c \in calls : c.kind = "write" => Known(c.plan)

\* A read is of the selection; what is changed was active when the form had it.
ReadsOfView ==
  \A c \in calls : c.kind \in {"list", "detail"} =>
    /\ c.path = screen.path /\ c.view = screen.view
    /\ c.kind = "detail" /\ c.read => c.row # NoPlan

UpdatesOfActive ==
  \A c \in calls : c.kind = "write" /\ c.what = "update" =>
    c.plan # NoPlan /\ c.plan.status = "active"

PlanInv ==
  PlanTypes /\ PlansNamed /\ PlansKnown /\ ReadsOfView /\ UpdatesOfActive /\ PlanOfView

LEMMA PlanCallForms ==
  ASSUME PlanTypes, NEW c \in calls
  PROVE  /\ c.kind = "taxonomy" => c \in TaxonomyCalls
         /\ c.kind = "list" => c \in ListCalls
         /\ c.kind = "detail" => c \in DetailCalls
         /\ c.kind = "courses" => c \in CourseCalls
         /\ c.kind = "write" => c \in PlanWrites
BY DEF PlanTypes, TaxonomyCalls, ListCalls, DetailCalls, CourseCalls, PlanWrites

LEMMA NoPlanIsNone == NoPlan \notin PlanRows
BY StudyPlanAssumption DEF NoPlan, PlanRows

\* A step of the page: it shows the plan it had, of the same selection, or one that it
\* read, of the present one.
LEMMA PageStep ==
  ASSUME PlanInv, PlanTypes', server' = server,
         \/ screen'.current = NoPlan
         \/ /\ screen'.current = screen.current
            /\ screen'.path = screen.path /\ screen'.view = screen.view
         \/ /\ Known(screen'.current)
            /\ screen'.current.path = screen'.path /\ screen'.current.status = screen'.view,
         \A c \in calls' : c.kind \in {"list", "detail"} =>
            /\ c.path = screen'.path /\ c.view = screen'.view
            /\ c.kind = "detail" /\ c.read => c.row # NoPlan,
         \A c \in calls' : c.kind = "detail" => Known(c.row),
         \A c \in calls' : c.kind = "write" =>
            \/ c \in calls
            \/ /\ Known(c.plan)
               /\ c.what = "update" => c.plan # NoPlan /\ c.plan.status = "active"
  PROVE  PlanInv'
<1>1. PlansNamed'
  BY DEF PlanInv, PlansNamed
<1>2. PlansKnown'
  <2>1. Known(screen.current) /\ \A c \in calls : c.kind = "write" => Known(c.plan)
    BY DEF PlanInv, PlansKnown
  <2>2. \A k : Known(k) => (k # NoPlan =>
           /\ k.stamp <= server'.clock
           /\ \A r \in server'.plans : r.id = k.id /\ r.stamp = k.stamp => r.status = k.status)
    BY DEF Known
  <2>3. \A c \in calls' : c.kind = "write" => Known(c.plan)
    BY <2>1
  <2>4. screen'.current = NoPlan \/ Known(screen'.current)
    BY <2>1
  <2> QED BY <2>2, <2>3, <2>4 DEF PlansKnown, Known
<1>3. ReadsOfView' /\ UpdatesOfActive'
  BY DEF PlanInv, ReadsOfView, UpdatesOfActive
<1>4. PlanOfView'
  BY DEF PlanInv, PlanOfView, Mounted, PlanTypes, PlanScreens
<1> QED BY <1>1, <1>2, <1>3, <1>4 DEF PlanInv

\* The selection stays, no plan is read and none is written.
LEMMA FormStep ==
  ASSUME PlanInv, PlanTypes', server' = server,
         screen'.current \in {screen.current, NoPlan},
         screen'.path = screen.path, screen'.view = screen.view,
         \A c \in calls' : c \in calls \/ c.kind = "courses"
  PROVE  PlanInv'
<1>1. \A c \in calls' : c.kind \in {"list", "detail"} =>
         /\ c.path = screen'.path /\ c.view = screen'.view
         /\ c.kind = "detail" /\ c.read => c.row # NoPlan
  BY DEF PlanInv, ReadsOfView
<1>2. \A c \in calls' : c.kind = "detail" => Known(c.row)
  BY DEF PlanInv, PlansKnown
<1> QED BY <1>1, <1>2, PageStep

LEMMA ReadPlansStep ==
  ASSUME PlanInv, NEW p \in PlanScreens, NEW over, ReadPlans(p, over), server' = server
  PROVE  PlanInv'
<1> DEFINE q == [kind |-> "list", path |-> p.path, view |-> p.view, read |-> FALSE, id |-> 0]
<1>1. PlanTypes
  BY DEF PlanInv
<1>2. q \in ListCalls /\ q.kind = "list" /\ q.path = p.path /\ q.view = p.view
  BY StudyPlanAssumption DEF ListCalls, PlanScreens
<1>3. /\ screen' = [p EXCEPT !.busy = TRUE, !.current = NoPlan, !.loadError = FALSE]
      /\ calls' = (calls \ (over \cup PlanReads(calls))) \cup {q}
  BY DEF ReadPlans
<1> HIDE DEF q
<1>4. /\ screen' \in PlanScreens /\ screen'.current = NoPlan
      /\ screen'.path = p.path /\ screen'.view = p.view
  BY <1>3 DEF PlanScreens, PlanOrNone
<1>5. \A c \in calls' : c = q \/ (c \in calls /\ c.kind \notin {"list", "detail"})
  BY <1>3 DEF PlanReads
<1>6. PlanTypes'
  BY <1>1, <1>2, <1>4, <1>5 DEF PlanTypes
<1> QED BY <1>2, <1>4, <1>5, <1>6, PageStep

LEMMA PlanPathsArriveStep ==
  ASSUME PlanInv, NEW c \in calls, PlanPathsArrive(c)
  PROVE  PlanInv'
<1> DEFINE p == [screen EXCEPT !.path = FirstPlanPath, !.draft = EmptyDraft]
<1>1. p \in PlanScreens
  <2>1. screen \in PlanScreens /\ EmptyDraft \in PlanDrafts /\ FirstPlanPath \in PlanPaths
    BY StudyPlanAssumption DEF PlanInv, PlanTypes, EmptyDraft, PlanDrafts
  <2> QED BY <2>1 DEF PlanScreens
<1>2. ReadPlans(p, {c}) /\ server' = server
  BY DEF PlanPathsArrive
<1> HIDE DEF p
<1> QED BY <1>1, <1>2, ReadPlansStep

LEMMA PlansListedStep ==
  ASSUME PlanInv, NEW c \in calls, PlansListed(c)
  PROVE  PlanInv'
<1>1. /\ PlanTypes /\ c.kind = "list" /\ c \in ListCalls /\ screen' = screen /\ server' = server
      /\ server \in PlanServers
  BY PlanCallForms DEF PlanInv, PlansListed, PlanTypes
<1>2. PICK id \in 0..MaxPlanClock :
        calls' = (calls \ {c}) \cup {[c EXCEPT !.read = TRUE, !.id = id]}
  <2> DEFINE rows == {r \in server.plans : r.path = c.path /\ r.status = c.view}
  <2>1. PICK id \in IF rows = {} THEN {0} ELSE {r.id : r \in NewestOf(rows)} :
          calls' = (calls \ {c}) \cup {[c EXCEPT !.read = TRUE, !.id = id]}
    BY DEF PlansListed
  <2>2. rows \subseteq PlanRows /\ NewestOf(rows) \subseteq rows
    BY <1>1 DEF PlanServers, NewestOf
  <2>3. \A r \in PlanRows : r.id \in 0..MaxPlanClock
    BY StudyPlanAssumption DEF PlanRows
  <2>4. id \in 0..MaxPlanClock
    <3> HIDE DEF rows
    <3>1. CASE rows = {}
      BY <2>1, <3>1, StudyPlanAssumption
    <3>2. CASE rows # {}
      BY <2>1, <2>2, <2>3, <3>2
    <3> QED BY <3>1, <3>2
  <2> QED BY <2>1, <2>4
<1> DEFINE q == [c EXCEPT !.read = TRUE, !.id = id]
<1>3. q \in ListCalls /\ q.kind = "list" /\ q.path = c.path /\ q.view = c.view
  BY <1>1 DEF ListCalls
<1> HIDE DEF q
<1>4. calls' = (calls \ {c}) \cup {q}
  BY <1>2 DEF q
<1>5. PlanTypes'
  BY <1>1, <1>3, <1>4 DEF PlanTypes
<1>6. \A d \in calls' : d.kind \in {"list", "detail"} =>
         /\ d.path = screen'.path /\ d.view = screen'.view
         /\ d.kind = "detail" /\ d.read => d.row # NoPlan
  BY <1>1, <1>3, <1>4 DEF PlanInv, ReadsOfView
<1>7. \A d \in calls' : d.kind \in {"detail", "write"} => d \in calls
  BY <1>3, <1>4
<1>8. \A d \in calls' : d.kind = "detail" => Known(d.row)
  BY <1>7 DEF PlanInv, PlansKnown
<1> QED BY <1>1, <1>5, <1>6, <1>7, <1>8, PageStep

LEMMA PlansArriveStep ==
  ASSUME PlanInv, NEW c \in calls, PlansArrive(c)
  PROVE  PlanInv'
<1>1. /\ PlanTypes /\ c.kind = "list" /\ c \in ListCalls /\ server' = server
      /\ screen \in PlanScreens
  BY PlanCallForms DEF PlanInv, PlansArrive, PlanTypes
<1>2. CASE c.id = 0
  <2>1. /\ calls' = calls \ {c}
        /\ screen' = [screen EXCEPT !.current = NoPlan, !.busy = FALSE]
    BY <1>2 DEF PlansArrive, Ended
  <2>2. /\ screen' \in PlanScreens /\ screen'.path = screen.path
        /\ screen'.view = screen.view /\ screen'.current = NoPlan
    BY <1>1, <2>1 DEF PlanScreens, PlanOrNone
  <2>3. PlanTypes'
    BY <1>1, <2>1, <2>2 DEF PlanTypes
  <2> QED BY <1>1, <2>1, <2>2, <2>3, FormStep
<1>3. CASE c.id # 0
  <2> DEFINE q == [kind |-> "detail", path |-> c.path, view |-> c.view, id |-> c.id,
                   read |-> FALSE, row |-> NoPlan]
  <2>1. screen' = screen /\ calls' = (calls \ {c}) \cup {q}
    BY <1>3 DEF PlansArrive
  <2>2. /\ q \in DetailCalls /\ q.kind = "detail" /\ q.path = c.path /\ q.view = c.view
        /\ ~q.read /\ q.row = NoPlan
    BY <1>1 DEF ListCalls, DetailCalls, PlanOrNone
  <2> HIDE DEF q
  <2>3. PlanTypes'
    BY <1>1, <2>1, <2>2 DEF PlanTypes
  <2>4. \A d \in calls' : d.kind \in {"list", "detail"} =>
           /\ d.path = screen'.path /\ d.view = screen'.view
           /\ d.kind = "detail" /\ d.read => d.row # NoPlan
    BY <1>1, <2>1, <2>2 DEF PlanInv, ReadsOfView
  <2>5. \A d \in calls' : d.kind = "detail" => Known(d.row)
    BY <2>1, <2>2 DEF PlanInv, PlansKnown, Known
  <2>6. \A d \in calls' : d.kind = "write" => d \in calls
    BY <2>1, <2>2
  <2> QED BY <1>1, <2>1, <2>3, <2>4, <2>5, <2>6, PageStep
<1> QED BY <1>2, <1>3

\* The row of a plan, as it is now, is true of the plan.
LEMMA PlanReadStep ==
  ASSUME PlanInv, NEW c \in calls, PlanRead(c)
  PROVE  PlanInv'
<1>1. /\ PlanTypes /\ c.kind = "detail" /\ c \in DetailCalls /\ server' = server
      /\ screen' = screen /\ server \in PlanServers
  BY PlanCallForms DEF PlanInv, PlanRead, PlanTypes
<1>2. PICK r \in server.plans :
        calls' = (calls \ {c}) \cup {[c EXCEPT !.read = TRUE, !.row = r]}
  BY DEF PlanRead
<1> DEFINE q == [c EXCEPT !.read = TRUE, !.row = r]
<1>3. r \in PlanRows /\ r \in PlanOrNone /\ r # NoPlan
  BY <1>1, <1>2, NoPlanIsNone DEF PlanServers, PlanOrNone
<1>4. /\ q \in DetailCalls /\ q.kind = "detail" /\ q.path = c.path /\ q.view = c.view
      /\ q.row = r
  BY <1>1, <1>3 DEF DetailCalls
<1> HIDE DEF q
<1>5. calls' = (calls \ {c}) \cup {q}
  BY <1>2 DEF q
<1>6. PlanTypes'
  BY <1>1, <1>4, <1>5 DEF PlanTypes
<1>7. Known(r)
  BY <1>2 DEF PlanInv, PlansNamed, Known
<1>8. \A d \in calls' : d.kind = "detail" => Known(d.row)
  BY <1>4, <1>5, <1>7 DEF PlanInv, PlansKnown
<1>9. \A d \in calls' : d.kind \in {"list", "detail"} =>
         /\ d.path = screen'.path /\ d.view = screen'.view
         /\ d.kind = "detail" /\ d.read => d.row # NoPlan
  BY <1>1, <1>3, <1>4, <1>5 DEF PlanInv, ReadsOfView
<1>10. \A d \in calls' : d.kind = "write" => d \in calls
  BY <1>4, <1>5
<1> QED BY <1>1, <1>6, <1>8, <1>9, <1>10, PageStep

LEMMA PlanAnsweredStep ==
  ASSUME PlanInv, NEW c \in calls, PlanArrives(c) \/ PlanReadFails(c)
  PROVE  PlanInv'
<1>1. /\ PlanTypes /\ server' = server /\ screen \in PlanScreens /\ calls' = calls \ {c}
  BY DEF PlanInv, PlanArrives, PlanReadFails, PlanTypes, Ended
<1>2. CASE PlanArrives(c) /\ OfView(c)
  <2>1. /\ c \in DetailCalls /\ c.row # NoPlan /\ c.path = screen.path /\ c.view = screen.view
        /\ Known(c.row)
    BY <1>1, <1>2, PlanCallForms DEF PlanArrives, PlanInv, ReadsOfView, PlansKnown
  <2>2. c.row \in PlanRows /\ c.row \in PlanOrNone /\ c.row.draft \in PlanDrafts
    BY <2>1 DEF DetailCalls, PlanOrNone, PlanRows
  <2>3. screen' = [screen EXCEPT !.current = c.row, !.draft = c.row.draft, !.busy = FALSE]
    BY <1>2 DEF PlanArrives
  <2>4. /\ screen' \in PlanScreens /\ screen'.path = screen.path
        /\ screen'.view = screen.view /\ screen'.current = c.row
    BY <1>1, <2>2, <2>3 DEF PlanScreens
  <2>5. c.row.path = screen.path /\ c.row.status = screen.view
    BY <1>2, <2>1 DEF OfView
  <2>6. PlanTypes'
    BY <1>1, <2>4 DEF PlanTypes
  <2>7. \A d \in calls' : d.kind \in {"list", "detail"} =>
           /\ d.path = screen'.path /\ d.view = screen'.view
           /\ d.kind = "detail" /\ d.read => d.row # NoPlan
    BY <1>1, <2>4 DEF PlanInv, ReadsOfView
  <2>8. \A d \in calls' : d.kind = "detail" => Known(d.row)
    BY <1>1 DEF PlanInv, PlansKnown
  <2> QED BY <1>1, <2>1, <2>4, <2>5, <2>6, <2>7, <2>8, PageStep
<1>3. CASE PlanReadFails(c) \/ ~OfView(c)
  <2>1. screen' = [screen EXCEPT !.current = NoPlan, !.loadError = TRUE, !.busy = FALSE]
    BY <1>3 DEF PlanArrives, PlanReadFails
  <2>2. /\ screen' \in PlanScreens /\ screen'.path = screen.path
        /\ screen'.view = screen.view /\ screen'.current = NoPlan
    BY <1>1, <2>1 DEF PlanScreens, PlanOrNone
  <2>3. PlanTypes'
    BY <1>1, <2>2 DEF PlanTypes
  <2> QED BY <1>1, <2>2, <2>3, FormStep
<1> QED BY <1>2, <1>3

LEMMA SelectorsStep ==
  ASSUME PlanInv,
         \/ \E path \in PlanPaths : ChangePath(path)
         \/ \E view \in PlanStatuses : ChangeStatus(view)
         \/ RetryPlans
  PROVE  PlanInv'
<1>1. PlanTypes /\ screen \in PlanScreens
  BY DEF PlanInv, PlanTypes
<1>2. EmptyDraft \in PlanDrafts /\ NoPlan \in PlanOrNone
  BY DEF EmptyDraft, PlanDrafts, PlanOrNone
<1>3. ASSUME NEW path \in PlanPaths, ChangePath(path) PROVE PlanInv'
  <2> DEFINE moved == [screen EXCEPT !.path = path, !.current = NoPlan, !.subject = "none",
                                     !.options = {}, !.draft = EmptyDraft, !.loadError = FALSE]
  <2>1. /\ moved \in PlanScreens /\ moved.path = path /\ moved.view = screen.view
        /\ moved.current = NoPlan
    BY <1>1, <1>2 DEF PlanScreens
  <2>2. /\ server' = server
        /\ IF path = screen.path THEN screen' = moved /\ calls' = calls \ CourseReads(calls)
           ELSE ReadPlans(moved, CourseReads(calls))
    BY <1>3 DEF ChangePath
  <2> HIDE DEF moved
  <2>3. CASE path = screen.path
    <3>1. PlanTypes'
      BY <1>1, <2>1, <2>2, <2>3 DEF PlanTypes
    <3> QED BY <2>1, <2>2, <2>3, <3>1, FormStep
  <2>4. CASE path # screen.path
    BY <2>1, <2>2, <2>4, ReadPlansStep
  <2> QED BY <2>3, <2>4
<1>4. ASSUME NEW view \in PlanStatuses, ChangeStatus(view) PROVE PlanInv'
  <2> DEFINE moved == [screen EXCEPT !.view = view, !.current = NoPlan, !.draft = EmptyDraft,
                                     !.loadError = FALSE]
  <2>1. /\ moved \in PlanScreens /\ moved.path = screen.path /\ moved.view = view
        /\ moved.current = NoPlan
    BY <1>1, <1>2 DEF PlanScreens
  <2>2. /\ server' = server
        /\ IF view = screen.view THEN screen' = moved /\ calls' = calls
           ELSE ReadPlans(moved, {})
    BY <1>4 DEF ChangeStatus
  <2> HIDE DEF moved
  <2>3. CASE view = screen.view
    <3>1. PlanTypes'
      BY <1>1, <2>1, <2>2, <2>3 DEF PlanTypes
    <3> QED BY <2>1, <2>2, <2>3, <3>1, FormStep
  <2>4. CASE view # screen.view
    BY <2>1, <2>2, <2>4, ReadPlansStep
  <2> QED BY <2>3, <2>4
<1>5. CASE RetryPlans
  BY <1>1, <1>5, ReadPlansStep DEF RetryPlans
<1> QED BY <1>3, <1>4, <1>5

LEMMA FlippedIsOf ==
  ASSUME NEW all, NEW set \in SUBSET all, NEW x \in all
  PROVE  Flipped(set, x) \in SUBSET all
BY DEF Flipped

LEMMA FormFieldsStep ==
  ASSUME PlanInv, PlanFormFields \/ ResetDraft \/ \E c \in calls : CourseOptionsArrive(c)
  PROVE  PlanInv'
<1>1. /\ PlanTypes /\ screen \in PlanScreens /\ screen.draft \in PlanDrafts
      /\ screen.options \subseteq AllPlanSubjects
  BY DEF PlanInv, PlanTypes, PlanScreens
<1> SUFFICES /\ PlanTypes' /\ server' = server /\ screen'.current \in {screen.current, NoPlan}
             /\ screen'.path = screen.path /\ screen'.view = screen.view
             /\ \A c \in calls' : c \in calls \/ c.kind = "courses"
  BY FormStep
<1>2. ASSUME NEW s \in AllPlanSubjects, ToggleSubject(s)
      PROVE  /\ PlanTypes' /\ server' = server /\ screen'.current \in {screen.current, NoPlan}
             /\ screen'.path = screen.path /\ screen'.view = screen.view
             /\ \A c \in calls' : c \in calls \/ c.kind = "courses"
  <2> DEFINE draft == [subjects |-> Flipped(screen.draft.subjects, s), courses |-> {}]
  <2>1. draft \in PlanDrafts
    BY <1>1, FlippedIsOf DEF PlanDrafts
  <2>2. /\ screen' = [screen EXCEPT !.subject = "none", !.options = {}, !.draft = draft]
        /\ calls' = calls \ CourseReads(calls) /\ server' = server
    BY <1>1, <1>2 DEF ToggleSubject, PlanScreens
  <2> HIDE DEF draft
  <2>3. /\ screen' \in PlanScreens /\ screen'.current = screen.current
        /\ screen'.path = screen.path /\ screen'.view = screen.view
    BY <1>1, <2>1, <2>2 DEF PlanScreens
  <2> QED BY <1>1, <2>2, <2>3 DEF PlanTypes
<1>3. ASSUME NEW s \in AllPlanSubjects, ChooseCourseSubject(s)
      PROVE  /\ PlanTypes' /\ server' = server /\ screen'.current \in {screen.current, NoPlan}
             /\ screen'.path = screen.path /\ screen'.view = screen.view
             /\ \A c \in calls' : c \in calls \/ c.kind = "courses"
  <2> DEFINE q == [kind |-> "courses", subject |-> s]
  <2>1. /\ screen' = [screen EXCEPT !.subject = s] /\ server' = server
        /\ calls' = (calls \ CourseReads(calls)) \cup {q}
    BY <1>3 DEF ChooseCourseSubject
  <2>2. q \in CourseCalls /\ q.kind = "courses"
    BY DEF CourseCalls
  <2> HIDE DEF q
  <2>3. /\ screen' \in PlanScreens /\ screen'.current = screen.current
        /\ screen'.path = screen.path /\ screen'.view = screen.view
    BY <1>1, <2>1 DEF PlanScreens
  <2> QED BY <1>1, <2>1, <2>2, <2>3 DEF PlanTypes
<1>4. ASSUME NEW s \in AllPlanSubjects, ToggleCourse(s)
      PROVE  /\ PlanTypes' /\ server' = server /\ screen'.current \in {screen.current, NoPlan}
             /\ screen'.path = screen.path /\ screen'.view = screen.view
             /\ \A c \in calls' : c \in calls \/ c.kind = "courses"
  <2> DEFINE draft == [screen.draft EXCEPT !.courses = Flipped(screen.draft.courses, s)]
  <2>1. draft \in PlanDrafts
    BY <1>1, FlippedIsOf DEF PlanDrafts
  <2>2. screen' = [screen EXCEPT !.draft = draft] /\ calls' = calls /\ server' = server
    BY <1>1, <1>4 DEF ToggleCourse, PlanScreens, PlanDrafts
  <2> HIDE DEF draft
  <2>3. /\ screen' \in PlanScreens /\ screen'.current = screen.current
        /\ screen'.path = screen.path /\ screen'.view = screen.view
    BY <1>1, <2>1, <2>2 DEF PlanScreens
  <2> QED BY <1>1, <2>2, <2>3 DEF PlanTypes
<1>5. ASSUME ResetDraft
      PROVE  /\ PlanTypes' /\ server' = server /\ screen'.current \in {screen.current, NoPlan}
             /\ screen'.path = screen.path /\ screen'.view = screen.view
             /\ \A c \in calls' : c \in calls \/ c.kind = "courses"
  <2>1. PICK draft \in PlanDrafts :
          screen' = [screen EXCEPT !.draft = draft] /\ calls' = calls /\ server' = server
    <3>1. screen.current # NoPlan => screen.current.draft \in PlanDrafts
      BY <1>1 DEF PlanScreens, PlanOrNone, PlanRows
    <3>2. EmptyDraft \in PlanDrafts
      BY DEF EmptyDraft, PlanDrafts
    <3> QED BY <1>5, <3>1, <3>2 DEF ResetDraft
  <2>2. /\ screen' \in PlanScreens /\ screen'.current = screen.current
        /\ screen'.path = screen.path /\ screen'.view = screen.view
    BY <1>1, <2>1 DEF PlanScreens
  <2> QED BY <1>1, <2>1, <2>2 DEF PlanTypes
<1>6. ASSUME NEW c \in calls, CourseOptionsArrive(c)
      PROVE  /\ PlanTypes' /\ server' = server /\ screen'.current \in {screen.current, NoPlan}
             /\ screen'.path = screen.path /\ screen'.view = screen.view
             /\ \A d \in calls' : d \in calls \/ d.kind = "courses"
  <2>1. c \in CourseCalls
    BY <1>1, <1>6, PlanCallForms DEF CourseOptionsArrive
  <2>2. PICK options \in SUBSET AllPlanSubjects :
          screen' = [screen EXCEPT !.options = options] /\ calls' = calls \ {c} /\ server' = server
    <3>1. c.subject \in AllPlanSubjects
      BY <2>1 DEF CourseCalls
    <3>2. PICK options \in {{c.subject}, {}} : screen' = [screen EXCEPT !.options = options]
      BY <1>6 DEF CourseOptionsArrive
    <3>3. options \in SUBSET AllPlanSubjects
      BY <3>1, <3>2
    <3> QED BY <1>6, <3>2, <3>3 DEF CourseOptionsArrive, Ended
  <2>3. /\ screen' \in PlanScreens /\ screen'.current = screen.current
        /\ screen'.path = screen.path /\ screen'.view = screen.view
    BY <1>1, <2>2 DEF PlanScreens
  <2> QED BY <1>1, <2>2, <2>3 DEF PlanTypes
<1> QED BY <1>2, <1>3, <1>4, <1>5, <1>6 DEF PlanFormFields

LEMMA WritePlanStep ==
  ASSUME PlanInv, SavePlan \/ ArchivePlan \/ RemovePlan
  PROVE  PlanInv'
<1>1. /\ PlanTypes /\ screen \in PlanScreens /\ screen.draft \in PlanDrafts
      /\ screen.current \in PlanOrNone
  BY DEF PlanInv, PlanTypes, PlanScreens
<1>2. PICK what \in {"create", "update", "archive", "remove"} :
        /\ WritePlan(what, screen.draft)
        /\ what = "update" => screen.current # NoPlan
  BY DEF SavePlan, ArchivePlan, RemovePlan
<1> DEFINE q == [kind |-> "write", what |-> what, plan |-> screen.current, path |-> screen.path,
                 draft |-> screen.draft, stage |-> "sent", row |-> NoPlan]
<1>3. /\ screen' = [screen EXCEPT !.saving = TRUE, !.writes = screen.writes + 1]
      /\ calls' = calls \cup {q} /\ server' = server
      /\ screen.path # "none" /\ screen.view = "active" /\ screen.writes < MaxPlanWrites
  BY <1>1, <1>2 DEF WritePlan, FormOfPlan, PlanIdle, PlanScreens
<1>4. q \in PlanWrites /\ q.kind = "write" /\ q.plan = screen.current /\ q.what = what
  BY <1>1, <1>3 DEF PlanWrites, PlanScreens, PlanOrNone
<1> HIDE DEF q
<1>5. /\ screen' \in PlanScreens /\ screen'.current = screen.current
      /\ screen'.path = screen.path /\ screen'.view = screen.view
  <2>1. screen.writes + 1 \in 0..MaxPlanWrites
    BY <1>1, <1>3, StudyPlanAssumption DEF PlanScreens
  <2> QED BY <1>1, <1>3, <2>1 DEF PlanScreens
<1>6. PlanTypes'
  BY <1>1, <1>3, <1>4, <1>5 DEF PlanTypes
<1>7. Known(q.plan) /\ (q.what = "update" => q.plan # NoPlan /\ q.plan.status = "active")
  BY <1>1, <1>2, <1>3, <1>4 DEF PlanInv, PlansKnown, PlanOfView, Mounted, PlanScreens
<1>8. \A d \in calls' : d.kind \in {"list", "detail"} =>
         /\ d.path = screen'.path /\ d.view = screen'.view
         /\ d.kind = "detail" /\ d.read => d.row # NoPlan
  BY <1>3, <1>4, <1>5 DEF PlanInv, ReadsOfView
<1>9. \A d \in calls' : d.kind = "detail" => Known(d.row)
  BY <1>3, <1>4 DEF PlanInv, PlansKnown
<1> QED BY <1>3, <1>5, <1>6, <1>7, <1>8, <1>9, PageStep

LEMMA WriteAnsweredStep ==
  ASSUME PlanInv, NEW c \in calls, PlanSaved(c) \/ PlanGone(c) \/ PlanWriteFails(c)
  PROVE  PlanInv'
<1>1. PlanTypes /\ screen \in PlanScreens /\ server' = server
  BY DEF PlanInv, PlanTypes, PlanSaved, PlanGone, PlanWriteFails
<1>2. CASE PlanSaved(c)
  <2>1. [screen EXCEPT !.saving = FALSE] \in PlanScreens
    BY <1>1 DEF PlanScreens
  <2> QED BY <1>1, <1>2, <2>1, ReadPlansStep DEF PlanSaved
<1>3. CASE PlanGone(c)
  <2>1. EmptyDraft \in PlanDrafts
    BY DEF EmptyDraft, PlanDrafts
  <2>2. [screen EXCEPT !.saving = FALSE, !.draft = EmptyDraft] \in PlanScreens
    BY <1>1, <2>1 DEF PlanScreens
  <2> QED BY <1>1, <1>3, <2>2, ReadPlansStep DEF PlanGone
<1>4. CASE PlanWriteFails(c)
  <2>1. screen' = [screen EXCEPT !.saving = FALSE] /\ calls' = calls \ {c}
    BY <1>4 DEF PlanWriteFails, Ended
  <2>2. /\ screen' \in PlanScreens /\ screen'.current = screen.current
        /\ screen'.path = screen.path /\ screen'.view = screen.view
    BY <1>1, <2>1 DEF PlanScreens
  <2>3. PlanTypes'
    BY <1>1, <2>1, <2>2 DEF PlanTypes
  <2> QED BY <1>1, <2>1, <2>2, <2>3, FormStep
<1> QED BY <1>2, <1>3, <1>4

\* A step of the server: what is new in a plan has a stamp of its own.
LEMMA ServerStep ==
  ASSUME PlanInv, PlanTypes', PlansNamed', screen' = screen,
         server'.clock >= server.clock,
         \A r \in server'.plans : r \in server.plans \/ r.stamp = server.clock + 1,
         \A d \in calls' : \/ d \in calls
                           \/ /\ d.kind = "write"
                              /\ \E c \in calls : /\ c.kind = "write" /\ d.plan = c.plan
                                                  /\ d.what = c.what
  PROVE  PlanInv'
<1>1. screen \in PlanScreens /\ server \in PlanServers /\ server' \in PlanServers
  BY DEF PlanInv, PlanTypes
<1>2. server.clock \in Int /\ server'.clock \in Int
  BY <1>1 DEF PlanServers
<1>3. ASSUME NEW k \in PlanOrNone, Known(k), k # NoPlan
      PROVE  /\ k.stamp <= server'.clock
             /\ \A r \in server'.plans : r.id = k.id /\ r.stamp = k.stamp => r.status = k.status
  <2>1. k.stamp \in Int /\ k.stamp <= server.clock
    BY <1>3 DEF Known, PlanOrNone, PlanRows
  <2>2. k.stamp <= server'.clock /\ k.stamp # server.clock + 1
    BY <1>2, <2>1
  <2> QED BY <1>3, <2>2 DEF Known
<1>4. PlansKnown'
  <2>1. Known(screen.current) /\ screen.current \in PlanOrNone
    BY <1>1 DEF PlanInv, PlansKnown, PlanScreens
  <2>2. \A d \in calls' : d.kind = "detail" => Known(d.row) /\ d.row \in PlanOrNone
    BY PlanCallForms DEF PlanInv, PlansKnown, DetailCalls
  <2>3. \A d \in calls : d.kind = "write" => Known(d.plan) /\ d.plan \in PlanOrNone
    BY PlanCallForms DEF PlanInv, PlansKnown, PlanWrites
  <2>4. \A d \in calls' : d.kind = "write" => Known(d.plan) /\ d.plan \in PlanOrNone
    BY <2>3
  <2> QED BY <1>3, <2>1, <2>2, <2>4 DEF PlansKnown, Known
<1>5. ReadsOfView'
  BY DEF PlanInv, ReadsOfView
<1>6. UpdatesOfActive'
  BY DEF PlanInv, UpdatesOfActive
<1>7. PlanOfView'
  BY DEF PlanInv, PlanOfView, Mounted
<1> QED BY <1>4, <1>5, <1>6, <1>7 DEF PlanInv

LEMMA PlanDeletedStep ==
  ASSUME PlanInv, NEW c \in calls, PlanDeleted(c)
  PROVE  PlanInv'
<1> DEFINE q == [c EXCEPT !.stage = "stored"]
<1>1. /\ PlanTypes /\ c.kind = "write" /\ c \in PlanWrites /\ screen' = screen
      /\ server \in PlanServers /\ calls' = (calls \ {c}) \cup {q}
      /\ server' = [server EXCEPT !.plans = {r \in server.plans : r.id # c.plan.id}]
  BY PlanCallForms DEF PlanInv, PlanDeleted, PlanTypes, Advances, PlanServers
<1>2. q \in PlanWrites /\ q.kind = "write" /\ q.plan = c.plan /\ q.what = c.what
  BY <1>1 DEF PlanWrites
<1> HIDE DEF q
<1>3. /\ server' \in PlanServers /\ server'.plans \subseteq server.plans
      /\ server'.clock = server.clock
  BY <1>1 DEF PlanServers
<1>4. PlanTypes'
  BY <1>1, <1>2, <1>3 DEF PlanTypes
<1>5. PlansNamed'
  BY <1>3 DEF PlanInv, PlansNamed
<1>6. server'.clock >= server.clock
  BY <1>1, <1>3 DEF PlanServers
<1> QED BY <1>1, <1>2, <1>3, <1>4, <1>5, <1>6, ServerStep

\* Two plans of the server with one name are one plan, also after a write.
LEMMA PlanStoredStep ==
  ASSUME PlanInv, NEW c \in calls, PlanStored(c)
  PROVE  PlanInv'
<1> DEFINE row == WrittenRow(c)
           q == [c EXCEPT !.stage = "stored", !.row = row]
           now == server.clock + 1
<1>1. /\ PlanTypes /\ c.kind = "write" /\ c \in PlanWrites /\ screen' = screen
      /\ server \in PlanServers /\ calls' = (calls \ {c}) \cup {q}
      /\ server' = [plans |-> {r \in server.plans : r.id # row.id} \cup {row}, clock |-> now]
      /\ c.what # "create" => \E r \in server.plans : r.id = c.plan.id
  BY PlanCallForms DEF PlanInv, PlanStored, PlanTypes, Unchanged
<1>2. server.clock \in 0..MaxPlanClock /\ server.clock < MaxPlanClock /\ now \in 1..MaxPlanClock
  BY <1>1, StudyPlanAssumption DEF PlanStored, PlanServers
<1>3. row.id \in 1..MaxPlanClock /\ row.id <= now
  <2>1. CASE c.what = "create"
    BY <1>2, <2>1 DEF WrittenRow
  <2>2. CASE c.what # "create"
    <3>1. PICK r \in server.plans : r.id = c.plan.id
      BY <1>1, <2>2
    <3>2. r.id \in 1..MaxPlanClock /\ r.id <= server.clock
      BY <1>1, <3>1 DEF PlanServers, PlanRows, PlanInv, PlansNamed
    <3>3. row.id = r.id
      BY <2>2, <3>1 DEF WrittenRow
    <3> QED BY <1>2, <3>2, <3>3
  <2> QED BY <2>1, <2>2
<1>4. row \in PlanRows /\ row.stamp = now
  <2>1. c.path \in PlanPaths /\ c.draft \in PlanDrafts
    BY <1>1 DEF PlanWrites
  <2>2. WrittenRow(c).stamp = now
    BY DEF WrittenRow
  <2>3. row.status \in PlanStatuses
    BY DEF WrittenRow, PlanStatuses
  <2>4. row = [id |-> row.id, stamp |-> now, path |-> c.path, draft |-> c.draft,
               status |-> row.status]
    BY DEF WrittenRow
  <2> HIDE DEF row
  <2> QED BY <1>2, <1>3, <2>1, <2>2, <2>3, <2>4 DEF PlanRows, row
<1>5. q \in PlanWrites /\ q.kind = "write" /\ q.plan = c.plan /\ q.what = c.what
  <2> HIDE DEF row
  <2> QED BY <1>1, <1>4 DEF PlanWrites, PlanOrNone
<1> HIDE DEF q, row, now
<1>6. /\ server' \in PlanServers /\ server'.clock = now
      /\ server'.plans = {r \in server.plans : r.id # row.id} \cup {row}
  <2>1. now \in 0..MaxPlanClock
    BY <1>2
  <2> QED BY <1>1, <1>4, <2>1 DEF PlanServers
<1>7. PlanTypes'
  BY <1>1, <1>5, <1>6 DEF PlanTypes
<1>8. PlansNamed'
  <2>1. ASSUME NEW r \in server'.plans
        PROVE  /\ r.id <= now /\ r.stamp <= now
               /\ \A p \in server'.plans : p.id = r.id => p = r
    <3>1. CASE r = row
      BY <1>2, <1>3, <1>4, <1>6, <3>1
    <3>2. CASE r # row
      <4>1. r \in server.plans /\ r.id # row.id
        BY <1>6, <2>1, <3>2
      <4>2. r.id \in Int /\ r.stamp \in Int /\ r.id <= server.clock /\ r.stamp <= server.clock
        BY <1>1, <4>1 DEF PlanInv, PlansNamed, PlanServers, PlanRows
      <4>3. r.id <= now /\ r.stamp <= now
        BY <1>2, <4>2 DEF now
      <4> QED BY <1>6, <4>1, <4>3 DEF PlanInv, PlansNamed
    <3> QED BY <3>1, <3>2
  <2> QED BY <1>6, <2>1 DEF PlansNamed
<1>9. server'.clock >= server.clock
  BY <1>2, <1>6 DEF now
<1>10. \A r \in server'.plans : r \in server.plans \/ r.stamp = server.clock + 1
  BY <1>4, <1>6 DEF now
<1> QED BY <1>1, <1>5, <1>7, <1>8, <1>9, <1>10, ServerStep

LEMMA AnotherTabStep ==
  ASSUME PlanInv, AnotherTabArchives
  PROVE  PlanInv'
<1> DEFINE now == server.clock + 1
<1>1. PICK r \in server.plans :
        server' = [plans |-> (server.plans \ {r}) \cup
                      {[r EXCEPT !.status = "archived", !.stamp = now]}, clock |-> now]
  BY DEF AnotherTabArchives
<1> DEFINE row == [r EXCEPT !.status = "archived", !.stamp = now]
<1>2. /\ PlanTypes /\ screen' = screen /\ calls' = calls /\ server \in PlanServers
      /\ r \in PlanRows /\ r.id \in 1..MaxPlanClock /\ r.id <= server.clock
  BY <1>1 DEF PlanInv, PlanTypes, AnotherTabArchives, PlanServers, PlansNamed, PlanRows
<1>3. server.clock \in 0..MaxPlanClock /\ server.clock < MaxPlanClock /\ now \in 1..MaxPlanClock
  BY <1>2, StudyPlanAssumption DEF AnotherTabArchives, PlanServers
<1>4. row \in PlanRows /\ row.id = r.id /\ row.stamp = now
  BY <1>2, <1>3 DEF PlanRows, PlanStatuses
<1> HIDE DEF row, now
<1>5. server'.plans = (server.plans \ {r}) \cup {row} /\ server'.clock = now
      /\ server' = [plans |-> (server.plans \ {r}) \cup {row}, clock |-> now]
  BY <1>1 DEF row
<1>6. server' \in PlanServers
  <2>1. now \in 0..MaxPlanClock
    BY <1>3
  <2> QED BY <1>2, <1>4, <1>5, <2>1 DEF PlanServers
<1>7. PlanTypes'
  BY <1>2, <1>6 DEF PlanTypes
<1>8. PlansNamed'
  <2>1. ASSUME NEW p \in server'.plans
        PROVE  /\ p.id <= now /\ p.stamp <= now
               /\ \A o \in server'.plans : o.id = p.id => o = p
    <3>1. CASE p = row
      <4>1. p.id <= now /\ p.stamp <= now
        BY <1>2, <1>3, <1>4, <3>1 DEF now
      <4> QED BY <1>1, <1>4, <1>5, <3>1, <4>1 DEF PlanInv, PlansNamed
    <3>2. CASE p # row
      <4>1. p \in server.plans /\ p # r
        BY <1>5, <2>1, <3>2
      <4>2. p.id # row.id
        BY <1>1, <1>4, <4>1 DEF PlanInv, PlansNamed
      <4>3. p.id \in Int /\ p.stamp \in Int /\ p.id <= server.clock /\ p.stamp <= server.clock
        BY <1>2, <4>1 DEF PlanInv, PlansNamed, PlanServers, PlanRows
      <4>4. p.id <= now /\ p.stamp <= now
        BY <1>3, <4>3 DEF now
      <4> QED BY <1>5, <4>1, <4>2, <4>4 DEF PlanInv, PlansNamed
    <3> QED BY <3>1, <3>2
  <2> QED BY <1>5, <2>1 DEF PlansNamed
<1>9. server'.clock >= server.clock
  BY <1>3, <1>5 DEF now
<1>10. \A p \in server'.plans : p \in server.plans \/ p.stamp = server.clock + 1
  BY <1>4, <1>5 DEF now
<1> QED BY <1>2, <1>7, <1>8, <1>9, <1>10, ServerStep

LEMMA PlanStep == PlanInv /\ [StudyPlanNext]_tabVars => PlanInv'
<1> SUFFICES ASSUME PlanInv, [StudyPlanNext]_tabVars PROVE PlanInv'
  OBVIOUS
<1>1. CASE UNCHANGED tabVars
  <2>1. PlanTypes' /\ screen' = screen /\ server' = server /\ calls' = calls
    BY <1>1 DEF tabVars, PlanInv, PlanTypes
  <2> QED BY <2>1, FormStep
<1>2. CASE PlanSelectors \/ RetryPlans
  BY <1>2, SelectorsStep DEF PlanSelectors
<1>3. CASE PlanFormFields \/ PlanButtons
  BY <1>3, FormFieldsStep, WritePlanStep DEF PlanButtons
<1>4. CASE AnotherTabArchives
  BY <1>4, AnotherTabStep
<1>5. ASSUME NEW c \in calls,
             \/ PlanPathsArrive(c) \/ PlansListed(c) \/ PlansArrive(c) \/ PlanRead(c)
             \/ PlanArrives(c) \/ PlanReadFails(c) \/ CourseOptionsArrive(c) \/ PlanStored(c)
             \/ PlanDeleted(c) \/ PlanSaved(c) \/ PlanGone(c) \/ PlanWriteFails(c)
      PROVE  PlanInv'
  BY <1>5, PlanPathsArriveStep, PlansListedStep, PlansArriveStep, PlanReadStep,
     PlanAnsweredStep, FormFieldsStep, PlanStoredStep, PlanDeletedStep, WriteAnsweredStep
<1> QED BY <1>1, <1>2, <1>3, <1>4, <1>5 DEF StudyPlanNext

LEMMA PlanStart == StudyPlanInit => PlanInv
<1> SUFFICES ASSUME StudyPlanInit PROVE PlanInv
  OBVIOUS
<1>1. screen \in PlanScreens /\ screen.current = NoPlan
  <2>1. EmptyDraft \in PlanDrafts /\ NoPlan \in PlanOrNone
    BY DEF EmptyDraft, PlanDrafts, PlanOrNone
  <2> QED BY <2>1, StudyPlanAssumption DEF StudyPlanInit, PlanScreens, PlanStatuses
<1>2. server \in PlanServers /\ server.plans = {}
  BY StudyPlanAssumption DEF StudyPlanInit, PlanServers
<1>3. \A c \in calls : c \in TaxonomyCalls /\ c.kind = "taxonomy"
  BY DEF StudyPlanInit, TaxonomyCalls
<1>4. PlanTypes
  BY <1>1, <1>2, <1>3 DEF PlanTypes
<1> QED BY <1>1, <1>2, <1>3, <1>4 DEF PlanInv, PlansNamed, PlansKnown, Known, ReadsOfView,
                                      UpdatesOfActive, PlanOfView

\* The plan on the screen is always of the path and the status that are selected
\* (StudyPlanPage.tsx), whatever is selected, reloaded and saved while answers of former
\* selections are on their way.
THEOREM PlanShownIsOfView == StudyPlanSpec => []PlanOfView
<1>1. PlanInv => PlanOfView
  BY DEF PlanInv
<1> QED BY <1>1, PlanStart, PlanStep, PTL DEF StudyPlanSpec

\* What a step does to the plans: those that stay in place keep their status, and a
\* plan that is written over archived was archived itself.
LEMMA ArchivedStep ==
  ASSUME PlanInv, [StudyPlanNext]_tabVars,
         NEW r \in server.plans, NEW q \in server'.plans, r.id = q.id, r.status = "archived"
  PROVE  q.status = "archived"
<1>1. CASE q \in server.plans
  BY <1>1 DEF PlanInv, PlansNamed
<1>2. ASSUME NEW c \in calls, PlanStored(c), q \notin server.plans
      PROVE  q.status = "archived"
  <2>1. q = WrittenRow(c) /\ c \in PlanWrites /\ c.kind = "write"
    BY <1>2, PlanCallForms DEF PlanStored, PlanInv
  <2>2. c.what # "create"
    <3> SUFFICES ASSUME c.what = "create" PROVE FALSE
      OBVIOUS
    <3>1. q.id = server.clock + 1
      BY <2>1 DEF WrittenRow
    <3>2. r.id \in Int /\ server.clock \in Int /\ r.id <= server.clock
      BY DEF PlanInv, PlansNamed, PlanTypes, PlanServers, PlanRows
    <3> QED BY <3>1, <3>2
  <2>3. PICK known \in server.plans : known.id = c.plan.id /\ known.stamp = c.plan.stamp
    BY <1>2, <2>2 DEF PlanStored, Unchanged
  <2>4. q.id = c.plan.id
    BY <2>1, <2>2 DEF WrittenRow
  <2>5. known = r
    BY <2>3, <2>4 DEF PlanInv, PlansNamed
  <2>6. c.what # "update"
    <3> SUFFICES ASSUME c.what = "update" PROVE FALSE
      OBVIOUS
    <3>1. c.plan # NoPlan /\ c.plan.status = "active" /\ Known(c.plan)
      BY <2>1 DEF PlanInv, UpdatesOfActive, PlansKnown
    <3> QED BY <2>3, <2>5, <3>1 DEF Known
  <2>7. c.what # "remove"
    BY <1>2 DEF PlanStored
  <2>8. c.what = "archive"
    BY <2>1, <2>2, <2>6, <2>7 DEF PlanWrites
  <2> QED BY <2>1, <2>8 DEF WrittenRow
<1>3. CASE AnotherTabArchives /\ q \notin server.plans
  <2>1. PICK p \in server.plans :
          server' = [plans |-> (server.plans \ {p}) \cup
                        {[p EXCEPT !.status = "archived", !.stamp = server.clock + 1]},
                     clock |-> server.clock + 1]
    BY <1>3 DEF AnotherTabArchives
  <2>2. q = [p EXCEPT !.status = "archived", !.stamp = server.clock + 1] /\ p \in PlanRows
    BY <1>3, <2>1 DEF PlanInv, PlanTypes, PlanServers
  <2> QED BY <2>2 DEF PlanRows
<1>4. CASE /\ q \notin server.plans /\ ~AnotherTabArchives
           /\ \A c \in calls : ~PlanStored(c)
  <2>1. server' = server \/ server'.plans \subseteq server.plans
    <3>1. CASE UNCHANGED tabVars
      BY <3>1 DEF tabVars
    <3>2. ASSUME NEW c \in calls, PlanDeleted(c) PROVE server'.plans \subseteq server.plans
      BY <3>2 DEF PlanDeleted, PlanInv, PlanTypes, PlanServers
    <3>3. ASSUME NEW c \in calls,
                 \/ PlanPathsArrive(c) \/ PlansListed(c) \/ PlansArrive(c) \/ PlanRead(c)
                 \/ PlanArrives(c) \/ PlanReadFails(c) \/ CourseOptionsArrive(c)
                 \/ PlanSaved(c) \/ PlanGone(c) \/ PlanWriteFails(c)
          PROVE  server' = server
      BY <3>3 DEF PlanPathsArrive, PlansListed, PlansArrive, PlanRead, PlanArrives,
                  PlanReadFails, CourseOptionsArrive, PlanSaved, PlanGone, PlanWriteFails
    <3>4. CASE PlanSelectors \/ RetryPlans
      BY <3>4 DEF PlanSelectors, ChangePath, ChangeStatus, RetryPlans
    <3>5. CASE PlanFormFields
      BY <3>5 DEF PlanFormFields, ToggleSubject, ChooseCourseSubject, ToggleCourse
    <3>6. CASE PlanButtons
      BY <3>6 DEF PlanButtons, SavePlan, ArchivePlan, RemovePlan, WritePlan, ResetDraft
    <3> QED BY <1>4, <3>1, <3>2, <3>3, <3>4, <3>5, <3>6 DEF StudyPlanNext
  <2> QED BY <1>4, <2>1
<1> QED BY <1>1, <1>2, <1>3, <1>4

\* A plan that was archived never becomes active again by what a tab still has of it
\* (StudyPlanPage.tsx, and the updated_at that UpdateStudyPlan compares).
THEOREM ArchivedForGood == StudyPlanSpec => ArchivedStays
<1>1. PlanInv /\ [StudyPlanNext]_tabVars =>
        [Mounted("plan") =>
           \A r \in server.plans, q \in server'.plans :
             r.id = q.id /\ r.status = "archived" => q.status = "archived"]_tabVars
  BY ArchivedStep
<1> QED BY <1>1, PlanStart, PlanStep, PTL DEF StudyPlanSpec, ArchivedStays

(***************************************************************************)
(* AttemptPage: answers, the timer and the call that a visit may leave      *)
(* behind.                                                                  *)
(***************************************************************************)
AttemptScreens ==
  [page : {"attempt"}, scope : Assessments, visit : 1..MaxVisits, loading : BOOLEAN,
   shown : BOOLEAN, answers : SUBSET Nat, result : BOOLEAN, busy : BOOLEAN, index : Nat,
   saving : BOOLEAN, draft : BOOLEAN, action : BOOLEAN, confirm : BOOLEAN,
   timer : {"none", "set", "clear"}, timerDraft : BOOLEAN, torn : BOOLEAN]
AttemptRows ==
  [status : AttemptStatus, answers : SUBSET Nat, clock : {"running", "last", "over"}]

OfAttempt(p) ==
  p.answers \subseteq QuestionIndex(p.scope) /\ p.index \in 1..(NQuestions[p.scope] + 1)

\* The types, and that answers and calls are of questions of their paper.
AttemptTypes ==
  /\ screen \in AttemptScreens /\ OfAttempt(screen)
  /\ calls \subseteq AttemptCall /\ IsFiniteSet(calls)
  /\ \A c \in calls :
       c.question \in {0} \cup QuestionIndex(c.scope) /\ c.seen \subseteq QuestionIndex(c.scope)
  /\ server \in [Assessments -> AttemptRows]
  /\ \A a \in Assessments : server[a].answers \subseteq QuestionIndex(a)

\* Every visit has at most one call more than it ended: that is why there is a
\* number for each.
CallsPerVisit == Cardinality(calls) + (IF screen.action THEN 0 ELSE 1) <= screen.visit

\* A page that waits for its paper shows none.
AttemptsWait == screen.loading /\ ~screen.torn => screen.busy /\ ~screen.shown

\* On a page that was never left in the middle of a call there is one call at a time,
\* and it is of the attempt on the screen.
OneAttemptCall ==
  ~screen.torn =>
    /\ \A c \in calls : c.scope = screen.scope
    /\ \A c, d \in calls : c = d
    /\ calls # {} => screen.action /\ screen.shown /\ ~screen.loading

\* What is shown without a draft is what the server has, and so is what a save that was
\* stored comes back with.
AnswersAreStored ==
  ~screen.torn =>
    /\ screen.shown /\ ~screen.draft => screen.answers = server[screen.scope].answers
    /\ \A c \in calls : c.kind = "save" /\ ~screen.draft => c.question = 0
    /\ \A c \in calls : c.kind = "save" /\ c.stage = "ok" => c.seen = server[screen.scope].answers

\* The timer of a timed paper that is shown runs.
TimerOf(p) ==
  /\ p.shown /\ ~p.result /\ p.scope \in Timed /\ ~p.timerDraft => p.timer = "set"
  /\ p.timer = "set" => p.shown

AttemptPageInv ==
  /\ AttemptTypes /\ CallsPerVisit /\ AttemptsWait /\ OneAttemptCall /\ AnswersAreStored
  /\ TimerOf(screen)

\* What the timer's effect leaves alone.
SameButTimer(q, p) ==
  /\ q.page = p.page /\ q.scope = p.scope /\ q.visit = p.visit /\ q.loading = p.loading
  /\ q.shown = p.shown /\ q.answers = p.answers /\ q.result = p.result /\ q.busy = p.busy
  /\ q.index = p.index /\ q.saving = p.saving /\ q.draft = p.draft /\ q.action = p.action
  /\ q.confirm = p.confirm /\ q.torn = p.torn

LEMMA TimerEffectForm ==
  ASSUME NEW p \in AttemptScreens
  PROVE  TimerEffect(p) \in AttemptScreens /\ SameButTimer(TimerEffect(p), p)
         /\ TimerOf(TimerEffect(p))
<1>1. PICK t \in {"none", "set"} :
        t = IF p.shown /\ ~p.result /\ p.scope \in Timed THEN "set" ELSE "none"
  OBVIOUS
<1>2. TimerEffect(p) = [p EXCEPT !.timer = t, !.timerDraft = p.draft]
  BY <1>1 DEF TimerEffect
<1>3. [p EXCEPT !.timer = t, !.timerDraft = p.draft] \in AttemptScreens
  BY ZenonT(60) DEF AttemptScreens
<1>4. SameButTimer(TimerEffect(p), p) /\ TimerEffect(p).timer = t
  BY <1>2 DEF AttemptScreens, SameButTimer
<1>5. TimerOf(TimerEffect(p))
  BY <1>1, <1>4 DEF TimerOf, SameButTimer
<1> QED BY <1>2, <1>3, <1>4, <1>5

LEMMA QuestionCount ==
  ASSUME NEW a \in Assessments
  PROVE  NQuestions[a] \in Nat /\ NQuestions[a] >= 1 /\ QuestionIndex(a) \subseteq Nat \ {0}
BY AttemptPageAssumption DEF QuestionIndex

\* There is a number that no call has.
LEMMA NumberLeft ==
  ASSUME AttemptTypes, Cardinality(calls) < MaxVisits, NEW kind \in {"save", "submit"},
         NEW q \in {0} \cup QuestionIndex(screen.scope)
  PROVE  LET c == NewCall(kind, q) IN
         /\ c \in AttemptCall /\ c \notin calls
         /\ c.scope = screen.scope /\ c.kind = kind /\ c.question = q /\ c.seen = {}
         /\ c.stage = "token"
<1> DEFINE f == [c \in calls |-> c.n]
           used == {f[c] : c \in calls}
           n == CHOOSE i \in 1..MaxVisits : \A d \in calls : d.n # i
<1>1. MaxVisits \in Nat /\ IsFiniteSet(calls)
  BY AttemptPageAssumption DEF AttemptTypes
<1>2. IsFiniteSet(used) /\ Cardinality(used) <= Cardinality(calls)
  <2>1. f \in Surjection(calls, used)
    BY DEF Surjection
  <2> QED BY <1>1, <2>1, FS_Surjection
<1>3. Cardinality(used) \in Nat /\ Cardinality(calls) \in Nat
  BY <1>1, <1>2, FS_CardinalityType
<1>4. \E i \in 1..MaxVisits : i \notin used
  <2> SUFFICES ASSUME 1..MaxVisits \subseteq used PROVE FALSE
    OBVIOUS
  <2>1. Cardinality(1..MaxVisits) <= Cardinality(used)
    BY <1>2, FS_Subset
  <2>2. 1 \in Int /\ MaxVisits \in Int /\ ~(1 > MaxVisits) /\ MaxVisits - 1 + 1 = MaxVisits
    BY AttemptPageAssumption
  <2> HIDE DEF n, used, f
  <2>3. Cardinality(1..MaxVisits) = MaxVisits
    BY <2>2, FS_Interval
  <2> QED BY <1>1, <1>2, <1>3, <2>1, <2>3
<1>5. \E i \in 1..MaxVisits : \A d \in calls : d.n # i
  BY <1>4
<1>6. n \in 1..MaxVisits /\ \A d \in calls : d.n # n
  BY <1>5
<1> HIDE DEF n, used, f
<1>7. NewCall(kind, q) = [kind |-> kind, scope |-> screen.scope, question |-> q, seen |-> {},
                          stage |-> "token", n |-> n]
  BY DEF NewCall, n
<1>8. screen.scope \in Assessments /\ q \in Nat
  BY QuestionCount DEF AttemptTypes, AttemptScreens
<1> QED BY <1>6, <1>7, <1>8 DEF AttemptCall

\* A call is started while no other is on its way from this page.
LEMMA CallStarts ==
  ASSUME AttemptPageInv, screen.shown, Idle, NEW kind \in {"save", "submit"},
         NEW q \in {0} \cup QuestionIndex(screen.scope),
         calls' = calls \cup {NewCall(kind, q)}, server' = server,
         screen' \in AttemptScreens, screen'.action, screen'.shown,
         screen'.scope = screen.scope, screen'.visit = screen.visit,
         screen'.loading = screen.loading, screen'.torn = screen.torn,
         screen'.answers = screen.answers, screen'.index = screen.index,
         screen.draft => screen'.draft, kind = "save" /\ ~screen'.draft => q = 0,
         TimerOf(screen')
  PROVE  AttemptPageInv'
<1> DEFINE c == NewCall(kind, q)
<1>1. screen.visit \in 1..MaxVisits /\ MaxVisits \in Nat /\ ~screen.action /\ ~screen.busy
  BY AttemptPageAssumption DEF AttemptPageInv, AttemptTypes, AttemptScreens, Idle
<1>2. Cardinality(calls) \in Nat
  BY FS_CardinalityType DEF AttemptPageInv, AttemptTypes
<1>3. Cardinality(calls) + 1 <= screen.visit
  BY <1>1 DEF AttemptPageInv, CallsPerVisit
<1>4. /\ c \in AttemptCall /\ c \notin calls
      /\ c.scope = screen.scope /\ c.kind = kind /\ c.question = q /\ c.seen = {}
      /\ c.stage = "token"
  <2>1. AttemptTypes /\ Cardinality(calls) < MaxVisits
    BY <1>1, <1>2, <1>3 DEF AttemptPageInv
  <2> QED BY <2>1, NumberLeft
<1> HIDE DEF c
<1>5. calls' = calls \cup {c}
  BY DEF c
<1>6. IsFiniteSet(calls') /\ Cardinality(calls') = Cardinality(calls) + 1
  BY <1>4, <1>5, FS_AddElement DEF AttemptPageInv, AttemptTypes
<1>7. AttemptTypes'
  BY <1>4, <1>5, <1>6 DEF AttemptPageInv, AttemptTypes, OfAttempt
<1>8. CallsPerVisit'
  BY <1>1, <1>2, <1>3, <1>6 DEF CallsPerVisit
<1>9. ~screen.torn => calls = {} /\ ~screen.loading
  BY <1>1 DEF AttemptPageInv, OneAttemptCall, AttemptsWait
<1>10. AttemptsWait'
  BY <1>9 DEF AttemptsWait
<1>11. OneAttemptCall'
  BY <1>4, <1>5, <1>9 DEF OneAttemptCall
<1>12. AnswersAreStored'
  BY <1>4, <1>5, <1>9 DEF AttemptPageInv, AnswersAreStored
<1> QED BY <1>7, <1>8, <1>10, <1>11, <1>12 DEF AttemptPageInv

\* The page alone changes, and not in what the calls go by.
LEMMA OnScreenOnly ==
  ASSUME AttemptPageInv, UNCHANGED <<calls, server>>,
         screen' \in AttemptScreens, OfAttempt(screen'),
         screen'.action = screen.action, screen'.shown = screen.shown,
         screen'.scope = screen.scope, screen'.visit = screen.visit, screen'.busy = screen.busy,
         screen'.loading = screen.loading, screen'.torn = screen.torn,
         screen'.answers = screen.answers, screen'.draft = screen.draft,
         TimerOf(screen')
  PROVE  AttemptPageInv'
<1>1. AttemptTypes' /\ CallsPerVisit' /\ AttemptsWait'
  BY DEF AttemptPageInv, AttemptTypes, CallsPerVisit, AttemptsWait
<1>2. OneAttemptCall'
  BY DEF AttemptPageInv, OneAttemptCall
<1>3. AnswersAreStored'
  BY DEF AttemptPageInv, AnswersAreStored
<1> QED BY <1>1, <1>2, <1>3 DEF AttemptPageInv

LEMMA AnsweringIndex ==
  ASSUME AttemptPageInv, Answering
  PROVE  screen.index \in QuestionIndex(screen.scope) /\ screen.shown /\ ~screen.result
         /\ screen.scope \in Assessments
BY DEF Answering, AttemptPageInv, AttemptTypes, AttemptScreens

LEMMA AttemptMoves ==
  ASSUME AttemptPageInv, NEW i \in QuestionIndex(screen.scope), MoveTo(i)
  PROVE  AttemptPageInv'
<1>1. screen.scope \in Assessments /\ i \in Nat /\ i \in 1..(NQuestions[screen.scope] + 1)
  BY QuestionCount DEF AttemptPageInv, AttemptTypes, AttemptScreens, QuestionIndex
<1>2. screen' = [screen EXCEPT !.index = i]
  BY DEF MoveTo
<1>3. screen' \in AttemptScreens
  BY <1>1, <1>2 DEF AttemptPageInv, AttemptTypes, AttemptScreens
<1>4. /\ screen'.scope = screen.scope /\ screen'.visit = screen.visit
      /\ screen'.loading = screen.loading /\ screen'.shown = screen.shown
      /\ screen'.answers = screen.answers /\ screen'.result = screen.result
      /\ screen'.busy = screen.busy /\ screen'.draft = screen.draft
      /\ screen'.action = screen.action /\ screen'.torn = screen.torn
      /\ screen'.timer = screen.timer /\ screen'.timerDraft = screen.timerDraft
      /\ screen'.index = i
  BY <1>2 DEF AttemptPageInv, AttemptTypes, AttemptScreens
<1>5. OfAttempt(screen') /\ TimerOf(screen')
  BY <1>1, <1>4 DEF AttemptPageInv, AttemptTypes, OfAttempt, TimerOf
<1> QED BY <1>3, <1>4, <1>5, OnScreenOnly DEF MoveTo

LEMMA AttemptAnswering ==
  ASSUME AttemptPageInv,
         \/ PreviousQuestion \/ NextQuestion
         \/ \E i \in QuestionIndex(screen.scope) : JumpToQuestion(i)
  PROVE  AttemptPageInv'
<1>1. ASSUME PreviousQuestion PROVE screen.index - 1 \in QuestionIndex(screen.scope)
  BY <1>1, QuestionCount DEF PreviousQuestion, Unhindered, Answering, QuestionIndex,
     AttemptPageInv, AttemptTypes, AttemptScreens
<1>2. ASSUME NextQuestion PROVE screen.index + 1 \in QuestionIndex(screen.scope)
  BY <1>2, QuestionCount DEF NextQuestion, Unhindered, Answering, QuestionIndex,
     AttemptPageInv, AttemptTypes, AttemptScreens
<1> QED BY <1>1, <1>2, AttemptMoves DEF PreviousQuestion, NextQuestion, JumpToQuestion
LEMMA QuietMoves ==
  ASSUME AttemptPageInv,
         \/ AskSubmit
         \/ ConfirmSubmit /\ screen' = [screen EXCEPT !.confirm = FALSE] /\ UNCHANGED <<calls, server>>
         \/ TimerTick /\ screen' = [screen EXCEPT !.timer = "clear"] /\ UNCHANGED <<calls, server>>
            /\ ~MaySubmit(screen.timerDraft)
  PROVE  AttemptPageInv'
<1>1. ASSUME NEW b \in BOOLEAN, screen' = [screen EXCEPT !.confirm = b], UNCHANGED <<calls, server>>
      PROVE  AttemptPageInv'
  <2>1. screen' \in AttemptScreens /\ SameButTimer([screen' EXCEPT !.confirm = screen.confirm], screen)
        /\ screen'.timer = screen.timer /\ screen'.timerDraft = screen.timerDraft
    BY <1>1 DEF AttemptPageInv, AttemptTypes, AttemptScreens, SameButTimer
  <2>2. /\ screen'.scope = screen.scope /\ screen'.visit = screen.visit
        /\ screen'.loading = screen.loading /\ screen'.shown = screen.shown
        /\ screen'.answers = screen.answers /\ screen'.result = screen.result
        /\ screen'.busy = screen.busy /\ screen'.draft = screen.draft
        /\ screen'.action = screen.action /\ screen'.torn = screen.torn
        /\ screen'.index = screen.index
    BY <1>1 DEF AttemptPageInv, AttemptTypes, AttemptScreens
  <2>3. OfAttempt(screen') /\ TimerOf(screen')
    BY <2>1, <2>2 DEF AttemptPageInv, AttemptTypes, OfAttempt, TimerOf
  <2> QED BY <1>1, <2>1, <2>2, <2>3, OnScreenOnly
<1>2. ASSUME TimerTick, screen' = [screen EXCEPT !.timer = "clear"], UNCHANGED <<calls, server>>,
             ~MaySubmit(screen.timerDraft)
      PROVE  AttemptPageInv'
  <2>1. screen' \in AttemptScreens
    BY <1>2 DEF AttemptPageInv, AttemptTypes, AttemptScreens
  <2>2. /\ screen'.scope = screen.scope /\ screen'.visit = screen.visit
        /\ screen'.loading = screen.loading /\ screen'.shown = screen.shown
        /\ screen'.answers = screen.answers /\ screen'.result = screen.result
        /\ screen'.busy = screen.busy /\ screen'.draft = screen.draft
        /\ screen'.action = screen.action /\ screen'.torn = screen.torn
        /\ screen'.index = screen.index /\ screen'.timerDraft = screen.timerDraft
        /\ screen'.timer = "clear"
    BY <1>2 DEF AttemptPageInv, AttemptTypes, AttemptScreens
  <2>3. screen.timerDraft
    BY <1>2 DEF TimerTick, MaySubmit
  <2>4. OfAttempt(screen') /\ TimerOf(screen')
    BY <2>2, <2>3 DEF AttemptPageInv, AttemptTypes, OfAttempt, TimerOf
  <2> QED BY <1>2, <2>1, <2>2, <2>4, OnScreenOnly
<1> QED BY <1>1, <1>2 DEF AskSubmit

LEMMA SaveStarts ==
  ASSUME AttemptPageInv, ChooseOption \/ ToggleReview
  PROVE  AttemptPageInv'
<1>1. Answering /\ Idle
  BY DEF ChooseOption, ToggleReview
<1>2. screen.index \in QuestionIndex(screen.scope) /\ screen.shown
  BY <1>1, AnsweringIndex
<1>3. PICK d \in BOOLEAN, q \in {0} \cup QuestionIndex(screen.scope) :
        /\ screen' = [screen EXCEPT !.draft = d, !.action = TRUE, !.saving = TRUE]
        /\ calls' = calls \cup {NewCall("save", q)} /\ server' = server
        /\ (d /\ q = screen.index) \/ (d = screen.draft /\ q = 0)
  <2>1. ASSUME ChooseOption
        PROVE  /\ screen' = [screen EXCEPT !.draft = TRUE, !.action = TRUE, !.saving = TRUE]
               /\ calls' = calls \cup {NewCall("save", screen.index)} /\ server' = server
    BY <2>1 DEF ChooseOption, SaveStarted
  <2>2. ASSUME ToggleReview
        PROVE  /\ screen' = [screen EXCEPT !.action = TRUE, !.saving = TRUE]
               /\ calls' = calls \cup {NewCall("save", 0)} /\ server' = server
    BY <2>2 DEF ToggleReview, SaveStarted
  <2>3. screen = [screen EXCEPT !.draft = screen.draft] /\ screen.draft \in BOOLEAN
    BY DEF AttemptPageInv, AttemptTypes, AttemptScreens
  <2> QED BY <1>2, <2>1, <2>2, <2>3
<1>4. screen' \in AttemptScreens
  BY <1>3 DEF AttemptPageInv, AttemptTypes, AttemptScreens
<1>5. /\ screen'.scope = screen.scope /\ screen'.visit = screen.visit
      /\ screen'.loading = screen.loading /\ screen'.shown = screen.shown
      /\ screen'.answers = screen.answers /\ screen'.result = screen.result
      /\ screen'.draft = d /\ screen'.torn = screen.torn /\ screen'.index = screen.index
      /\ screen'.timer = screen.timer /\ screen'.timerDraft = screen.timerDraft
      /\ screen'.action
  BY <1>3 DEF AttemptPageInv, AttemptTypes, AttemptScreens
<1>6. TimerOf(screen')
  BY <1>5 DEF AttemptPageInv, TimerOf
<1> QED BY <1>1, <1>2, <1>3, <1>4, <1>5, <1>6, CallStarts

LEMMA SubmitStarts ==
  ASSUME AttemptPageInv, screen.shown, Idle, SubmitStarted
  PROVE  AttemptPageInv'
<1> DEFINE p == [screen EXCEPT !.action = TRUE, !.busy = TRUE, !.confirm = FALSE]
<1>1. p \in AttemptScreens
  BY DEF AttemptPageInv, AttemptTypes, AttemptScreens
<1>2. /\ p.scope = screen.scope /\ p.visit = screen.visit
      /\ p.loading = screen.loading /\ p.shown = screen.shown
      /\ p.answers = screen.answers /\ p.draft = screen.draft /\ p.torn = screen.torn
      /\ p.index = screen.index /\ p.action
  BY DEF AttemptPageInv, AttemptTypes, AttemptScreens
<1>3. screen' = TimerEffect(p) /\ calls' = calls \cup {NewCall("submit", 0)} /\ server' = server
  BY DEF SubmitStarted
<1> HIDE DEF p
<1> QED BY <1>1, <1>2, <1>3, TimerEffectForm, CallStarts DEF SameButTimer

LEMMA LearnerSubmits ==
  ASSUME AttemptPageInv, ConfirmSubmit \/ TimerTick
  PROVE  AttemptPageInv'
<1>1. ASSUME ConfirmSubmit PROVE AttemptPageInv'
  BY <1>1, SubmitStarts, QuietMoves, AnsweringIndex DEF ConfirmSubmit, MaySubmit
<1>2. ASSUME TimerTick PROVE AttemptPageInv'
  <2>1. screen.shown /\ Idle
    BY <1>2 DEF TimerTick, AttemptPageInv, TimerOf
  <2> QED BY <1>2, <2>1, SubmitStarts, QuietMoves DEF TimerTick
<1> QED BY <1>1, <1>2

LEMMA OpenAssessmentStep ==
  ASSUME AttemptPageInv, NEW a \in Assessments, OpenAssessment(a)
  PROVE  AttemptPageInv'
<1> DEFINE t == screen.torn \/ calls # {}
<1>1. screen' = FreshAttempt(a, screen.visit + 1, t) /\ screen.visit < MaxVisits
      /\ UNCHANGED <<calls, server>>
  BY DEF OpenAssessment
<1>2. screen.visit \in 1..MaxVisits /\ MaxVisits \in Nat /\ screen.torn \in BOOLEAN
      /\ screen.action \in BOOLEAN
  BY AttemptPageAssumption DEF AttemptPageInv, AttemptTypes, AttemptScreens
<1>3. screen' \in AttemptScreens
  BY <1>1, <1>2 DEF FreshAttempt, AttemptScreens
<1>4. /\ screen'.scope = a /\ screen'.visit = screen.visit + 1 /\ screen'.loading /\ ~screen'.shown
      /\ screen'.busy /\ screen'.answers = {} /\ screen'.index = 1 /\ ~screen'.action
      /\ screen'.timer = "none" /\ screen'.torn = t
  BY <1>1 DEF FreshAttempt
<1>5. AttemptTypes'
  BY <1>1, <1>3, <1>4, QuestionCount DEF AttemptPageInv, AttemptTypes, OfAttempt
<1>6. CallsPerVisit'
  <2>1. Cardinality(calls) \in Nat
    BY FS_CardinalityType DEF AttemptPageInv, AttemptTypes
  <2> QED BY <1>1, <1>2, <1>4, <2>1 DEF AttemptPageInv, CallsPerVisit
<1>7. ~screen'.torn => calls' = {}
  BY <1>1, <1>4
<1>8. AttemptsWait' /\ OneAttemptCall' /\ AnswersAreStored' /\ TimerOf(screen')
  BY <1>4, <1>7 DEF AttemptsWait, OneAttemptCall, AnswersAreStored, TimerOf
<1> QED BY <1>5, <1>6, <1>8 DEF AttemptPageInv

\* What the server does to a row while nothing is on its way from the page, or
\* without touching the answers.
LEMMA RowChanges ==
  ASSUME AttemptPageInv, NEW a \in Assessments, NEW row \in AttemptRows,
         row.answers = server[a].answers, server' = [server EXCEPT ![a] = row]
  PROVE  /\ server' \in [Assessments -> AttemptRows]
         /\ \A b \in Assessments : server'[b].answers = server[b].answers
BY DEF AttemptPageInv, AttemptTypes

LEMMA ClockRunsStep ==
  ASSUME AttemptPageInv, NEW a \in Assessments, ClockRuns(a)
  PROVE  AttemptPageInv'
<1>1. PICK k \in {"last", "over"} : server' = [server EXCEPT ![a].clock = k]
  BY DEF ClockRuns
<1>2. server[a] \in AttemptRows
  BY DEF AttemptPageInv, AttemptTypes
<1>3. [server[a] EXCEPT !.clock = k] \in AttemptRows
      /\ [server[a] EXCEPT !.clock = k].answers = server[a].answers
  BY <1>2 DEF AttemptRows
<1>4. server' = [server EXCEPT ![a] = [server[a] EXCEPT !.clock = k]]
  BY <1>1
<1>5. UNCHANGED <<screen, calls>> /\ screen.scope \in Assessments
  BY DEF ClockRuns, AttemptPageInv, AttemptTypes, AttemptScreens
<1>6. /\ server' \in [Assessments -> AttemptRows]
      /\ \A b \in Assessments : server'[b].answers = server[b].answers
  BY <1>3, <1>4, RowChanges
<1>7. AttemptTypes' /\ CallsPerVisit' /\ AttemptsWait' /\ OneAttemptCall' /\ TimerOf(screen')
  BY <1>5, <1>6 DEF AttemptPageInv, AttemptTypes, CallsPerVisit, AttemptsWait, OneAttemptCall
<1>8. AnswersAreStored'
  BY <1>5, <1>6 DEF AttemptPageInv, AnswersAreStored
<1> QED BY <1>7, <1>8 DEF AttemptPageInv

LEMMA StartedForm ==
  ASSUME NEW row \in AttemptRows
  PROVE  Started(row) \in AttemptRows /\ Started(row).answers = row.answers
BY DEF Started, AttemptRows, AttemptStatus

\* The load of a visit: it is answered, with the attempt or with nothing.
LEMMA LoadEnds ==
  ASSUME AttemptPageInv, AttemptLoaded \/ AttemptLoadFails
  PROVE  AttemptPageInv'
<1> DEFINE a == screen.scope
<1>1. a \in Assessments /\ screen.loading /\ server[a] \in AttemptRows /\ calls' = calls
  BY DEF AttemptPageInv, AttemptTypes, AttemptScreens, AttemptLoaded, AttemptLoadFails
<1>2. PICK row \in AttemptRows, s \in BOOLEAN, x \in SUBSET Nat :
        /\ server' = [server EXCEPT ![a] = row] /\ row.answers = server[a].answers
        /\ screen' = TimerEffect([screen EXCEPT !.loading = FALSE, !.busy = FALSE, !.shown = s,
                                                !.answers = x])
        /\ \/ s = TRUE /\ x = row.answers
           \/ s = screen.shown /\ x = screen.answers
  <2>1. ASSUME AttemptLoaded
        PROVE  /\ server' = [server EXCEPT ![a] = Started(server[a])]
               /\ screen' = TimerEffect([screen EXCEPT !.loading = FALSE, !.busy = FALSE,
                                           !.shown = TRUE, !.answers = Started(server[a]).answers])
    BY <2>1 DEF AttemptLoaded
  <2>2. Started(server[a]) \in AttemptRows /\ Started(server[a]).answers = server[a].answers
        /\ Started(server[a]).answers \in SUBSET Nat
    BY <1>1, StartedForm DEF AttemptRows
  <2>3. ASSUME AttemptLoadFails
        PROVE  /\ \E row \in {server[a], Started(server[a])} : server' = [server EXCEPT ![a] = row]
               /\ screen' = TimerEffect([screen EXCEPT !.loading = FALSE, !.busy = FALSE])
    BY <2>3 DEF AttemptLoadFails
  <2>4. /\ [screen EXCEPT !.loading = FALSE, !.busy = FALSE] =
             [screen EXCEPT !.loading = FALSE, !.busy = FALSE, !.shown = screen.shown,
                            !.answers = screen.answers]
        /\ screen.shown \in BOOLEAN /\ screen.answers \in SUBSET Nat
    BY DEF AttemptPageInv, AttemptTypes, AttemptScreens
  <2> HIDE DEF a
  <2> QED BY <1>1, <2>1, <2>2, <2>3, <2>4
<1> DEFINE p == [screen EXCEPT !.loading = FALSE, !.busy = FALSE, !.shown = s, !.answers = x]
<1>3. p \in AttemptScreens
  BY DEF AttemptPageInv, AttemptTypes, AttemptScreens
<1>4. /\ p.scope = screen.scope /\ p.visit = screen.visit /\ ~p.loading /\ ~p.busy
      /\ p.shown = s /\ p.answers = x /\ p.draft = screen.draft /\ p.torn = screen.torn
      /\ p.index = screen.index /\ p.action = screen.action
  BY DEF AttemptPageInv, AttemptTypes, AttemptScreens
<1>5. screen' = TimerEffect(p)
  BY <1>2
<1> HIDE DEF p
<1>6. screen' \in AttemptScreens /\ SameButTimer(screen', p) /\ TimerOf(screen')
  BY <1>3, <1>5, TimerEffectForm
<1>7. /\ server' \in [Assessments -> AttemptRows]
      /\ \A b \in Assessments : server'[b].answers = server[b].answers
  BY <1>1, <1>2, RowChanges
<1>8. x \subseteq QuestionIndex(screen.scope)
  BY <1>1, <1>2 DEF AttemptPageInv, AttemptTypes, OfAttempt
<1>9. AttemptTypes'
  BY <1>1, <1>4, <1>6, <1>7, <1>8 DEF AttemptPageInv, AttemptTypes, OfAttempt, SameButTimer
<1>10. CallsPerVisit' /\ AttemptsWait'
  BY <1>1, <1>4, <1>6 DEF AttemptPageInv, CallsPerVisit, AttemptsWait, SameButTimer
<1>11. ~screen.torn => calls = {} /\ ~screen.shown
  BY <1>1 DEF AttemptPageInv, AttemptsWait, OneAttemptCall
<1>12. OneAttemptCall'
  BY <1>1, <1>4, <1>6, <1>11 DEF OneAttemptCall, SameButTimer
<1>13. AnswersAreStored'
  BY <1>1, <1>2, <1>4, <1>6, <1>7, <1>11 DEF AnswersAreStored, SameButTimer
<1> QED BY <1>6, <1>9, <1>10, <1>12, <1>13 DEF AttemptPageInv
LEMMA CallsCount ==
  ASSUME IsFiniteSet(calls), NEW c \in calls
  PROVE  /\ IsFiniteSet(calls \ {c}) /\ Cardinality(calls \ {c}) = Cardinality(calls) - 1
         /\ Cardinality(calls) \in Nat
         /\ \A d : /\ IsFiniteSet((calls \ {c}) \cup {d})
                   /\ Cardinality((calls \ {c}) \cup {d}) <= Cardinality(calls)
                   /\ Cardinality((calls \ {c}) \cup {d}) \in Nat
<1>1. Cardinality(calls) \in Nat
  BY FS_CardinalityType
<1>2. IsFiniteSet(calls \ {c}) /\ Cardinality(calls \ {c}) = Cardinality(calls) - 1
  BY FS_RemoveElement
<1>3. Cardinality(calls \ {c}) \in Nat
  BY <1>2, FS_CardinalityType
<1>4. ASSUME NEW d
      PROVE  /\ IsFiniteSet((calls \ {c}) \cup {d})
             /\ Cardinality((calls \ {c}) \cup {d}) <= Cardinality(calls)
             /\ Cardinality((calls \ {c}) \cup {d}) \in Nat
  <2>1. CASE d \in calls \ {c}
    <3>1. (calls \ {c}) \cup {d} = calls \ {c}
      BY <2>1
    <3> QED BY <1>1, <1>2, <1>3, <3>1
  <2>2. CASE d \notin calls \ {c}
    <3>1. IsFiniteSet((calls \ {c}) \cup {d})
          /\ Cardinality((calls \ {c}) \cup {d}) = Cardinality(calls \ {c}) + 1
      BY <1>2, <2>2, FS_AddElement
    <3> QED BY <1>1, <1>2, <1>3, <3>1
  <2> QED BY <2>1, <2>2
<1> QED BY <1>1, <1>2, <1>4

\* A call ends unheard: the page shows another attempt by now.
LEMMA EndsUnheard ==
  ASSUME AttemptPageInv, NEW c \in calls, ~InScope(c), calls' = calls \ {c},
         UNCHANGED <<screen, server>>
  PROVE  AttemptPageInv'
<1>1. screen.torn
  BY DEF AttemptPageInv, OneAttemptCall, InScope
<1>2. IsFiniteSet(calls') /\ Cardinality(calls') = Cardinality(calls) - 1 /\ Cardinality(calls) \in Nat
  BY CallsCount DEF AttemptPageInv, AttemptTypes
<1>3. AttemptTypes' /\ AttemptsWait' /\ TimerOf(screen')
  BY <1>2 DEF AttemptPageInv, AttemptTypes, AttemptsWait
<1>4. CallsPerVisit'
  <2>1. screen.visit \in Nat
    BY DEF AttemptPageInv, AttemptTypes, AttemptScreens
  <2> QED BY <1>2, <2>1 DEF AttemptPageInv, CallsPerVisit
<1>5. OneAttemptCall' /\ AnswersAreStored'
  BY <1>1 DEF OneAttemptCall, AnswersAreStored
<1> QED BY <1>3, <1>4, <1>5 DEF AttemptPageInv

\* A call goes on to its next stage, and a save shows what is stored then.
LEMMA CallGoesOn ==
  ASSUME AttemptPageInv, NEW c \in calls, NEW d \in AttemptCall,
         d.kind = c.kind, d.scope = c.scope, d.question = c.question,
         d.seen \subseteq QuestionIndex(c.scope),
         calls' = (calls \ {c}) \cup {d}, screen' = screen,
         server' \in [Assessments -> AttemptRows],
         \A b \in Assessments : server'[b].answers \subseteq QuestionIndex(b),
         ~screen.torn /\ ~screen.draft =>
           server'[screen.scope].answers = server[screen.scope].answers,
         d.kind = "save" /\ d.stage = "ok" => d.seen = server'[c.scope].answers
  PROVE  AttemptPageInv'
<1>1. IsFiniteSet(calls') /\ Cardinality(calls') <= Cardinality(calls)
      /\ Cardinality(calls) \in Nat /\ Cardinality(calls') \in Nat
  BY CallsCount DEF AttemptPageInv, AttemptTypes
<1>2. AttemptTypes' /\ AttemptsWait' /\ TimerOf(screen')
  BY <1>1 DEF AttemptPageInv, AttemptTypes, AttemptsWait
<1>3. CallsPerVisit'
  <2>1. screen.visit \in Nat
    BY DEF AttemptPageInv, AttemptTypes, AttemptScreens
  <2> QED BY <1>1, <2>1 DEF AttemptPageInv, CallsPerVisit
<1>4. ~screen.torn => calls = {c} /\ calls' = {d} /\ c.scope = screen.scope
  BY DEF AttemptPageInv, OneAttemptCall
<1>5. OneAttemptCall'
  BY <1>4 DEF AttemptPageInv, OneAttemptCall
<1>6. AnswersAreStored'
  BY <1>4 DEF AttemptPageInv, AnswersAreStored
<1> QED BY <1>2, <1>3, <1>5, <1>6 DEF AttemptPageInv

LEMMA CallIs ==
  ASSUME AttemptPageInv, NEW c \in calls
  PROVE  /\ c \in AttemptCall /\ c.scope \in Assessments /\ server[c.scope] \in AttemptRows
         /\ c.question \in {0} \cup QuestionIndex(c.scope) /\ c.seen \subseteq QuestionIndex(c.scope)
         /\ server[c.scope].answers \subseteq QuestionIndex(c.scope)
BY DEF AttemptPageInv, AttemptTypes, AttemptCall

LEMMA StageChanges ==
  ASSUME AttemptPageInv, NEW c \in calls, NEW stage \in {"sent", "ok", "refused"},
         c.kind = "save" => stage # "ok",
         Advances(c, stage), screen' = screen,
         server' \in [Assessments -> AttemptRows],
         \A b \in Assessments : server'[b].answers = server[b].answers
  PROVE  AttemptPageInv'
<1> DEFINE d == [c EXCEPT !.stage = stage]
<1>1. /\ c \in AttemptCall /\ c.scope \in Assessments /\ c.seen \subseteq QuestionIndex(c.scope)
  BY CallIs
<1>2. /\ d \in AttemptCall /\ d.kind = c.kind /\ d.scope = c.scope /\ d.question = c.question
      /\ d.seen = c.seen /\ d.stage = stage
  BY <1>1 DEF AttemptCall
<1>3. calls' = (calls \ {c}) \cup {d}
  BY DEF Advances
<1>4. \A b \in Assessments : server'[b].answers \subseteq QuestionIndex(b)
  BY DEF AttemptPageInv, AttemptTypes
<1>5. screen.scope \in Assessments
  BY DEF AttemptPageInv, AttemptTypes, AttemptScreens
<1> HIDE DEF d
<1> QED BY <1>1, <1>2, <1>3, <1>4, <1>5, CallGoesOn

LEMMA TokenStep ==
  ASSUME AttemptPageInv, NEW c \in calls, TokenArrives(c)
  PROVE  AttemptPageInv'
<1>1. CASE InScope(c)
  <2>1. server \in [Assessments -> AttemptRows]
    BY DEF AttemptPageInv, AttemptTypes
  <2> QED BY <1>1, <2>1, StageChanges DEF TokenArrives
<1>2. CASE ~InScope(c)
  BY <1>2, EndsUnheard DEF TokenArrives, Ended
<1> QED BY <1>1, <1>2

LEMMA ServerSavesStep ==
  ASSUME AttemptPageInv, NEW c \in calls, ServerSaves(c)
  PROVE  AttemptPageInv'
<1> DEFINE row == server[c.scope]
           stored == row.answers \cup ({c.question} \ {0})
           d == [c EXCEPT !.stage = "ok", !.seen = stored]
           next == [row EXCEPT !.answers = stored]
<1>1. /\ c \in AttemptCall /\ c.scope \in Assessments /\ row \in AttemptRows
      /\ c.question \in {0} \cup QuestionIndex(c.scope)
      /\ row.answers \subseteq QuestionIndex(c.scope)
  BY CallIs
<1>2. c.kind = "save" /\ c.stage = "sent" /\ screen' = screen
  BY DEF ServerSaves
<1>3. CASE row.status = "in_progress" /\ row.clock # "over"
  <2>1. server' = [server EXCEPT ![c.scope] = next] /\ calls' = (calls \ {c}) \cup {d}
    BY <1>3 DEF ServerSaves
  <2>2. stored \subseteq QuestionIndex(c.scope) /\ stored \in SUBSET (Nat \ {0}) /\ stored \in SUBSET Nat
    BY <1>1, QuestionCount
  <2>3. c.question = 0 => stored = row.answers
    OBVIOUS
  <2> HIDE DEF stored
  <2>4. next \in AttemptRows /\ next.answers = stored
    BY <1>1, <2>2 DEF AttemptRows
  <2>5. /\ d \in AttemptCall /\ d.kind = c.kind /\ d.scope = c.scope /\ d.question = c.question
        /\ d.seen = stored /\ d.stage = "ok"
    BY <1>1, <2>2 DEF AttemptCall
  <2> HIDE DEF next, d
  <2>6. /\ server' \in [Assessments -> AttemptRows] /\ server'[c.scope].answers = stored
        /\ \A b \in Assessments : b # c.scope => server'[b] = server[b]
    BY <1>1, <2>1, <2>4 DEF AttemptPageInv, AttemptTypes
  <2>7. \A b \in Assessments : server'[b].answers \subseteq QuestionIndex(b)
    BY <2>2, <2>6 DEF AttemptPageInv, AttemptTypes
  <2>8. ~screen.torn /\ ~screen.draft =>
          server'[screen.scope].answers = server[screen.scope].answers
    BY <1>1, <1>2, <2>3, <2>6 DEF AttemptPageInv, OneAttemptCall, AnswersAreStored
  <2> QED BY <1>2, <2>1, <2>2, <2>5, <2>6, <2>7, <2>8, CallGoesOn
<1>4. CASE ~(row.status = "in_progress" /\ row.clock # "over")
  <2>1. Advances(c, "refused") /\ server' = server
    BY <1>4 DEF ServerSaves
  <2>2. server \in [Assessments -> AttemptRows]
    BY DEF AttemptPageInv, AttemptTypes
  <2> QED BY <1>2, <2>1, <2>2, StageChanges
<1> QED BY <1>3, <1>4

LEMMA ServerSubmitsStep ==
  ASSUME AttemptPageInv, NEW c \in calls, ServerSubmits(c)
  PROVE  AttemptPageInv'
<1> DEFINE row == server[c.scope]
           decided == CASE row.status # "in_progress" -> row.status
                        [] row.clock = "over"         -> "expired"
                        [] OTHER                      -> "submitted"
<1>1. /\ c \in AttemptCall /\ c.scope \in Assessments /\ row \in AttemptRows
  BY CallIs
<1>2. PICK status \in AttemptStatus : status = decided
  <2>1. row.status \in AttemptStatus
    BY <1>1 DEF AttemptRows
  <2> QED BY <2>1 DEF AttemptStatus
<1>3. c.kind = "submit" /\ screen' = screen /\ server' = [server EXCEPT ![c.scope].status = status]
      /\ Advances(c, IF status = "submitted" THEN "ok" ELSE "refused")
  BY <1>2 DEF ServerSubmits
<1>4. [row EXCEPT !.status = status] \in AttemptRows
      /\ [row EXCEPT !.status = status].answers = row.answers
  BY <1>1 DEF AttemptRows
<1>5. server' = [server EXCEPT ![c.scope] = [row EXCEPT !.status = status]]
  BY <1>3
<1> HIDE DEF row, decided
<1>6. /\ server' \in [Assessments -> AttemptRows]
      /\ \A b \in Assessments : server'[b].answers = server[b].answers
  BY <1>1, <1>4, <1>5, RowChanges DEF row
<1>7. PICK stage \in {"ok", "refused"} : Advances(c, stage)
  BY <1>3
<1> QED BY <1>3, <1>6, <1>7, StageChanges

LEMMA ReleaseForm ==
  ASSUME NEW p \in AttemptScreens, NEW c \in AttemptCall, TimerOf(p)
  PROVE  LET q == Release(p, c) IN
         /\ q \in AttemptScreens /\ TimerOf(q) /\ ~q.action
         /\ q.scope = p.scope /\ q.visit = p.visit /\ q.loading = p.loading
         /\ q.shown = p.shown /\ q.answers = p.answers /\ q.index = p.index
         /\ q.draft = p.draft /\ q.torn = p.torn
<1>1. CASE c.kind = "save"
  <2> DEFINE r == [p EXCEPT !.action = FALSE, !.saving = FALSE]
  <2>1. r \in AttemptScreens
    BY ZenonT(60) DEF AttemptScreens
  <2>2. /\ r.scope = p.scope /\ r.visit = p.visit /\ r.loading = p.loading
        /\ r.shown = p.shown /\ r.answers = p.answers /\ r.index = p.index
        /\ r.draft = p.draft /\ r.torn = p.torn /\ ~r.action /\ r.result = p.result
        /\ r.timer = p.timer /\ r.timerDraft = p.timerDraft
    BY DEF AttemptScreens
  <2>3. Release(p, c) = r
    BY <1>1 DEF Release
  <2> HIDE DEF r
  <2>4. TimerOf(r)
    BY <2>2 DEF TimerOf
  <2> QED BY <2>1, <2>2, <2>3, <2>4
<1>2. CASE c.kind # "save"
  <2> DEFINE r == [p EXCEPT !.action = FALSE, !.busy = FALSE]
  <2>1. r \in AttemptScreens
    BY ZenonT(60) DEF AttemptScreens
  <2>2. /\ r.scope = p.scope /\ r.visit = p.visit /\ r.loading = p.loading
        /\ r.shown = p.shown /\ r.answers = p.answers /\ r.index = p.index
        /\ r.draft = p.draft /\ r.torn = p.torn /\ ~r.action
    BY DEF AttemptScreens
  <2>3. Release(p, c) = TimerEffect(r)
    BY <1>2 DEF Release
  <2> HIDE DEF r
  <2> QED BY <2>1, <2>2, <2>3, TimerEffectForm DEF SameButTimer
<1> QED BY <1>1, <1>2

\* A call ends on the page that shows its attempt.
LEMMA EndsHeard ==
  ASSUME AttemptPageInv, NEW c \in calls, InScope(c), calls' = calls \ {c}, server' = server,
         screen' \in AttemptScreens, OfAttempt(screen'), TimerOf(screen'), ~screen'.action,
         screen'.scope = screen.scope, screen'.visit = screen.visit,
         screen'.torn = screen.torn, screen'.loading = screen.loading,
         ~screen.torn /\ screen'.shown /\ ~screen'.draft =>
           screen'.answers = server[screen.scope].answers
  PROVE  AttemptPageInv'
<1>1. IsFiniteSet(calls') /\ Cardinality(calls') = Cardinality(calls) - 1 /\ Cardinality(calls) \in Nat
  BY CallsCount DEF AttemptPageInv, AttemptTypes
<1>2. AttemptTypes'
  BY <1>1 DEF AttemptPageInv, AttemptTypes
<1>3. CallsPerVisit'
  <2>1. screen.visit \in Nat
    BY DEF AttemptPageInv, AttemptTypes, AttemptScreens
  <2> QED BY <1>1, <2>1 DEF AttemptPageInv, CallsPerVisit
<1>4. ~screen.torn => calls' = {} /\ ~screen.loading
  BY DEF AttemptPageInv, OneAttemptCall
<1>5. AttemptsWait' /\ OneAttemptCall' /\ AnswersAreStored'
  BY <1>4 DEF AttemptsWait, OneAttemptCall, AnswersAreStored
<1> QED BY <1>2, <1>3, <1>5 DEF AttemptPageInv

LEMMA SaveAnsweredStep ==
  ASSUME AttemptPageInv, NEW c \in calls, SaveAnswered(c)
  PROVE  AttemptPageInv'
<1> DEFINE onward == c.question \in 1..(NQuestions[c.scope] - 1) /\ c.scope \in AnswerFirst
<1>1. /\ c \in AttemptCall /\ c.scope \in Assessments /\ c.seen \subseteq QuestionIndex(c.scope)
      /\ c.question \in {0} \cup QuestionIndex(c.scope)
  BY CallIs
<1>2. c.kind = "save" /\ c.stage = "ok" /\ calls' = calls \ {c} /\ server' = server
  BY DEF SaveAnswered, Ended
<1>3. screen \in AttemptScreens /\ OfAttempt(screen) /\ TimerOf(screen)
  BY DEF AttemptPageInv, AttemptTypes
<1>4. CASE ~InScope(c)
  BY <1>2, <1>4, EndsUnheard DEF SaveAnswered
<1>5. CASE InScope(c)
  <2>1. screen.scope = c.scope
    BY <1>5 DEF InScope
  <2>2. NQuestions[c.scope] \in Nat /\ screen.index \in 1..(NQuestions[c.scope] + 1)
    BY <1>1, <1>3, <2>1, QuestionCount DEF OfAttempt
  <2>3. PICK i \in 1..(NQuestions[c.scope] + 1) :
          i = IF onward /\ screen.index <= NQuestions[c.scope] THEN screen.index + 1 ELSE screen.index
    BY <2>2
  <2>4. PICK x \in BOOLEAN : x = (screen.draft /\ c.question = 0)
    OBVIOUS
  <2> DEFINE kept == [screen EXCEPT !.answers = c.seen, !.draft = x, !.index = i]
             full == IF screen.shown THEN kept ELSE TimerEffect([kept EXCEPT !.shown = TRUE])
  <2>5. screen' = Release(full, c)
    BY <1>5, <2>3, <2>4 DEF SaveAnswered
  <2>6. c.seen \in SUBSET Nat /\ i \in Nat
    BY <1>1, <2>2, QuestionCount
  <2>7. kept \in AttemptScreens
    BY <1>3, <2>6, ZenonT(60) DEF AttemptScreens
  <2>8. /\ kept.scope = c.scope /\ kept.visit = screen.visit /\ kept.loading = screen.loading
        /\ kept.shown = screen.shown /\ kept.answers = c.seen /\ kept.index = i
        /\ kept.draft = x /\ kept.torn = screen.torn /\ kept.result = screen.result
        /\ kept.timer = screen.timer /\ kept.timerDraft = screen.timerDraft
    BY <1>3, <2>1 DEF AttemptScreens
  <2> HIDE DEF kept
  <2>9. TimerOf(kept)
    BY <1>3, <2>1, <2>8 DEF TimerOf
  <2> DEFINE over == [kept EXCEPT !.shown = TRUE]
  <2>10. over \in AttemptScreens
    BY <2>7, ZenonT(60) DEF AttemptScreens
  <2>11. /\ over.scope = c.scope /\ over.visit = screen.visit /\ over.loading = screen.loading
         /\ over.answers = c.seen /\ over.index = i /\ over.draft = x /\ over.torn = screen.torn
    BY <2>7, <2>8 DEF AttemptScreens
  <2>12. full = IF screen.shown THEN kept ELSE TimerEffect(over)
    OBVIOUS
  <2> HIDE DEF over, full
  <2>13. /\ full \in AttemptScreens /\ TimerOf(full)
         /\ full.scope = c.scope /\ full.visit = screen.visit /\ full.loading = screen.loading
         /\ full.answers = c.seen /\ full.index = i /\ full.draft = x /\ full.torn = screen.torn
    BY <2>7, <2>8, <2>9, <2>10, <2>11, <2>12, TimerEffectForm DEF SameButTimer
  <2>14. /\ screen' \in AttemptScreens /\ TimerOf(screen') /\ ~screen'.action
         /\ screen'.scope = c.scope /\ screen'.visit = screen.visit
         /\ screen'.loading = screen.loading /\ screen'.answers = c.seen /\ screen'.index = i
         /\ screen'.draft = x /\ screen'.torn = screen.torn
    BY <1>1, <2>5, <2>13, ReleaseForm
  <2>15. OfAttempt(screen')
    BY <1>1, <2>14 DEF OfAttempt
  <2>16. ~screen.torn => c.seen = server[screen.scope].answers
    BY <1>2 DEF AttemptPageInv, AnswersAreStored
  <2> QED BY <1>2, <1>5, <2>1, <2>14, <2>15, <2>16, EndsHeard
<1> QED BY <1>4, <1>5

\* A call ends without anything new about the answers.
LEMMA ReleasedStep ==
  ASSUME AttemptPageInv, NEW c \in calls, NEW r \in BOOLEAN,
         calls' = calls \ {c}, server' = server, InScope(c),
         c.kind = "submit" \/ r = screen.result,
         screen' = Release([screen EXCEPT !.result = r], c)
  PROVE  AttemptPageInv'
<1> DEFINE p == [screen EXCEPT !.result = r]
<1>1. c \in AttemptCall
  BY CallIs
<1>2. screen \in AttemptScreens /\ OfAttempt(screen) /\ TimerOf(screen)
  BY DEF AttemptPageInv, AttemptTypes
<1>3. p \in AttemptScreens
  BY <1>2, SMTT(40) DEF AttemptScreens
<1>4. /\ p.scope = screen.scope /\ p.visit = screen.visit /\ p.loading = screen.loading
      /\ p.shown = screen.shown /\ p.answers = screen.answers /\ p.index = screen.index
      /\ p.draft = screen.draft /\ p.torn = screen.torn /\ p.result = r
      /\ p.timer = screen.timer /\ p.timerDraft = screen.timerDraft
  BY <1>2 DEF AttemptScreens
<1>5. screen' = Release(p, c)
  OBVIOUS
<1> HIDE DEF p
<1>6. /\ screen' \in AttemptScreens /\ TimerOf(screen') /\ ~screen'.action
      /\ screen'.scope = screen.scope /\ screen'.visit = screen.visit
      /\ screen'.loading = screen.loading /\ screen'.shown = screen.shown
      /\ screen'.answers = screen.answers /\ screen'.index = screen.index
      /\ screen'.draft = screen.draft /\ screen'.torn = screen.torn
  <2>1. CASE c.kind = "submit"
    <3> DEFINE q == [p EXCEPT !.action = FALSE, !.busy = FALSE]
    <3>1. screen' = TimerEffect(q)
      BY <1>5, <2>1 DEF Release
    <3>2. q \in AttemptScreens
      BY <1>3, ZenonT(60) DEF AttemptScreens
    <3>3. /\ q.scope = screen.scope /\ q.visit = screen.visit /\ q.loading = screen.loading
          /\ q.shown = screen.shown /\ q.answers = screen.answers /\ q.index = screen.index
          /\ q.draft = screen.draft /\ q.torn = screen.torn /\ ~q.action
      BY <1>3, <1>4 DEF AttemptScreens
    <3> HIDE DEF q
    <3> QED BY <3>1, <3>2, <3>3, TimerEffectForm DEF SameButTimer
  <2>2. CASE r = screen.result
    <3>1. TimerOf(p)
      BY <1>2, <1>4, <2>2 DEF TimerOf
    <3> QED BY <1>1, <1>3, <1>4, <1>5, <3>1, ReleaseForm
  <2> QED BY <2>1, <2>2
<1>7. OfAttempt(screen')
  BY <1>2, <1>6 DEF OfAttempt
<1>8. ~screen.torn /\ screen.shown /\ ~screen.draft => screen.answers = server[screen.scope].answers
  BY DEF AttemptPageInv, AnswersAreStored
<1> QED BY <1>6, <1>7, <1>8, EndsHeard

LEMMA CallEndsStep ==
  ASSUME AttemptPageInv, NEW c \in calls, SubmitAnswered(c) \/ AttemptCallFails(c)
  PROVE  AttemptPageInv'
<1>1. calls' = calls \ {c} /\ server' = server
  BY DEF SubmitAnswered, AttemptCallFails, Ended
<1>2. CASE ~InScope(c)
  BY <1>1, <1>2, EndsUnheard DEF SubmitAnswered, AttemptCallFails
<1>3. CASE InScope(c) /\ SubmitAnswered(c)
  BY <1>1, <1>3, ReleasedStep DEF SubmitAnswered
<1>4. CASE InScope(c) /\ AttemptCallFails(c)
  <2>1. screen = [screen EXCEPT !.result = screen.result] /\ screen.result \in BOOLEAN
    BY DEF AttemptPageInv, AttemptTypes, AttemptScreens
  <2> QED BY <1>1, <1>4, <2>1, ReleasedStep DEF AttemptCallFails
<1> QED BY <1>2, <1>3, <1>4

LEMMA AttemptPageStep == AttemptPageInv /\ [AttemptPageNext]_tabVars => AttemptPageInv'
<1> SUFFICES ASSUME AttemptPageInv, [AttemptPageNext]_tabVars PROVE AttemptPageInv'
  OBVIOUS
<1>1. CASE UNCHANGED tabVars
  BY <1>1 DEF tabVars, AttemptPageInv, AttemptTypes, CallsPerVisit, AttemptsWait,
              OneAttemptCall, AnswersAreStored
<1>2. ASSUME NEW a \in Assessments, OpenAssessment(a) \/ ClockRuns(a) PROVE AttemptPageInv'
  BY <1>2, OpenAssessmentStep, ClockRunsStep
<1>3. CASE AttemptLoaded \/ AttemptLoadFails
  BY <1>3, LoadEnds
<1>4. CASE ChooseOption \/ ToggleReview
  BY <1>4, SaveStarts
<1>5. CASE AskSubmit
  BY <1>5, QuietMoves
<1>6. CASE ConfirmSubmit \/ TimerTick
  BY <1>6, LearnerSubmits
<1>7. CASE PreviousQuestion \/ NextQuestion \/ \E i \in QuestionIndex(screen.scope) : JumpToQuestion(i)
  BY <1>7, AttemptAnswering
<1>8. ASSUME NEW c \in calls,
             TokenArrives(c) \/ ServerSaves(c) \/ ServerSubmits(c)
             \/ SaveAnswered(c) \/ SubmitAnswered(c) \/ AttemptCallFails(c)
      PROVE  AttemptPageInv'
  BY <1>8, TokenStep, ServerSavesStep, ServerSubmitsStep, SaveAnsweredStep, CallEndsStep
<1> QED BY <1>1, <1>2, <1>3, <1>4, <1>5, <1>6, <1>7, <1>8 DEF AttemptPageNext

LEMMA AttemptPageStart == AttemptPageInit => AttemptPageInv
<1> SUFFICES ASSUME AttemptPageInit PROVE AttemptPageInv
  OBVIOUS
<1>1. PICK a \in Assessments : screen = FreshAttempt(a, 1, FALSE)
  BY DEF AttemptPageInit
<1>2. calls = {}
      /\ server = [b \in Assessments |-> [status |-> "none", answers |-> {}, clock |-> "running"]]
  BY DEF AttemptPageInit
<1>3. screen \in AttemptScreens
  BY <1>1, AttemptPageAssumption DEF FreshAttempt, AttemptScreens
<1>4. /\ screen.scope = a /\ screen.visit = 1 /\ ~screen.shown /\ screen.busy /\ ~screen.torn
      /\ screen.answers = {} /\ screen.index = 1 /\ ~screen.action /\ screen.timer = "none"
  BY <1>1 DEF FreshAttempt
<1>5. server \in [Assessments -> AttemptRows] /\ \A b \in Assessments : server[b].answers = {}
  BY <1>2 DEF AttemptRows, AttemptStatus
<1>6. IsFiniteSet(calls) /\ Cardinality(calls) = 0
  BY <1>2, FS_EmptySet
<1>7. AttemptTypes
  BY <1>2, <1>3, <1>4, <1>5, <1>6, QuestionCount DEF AttemptTypes, OfAttempt
<1>8. CallsPerVisit /\ AttemptsWait /\ OneAttemptCall /\ AnswersAreStored /\ TimerOf(screen)
  BY <1>2, <1>4, <1>6 DEF CallsPerVisit, AttemptsWait, OneAttemptCall, AnswersAreStored, TimerOf
<1> QED BY <1>7, <1>8 DEF AttemptPageInv

\* What the invariant says of the page.
LEMMA AttemptPageShown ==
  AttemptPageInv => AttemptPageTypeOK /\ ScoredIsShown /\ TimerStaysSet
<1> SUFFICES ASSUME AttemptPageInv PROVE AttemptPageTypeOK /\ ScoredIsShown /\ TimerStaysSet
  OBVIOUS
<1>1. AttemptPageTypeOK
  BY DEF AttemptPageTypeOK, AttemptPageInv, AttemptTypes, AttemptScreens, OfAttempt, Answers, AttemptRows
<1>2. ScoredIsShown
  BY DEF ScoredIsShown, AttemptPageInv, OneAttemptCall, AnswersAreStored
<1>3. TimerStaysSet
  BY DEF TimerStaysSet, AttemptPageInv, TimerOf
<1> QED BY <1>1, <1>2, <1>3

\* For any papers, any number of visits and of questions, and any order and loss of the
\* answers: what a submission will score is what the learner sees, and the timer of a
\* running attempt is not left dead (AssessmentAttemptPage.tsx).
THEOREM AttemptPageCorrect ==
  AttemptPageSpec => [](AttemptPageTypeOK /\ ScoredIsShown /\ TimerStaysSet)
BY AttemptPageStart, AttemptPageStep, AttemptPageShown, PTL DEF AttemptPageSpec

(***************************************************************************)
(* CoursePlayer: what is shown as done, and the progress shown.             *)
(***************************************************************************)
\* The types: the calls by their kind.
PlayerScreens ==
  [page : {"player"}, course : Courses, lesson : CourseLessonSet \cup {"none"},
   loaded : BOOLEAN, scope : LessonScopes \cup {NoScope}, reading : BOOLEAN,
   error : BOOLEAN, progress : LessonProgress, saved : 0..VideoEnd, at : 0..VideoEnd,
   ready : BOOLEAN, saving : BOOLEAN, answered : SUBSET QuestionIds,
   passed : SUBSET QuestionIds, question : QuestionIds \cup {"none"}, right : BOOLEAN,
   timers : SUBSET [question : QuestionIds, right : BOOLEAN],
   hurried : BOOLEAN, lost : BOOLEAN, writes : 0..MaxProgressWrites]
ProgressReads ==
  [kind : {"course"}, course : Courses, wanted : CourseLessonSet \cup {"none"}]
  \cup [kind : {"lesson"}, scope : LessonScopes, read : BOOLEAN, row : LessonProgress]
PositionWrites ==
  [kind : {"save"}, scope : LessonScopes, n : 0..MaxProgressWrites, quiet : BOOLEAN,
   completes : BOOLEAN, at : 0..VideoEnd, stage : {"sent", "stored"}, row : LessonProgress]
CompleteWrites ==
  [kind : {"complete"}, scope : LessonScopes, stage : {"token", "sent", "stored"},
   row : LessonProgress]
PlayerTypes ==
  /\ screen \in PlayerScreens
  /\ calls \subseteq ProgressReads \cup PositionWrites \cup CompleteWrites
  /\ server \in [LessonScopes -> LessonProgress]

\* The questions of a lesson that must be passed are passed, for whatever counts as done:
\* on the page, in the timers and calls under way, and in the rows of the server.
MustOf(lesson) == IF lesson \in DOMAIN VideoQuestions THEN VideoQuestions[lesson] \cap MustPass ELSE {}
PassedFor(scope) == MustOf(scope[2]) \subseteq screen.passed
RightsArePassed ==
  /\ screen.answered \cap MustPass \subseteq screen.passed
  /\ \A t \in screen.timers : t.right => t.question \in screen.passed
  /\ \A c \in calls : c.kind = "complete" \/ (c.kind = "save" /\ c.completes) => PassedFor(c.scope)
  /\ \A s \in LessonScopes : server[s].done => PassedFor(s)

\* One write is under way, while the page says so, and what it brings back is still the
\* server's row.
OneLessonWrite ==
  /\ \A c, d \in ProgressWrites(calls) : c = d
  /\ \A c \in ProgressWrites(calls) : screen.saving /\ (c.stage = "stored" => c.row = server[c.scope])

\* One answer is awaited, of the course or of the lesson that is selected; what was read
\* of the lesson is still the server's row, but for those who did not wait for a write.
OneLessonRead ==
  /\ \A c, d \in LessonReads : c = d
  /\ screen.loaded => screen.lesson \in CourseLessons[screen.course]
  /\ \A c \in calls : c.kind = "course" => c.course = screen.course /\ ~screen.loaded
  /\ \A c \in calls : c.kind = "lesson" =>
       /\ c.scope = SelectedScope(screen) /\ screen.scope = NoScope
       /\ ~screen.hurried =>
            /\ \A w \in ProgressWrites(calls) : w.scope # c.scope
            /\ c.read => c.row = server[c.scope]

\* The progress on the screen is the server's, or a write is about to bring it.
ShownIsStored ==
  LessonShown /\ ~screen.hurried /\ ~screen.lost =>
    \/ screen.progress = server[screen.scope]
    \/ \E w \in ProgressWrites(calls) : w.scope = screen.scope /\ w.stage = "stored"

PlayerInv == PlayerTypes /\ RightsArePassed /\ OneLessonWrite /\ OneLessonRead /\ ShownIsStored

LEMMA ScopeForm ==
  /\ \A course \in Courses : \A lesson \in CourseLessons[course] :
       /\ <<course, lesson>> \in LessonScopes /\ lesson \in CourseLessonSet
       /\ <<course, lesson>> # NoScope /\ lesson # "none"
  /\ NoScope \notin LessonScopes
<1>1. ASSUME NEW course \in Courses, NEW lesson \in CourseLessons[course]
      PROVE  <<course, lesson>> \in LessonScopes /\ lesson \in CourseLessonSet
             /\ <<course, lesson>> # NoScope /\ lesson # "none"
  <2>1. lesson \in CourseLessonSet /\ <<course, lesson>> \in LessonScopes
    BY DEF CourseLessonSet, LessonScopes
  <2>2. course # "none" /\ lesson # "none"
    BY <2>1, CoursePlayerAssumption
  <2> QED BY <2>1, <2>2 DEF NoScope
<1>2. NoScope \notin LessonScopes
  <2> SUFFICES ASSUME NoScope \in LessonScopes PROVE FALSE
    OBVIOUS
  <2>1. PICK course \in Courses : \E lesson \in CourseLessons[course] : NoScope = <<course, lesson>>
    BY DEF LessonScopes
  <2> QED BY <1>1, <2>1
<1> QED BY <1>1, <1>2

LEMMA LessonIsShown ==
  ASSUME PlayerInv, LessonShown
  PROVE  /\ screen.course \in Courses /\ screen.lesson \in CourseLessons[screen.course]
         /\ screen.scope \in LessonScopes /\ screen.scope = SelectedScope(screen)
         /\ SelectedScope(screen)[2] = screen.lesson
         /\ LessonReads = {}
<1>1. screen.course \in Courses /\ screen.lesson \in CourseLessons[screen.course]
  BY DEF PlayerInv, PlayerTypes, PlayerScreens, OneLessonRead, LessonShown
<1>2. screen.scope \in LessonScopes /\ screen.scope # NoScope
  BY <1>1, ScopeForm DEF LessonShown, SelectedScope
<1>3. LessonReads = {}
  BY <1>2 DEF LessonReads, PlayerInv, OneLessonRead, LessonShown
<1> QED BY <1>1, <1>2, <1>3 DEF LessonShown, SelectedScope

\* What no handler of the lesson changes but by saving.
SameLesson(q, p) ==
  /\ q.course = p.course /\ q.lesson = p.lesson /\ q.loaded = p.loaded /\ q.scope = p.scope
  /\ q.hurried = p.hurried

\* What the learner answered, as far as it counts.
AnswersCount(q, p) ==
  /\ p.passed \subseteq q.passed
  /\ q.answered \cap MustPass \subseteq q.passed
  /\ \A t \in q.timers : t.right => t.question \in q.passed

LEMMA OnlyTheScreen ==
  ASSUME PlayerInv, UNCHANGED <<calls, server>>, screen' \in PlayerScreens,
         SameLesson(screen', screen), AnswersCount(screen', screen),
         screen'.progress = screen.progress, screen'.saving = screen.saving,
         screen'.lost = screen.lost
  PROVE  PlayerInv'
<1>1. PlayerTypes'
  BY DEF PlayerInv, PlayerTypes
<1>2. RightsArePassed'
  BY DEF PlayerInv, RightsArePassed, AnswersCount, PassedFor
<1>3. OneLessonWrite'
  BY DEF PlayerInv, OneLessonWrite, ProgressWrites
<1>4. OneLessonRead'
  BY DEF PlayerInv, OneLessonRead, LessonReads, ProgressWrites, SameLesson, SelectedScope
<1>5. ShownIsStored'
  BY DEF PlayerInv, ShownIsStored, LessonShown, ProgressWrites, SameLesson, SelectedScope
<1> QED BY <1>1, <1>2, <1>3, <1>4, <1>5 DEF PlayerInv

\* A write begins, for the lesson on the screen.
LEMMA WriteStarts ==
  ASSUME PlayerInv, LessonShown, ~screen.saving, NEW c \in PositionWrites \cup CompleteWrites,
         c.scope = SelectedScope(screen), c.stage # "stored",
         c.kind = "complete" \/ c.completes => PassedFor(c.scope),
         calls' = calls \cup {c}, server' = server, screen' \in PlayerScreens,
         SameLesson(screen', screen), AnswersCount(screen', screen),
         screen'.progress = screen.progress, screen'.saving, screen'.lost = screen.lost
  PROVE  PlayerInv'
<1>1. ProgressWrites(calls) = {}
  BY DEF PlayerInv, OneLessonWrite
<1>2. LessonReads = {} /\ c.kind \in {"save", "complete"}
  BY LessonIsShown DEF PositionWrites, CompleteWrites
<1>3. ProgressWrites(calls') = {c} /\ LessonReads' = {}
  BY <1>1, <1>2 DEF ProgressWrites, LessonReads
<1>4. PlayerTypes'
  BY DEF PlayerInv, PlayerTypes
<1>5. RightsArePassed'
  BY DEF PlayerInv, RightsArePassed, AnswersCount, PassedFor
<1>6. OneLessonWrite'
  BY <1>3 DEF OneLessonWrite
<1>7. OneLessonRead'
  BY <1>3 DEF PlayerInv, OneLessonRead, LessonReads, SameLesson, SelectedScope
<1>8. ShownIsStored'
  BY <1>1 DEF PlayerInv, ShownIsStored, LessonShown, SameLesson, SelectedScope
<1> QED BY <1>4, <1>5, <1>6, <1>7, <1>8 DEF PlayerInv

\* A write is stored: from now on its answer is what the server holds.
LEMMA WriteIsStored ==
  ASSUME PlayerInv, NEW c \in calls, NEW d \in PositionWrites \cup CompleteWrites,
         c.kind \in {"save", "complete"}, c.stage # "stored", c.scope \in LessonScopes,
         d.kind = c.kind, d.scope = c.scope, d.stage = "stored",
         c.kind = "save" => d.completes = c.completes,
         NEW row \in LessonProgress, d.row = row,
         row.done => server[c.scope].done \/ c.kind = "complete",
         server' = [server EXCEPT ![c.scope] = row],
         calls' = (calls \ {c}) \cup {d}, screen' = screen
  PROVE  PlayerInv'
<1>1. ProgressWrites(calls) = {c} /\ screen.saving
  BY DEF PlayerInv, OneLessonWrite, ProgressWrites
<1>2. ProgressWrites(calls') = {d}
  BY <1>1 DEF ProgressWrites
<1>3. LessonReads' = LessonReads
  BY DEF LessonReads
<1>4. /\ server \in [LessonScopes -> LessonProgress] /\ server' \in [LessonScopes -> LessonProgress]
      /\ server'[c.scope] = row
      /\ \A s \in LessonScopes : s # c.scope => server'[s] = server[s]
  BY DEF PlayerInv, PlayerTypes
<1>5. PlayerTypes'
  BY <1>4 DEF PlayerInv, PlayerTypes
<1>6. RightsArePassed'
  <2>1. \A s \in LessonScopes : server'[s].done => PassedFor(s)
    BY <1>4 DEF PlayerInv, RightsArePassed
  <2>2. \A x \in calls' : x.kind = "complete" \/ (x.kind = "save" /\ x.completes) => PassedFor(x.scope)
    BY DEF PlayerInv, RightsArePassed
  <2> QED BY <2>1, <2>2 DEF PlayerInv, RightsArePassed, PassedFor
<1>7. OneLessonWrite'
  BY <1>1, <1>2, <1>4 DEF OneLessonWrite
<1>8. OneLessonRead'
  <2>1. \A x \in calls' : x.kind \in {"course", "lesson"} => x \in calls
    OBVIOUS
  <2>2. ASSUME NEW x \in calls', x.kind = "lesson", ~screen.hurried
        PROVE  c.scope # x.scope /\ (x.read => x.row = server'[x.scope])
    <3>1. x \in calls /\ x.scope # c.scope /\ (x.read => x.row = server[x.scope])
      BY <1>1, <2>1, <2>2 DEF PlayerInv, OneLessonRead
    <3>2. x.scope \in LessonScopes
      BY <3>1, <2>2 DEF PlayerInv, PlayerTypes, ProgressReads, PositionWrites, CompleteWrites
    <3> QED BY <1>4, <3>1, <3>2
  <2>3. \A x \in calls' : x.kind = "course" => x.course = screen.course /\ ~screen.loaded
    BY <2>1 DEF PlayerInv, OneLessonRead
  <2>4. \A x \in calls' : x.kind = "lesson" => x.scope = SelectedScope(screen) /\ screen.scope = NoScope
    BY <2>1 DEF PlayerInv, OneLessonRead
  <2>5. /\ \A x, y \in LessonReads' : x = y
        /\ screen.loaded => screen.lesson \in CourseLessons[screen.course]
    BY <1>3 DEF PlayerInv, OneLessonRead
  <2>6. \A w \in ProgressWrites(calls') : w.scope = c.scope
    BY <1>2
  <2> QED BY <2>2, <2>3, <2>4, <2>5, <2>6 DEF OneLessonRead, SelectedScope
<1>9. ShownIsStored'
  <2> SUFFICES ASSUME LessonShown, ~screen.hurried, ~screen.lost, screen.scope # c.scope
               PROVE  screen.progress = server'[screen.scope]
    BY <1>2 DEF ShownIsStored, LessonShown, SelectedScope
  <2>1. screen.progress = server[screen.scope] /\ screen.scope \in LessonScopes
    BY <1>1, LessonIsShown DEF PlayerInv, ShownIsStored
  <2> QED BY <1>4, <2>1
<1> QED BY <1>5, <1>6, <1>7, <1>8, <1>9 DEF PlayerInv

\* A write is over, or it goes on as the completion of its lesson.
LEMMA WriteIsOver ==
  ASSUME PlayerInv, NEW c \in calls, c.kind \in {"save", "complete"},
         NEW next \in SUBSET CompleteWrites, \A d, e \in next : d = e,
         \A d \in next : d.scope = c.scope /\ d.stage # "stored",
         next # {} => screen'.saving /\ (c.kind = "complete" \/ c.completes),
         calls' = (calls \ {c}) \cup next, server' = server, screen' \in PlayerScreens,
         SameLesson(screen', screen), AnswersCount(screen', screen),
         screen.lost => screen'.lost,
         IF SameScope(c) /\ c.stage = "stored"
         THEN screen'.lost \/ screen'.progress = c.row
         ELSE screen'.progress = screen.progress
  PROVE  PlayerInv'
<1>1. ProgressWrites(calls) = {c} /\ screen.saving /\ (c.stage = "stored" => c.row = server[c.scope])
  BY DEF PlayerInv, OneLessonWrite, ProgressWrites
<1>2. \A d \in next : d.kind = "complete" /\ d.scope = c.scope /\ d.stage # "stored"
  BY DEF CompleteWrites
<1>3. ProgressWrites(calls') = next
  BY <1>1, <1>2 DEF ProgressWrites
<1>4. LessonReads' = LessonReads
  BY <1>2 DEF LessonReads
<1>7. PlayerTypes'
  BY DEF PlayerInv, PlayerTypes
<1>8. RightsArePassed'
  BY <1>2 DEF PlayerInv, RightsArePassed, AnswersCount, PassedFor
<1>9. OneLessonWrite'
  BY <1>2, <1>3 DEF OneLessonWrite
<1>10. OneLessonRead'
  BY <1>1, <1>2, <1>3, <1>4 DEF PlayerInv, OneLessonRead, SameLesson, SelectedScope
<1>11. ShownIsStored'
  <2> SUFFICES ASSUME LessonShown, ~screen.hurried, ~screen.lost, ~screen'.lost
               PROVE  screen'.progress = server[screen.scope]
    BY DEF ShownIsStored, LessonShown, SameLesson, SelectedScope
  <2>1. screen.scope = SelectedScope(screen)
    BY DEF LessonShown
  <2>2. screen.progress = server[screen.scope] \/ (c.scope = screen.scope /\ c.stage = "stored")
    BY <1>1 DEF PlayerInv, ShownIsStored
  <2> QED BY <1>1, <2>1, <2>2 DEF SameScope
<1> QED BY <1>7, <1>8, <1>9, <1>10, <1>11 DEF PlayerInv

\* The progress of a lesson is asked for.
LEMMA ReadLessonStep ==
  ASSUME PlayerInv, NEW p \in PlayerScreens, NEW over \in SUBSET LessonReads,
         p.loaded, p.lesson \in CourseLessons[p.course],
         p.passed = screen.passed, p.answered = screen.answered, p.timers = screen.timers,
         p.saving = screen.saving, ReadLesson(p, over)
  PROVE  PlayerInv'
<1> DEFINE scope == SelectedScope(p)
           h == \E c \in ProgressWrites(calls) : c.scope = scope
           q == [p EXCEPT !.scope = NoScope, !.progress = NotStarted, !.error = FALSE,
                          !.reading = TRUE, !.ready = FALSE, !.at = 0, !.lost = FALSE,
                          !.hurried = h]
           r == [kind |-> "lesson", scope |-> scope, read |-> FALSE, row |-> NotStarted]
<1>1. screen' = q /\ calls' = (calls \ (over \cup LessonReads)) \cup {r} /\ server' = server
  BY DEF ReadLesson
<1>2. h \in BOOLEAN /\ NotStarted \in LessonProgress /\ 0 \in 0..VideoEnd
  BY CoursePlayerAssumption DEF NotStarted, LessonProgress
<1>3. scope \in LessonScopes
  BY ScopeForm DEF SelectedScope, PlayerScreens
<1> HIDE DEF h
<1>4. q \in PlayerScreens
  BY <1>2, ZenonT(60) DEF PlayerScreens
<1>5. /\ q.loaded /\ q.course = p.course /\ q.lesson = p.lesson /\ q.scope = NoScope
      /\ q.passed = p.passed /\ q.answered = p.answered /\ q.timers = p.timers
      /\ q.saving = p.saving /\ q.hurried = h
  BY DEF PlayerScreens
<1>6. r \in ProgressReads /\ r.kind = "lesson" /\ r.scope = scope /\ r.read = FALSE
  BY <1>2, <1>3 DEF ProgressReads
<1>7. SelectedScope(q) = scope
  BY <1>5 DEF SelectedScope
<1>8. scope # NoScope
  BY <1>3, ScopeForm
<1> HIDE DEF q, r, scope
<1>9. ProgressWrites(calls') = ProgressWrites(calls) /\ LessonReads' = {r}
      /\ \A c \in calls' : c = r \/ (c \in calls /\ c \notin LessonReads)
  BY <1>1, <1>6 DEF ProgressWrites, LessonReads
<1>10. PlayerTypes'
  BY <1>1, <1>4, <1>6 DEF PlayerInv, PlayerTypes
<1>11. RightsArePassed'
  BY <1>1, <1>5, <1>6 DEF PlayerInv, RightsArePassed, PassedFor
<1>12. OneLessonWrite'
  BY <1>1, <1>5, <1>9 DEF PlayerInv, OneLessonWrite
<1>13. OneLessonRead'
  <2>1. \A c \in calls' : c.kind = "course" => FALSE
    BY <1>6, <1>9 DEF LessonReads
  <2>2. \A c \in calls' : c.kind = "lesson" => c = r
    BY <1>9 DEF LessonReads
  <2>3. ~h => \A w \in ProgressWrites(calls) : w.scope # scope
    BY DEF h, scope
  <2> QED BY <1>1, <1>5, <1>6, <1>7, <1>9, <2>1, <2>2, <2>3 DEF OneLessonRead
<1>14. ShownIsStored'
  BY <1>1, <1>5, <1>7, <1>8 DEF ShownIsStored, LessonShown
<1> QED BY <1>10, <1>11, <1>12, <1>13, <1>14 DEF PlayerInv

LEMMA PlayerCallForms ==
  ASSUME PlayerInv, NEW c \in calls
  PROVE  /\ c.kind \in {"course", "lesson", "save", "complete"}
         /\ c.kind = "course" => c.course \in Courses
         /\ c.kind = "lesson" => /\ c \in ProgressReads /\ c.scope \in LessonScopes
                                 /\ c.row \in LessonProgress /\ c.read \in BOOLEAN
         /\ c.kind = "save" => /\ c \in PositionWrites /\ c.scope \in LessonScopes
                               /\ c.at \in 0..VideoEnd /\ c.completes \in BOOLEAN
                               /\ c.row \in LessonProgress /\ c.quiet \in BOOLEAN
         /\ c.kind = "complete" => /\ c \in CompleteWrites /\ c.scope \in LessonScopes
                                   /\ c.row \in LessonProgress
BY DEF PlayerInv, PlayerTypes, ProgressReads, PositionWrites, CompleteWrites

\* Two calls that are read, or written, are the same one.
LEMMA OpenCourseStep ==
  ASSUME PlayerInv, NEW course \in Courses, NEW wanted \in CourseLessonSet,
         OpenCourse(course, wanted)
  PROVE  PlayerInv'
<1> DEFINE r == CourseRead(course, wanted)
<1>1. calls' = (calls \ LessonReads) \cup {r} /\ server' = server
  BY DEF OpenCourse
<1>2. screen' = [screen EXCEPT !.course = course, !.lesson = wanted, !.loaded = FALSE,
                  !.scope = NoScope, !.error = FALSE, !.progress = NotStarted,
                  !.ready = FALSE, !.at = 0]
  BY DEF OpenCourse
<1>3. NotStarted \in LessonProgress /\ 0 \in 0..VideoEnd
  BY CoursePlayerAssumption DEF NotStarted, LessonProgress
<1>4. screen' \in PlayerScreens
  BY <1>2, <1>3 DEF PlayerInv, PlayerTypes, PlayerScreens
<1>5. /\ ~screen'.loaded /\ screen'.course = course
      /\ screen'.passed = screen.passed /\ screen'.answered = screen.answered
      /\ screen'.timers = screen.timers /\ screen'.saving = screen.saving
  BY <1>2 DEF PlayerInv, PlayerTypes, PlayerScreens
<1>6. r \in ProgressReads /\ r.kind = "course" /\ r.course = course
  BY DEF CourseRead, ProgressReads
<1> HIDE DEF r
<1>7. ProgressWrites(calls') = ProgressWrites(calls) /\ LessonReads' = {r}
      /\ \A c \in calls' : c = r \/ (c \in calls /\ c \notin LessonReads)
  BY <1>1, <1>6 DEF ProgressWrites, LessonReads
<1>8. PlayerTypes'
  BY <1>1, <1>4, <1>6 DEF PlayerInv, PlayerTypes
<1>9. RightsArePassed'
  BY <1>1, <1>5, <1>6 DEF PlayerInv, RightsArePassed, PassedFor
<1>10. OneLessonWrite'
  BY <1>1, <1>5, <1>7 DEF PlayerInv, OneLessonWrite
<1>11. OneLessonRead'
  <2>1. \A c \in calls' : c.kind = "lesson" => FALSE
    BY <1>6, <1>7 DEF LessonReads
  <2>2. \A c \in calls' : c.kind = "course" => c = r
    BY <1>7 DEF LessonReads
  <2> QED BY <1>5, <1>6, <1>7, <2>1, <2>2 DEF OneLessonRead
<1>12. ShownIsStored'
  BY <1>5 DEF ShownIsStored, LessonShown
<1> QED BY <1>8, <1>9, <1>10, <1>11, <1>12 DEF PlayerInv

LEMMA CourseArrivesStep ==
  ASSUME PlayerInv, NEW c \in calls, CourseArrives(c)
  PROVE  PlayerInv'
<1>1. c.kind = "course" /\ c.course = screen.course /\ c \in LessonReads /\ screen \in PlayerScreens
  BY DEF CourseArrives, PlayerInv, PlayerTypes, OneLessonRead, LessonReads
<1>2. PICK lesson \in CourseLessons[screen.course] :
        ReadLesson([screen EXCEPT !.loaded = TRUE, !.lesson = lesson], {c})
  BY <1>1 DEF CourseArrives
<1> DEFINE p == [screen EXCEPT !.loaded = TRUE, !.lesson = lesson]
<1>3. lesson \in CourseLessonSet
  BY <1>1, ScopeForm DEF PlayerScreens
<1>4. p \in PlayerScreens
  BY <1>1, <1>3, ZenonT(60) DEF PlayerScreens
<1>5. /\ p.loaded /\ p.lesson = lesson /\ p.course = screen.course
      /\ p.passed = screen.passed /\ p.answered = screen.answered /\ p.timers = screen.timers
      /\ p.saving = screen.saving
  BY <1>1 DEF PlayerScreens
<1>6. ReadLesson(p, {c}) /\ {c} \in SUBSET LessonReads
  BY <1>1, <1>2
<1> HIDE DEF p
<1> QED BY <1>4, <1>5, <1>6, ReadLessonStep

\* A read of a page that no longer asks for it, or none: nothing else is said of it.
LEMMA ReadIsOver ==
  ASSUME PlayerInv, NEW c \in LessonReads, calls' = calls \ {c}, server' = server,
         screen' \in PlayerScreens,
         screen'.passed = screen.passed, screen'.answered = screen.answered,
         screen'.timers = screen.timers, screen'.saving = screen.saving,
         screen'.course = screen.course, screen'.lesson = screen.lesson,
         screen'.loaded = screen.loaded, screen'.hurried = screen.hurried,
         ShownIsStored'
  PROVE  PlayerInv'
<1>1. ProgressWrites(calls') = ProgressWrites(calls) /\ LessonReads' = {}
  BY DEF ProgressWrites, LessonReads, PlayerInv, OneLessonRead
<1>2. PlayerTypes'
  BY DEF PlayerInv, PlayerTypes
<1>3. RightsArePassed'
  BY DEF PlayerInv, RightsArePassed, PassedFor
<1>4. OneLessonWrite'
  BY <1>1 DEF PlayerInv, OneLessonWrite
<1>5. OneLessonRead'
  BY <1>1 DEF PlayerInv, OneLessonRead, LessonReads
<1> QED BY <1>2, <1>3, <1>4, <1>5 DEF PlayerInv

LEMMA LessonReadsStep ==
  ASSUME PlayerInv, NEW c \in calls,
         CourseFails(c) \/ LessonRead(c) \/ LessonArrives(c) \/ LessonReadFails(c)
  PROVE  PlayerInv'
<1>1. ASSUME CourseFails(c) PROVE PlayerInv'
  <2>1. c \in LessonReads /\ calls' = calls \ {c} /\ UNCHANGED <<screen, server>>
    BY <1>1 DEF CourseFails, Ended, LessonReads
  <2>2. ProgressWrites(calls') = ProgressWrites(calls)
    BY <2>1 DEF ProgressWrites, LessonReads
  <2>3. ShownIsStored'
    BY <2>1, <2>2 DEF PlayerInv, ShownIsStored, LessonShown, SelectedScope
  <2>4. screen \in PlayerScreens
    BY DEF PlayerInv, PlayerTypes
  <2> QED BY <2>1, <2>3, <2>4, ReadIsOver
<1>2. ASSUME LessonRead(c) PROVE PlayerInv'
  <2> DEFINE d == [c EXCEPT !.read = TRUE, !.row = server[c.scope]]
  <2>1. c.kind = "lesson" /\ calls' = (calls \ {c}) \cup {d} /\ UNCHANGED <<screen, server>>
    BY <1>2 DEF LessonRead
  <2>2. c \in ProgressReads /\ c.scope \in LessonScopes
    BY <2>1, PlayerCallForms
  <2>3. server[c.scope] \in LessonProgress
    BY <2>2 DEF PlayerInv, PlayerTypes
  <2>4. /\ d \in ProgressReads /\ d.kind = "lesson" /\ d.scope = c.scope
        /\ d.row = server[c.scope]
    BY <2>1, <2>2, <2>3 DEF ProgressReads
  <2> HIDE DEF d
  <2>5. LessonReads = {c} /\ LessonReads' = {d} /\ ProgressWrites(calls') = ProgressWrites(calls)
    BY <2>1, <2>4 DEF PlayerInv, OneLessonRead, LessonReads, ProgressWrites
  <2>6. PlayerTypes'
    BY <2>1, <2>4 DEF PlayerInv, PlayerTypes
  <2>7. RightsArePassed'
    BY <2>1, <2>4 DEF PlayerInv, RightsArePassed, PassedFor
  <2>8. OneLessonWrite'
    BY <2>1, <2>5 DEF PlayerInv, OneLessonWrite
  <2>9. OneLessonRead'
    <3>1. \A x \in calls' : x.kind \in {"course", "lesson"} => x = d
      BY <2>5 DEF LessonReads
    <3>2. /\ c.scope = SelectedScope(screen) /\ screen.scope = NoScope
          /\ ~screen.hurried => \A w \in ProgressWrites(calls) : w.scope # c.scope
      BY <2>1 DEF PlayerInv, OneLessonRead
    <3>3. screen.loaded => screen.lesson \in CourseLessons[screen.course]
      BY DEF PlayerInv, OneLessonRead
    <3> QED BY <2>1, <2>4, <2>5, <3>1, <3>2, <3>3 DEF OneLessonRead, SelectedScope
  <2>10. ShownIsStored'
    BY <2>1, <2>5 DEF PlayerInv, ShownIsStored, LessonShown, SelectedScope
  <2> QED BY <2>6, <2>7, <2>8, <2>9, <2>10 DEF PlayerInv
<1>3. ASSUME LessonArrives(c) PROVE PlayerInv'
  <2>1. /\ c.kind = "lesson" /\ c.read /\ c \in LessonReads /\ calls' = calls \ {c}
        /\ server' = server
        /\ screen' = [screen EXCEPT !.scope = c.scope, !.progress = c.row, !.saved = c.row.at,
                                    !.reading = FALSE]
    BY <1>3 DEF LessonArrives, Ended, LessonReads
  <2>2. c.scope \in LessonScopes /\ c.row \in LessonProgress /\ c.row.at \in 0..VideoEnd
    BY <2>1, PlayerCallForms DEF LessonProgress
  <2>3. screen' \in PlayerScreens
    BY <2>1, <2>2 DEF PlayerInv, PlayerTypes, PlayerScreens
  <2>4. /\ screen'.passed = screen.passed /\ screen'.answered = screen.answered
        /\ screen'.timers = screen.timers /\ screen'.saving = screen.saving
        /\ screen'.course = screen.course /\ screen'.lesson = screen.lesson
        /\ screen'.loaded = screen.loaded /\ screen'.hurried = screen.hurried
        /\ screen'.progress = c.row /\ screen'.scope = c.scope
    BY <2>1 DEF PlayerInv, PlayerTypes, PlayerScreens
  <2>5. ~screen.hurried => c.row = server[c.scope]
    BY <2>1 DEF PlayerInv, OneLessonRead
  <2>6. ShownIsStored'
    BY <2>1, <2>4, <2>5 DEF ShownIsStored
  <2> QED BY <2>1, <2>3, <2>4, <2>6, ReadIsOver
<1>4. ASSUME LessonReadFails(c) PROVE PlayerInv'
  <2>1. /\ c.kind = "lesson" /\ c \in LessonReads /\ calls' = calls \ {c} /\ server' = server
        /\ screen' = [screen EXCEPT !.error = TRUE, !.reading = FALSE]
    BY <1>4 DEF LessonReadFails, Ended, LessonReads
  <2>2. screen' \in PlayerScreens
    BY <2>1 DEF PlayerInv, PlayerTypes, PlayerScreens
  <2>3. /\ screen'.passed = screen.passed /\ screen'.answered = screen.answered
        /\ screen'.timers = screen.timers /\ screen'.saving = screen.saving
        /\ screen'.course = screen.course /\ screen'.lesson = screen.lesson
        /\ screen'.loaded = screen.loaded /\ screen'.hurried = screen.hurried
        /\ screen'.progress = screen.progress /\ screen'.scope = screen.scope
        /\ screen'.lost = screen.lost
    BY <2>1 DEF PlayerInv, PlayerTypes, PlayerScreens
  <2>4. ProgressWrites(calls') = ProgressWrites(calls)
    BY <2>1 DEF ProgressWrites
  <2>5. ShownIsStored'
    BY <2>1, <2>3, <2>4 DEF PlayerInv, ShownIsStored, LessonShown, SelectedScope
  <2> QED BY <2>1, <2>2, <2>3, <2>5, ReadIsOver
<1> QED BY <1>1, <1>2, <1>3, <1>4

LEMMA SelectLessonStep ==
  ASSUME PlayerInv, NEW lesson, SelectLesson(lesson)
  PROVE  PlayerInv'
<1>1. screen.loaded /\ lesson \in CourseLessons[screen.course] /\ screen \in PlayerScreens
  BY DEF SelectLesson, PlayerInv, PlayerTypes
<1>2. CASE lesson = screen.lesson
  <2>1. /\ screen' = [screen EXCEPT !.scope = NoScope, !.ready = FALSE, !.at = 0]
        /\ UNCHANGED <<calls, server>>
    BY <1>2 DEF SelectLesson
  <2>2. 0 \in 0..VideoEnd
    BY CoursePlayerAssumption
  <2>3. screen' \in PlayerScreens
    BY <1>1, <2>1, <2>2, ZenonT(60) DEF PlayerScreens
  <2>4. /\ screen'.passed = screen.passed /\ screen'.answered = screen.answered
        /\ screen'.timers = screen.timers /\ screen'.saving = screen.saving
        /\ screen'.course = screen.course /\ screen'.lesson = screen.lesson
        /\ screen'.loaded = screen.loaded /\ screen'.hurried = screen.hurried
        /\ screen'.scope = NoScope
    BY <1>1, <2>1 DEF PlayerScreens
  <2>5. PlayerTypes' /\ RightsArePassed' /\ OneLessonWrite'
    BY <2>1, <2>3, <2>4 DEF PlayerInv, PlayerTypes, RightsArePassed, OneLessonWrite, PassedFor, ProgressWrites
  <2>6. OneLessonRead'
    BY <2>1, <2>4 DEF PlayerInv, OneLessonRead, LessonReads, ProgressWrites, SelectedScope
  <2>7. <<screen.course, screen.lesson>> # NoScope
    BY <1>1, <1>2, ScopeForm DEF PlayerScreens
  <2>8. ShownIsStored'
    BY <2>4, <2>7 DEF ShownIsStored, LessonShown, SelectedScope
  <2> QED BY <2>5, <2>6, <2>8 DEF PlayerInv
<1>3. CASE lesson # screen.lesson
  <2> DEFINE p == [screen EXCEPT !.lesson = lesson]
  <2>1. ReadLesson(p, {})
    BY <1>3 DEF SelectLesson
  <2>2. lesson \in CourseLessonSet
    BY <1>1, ScopeForm DEF PlayerScreens
  <2>3. p \in PlayerScreens
    BY <1>1, <2>2, SMTT(40) DEF PlayerScreens
  <2>4. /\ p.loaded /\ p.lesson = lesson /\ p.course = screen.course
        /\ p.passed = screen.passed /\ p.answered = screen.answered /\ p.timers = screen.timers
        /\ p.saving = screen.saving
    BY <1>1 DEF PlayerScreens
  <2> HIDE DEF p
  <2> QED BY <1>1, <2>1, <2>3, <2>4, ReadLessonStep
<1> QED BY <1>2, <1>3

LEMMA RetryLessonStep ==
  ASSUME PlayerInv, RetryLesson
  PROVE  PlayerInv'
<1>1. screen \in PlayerScreens /\ screen.loaded /\ screen.lesson \in CourseLessons[screen.course]
  BY DEF RetryLesson, PlayerInv, PlayerTypes, OneLessonRead
<1> QED BY <1>1, ReadLessonStep DEF RetryLesson

LEMMA Writing ==
  ASSUME PlayerInv, LessonShown, ~screen.saving, NEW p \in PlayerScreens,
         NEW c \in PositionWrites \cup CompleteWrites, Writes(p, c),
         c.scope = SelectedScope(screen), c.stage # "stored",
         c.kind = "complete" \/ c.completes => PassedFor(c.scope),
         SameLesson(p, screen), p.passed = screen.passed, p.answered = screen.answered,
         p.timers = screen.timers, p.progress = screen.progress, p.lost = screen.lost,
         p.writes = screen.writes
  PROVE  PlayerInv'
<1>1. /\ screen.writes < MaxProgressWrites /\ calls' = calls \cup {c} /\ server' = server
      /\ screen' = [p EXCEPT !.saving = TRUE, !.writes = @ + 1]
  BY DEF Writes
<1>2. p.writes + 1 \in 0..MaxProgressWrites
  BY <1>1, CoursePlayerAssumption DEF PlayerInv, PlayerTypes, PlayerScreens
<1>3. screen' \in PlayerScreens
  BY <1>1, <1>2, ZenonT(60) DEF PlayerScreens
<1>4. /\ screen'.saving /\ screen'.progress = p.progress /\ screen'.lost = p.lost
      /\ screen'.passed = p.passed /\ screen'.answered = p.answered /\ screen'.timers = p.timers
      /\ screen'.course = p.course /\ screen'.lesson = p.lesson /\ screen'.loaded = p.loaded
      /\ screen'.scope = p.scope /\ screen'.hurried = p.hurried
  BY <1>1 DEF PlayerScreens
<1>5. SameLesson(screen', screen) /\ AnswersCount(screen', screen)
  BY <1>4 DEF SameLesson, AnswersCount, PlayerInv, RightsArePassed
<1> QED BY <1>1, <1>3, <1>4, <1>5, WriteStarts

LEMMA PositionSaveForm ==
  ASSUME PlayerInv, LessonShown, NEW quiet \in BOOLEAN, NEW completes \in BOOLEAN,
         NEW at \in 0..VideoEnd
  PROVE  LET c == PositionSave(quiet, completes, at) IN
         /\ c \in PositionWrites /\ c.scope = SelectedScope(screen) /\ c.stage # "stored"
         /\ c.completes = completes /\ c.kind = "save"
<1>1. SelectedScope(screen) \in LessonScopes
  BY LessonIsShown
<1>2. screen.writes \in 0..MaxProgressWrites
  BY DEF PlayerInv, PlayerTypes, PlayerScreens
<1>3. NotStarted \in LessonProgress
  BY CoursePlayerAssumption DEF NotStarted, LessonProgress
<1> QED BY <1>1, <1>2, <1>3 DEF PositionSave, PositionWrites

LEMMA PositionSaves ==
  ASSUME PlayerInv, LessonShown, ~screen.saving, NEW p \in PlayerScreens,
         NEW quiet \in BOOLEAN, NEW completes \in BOOLEAN, NEW at \in 0..VideoEnd,
         Writes(p, PositionSave(quiet, completes, at)),
         completes => PassedFor(SelectedScope(screen)),
         SameLesson(p, screen), p.passed = screen.passed, p.answered = screen.answered,
         p.timers = screen.timers, p.progress = screen.progress, p.lost = screen.lost,
         p.writes = screen.writes
  PROVE  PlayerInv'
<1> DEFINE c == PositionSave(quiet, completes, at)
<1>1. /\ c \in PositionWrites /\ c.scope = SelectedScope(screen) /\ c.stage # "stored"
      /\ c.completes = completes /\ c.kind = "save"
  BY PositionSaveForm
<1>2. Writes(p, c)
  OBVIOUS
<1> HIDE DEF c
<1>3. c \in PositionWrites \cup CompleteWrites /\ (c.kind = "complete" \/ c.completes => PassedFor(c.scope))
  BY <1>1
<1> QED BY <1>1, <1>2, <1>3, Writing

LEMMA QuestionsAreAsked ==
  /\ QuestionsShown \subseteq QuestionIds
  /\ LessonShown => QuestionsShown \cap MustPass = MustOf(screen.lesson)
BY CoursePlayerAssumption DEF QuestionsShown, VideoShown, MustOf

LEMMA VideoStep ==
  ASSUME PlayerInv, PlayerReady \/ PauseEvent \/ \E t \in 0..VideoEnd : TimeUpdate(t)
  PROVE  PlayerInv'
<1>0. screen \in PlayerScreens
  BY DEF PlayerInv, PlayerTypes
<1>1. ASSUME PlayerReady PROVE PlayerInv'
  <2>1. UNCHANGED <<calls, server>> /\ screen' = [screen EXCEPT !.ready = TRUE, !.at = screen.progress.at]
    BY <1>1 DEF PlayerReady
  <2>2. screen.progress.at \in 0..VideoEnd
    BY <1>0 DEF PlayerScreens, LessonProgress
  <2>3. screen' \in PlayerScreens
    BY <1>0, <2>1, <2>2, ZenonT(60) DEF PlayerScreens
  <2>4. /\ screen'.saving = screen.saving /\ screen'.progress = screen.progress
        /\ screen'.lost = screen.lost /\ screen'.passed = screen.passed
        /\ screen'.answered = screen.answered /\ screen'.timers = screen.timers
        /\ screen'.course = screen.course /\ screen'.lesson = screen.lesson
        /\ screen'.loaded = screen.loaded /\ screen'.scope = screen.scope
        /\ screen'.hurried = screen.hurried
    BY <1>0, <2>1 DEF PlayerScreens
  <2>5. SameLesson(screen', screen) /\ AnswersCount(screen', screen)
    BY <2>4 DEF SameLesson, AnswersCount, PlayerInv, RightsArePassed
  <2> QED BY <2>1, <2>3, <2>4, <2>5, OnlyTheScreen
<1>2. ASSUME PauseEvent PROVE PlayerInv'
  <2>1. LessonShown /\ ~screen.saving /\ Writes(screen, PositionSave(FALSE, FALSE, screen.at))
    BY <1>2 DEF PauseEvent, MaySavePosition, VideoShown
  <2>2. screen.at \in 0..VideoEnd
    BY <1>0 DEF PlayerScreens
  <2> QED BY <1>0, <2>1, <2>2, PositionSaves DEF SameLesson
<1>3. ASSUME NEW t \in 0..VideoEnd, TimeUpdate(t) PROVE PlayerInv'
  <2>1. PICK q \in QuestionIds \cup {"none"} :
          LET moved == [screen EXCEPT !.at = t, !.question = q, !.right = FALSE]
          IN IF ~screen.saving /\ t > screen.saved
             THEN Writes(moved, PositionSave(TRUE, FALSE, t))
             ELSE screen' = moved /\ UNCHANGED <<calls, server>>
    BY <1>3, QuestionsAreAsked DEF TimeUpdate, DueAt
  <2> DEFINE moved == [screen EXCEPT !.at = t, !.question = q, !.right = FALSE]
  <2>2. IF ~screen.saving /\ t > screen.saved
        THEN Writes(moved, PositionSave(TRUE, FALSE, t))
        ELSE screen' = moved /\ UNCHANGED <<calls, server>>
    BY <2>1
  <2>3. moved \in PlayerScreens
    BY <1>0, ZenonT(60) DEF PlayerScreens
  <2>4. /\ moved.saving = screen.saving /\ moved.progress = screen.progress
        /\ moved.lost = screen.lost /\ moved.passed = screen.passed
        /\ moved.answered = screen.answered /\ moved.timers = screen.timers
        /\ moved.course = screen.course /\ moved.lesson = screen.lesson
        /\ moved.loaded = screen.loaded /\ moved.scope = screen.scope
        /\ moved.hurried = screen.hurried /\ moved.writes = screen.writes
    BY <1>0 DEF PlayerScreens
  <2> HIDE DEF moved
  <2>5. SameLesson(moved, screen) /\ AnswersCount(moved, screen)
    BY <2>4 DEF SameLesson, AnswersCount, PlayerInv, RightsArePassed
  <2>6. LessonShown
    BY <1>3 DEF TimeUpdate, VideoShown
  <2>7. CASE ~screen.saving /\ t > screen.saved
    <3>1. Writes(moved, PositionSave(TRUE, FALSE, t))
      BY <2>2, <2>7
    <3> QED BY <2>3, <2>4, <2>5, <2>6, <2>7, <3>1, PositionSaves
  <2>8. CASE ~(~screen.saving /\ t > screen.saved)
    <3>1. screen' = moved /\ UNCHANGED <<calls, server>>
      BY <2>2, <2>8
    <3> QED BY <2>3, <2>4, <2>5, <3>1, OnlyTheScreen
  <2> QED BY <2>7, <2>8
<1> QED BY <1>1, <1>2, <1>3

\* The questions over the video: an answer counts once it is right, or need not be.
LEMMA QuestionFields ==
  ASSUME PlayerInv
  PROVE  /\ screen.right \in BOOLEAN /\ screen.passed \in SUBSET QuestionIds
         /\ screen.answered \in SUBSET QuestionIds /\ screen.at \in 0..VideoEnd
         /\ screen.timers \in SUBSET [question : QuestionIds, right : BOOLEAN]
         /\ screen.question \in QuestionIds \cup {"none"}
         /\ screen.answered \cap MustPass \subseteq screen.passed
         /\ \A t \in screen.timers : t.right => t.question \in screen.passed
BY DEF PlayerInv, PlayerTypes, PlayerScreens, RightsArePassed

LEMMA AnswerQuestionStep ==
  ASSUME PlayerInv, NEW right \in BOOLEAN, AnswerQuestion(right)
  PROVE  PlayerInv'
<1> DEFINE ps == IF right THEN screen.passed \cup {screen.question} ELSE screen.passed
           ts == screen.timers \cup {[question |-> screen.question, right |-> right]}
<1>1. screen.question \in QuestionIds
  BY QuestionFields DEF AnswerQuestion, QuestionShown
<1>2. screen' = [screen EXCEPT !.right = right, !.passed = ps, !.timers = ts]
      /\ UNCHANGED <<calls, server>>
  BY DEF AnswerQuestion
<1>3. /\ ps \in SUBSET QuestionIds /\ ts \in SUBSET [question : QuestionIds, right : BOOLEAN]
      /\ screen.passed \subseteq ps /\ \A t \in ts : t.right => t.question \in ps
  BY <1>1, QuestionFields
<1> HIDE DEF ps, ts
<1>4. screen' \in PlayerScreens
  BY <1>2, <1>3 DEF PlayerInv, PlayerTypes, PlayerScreens
<1>5. /\ screen'.saving = screen.saving /\ screen'.progress = screen.progress
      /\ screen'.lost = screen.lost /\ screen'.passed = ps
      /\ screen'.answered = screen.answered /\ screen'.timers = ts
      /\ screen'.course = screen.course /\ screen'.lesson = screen.lesson
      /\ screen'.loaded = screen.loaded /\ screen'.scope = screen.scope
      /\ screen'.hurried = screen.hurried
  BY <1>2 DEF PlayerInv, PlayerTypes, PlayerScreens
<1>6. SameLesson(screen', screen) /\ AnswersCount(screen', screen)
  BY <1>3, <1>5, QuestionFields DEF SameLesson, AnswersCount
<1> QED BY <1>2, <1>4, <1>5, <1>6, OnlyTheScreen

LEMMA SkipQuestionStep ==
  ASSUME PlayerInv, SkipQuestion
  PROVE  PlayerInv'
<1> DEFINE as == screen.answered \cup {screen.question}
<1>1. screen.question \in QuestionIds /\ screen.question \notin MustPass
  BY QuestionFields DEF SkipQuestion, QuestionShown
<1>2. screen' = [screen EXCEPT !.answered = as, !.question = "none"] /\ UNCHANGED <<calls, server>>
  BY DEF SkipQuestion
<1>3. as \in SUBSET QuestionIds /\ as \cap MustPass \subseteq screen.passed
  BY <1>1, QuestionFields
<1> HIDE DEF as
<1>4. screen' \in PlayerScreens
  BY <1>2, <1>3 DEF PlayerInv, PlayerTypes, PlayerScreens
<1>5. /\ screen'.saving = screen.saving /\ screen'.progress = screen.progress
      /\ screen'.lost = screen.lost /\ screen'.passed = screen.passed
      /\ screen'.answered = as /\ screen'.timers = screen.timers
      /\ screen'.course = screen.course /\ screen'.lesson = screen.lesson
      /\ screen'.loaded = screen.loaded /\ screen'.scope = screen.scope
      /\ screen'.hurried = screen.hurried
  BY <1>2 DEF PlayerInv, PlayerTypes, PlayerScreens
<1>6. SameLesson(screen', screen) /\ AnswersCount(screen', screen)
  BY <1>3, <1>5, QuestionFields DEF SameLesson, AnswersCount
<1> QED BY <1>2, <1>4, <1>5, <1>6, OnlyTheScreen

LEMMA FeedbackOverStep ==
  ASSUME PlayerInv, NEW timer \in screen.timers, FeedbackOver(timer)
  PROVE  PlayerInv'
<1> DEFINE as == NowAnswered(timer.question, timer.right)
           ts == screen.timers \ {timer}
<1>1. timer.question \in QuestionIds /\ timer.right \in BOOLEAN
  BY QuestionFields
<1>2. as \in SUBSET QuestionIds /\ as \cap MustPass \subseteq screen.passed
  BY <1>1, QuestionFields DEF NowAnswered
<1>3. PICK at \in 0..VideoEnd : at = IF VideoShown /\ screen.ready /\ ~timer.right THEN 0 ELSE screen.at
  BY QuestionFields, CoursePlayerAssumption
<1>4. ts \in SUBSET [question : QuestionIds, right : BOOLEAN]
      /\ \A t \in ts : t.right => t.question \in screen.passed
  BY QuestionFields
<1>5. UNCHANGED <<calls, server>>
      /\ screen' = [screen EXCEPT !.timers = ts, !.answered = as, !.question = "none",
                                  !.right = FALSE, !.at = at]
  BY <1>3 DEF FeedbackOver
<1> HIDE DEF as, ts
<1>6. screen' \in PlayerScreens
  BY <1>2, <1>4, <1>5 DEF PlayerInv, PlayerTypes, PlayerScreens
<1>7. /\ screen'.saving = screen.saving /\ screen'.progress = screen.progress
      /\ screen'.lost = screen.lost /\ screen'.passed = screen.passed
      /\ screen'.answered = as /\ screen'.timers = ts
      /\ screen'.course = screen.course /\ screen'.lesson = screen.lesson
      /\ screen'.loaded = screen.loaded /\ screen'.scope = screen.scope
      /\ screen'.hurried = screen.hurried
  BY <1>5 DEF PlayerInv, PlayerTypes, PlayerScreens
<1>8. SameLesson(screen', screen) /\ AnswersCount(screen', screen)
  BY <1>2, <1>4, <1>7 DEF SameLesson, AnswersCount
<1> QED BY <1>5, <1>6, <1>7, <1>8, OnlyTheScreen

\* The button: the questions that must be passed were.
LEMMA CompleteLessonStep ==
  ASSUME PlayerInv, CompleteLesson
  PROVE  PlayerInv'
<1> DEFINE p == [screen EXCEPT !.error = FALSE]
<1>1. LessonShown /\ ~screen.saving
  BY DEF CompleteLesson
<1>2. PassedFor(SelectedScope(screen))
  <2>1. SelectedScope(screen)[2] = screen.lesson
    BY <1>1, LessonIsShown
  <2>2. MustOf(screen.lesson) \subseteq screen.answered \cap MustPass
    BY <1>1, QuestionsAreAsked DEF CompleteLesson, RequiredAnswered
  <2> QED BY <2>1, <2>2, QuestionFields DEF PassedFor
<1>3. screen \in PlayerScreens
  BY DEF PlayerInv, PlayerTypes
<1>4. p \in PlayerScreens
  BY <1>3, ZenonT(60) DEF PlayerScreens
<1>5. /\ p.saving = screen.saving /\ p.progress = screen.progress
      /\ p.lost = screen.lost /\ p.passed = screen.passed
      /\ p.answered = screen.answered /\ p.timers = screen.timers
      /\ p.course = screen.course /\ p.lesson = screen.lesson
      /\ p.loaded = screen.loaded /\ p.scope = screen.scope
      /\ p.hurried = screen.hurried /\ p.writes = screen.writes
  BY <1>3 DEF PlayerScreens
<1>6. \/ Writes(p, PositionSave(TRUE, TRUE, screen.at))
      \/ Writes(p, CompleteCall(SelectedScope(screen), "token"))
  BY DEF CompleteLesson
<1> HIDE DEF p
<1>7. SameLesson(p, screen)
  BY <1>5 DEF SameLesson
<1>8. CASE Writes(p, PositionSave(TRUE, TRUE, screen.at))
  BY <1>1, <1>2, <1>4, <1>5, <1>7, <1>8, QuestionFields, PositionSaves
<1>9. CASE Writes(p, CompleteCall(SelectedScope(screen), "token"))
  <2> DEFINE c == CompleteCall(SelectedScope(screen), "token")
  <2>1. SelectedScope(screen) \in LessonScopes /\ NotStarted \in LessonProgress
    BY <1>1, LessonIsShown, CoursePlayerAssumption DEF NotStarted, LessonProgress
  <2>2. /\ c \in CompleteWrites /\ c.scope = SelectedScope(screen) /\ c.stage # "stored"
        /\ c.kind = "complete"
    BY <2>1 DEF CompleteCall, CompleteWrites
  <2>3. Writes(p, c)
    BY <1>9
  <2> HIDE DEF c
  <2> QED BY <1>1, <1>2, <1>4, <1>5, <1>7, <2>2, <2>3, Writing
<1> QED BY <1>6, <1>8, <1>9

LEMMA StoredStep ==
  ASSUME PlayerInv, NEW c \in calls, PositionStored(c) \/ CompleteStored(c)
  PROVE  PlayerInv'
<1>0. c.scope \in LessonScopes /\ server \in [LessonScopes -> LessonProgress]
      /\ server[c.scope] \in LessonProgress
  BY PlayerCallForms DEF PositionStored, CompleteStored, PlayerInv, PlayerTypes
<1>1. ASSUME PositionStored(c) PROVE PlayerInv'
  <2> DEFINE row == [server[c.scope] EXCEPT !.at = c.at]
             d == [c EXCEPT !.stage = "stored", !.row = row]
  <2>1. c.kind = "save" /\ c.stage = "sent" /\ screen' = screen
        /\ server' = [server EXCEPT ![c.scope].at = c.at]
        /\ calls' = (calls \ {c}) \cup {[c EXCEPT !.stage = "stored", !.row = server'[c.scope]]}
    BY <1>1 DEF PositionStored
  <2>2. c \in PositionWrites /\ c.at \in 0..VideoEnd
    BY <2>1, PlayerCallForms
  <2>3. row \in LessonProgress /\ (row.done => server[c.scope].done \/ c.kind = "complete")
    BY <1>0, <2>2 DEF LessonProgress
  <2>4. server' = [server EXCEPT ![c.scope] = row] /\ server'[c.scope] = row
    BY <1>0, <2>1
  <2> HIDE DEF row
  <2>5. calls' = (calls \ {c}) \cup {d}
    BY <2>1, <2>4
  <2>6. /\ d \in PositionWrites /\ d.kind = c.kind /\ d.scope = c.scope /\ d.stage = "stored"
        /\ d.completes = c.completes /\ d.row = row
    BY <2>2, <2>3 DEF PositionWrites
  <2> HIDE DEF d
  <2>7. /\ d \in PositionWrites \cup CompleteWrites /\ c.kind \in {"save", "complete"}
        /\ c.stage # "stored" /\ (c.kind = "save" => d.completes = c.completes)
    BY <2>1, <2>6
  <2> QED BY <1>0, <2>1, <2>3, <2>4, <2>5, <2>6, <2>7, WriteIsStored
<1>2. ASSUME CompleteStored(c) PROVE PlayerInv'
  <2> DEFINE row == [server[c.scope] EXCEPT !.done = TRUE]
             d == [c EXCEPT !.stage = "stored", !.row = row]
  <2>1. c.kind = "complete" /\ c.stage = "sent" /\ screen' = screen
        /\ server' = [server EXCEPT ![c.scope].done = TRUE]
        /\ calls' = (calls \ {c}) \cup {[c EXCEPT !.stage = "stored", !.row = server'[c.scope]]}
    BY <1>2 DEF CompleteStored
  <2>2. c \in CompleteWrites
    BY <2>1, PlayerCallForms
  <2>3. row \in LessonProgress
    BY <1>0 DEF LessonProgress
  <2>4. server' = [server EXCEPT ![c.scope] = row] /\ server'[c.scope] = row
    BY <1>0, <2>1
  <2> HIDE DEF row
  <2>5. calls' = (calls \ {c}) \cup {d}
    BY <2>1, <2>4
  <2>6. /\ d \in CompleteWrites /\ d.kind = c.kind /\ d.scope = c.scope /\ d.stage = "stored"
        /\ d.row = row
    BY <2>2, <2>3 DEF CompleteWrites
  <2> HIDE DEF d
  <2>7. /\ d \in PositionWrites \cup CompleteWrites /\ c.kind \in {"save", "complete"}
        /\ c.stage # "stored" /\ (c.kind = "save" => d.completes = c.completes)
        /\ (row.done => server[c.scope].done \/ c.kind = "complete")
    BY <2>1, <2>6
  <2> QED BY <1>0, <2>1, <2>3, <2>4, <2>5, <2>6, <2>7, WriteIsStored
<1> QED BY <1>1, <1>2

LEMMA AfterSaveStep ==
  ASSUME PlayerInv, NEW c \in calls, c.kind = "save", NEW p \in PlayerScreens,
         SameLesson(p, screen), p.passed = screen.passed, p.answered = screen.answered,
         p.timers = screen.timers, p.saving = screen.saving, screen.lost => p.lost,
         IF SameScope(c) /\ c.stage = "stored" THEN p.lost \/ p.progress = c.row
         ELSE p.progress = screen.progress,
         AfterSave(p, c), server' = server
  PROVE  PlayerInv'
<1>1. screen.saving
  BY DEF PlayerInv, OneLessonWrite, ProgressWrites
<1>2. CASE c.completes /\ SameScope(c)
  <2> DEFINE next == {CompleteCall(c.scope, "token")}
  <2>1. screen' = p /\ calls' = (calls \ {c}) \cup next
    BY <1>2 DEF AfterSave
  <2>2. next \in SUBSET CompleteWrites /\ (\A d, e \in next : d = e)
        /\ \A d \in next : d.scope = c.scope /\ d.stage # "stored"
    <3>1. c.scope \in LessonScopes /\ NotStarted \in LessonProgress
      BY PlayerCallForms, CoursePlayerAssumption DEF NotStarted, LessonProgress
    <3> QED BY <3>1 DEF CompleteCall, CompleteWrites
  <2>3. AnswersCount(screen', screen) /\ SameLesson(screen', screen)
    BY <2>1, QuestionFields DEF AnswersCount
  <2> HIDE DEF next
  <2> QED BY <1>1, <1>2, <2>1, <2>2, <2>3, WriteIsOver
<1>3. CASE ~(c.completes /\ SameScope(c))
  <2>1. screen' = [p EXCEPT !.saving = FALSE] /\ calls' = calls \ {c}
    BY <1>3 DEF AfterSave, Ended
  <2>2. screen' \in PlayerScreens
    BY <2>1, ZenonT(60) DEF PlayerScreens
  <2>3. /\ screen'.progress = p.progress /\ screen'.lost = p.lost /\ screen'.passed = p.passed
        /\ screen'.answered = p.answered /\ screen'.timers = p.timers
        /\ screen'.course = p.course /\ screen'.lesson = p.lesson /\ screen'.loaded = p.loaded
        /\ screen'.scope = p.scope /\ screen'.hurried = p.hurried
    BY <2>1 DEF PlayerScreens
  <2>4. AnswersCount(screen', screen) /\ SameLesson(screen', screen)
    BY <2>3, QuestionFields DEF AnswersCount, SameLesson
  <2>5. {} \in SUBSET CompleteWrites /\ calls' = (calls \ {c}) \cup {}
    BY <2>1
  <2> QED BY <2>2, <2>3, <2>4, <2>5, WriteIsOver
<1> QED BY <1>2, <1>3

LEMMA PositionSavedStep ==
  ASSUME PlayerInv, NEW c \in calls, PositionSaved(c)
  PROVE  PlayerInv'
<1>0. c.kind = "save" /\ c.stage = "stored" /\ server' = server /\ screen \in PlayerScreens
  BY DEF PositionSaved, PlayerInv, PlayerTypes
<1>1. CASE SameScope(c)
  <2> DEFINE p == [screen EXCEPT !.progress = c.row, !.saved = c.row.at]
  <2>1. AfterSave(p, c)
    BY <1>1 DEF PositionSaved
  <2>2. c.row \in LessonProgress /\ c.row.at \in 0..VideoEnd
    BY <1>0, PlayerCallForms DEF LessonProgress
  <2>3. p \in PlayerScreens
    BY <1>0, <2>2, ZenonT(60) DEF PlayerScreens
  <2>4. /\ p.progress = c.row /\ p.lost = screen.lost /\ p.passed = screen.passed
        /\ p.answered = screen.answered /\ p.timers = screen.timers /\ p.saving = screen.saving
        /\ p.course = screen.course /\ p.lesson = screen.lesson /\ p.loaded = screen.loaded
        /\ p.scope = screen.scope /\ p.hurried = screen.hurried
    BY <1>0 DEF PlayerScreens
  <2> HIDE DEF p
  <2>5. SameLesson(p, screen)
    BY <2>4 DEF SameLesson
  <2> QED BY <1>0, <1>1, <2>1, <2>3, <2>4, <2>5, AfterSaveStep
<1>2. CASE ~SameScope(c)
  <2>1. AfterSave(screen, c)
    BY <1>2 DEF PositionSaved
  <2> QED BY <1>0, <1>2, <2>1, AfterSaveStep DEF SameLesson
<1> QED BY <1>1, <1>2

LEMMA PositionSaveFailsStep ==
  ASSUME PlayerInv, NEW c \in calls, PositionSaveFails(c)
  PROVE  PlayerInv'
<1>0. c.kind = "save" /\ server' = server /\ screen \in PlayerScreens
  BY DEF PositionSaveFails, PlayerInv, PlayerTypes
<1>1. PICK error \in BOOLEAN, lost \in BOOLEAN :
        /\ error = (screen.error \/ (SameScope(c) /\ ~c.quiet))
        /\ lost = (screen.lost \/ c.stage = "stored")
  OBVIOUS
<1> DEFINE p == [screen EXCEPT !.error = error, !.lost = lost]
<1>2. AfterSave(p, c)
  BY <1>1 DEF PositionSaveFails
<1>3. p \in PlayerScreens
  BY <1>0, ZenonT(60) DEF PlayerScreens
<1>4. /\ p.progress = screen.progress /\ p.lost = lost /\ p.passed = screen.passed
      /\ p.answered = screen.answered /\ p.timers = screen.timers /\ p.saving = screen.saving
      /\ p.course = screen.course /\ p.lesson = screen.lesson /\ p.loaded = screen.loaded
      /\ p.scope = screen.scope /\ p.hurried = screen.hurried
  BY <1>0 DEF PlayerScreens
<1> HIDE DEF p
<1>5. SameLesson(p, screen)
  BY <1>4 DEF SameLesson
<1> QED BY <1>0, <1>1, <1>2, <1>3, <1>4, <1>5, AfterSaveStep

\* A completion ends, and the page says of it what it may.
LEMMA CompletionEnds ==
  ASSUME PlayerInv, NEW c \in calls, c.kind = "complete", calls' = calls \ {c},
         server' = server, screen' \in PlayerScreens, SameLesson(screen', screen),
         screen'.passed = screen.passed, screen'.answered = screen.answered,
         screen'.timers = screen.timers, screen.lost => screen'.lost,
         IF SameScope(c) /\ c.stage = "stored"
         THEN screen'.lost \/ screen'.progress = c.row
         ELSE screen'.progress = screen.progress
  PROVE  PlayerInv'
<1>1. AnswersCount(screen', screen)
  BY QuestionFields DEF AnswersCount
<1>2. {} \in SUBSET CompleteWrites /\ calls' = (calls \ {c}) \cup {}
  OBVIOUS
<1> QED BY <1>1, <1>2, WriteIsOver

LEMMA CompleteSendsStep ==
  ASSUME PlayerInv, NEW c \in calls, CompleteSends(c)
  PROVE  PlayerInv'
<1>0. c.kind = "complete" /\ c.stage = "token" /\ server' = server /\ screen \in PlayerScreens
      /\ c \in CompleteWrites
  BY PlayerCallForms DEF CompleteSends, PlayerInv, PlayerTypes
<1>1. CASE SameScope(c)
  <2> DEFINE d == [c EXCEPT !.stage = "sent"]
             next == {d}
  <2>1. screen' = screen /\ calls' = (calls \ {c}) \cup next
    BY <1>1 DEF CompleteSends, Advances
  <2>2. d \in CompleteWrites /\ d.scope = c.scope /\ d.stage = "sent"
    BY <1>0 DEF CompleteWrites
  <2>3. next \in SUBSET CompleteWrites /\ (\A x, y \in next : x = y)
        /\ \A x \in next : x.scope = c.scope /\ x.stage # "stored"
    BY <2>2
  <2>4. screen.saving
    BY <1>0 DEF PlayerInv, OneLessonWrite, ProgressWrites
  <2>5. AnswersCount(screen', screen) /\ SameLesson(screen', screen)
    BY <2>1, QuestionFields DEF AnswersCount, SameLesson
  <2> HIDE DEF next
  <2> QED BY <1>0, <2>1, <2>3, <2>4, <2>5, WriteIsOver
<1>2. CASE ~SameScope(c)
  <2>1. screen' = [screen EXCEPT !.saving = FALSE] /\ calls' = calls \ {c}
    BY <1>2 DEF CompleteSends, Ended
  <2>2. screen' \in PlayerScreens
    BY <1>0, <2>1, ZenonT(60) DEF PlayerScreens
  <2>3. /\ screen'.progress = screen.progress /\ screen'.lost = screen.lost
        /\ screen'.passed = screen.passed
        /\ screen'.answered = screen.answered /\ screen'.timers = screen.timers
        /\ screen'.course = screen.course /\ screen'.lesson = screen.lesson
        /\ screen'.loaded = screen.loaded /\ screen'.scope = screen.scope
        /\ screen'.hurried = screen.hurried
    BY <1>0, <2>1 DEF PlayerScreens
  <2>4. SameLesson(screen', screen)
    BY <2>3 DEF SameLesson
  <2> QED BY <1>0, <1>2, <2>1, <2>2, <2>3, <2>4, CompletionEnds
<1> QED BY <1>1, <1>2

LEMMA CompletedStep ==
  ASSUME PlayerInv, NEW c \in calls, Completed(c)
  PROVE  PlayerInv'
<1>0. c.kind = "complete" /\ c.stage = "stored" /\ server' = server /\ screen \in PlayerScreens
      /\ c.row \in LessonProgress /\ calls' = calls \ {c}
  BY PlayerCallForms DEF Completed, Ended, PlayerInv, PlayerTypes
<1>1. PICK progress \in LessonProgress : progress = IF SameScope(c) THEN c.row ELSE screen.progress
  BY <1>0 DEF PlayerScreens
<1>2. screen' = [screen EXCEPT !.saving = FALSE, !.progress = progress]
  BY <1>0, <1>1 DEF Completed, PlayerScreens
<1>3. screen' \in PlayerScreens
  BY <1>0, <1>2, ZenonT(60) DEF PlayerScreens
<1>4. /\ screen'.progress = progress /\ screen'.lost = screen.lost
      /\ screen'.passed = screen.passed
      /\ screen'.answered = screen.answered /\ screen'.timers = screen.timers
      /\ screen'.course = screen.course /\ screen'.lesson = screen.lesson
      /\ screen'.loaded = screen.loaded /\ screen'.scope = screen.scope
      /\ screen'.hurried = screen.hurried
  BY <1>0, <1>2 DEF PlayerScreens
<1>5. SameLesson(screen', screen)
  BY <1>4 DEF SameLesson
<1> QED BY <1>0, <1>1, <1>3, <1>4, <1>5, CompletionEnds

LEMMA CompleteFailsStep ==
  ASSUME PlayerInv, NEW c \in calls, CompleteFails(c)
  PROVE  PlayerInv'
<1>0. c.kind = "complete" /\ server' = server /\ screen \in PlayerScreens /\ calls' = calls \ {c}
  BY DEF CompleteFails, Ended, PlayerInv, PlayerTypes
<1>1. PICK error \in BOOLEAN, lost \in BOOLEAN :
        error = (screen.error \/ SameScope(c)) /\ lost = (screen.lost \/ c.stage = "stored")
  OBVIOUS
<1>2. screen' = [screen EXCEPT !.saving = FALSE, !.error = error, !.lost = lost]
  BY <1>1 DEF CompleteFails
<1>3. screen' \in PlayerScreens
  BY <1>0, <1>2, ZenonT(60) DEF PlayerScreens
<1>4. /\ screen'.progress = screen.progress /\ screen'.lost = lost
      /\ screen'.passed = screen.passed
      /\ screen'.answered = screen.answered /\ screen'.timers = screen.timers
      /\ screen'.course = screen.course /\ screen'.lesson = screen.lesson
      /\ screen'.loaded = screen.loaded /\ screen'.scope = screen.scope
      /\ screen'.hurried = screen.hurried
  BY <1>0, <1>2 DEF PlayerScreens
<1>5. SameLesson(screen', screen)
  BY <1>4 DEF SameLesson
<1> QED BY <1>0, <1>1, <1>3, <1>4, <1>5, CompletionEnds

LEMMA PlayerStep == PlayerInv /\ [PlayerNext]_tabVars => PlayerInv'
<1> SUFFICES ASSUME PlayerInv, [PlayerNext]_tabVars PROVE PlayerInv'
  OBVIOUS
<1>1. CASE UNCHANGED tabVars
  BY <1>1 DEF tabVars, PlayerInv, PlayerTypes, RightsArePassed, OneLessonWrite, OneLessonRead, ShownIsStored,
              LessonReads, LessonShown, PassedFor, ProgressWrites, SelectedScope
<1>2. ASSUME NEW course \in Courses, NEW wanted \in CourseLessonSet, OpenCourse(course, wanted)
      PROVE  PlayerInv'
  BY <1>2, OpenCourseStep
<1>3. ASSUME CourseIndex \/ RetryLesson PROVE PlayerInv'
  BY <1>3, SelectLessonStep, RetryLessonStep DEF CourseIndex
<1>4. ASSUME LessonArticle PROVE PlayerInv'
  BY <1>4, VideoStep, AnswerQuestionStep, SkipQuestionStep, CompleteLessonStep
     DEF LessonArticle, QuestionOverlay
<1>5. ASSUME NEW timer \in screen.timers, FeedbackOver(timer) PROVE PlayerInv'
  BY <1>5, FeedbackOverStep
<1>6. ASSUME NEW c \in calls,
             \/ CourseArrives(c) \/ CourseFails(c) \/ LessonRead(c) \/ LessonArrives(c)
             \/ LessonReadFails(c) \/ PositionStored(c) \/ PositionSaved(c)
             \/ PositionSaveFails(c) \/ CompleteSends(c) \/ CompleteStored(c) \/ Completed(c)
             \/ CompleteFails(c)
      PROVE  PlayerInv'
  BY <1>6, CourseArrivesStep, LessonReadsStep, StoredStep, PositionSavedStep,
     PositionSaveFailsStep, CompleteSendsStep, CompletedStep, CompleteFailsStep
<1> QED BY <1>1, <1>2, <1>3, <1>4, <1>5, <1>6 DEF PlayerNext

LEMMA PlayerStart == PlayerInit => PlayerInv
<1> SUFFICES ASSUME PlayerInit PROVE PlayerInv
  OBVIOUS
<1>1. PICK course \in Courses, wanted \in CourseLessonSet \cup {"none"}, stored \in SUBSET QuestionIds :
       /\ screen =
            [page |-> "player", course |-> course, lesson |-> wanted, loaded |-> FALSE,
             scope |-> NoScope, reading |-> FALSE, error |-> FALSE, progress |-> NotStarted,
             saved |-> 0, at |-> 0, ready |-> FALSE, saving |-> FALSE, answered |-> stored,
             passed |-> stored, question |-> "none", right |-> FALSE, timers |-> {},
             hurried |-> FALSE, lost |-> FALSE, writes |-> 0]
       /\ calls = {CourseRead(course, wanted)}
  BY DEF PlayerInit
<1>2. NotStarted \in LessonProgress /\ 0 \in 0..VideoEnd /\ 0 \in 0..MaxProgressWrites
      /\ NotStarted.done = FALSE
  BY CoursePlayerAssumption DEF NotStarted, LessonProgress
<1>3. screen \in PlayerScreens
  BY <1>1, <1>2, SMTT(40) DEF PlayerScreens
<1>4. /\ screen.course = course /\ ~screen.loaded /\ screen.answered = stored
      /\ screen.passed = stored /\ screen.timers = {}
  BY <1>1
<1>5. CourseRead(course, wanted) \in ProgressReads /\ CourseRead(course, wanted).kind = "course"
      /\ CourseRead(course, wanted).course = course
  BY DEF CourseRead, ProgressReads
<1>6. server \in [LessonScopes -> LessonProgress] /\ \A s \in LessonScopes : server[s] = NotStarted
  BY <1>2 DEF PlayerInit
<1>7. PlayerTypes
  BY <1>1, <1>3, <1>5, <1>6 DEF PlayerTypes
<1>8. RightsArePassed
  BY <1>1, <1>2, <1>4, <1>5, <1>6 DEF RightsArePassed
<1>9. OneLessonWrite /\ OneLessonRead /\ ShownIsStored
  BY <1>1, <1>4, <1>5 DEF OneLessonWrite, OneLessonRead, ShownIsStored, LessonShown, LessonReads, ProgressWrites
<1> QED BY <1>7, <1>8, <1>9 DEF PlayerInv

\* What the invariant says of the player.
LEMMA PlayerShown == PlayerInv => PlayerTypeOK /\ DoneMeansPassed /\ ProgressIsTrue
<1> SUFFICES ASSUME PlayerInv PROVE PlayerTypeOK /\ DoneMeansPassed /\ ProgressIsTrue
  OBVIOUS
<1>1. PlayerTypeOK
  BY DEF PlayerTypeOK, PlayerInv, PlayerTypes, PlayerScreens
<1>2. DoneMeansPassed
  BY DEF DoneMeansPassed, PlayerInv, RightsArePassed, PassedFor, MustOf
<1>3. ProgressIsTrue
  BY DEF ProgressIsTrue, PlayerInv, ShownIsStored
<1> QED BY <1>1, <1>2, <1>3

\* CourseLearningPage.tsx and SharedVideoPlayer.tsx: for any courses, lessons and questions,
\* a lesson is done only when its questions that must be passed were, and the progress on
\* the screen is the lesson's own, however positions, answers and completions overlap.
THEOREM PlayerCorrect ==
  PlayerSpec => [](PlayerTypeOK /\ DoneMeansPassed /\ ProgressIsTrue)
BY PlayerStart, PlayerStep, PlayerShown, PTL DEF PlayerSpec

(***************************************************************************)
(* LearningSpace: the rows of the place that is selected, and starts that   *)
(* are repeated.                                                            *)
(***************************************************************************)
\* The types: the calls by their kind.
RowsOfSpace == [place : Placements \cup {NoPlace}, canStart : BOOLEAN]
SpaceScreens ==
  [page : {"space"}, away : BOOLEAN, user : BOOLEAN, taxonomy : BOOLEAN,
   path : SpacePaths \cup {"none"}, subject : SpaceSubjects \cup {"none"},
   tab : SpaceTabs, topic : TopicsOfSpace \cup {"none"},
   space : SpaceSubjects \cup {"none"}, spaceState : Wait,
   rows : RowsOfSpace,
   rowsScope : Placements \cup {NoPlace}, rowsState : Wait,
   deep : [subject : SpaceSubjects \cup {"none"}, topic : TopicsOfSpace \cup {"none"},
           state : Wait],
   starting : Placements \cup {NoPlace}, keys : [Placements -> 0..MaxStartKeys],
   made : 0..MaxStartKeys, opened : SUBSET StartKeys]
SpaceReadCalls ==
  [kind : {"taxonomy"}] \cup [kind : {"space"}, subject : SpaceSubjects]
  \cup [kind : {"places"}, scope : Placements, read : BOOLEAN, canStart : BOOLEAN]
  \cup [kind : {"topic"}, subject : SpaceSubjects, topic : TopicsOfSpace]
SpaceStarts ==
  [kind : {"start"}, place : Placements, path : SpacePaths, scope : Placements,
   key : 0..MaxStartKeys, stage : {"token", "sent", "stored"}, gone : BOOLEAN]
SpaceTypes == /\ screen \in SpaceScreens /\ calls \subseteq SpaceReadCalls \cup SpaceStarts
              /\ server \in [Placements -> SUBSET StartKeys]

\* The rows, and the calls that will bring them, are of the place asked for last.
RowsOfScope ==
  /\ screen.rows = NoRows \/ screen.rows.place = screen.rowsScope
  /\ \A c \in calls : c.kind = "places" => c.scope = screen.rowsScope

\* A topic that was found outside the list of its space belongs to the subject it was
\* looked for in.
DeepIsOf ==
  screen.deep.state = "idle" /\ screen.deep.subject # "none" =>
    screen.deep.topic \in SpaceTopics[screen.deep.subject]

\* One start is waited for, of the place whose button says so; what goes on when nobody
\* waits has its token already.
OneStart ==
  /\ \A c \in calls : c.kind = "start" /\ ~c.gone => screen.starting = c.place /\ ~screen.away
  /\ \A c, d \in calls : c.kind = "start" /\ d.kind = "start" /\ ~c.gone /\ ~d.gone => c = d
  /\ \A c \in calls : c.kind = "start" /\ c.stage = "token" => ~c.gone

\* A start carries the key of its place, which the place keeps until an attempt opened:
\* all that the server has beyond what was opened is that key.
StartsKeyed ==
  /\ \A c \in calls : c.kind = "start" /\ c.stage # "token" =>
       /\ c.key \in StartKeys /\ c.key \in screen.opened \cup {screen.keys[c.place]}
       /\ ~c.gone => c.key = screen.keys[c.place]
  /\ \A p \in Placements : server[p] \subseteq screen.opened \cup {screen.keys[p]}

\* Away from the page nothing is asked but by starts that went on.
AwayIsQuiet == screen.away => \A c \in calls : c.kind = "start"

SpaceInv == AwayIsQuiet /\ SpaceTypes /\ RowsOfScope /\ DeepIsOf /\ OneStart /\ StartsKeyed

\* What a render leaves alone, but for the tab and the topic.
Keeps(q, p) ==
  /\ q.user = p.user /\ q.taxonomy = p.taxonomy /\ q.path = p.path /\ q.subject = p.subject
  /\ q.keys = p.keys /\ q.made = p.made /\ q.opened = p.opened /\ q.starting = p.starting
  /\ q.away = p.away

SameAddress(q, p) == Keeps(q, p) /\ q.tab = p.tab /\ q.topic = p.topic

LEMMA KnownSubject ==
  ASSUME NEW p \in SpaceScreens, SubjectKnown(p)
  PROVE  p.subject \in SpaceSubjects
<1>1. p.path # "none" => p.path \in SpacePaths
  BY DEF SpaceScreens
<1> QED BY <1>1 DEF SubjectKnown, SpaceSubjects

LEMMA PlaceFields ==
  ASSUME NEW p \in SpaceScreens, NEW rows \in RowsOfSpace, NEW place \in Placements, NEW s \in Wait
  PROVE  [p EXCEPT !.rows = rows, !.rowsState = s, !.rowsScope = place] \in SpaceScreens
BY DEF SpaceScreens

LEMMA WantedIsPlace ==
  ASSUME NEW p \in SpaceScreens, PlacesWanted(p)
  PROVE  PlaceOf(p) \in Placements
BY DEF PlacesWanted

\* The effects of one render: they ask for what the address now names, and whether they
\* did for the placements is what the rows tell.
LEMMA EffectsForm ==
  ASSUME NEW old, NEW p \in SpaceScreens, NEW again
  PROVE  LET q == Effects(old, p, again) IN
         /\ q \in SpaceScreens /\ SameAddress(q, p)
         /\ q.deep = p.deep \/ q.deep.state = "busy"
         /\ IF again = "places" \/ PlaceDeps(p) # PlaceDeps(old)
            THEN q.rows = NoRows /\ (PlacesWanted(q) => q.rowsScope = PlaceOf(q))
            ELSE q.rows = p.rows /\ q.rowsScope = p.rowsScope
<1> DEFINE places == again = "places" \/ PlaceDeps(p) # PlaceDeps(old)
           p1 == IF again = "space" \/ SpaceDeps(p) # SpaceDeps(old) THEN SpaceEffect(p) ELSE p
           p2 == IF places THEN PlaceEffect(p1) ELSE p1
           q  == IF again = "topic" \/ TopicDeps(p2) # TopicDeps(old) THEN TopicEffect(p2) ELSE p2
<1>0. q = Effects(old, p, again)
  BY DEF Effects
<1>1. /\ p1 \in SpaceScreens /\ SameAddress(p1, p) /\ p1.rows = p.rows
      /\ p1.rowsScope = p.rowsScope /\ p1.deep = p.deep
  <2>1. SpaceEffect(p) \in SpaceScreens
    <3>1. PICK s \in {"busy", "idle"} : s = IF SubjectInScope(p) THEN "busy" ELSE "idle"
      OBVIOUS
    <3>2. [p EXCEPT !.space = "none", !.spaceState = s] \in SpaceScreens
      BY DEF SpaceScreens, Wait
    <3> QED BY <3>1, <3>2 DEF SpaceEffect
  <2>2. SameAddress(SpaceEffect(p), p) /\ SpaceEffect(p).rows = p.rows
        /\ SpaceEffect(p).rowsScope = p.rowsScope /\ SpaceEffect(p).deep = p.deep
    BY DEF SpaceEffect, SpaceScreens, SameAddress, Keeps
  <2> QED BY <2>1, <2>2 DEF SameAddress, Keeps
<1> HIDE DEF p1
<1>2. NoRows \in RowsOfSpace
  BY DEF NoRows, RowsOfSpace
<1>3. PlaceEffect(p1) \in SpaceScreens
  <2>1. CASE PlacesWanted(p1)
    <3>1. PICK place \in Placements : place = PlaceOf(p1)
      BY <1>1, <2>1, WantedIsPlace
    <3>2. [p1 EXCEPT !.rows = NoRows, !.rowsState = "busy", !.rowsScope = place] \in SpaceScreens
      BY <1>1, <1>2, <3>1, PlaceFields DEF Wait
    <3> QED BY <2>1, <3>1, <3>2 DEF PlaceEffect
  <2>2. CASE ~PlacesWanted(p1)
    <3>1. PICK s \in Wait : s = IF p1.rowsState = "busy" THEN "idle" ELSE p1.rowsState
      BY <1>1 DEF SpaceScreens, Wait
    <3>2. [p1 EXCEPT !.rows = NoRows, !.rowsState = s] \in SpaceScreens
      BY <1>1, <1>2, ZenonT(60) DEF SpaceScreens
    <3>3. PlaceEffect(p1) = [p1 EXCEPT !.rows = NoRows, !.rowsState = s]
      BY <1>1, <2>2, <3>1 DEF PlaceEffect, SpaceScreens
    <3> QED BY <3>2, <3>3
  <2> QED BY <2>1, <2>2
<1>4. /\ SameAddress(PlaceEffect(p1), p1) /\ PlaceEffect(p1).deep = p1.deep
      /\ PlaceEffect(p1).rows = NoRows
      /\ PlacesWanted(p1) => PlaceEffect(p1).rowsScope = PlaceOf(p1)
  BY <1>1 DEF PlaceEffect, SpaceScreens, SameAddress, Keeps
<1>5. /\ p2 \in SpaceScreens /\ SameAddress(p2, p1) /\ p2.deep = p1.deep
      /\ IF places THEN p2.rows = NoRows /\ (PlacesWanted(p1) => p2.rowsScope = PlaceOf(p1))
         ELSE p2.rows = p1.rows /\ p2.rowsScope = p1.rowsScope
  BY <1>1, <1>3, <1>4 DEF SameAddress, Keeps
<1> HIDE DEF p2, places
<1>6. TopicEffect(p2) \in SpaceScreens
  <2>1. CASE DeepWanted(p2)
    <3>1. p2.subject \in SpaceSubjects /\ TopicId(p2) \in TopicsOfSpace
      <4>1. p2.subject \in SpaceSubjects
        BY <1>5, <2>1, KnownSubject DEF DeepWanted, SubjectInScope
      <4>2. TopicId(p2) = p2.topic /\ p2.topic # "none"
        BY <2>1 DEF DeepWanted, TopicId
      <4> QED BY <1>5, <4>1, <4>2 DEF SpaceScreens
    <3>2. PICK t \in TopicsOfSpace : t = TopicId(p2)
      BY <3>1
    <3>3. [p2 EXCEPT !.deep = [subject |-> p2.subject, topic |-> t, state |-> "busy"]] \in SpaceScreens
      BY <1>5, <3>1 DEF SpaceScreens, Wait
    <3> QED BY <2>1, <3>2, <3>3 DEF TopicEffect
  <2> QED BY <1>5, <2>1 DEF TopicEffect
<1>7. /\ SameAddress(TopicEffect(p2), p2) /\ TopicEffect(p2).rows = p2.rows
      /\ TopicEffect(p2).rowsScope = p2.rowsScope
      /\ TopicEffect(p2).deep = p2.deep \/ TopicEffect(p2).deep.state = "busy"
  BY <1>5 DEF TopicEffect, SpaceScreens, SameAddress, Keeps
<1>8. /\ q \in SpaceScreens /\ SameAddress(q, p2) /\ q.rows = p2.rows
      /\ q.rowsScope = p2.rowsScope /\ (q.deep = p2.deep \/ q.deep.state = "busy")
  BY <1>5, <1>6, <1>7 DEF SameAddress, Keeps
<1> HIDE DEF q
<1>9. SameAddress(q, p) /\ SameAddress(q, p1)
  BY <1>1, <1>5, <1>8 DEF SameAddress, Keeps
<1>10. PlacesWanted(q) = PlacesWanted(p1) /\ PlaceOf(q) = PlaceOf(p1)
  BY <1>9 DEF PlacesWanted, SubjectInScope, SubjectKnown, PlaceOf, SameAddress, Keeps
<1>11. q.deep = p.deep \/ q.deep.state = "busy"
  BY <1>1, <1>5, <1>8
<1>12. IF places THEN q.rows = NoRows /\ (PlacesWanted(q) => q.rowsScope = PlaceOf(q))
       ELSE q.rows = p.rows /\ q.rowsScope = p.rowsScope
  BY <1>1, <1>5, <1>8, <1>10
<1> QED BY <1>0, <1>8, <1>9, <1>11, <1>12 DEF places

\* What becomes of the page when p is rendered.
Rendered(p, over) ==
  /\ screen' \in SpaceScreens /\ Keeps(screen', p) /\ server' = server
  /\ calls' \subseteq (calls \ over) \cup SpaceReadCalls
  /\ screen'.deep = p.deep \/ screen'.deep.state = "busy"
  /\ \/ /\ screen'.rows = NoRows
        /\ \A c \in calls' : c.kind = "places" => c.scope = screen'.rowsScope
     \/ /\ screen'.rows = p.rows /\ screen'.rowsScope = p.rowsScope
        /\ \A c \in calls' : c.kind = "places" => c \in calls \ over

LEMMA AllowedTabForm ==
  ASSUME NEW p \in SpaceScreens
  PROVE  OnAllowedTab(p) \in SpaceScreens /\ Keeps(OnAllowedTab(p), p)
         /\ OnAllowedTab(p).rows = p.rows /\ OnAllowedTab(p).rowsScope = p.rowsScope
         /\ OnAllowedTab(p).deep = p.deep
<1>1. CASE TabAllowed(p, p.tab)
  BY <1>1 DEF OnAllowedTab, Keeps
<1>2. CASE ~TabAllowed(p, p.tab)
  <2>1. p.subject \in SpaceSubjects
    BY <1>2, KnownSubject DEF TabAllowed
  <2>2. PICK tab \in SpaceTabs : tab = FirstTab[p.subject]
    BY <2>1, LearningSpaceAssumption
  <2>3. [p EXCEPT !.tab = tab, !.topic = "none"] \in SpaceScreens
    BY ZenonT(60) DEF SpaceScreens
  <2>4. OnAllowedTab(p) = [p EXCEPT !.tab = tab, !.topic = "none"]
    BY <1>2, <2>2 DEF OnAllowedTab
  <2> QED BY <2>3, <2>4 DEF SpaceScreens, Keeps
<1> QED BY <1>1, <1>2

LEMMA RequestsForm ==
  ASSUME NEW p \in SpaceScreens
  PROVE  /\ SpaceRequest(p) \subseteq SpaceReadCalls /\ PlaceRequest(p) \subseteq SpaceReadCalls
         /\ TopicRequest(p) \subseteq SpaceReadCalls
         /\ \A c \in SpaceRequest(p) \cup TopicRequest(p) : c.kind # "places"
         /\ \A c \in PlaceRequest(p) : c.kind = "places" /\ PlacesWanted(p) /\ c.scope = PlaceOf(p)
<1>1. ASSUME SubjectInScope(p)
      PROVE  [kind |-> "space", subject |-> p.subject] \in SpaceReadCalls
  BY <1>1, KnownSubject DEF SubjectInScope, SpaceReadCalls
<1>2. ASSUME PlacesWanted(p)
      PROVE  [kind |-> "places", scope |-> PlaceOf(p), read |-> FALSE, canStart |-> FALSE] \in SpaceReadCalls
  BY <1>2, WantedIsPlace DEF SpaceReadCalls
<1>3. ASSUME DeepWanted(p)
      PROVE  [kind |-> "topic", subject |-> p.subject, topic |-> TopicId(p)] \in SpaceReadCalls
  <2>1. p.subject \in SpaceSubjects
    BY <1>3, KnownSubject DEF DeepWanted, SubjectInScope
  <2>2. TopicId(p) = p.topic /\ p.topic # "none"
    BY <1>3 DEF DeepWanted, TopicId
  <2>3. p.topic \in TopicsOfSpace
    BY <2>2 DEF SpaceScreens
  <2> QED BY <2>1, <2>2, <2>3 DEF SpaceReadCalls
<1>4. SpaceRequest(p) \subseteq SpaceReadCalls /\ \A c \in SpaceRequest(p) : c.kind # "places"
  BY <1>1 DEF SpaceRequest
<1>5. /\ PlaceRequest(p) \subseteq SpaceReadCalls
      /\ \A c \in PlaceRequest(p) : c.kind = "places" /\ PlacesWanted(p) /\ c.scope = PlaceOf(p)
  <2> DEFINE rec == [kind |-> "places", scope |-> PlaceOf(p), read |-> FALSE, canStart |-> FALSE]
  <2>1. rec.kind = "places" /\ rec.scope = PlaceOf(p)
    OBVIOUS
  <2>2. PlaceRequest(p) = IF PlacesWanted(p) THEN {rec} ELSE {}
    BY DEF PlaceRequest
  <2>3. PlacesWanted(p) => rec \in SpaceReadCalls
    BY <1>2
  <2> HIDE DEF rec
  <2> QED BY <2>1, <2>2, <2>3
<1>6. TopicRequest(p) \subseteq SpaceReadCalls /\ \A c \in TopicRequest(p) : c.kind # "places"
  BY <1>3 DEF TopicRequest
<1> QED BY <1>4, <1>5, <1>6

LEMMA RendersForm ==
  ASSUME NEW p \in SpaceScreens, NEW over, NEW again, Renders(p, over, again)
  PROVE  Rendered(p, over)
<1> DEFINE first  == Effects(screen, p, again)
           last   == IF TabAllowed(p, p.tab) THEN first ELSE Effects(first, OnAllowedTab(first), "none")
           space  == again = "space" \/ SpaceDeps(first) # SpaceDeps(screen) \/ SpaceDeps(last) # SpaceDeps(first)
           places == again = "places" \/ PlaceDeps(first) # PlaceDeps(screen) \/ PlaceDeps(last) # PlaceDeps(first)
           topic  == again = "topic" \/ TopicDeps(first) # TopicDeps(screen) \/ TopicDeps(last) # TopicDeps(first)
           kept   == (calls \ (over \cup (IF space THEN AbortedRead("space") ELSE {})
                               \cup (IF places THEN AbortedRead("places") ELSE {})
                               \cup (IF topic THEN AbortedRead("topic") ELSE {})))
           added  == (IF space THEN SpaceRequest(last) ELSE {})
                       \cup (IF places THEN PlaceRequest(last) ELSE {})
                       \cup (IF topic THEN TopicRequest(last) ELSE {})
<1>1. screen' = last /\ calls' = kept \cup added /\ server' = server
  <2>1. RendersTo(first, last, over, again)
    BY DEF Renders
  <2> QED BY <2>1 DEF RendersTo
<1>2. /\ first \in SpaceScreens /\ SameAddress(first, p)
      /\ first.deep = p.deep \/ first.deep.state = "busy"
      /\ IF again = "places" \/ PlaceDeps(p) # PlaceDeps(screen)
         THEN first.rows = NoRows /\ (PlacesWanted(first) => first.rowsScope = PlaceOf(first))
         ELSE first.rows = p.rows /\ first.rowsScope = p.rowsScope
  BY EffectsForm
<1>3. PlaceDeps(p) = PlaceDeps(first)
  BY <1>2 DEF SameAddress, Keeps, PlaceDeps, PlaceOf, SubjectInScope, SubjectKnown
<1>4. /\ last \in SpaceScreens /\ Keeps(last, p)
      /\ last.deep = p.deep \/ last.deep.state = "busy"
      /\ IF places
         THEN last.rows = NoRows /\ (PlacesWanted(last) => last.rowsScope = PlaceOf(last))
         ELSE last.rows = p.rows /\ last.rowsScope = p.rowsScope
  <2> HIDE DEF first
  <2>1. CASE TabAllowed(p, p.tab)
    BY <1>2, <1>3, <2>1 DEF SameAddress
  <2>2. CASE ~TabAllowed(p, p.tab)
    <3> DEFINE moved == OnAllowedTab(first)
               second == Effects(first, moved, "none")
    <3>1. moved \in SpaceScreens /\ Keeps(moved, first) /\ moved.rows = first.rows
          /\ moved.rowsScope = first.rowsScope /\ moved.deep = first.deep
      BY <1>2, AllowedTabForm
    <3> HIDE DEF moved
    <3>2. /\ second \in SpaceScreens /\ SameAddress(second, moved)
          /\ second.deep = moved.deep \/ second.deep.state = "busy"
          /\ IF PlaceDeps(moved) # PlaceDeps(first)
             THEN second.rows = NoRows /\ (PlacesWanted(second) => second.rowsScope = PlaceOf(second))
             ELSE second.rows = moved.rows /\ second.rowsScope = moved.rowsScope
      BY <3>1, EffectsForm
    <3>3. last = second
      BY <2>2 DEF moved
    <3> HIDE DEF second, last
    <3>4. PlaceDeps(second) = PlaceDeps(moved)
      BY <3>2 DEF SameAddress, Keeps, PlaceDeps, PlaceOf, SubjectInScope, SubjectKnown
    <3>5. Keeps(second, p)
      BY <1>2, <3>1, <3>2 DEF SameAddress, Keeps
    <3>6. second.deep = p.deep \/ second.deep.state = "busy"
      BY <1>2, <3>1, <3>2
    <3>7. CASE PlaceDeps(moved) # PlaceDeps(first)
      BY <3>2, <3>3, <3>4, <3>5, <3>6, <3>7
    <3>8. CASE PlaceDeps(moved) = PlaceDeps(first)
      <4>1. second.rows = first.rows /\ second.rowsScope = first.rowsScope
        BY <3>1, <3>2, <3>8
      <4>2. PlacesWanted(second) = PlacesWanted(first) /\ PlaceOf(second) = PlaceOf(first)
        BY <3>4, <3>8 DEF PlaceDeps, PlacesWanted
      <4> QED BY <1>2, <1>3, <3>2, <3>3, <3>4, <3>5, <3>6, <3>8, <4>1, <4>2
    <3> QED BY <3>7, <3>8
  <2> QED BY <2>1, <2>2
<1> HIDE DEF last, first
<1>5. /\ added \subseteq SpaceReadCalls
      /\ \A c \in added : c.kind = "places" => places /\ PlacesWanted(last) /\ c.scope = PlaceOf(last)
  BY <1>4, RequestsForm
<1>6. kept \subseteq calls \ over /\ (places => \A c \in kept : c.kind # "places")
  BY DEF AbortedRead, SpaceReads
<1> HIDE DEF kept, added, places
<1>7. calls' \subseteq (calls \ over) \cup SpaceReadCalls
  BY <1>1, <1>5, <1>6
<1>8. CASE places
  <2>1. \A c \in calls' : c.kind = "places" => c.scope = last.rowsScope
    BY <1>1, <1>4, <1>5, <1>6, <1>8
  <2> QED BY <1>1, <1>4, <1>7, <1>8, <2>1 DEF Rendered
<1>9. CASE ~places
  <2>1. \A c \in calls' : c.kind = "places" => c \in calls \ over
    BY <1>1, <1>5, <1>6, <1>9
  <2> QED BY <1>1, <1>4, <1>7, <1>9, <2>1 DEF Rendered
<1> QED BY <1>8, <1>9

LEMMA SpaceCallForms ==
  ASSUME SpaceTypes, NEW c \in calls
  PROVE  /\ c.kind = "space" => c \in [kind : {"space"}, subject : SpaceSubjects]
         /\ c.kind = "places" => c \in [kind : {"places"}, scope : Placements, read : BOOLEAN, canStart : BOOLEAN]
         /\ c.kind = "topic" => c \in [kind : {"topic"}, subject : SpaceSubjects, topic : TopicsOfSpace]
         /\ c.kind = "start" => c \in SpaceStarts
BY DEF SpaceTypes, SpaceReadCalls, SpaceStarts

\* A render keeps the invariant, if what it shows was true of what it is rendered for.
LEMMA RenderedStep ==
  ASSUME SpaceInv, ~screen.away, NEW p \in SpaceScreens, NEW over \in SUBSET calls, Rendered(p, over),
         p.keys = screen.keys, p.made = screen.made, p.opened = screen.opened,
         p.starting = screen.starting, p.away = screen.away,
         p.rowsScope = screen.rowsScope, p.rows = NoRows \/ p.rows.place = p.rowsScope,
         p.deep.state = "idle" /\ p.deep.subject # "none" =>
           p.deep.topic \in SpaceTopics[p.deep.subject]
  PROVE  SpaceInv'
<1>1. SpaceTypes'
  BY DEF SpaceInv, SpaceTypes, Rendered
<1>2. RowsOfScope'
  BY DEF SpaceInv, RowsOfScope, Rendered
<1>3. DeepIsOf'
  BY DEF SpaceInv, DeepIsOf, Rendered
<1>4. \A c \in calls' : c.kind = "start" => c \in calls
  BY DEF Rendered, SpaceReadCalls
<1>5. OneStart'
  BY <1>4 DEF SpaceInv, OneStart, Rendered, Keeps
<1>6. StartsKeyed'
  BY <1>4 DEF SpaceInv, StartsKeyed, Rendered, Keeps
<1>7. AwayIsQuiet'
  BY DEF AwayIsQuiet, Rendered, Keeps
<1> QED BY <1>1, <1>2, <1>3, <1>5, <1>6, <1>7 DEF SpaceInv

\* Another selection is rendered.
SelectsOnly(p) ==
  /\ p.keys = screen.keys /\ p.made = screen.made /\ p.opened = screen.opened
  /\ p.starting = screen.starting /\ p.away = screen.away /\ p.rowsScope = screen.rowsScope
  /\ p.rows = screen.rows /\ p.deep = screen.deep

LEMMA SelectsStep ==
  ASSUME SpaceInv, ~screen.away, NEW p \in SpaceScreens, SelectsOnly(p), NEW over \in SUBSET calls, NEW again,
         Renders(p, over, again)
  PROVE  SpaceInv'
<1>1. Rendered(p, over)
  BY RendersForm
<1>2. p.rows = NoRows \/ p.rows.place = p.rowsScope
  BY DEF SelectsOnly, SpaceInv, RowsOfScope
<1>3. p.deep.state = "idle" /\ p.deep.subject # "none" =>
        p.deep.topic \in SpaceTopics[p.deep.subject]
  BY DEF SelectsOnly, SpaceInv, DeepIsOf
<1> QED BY <1>1, <1>2, <1>3, RenderedStep DEF SelectsOnly

LEMMA SpaceSelectorsStep ==
  ASSUME SpaceInv,
         \/ SpaceSelectors \/ TabButtons \/ FoundationTopics \/ TrainingTopics \/ CloseTopic
         \/ RetrySpace \/ RetryTopic \/ RetryPlaces
         \/ \E at \in SpaceAddresses : WalkHistory(at)
         \/ \E c \in calls : SpaceTaxonomyArrives(c)
  PROVE  SpaceInv'
<1>0. screen \in SpaceScreens
  BY DEF SpaceInv, SpaceTypes
<1>1. ASSUME NEW path \in SpacePaths \cup {"none"}, ChangeSpacePath(path) PROVE SpaceInv'
  <2> DEFINE p == [screen EXCEPT !.path = path, !.subject = "none", !.topic = "none"]
  <2>1. p \in SpaceScreens
    BY <1>0, ZenonT(60) DEF SpaceScreens
  <2>2. SelectsOnly(p)
    BY <1>0 DEF SpaceScreens, SelectsOnly
  <2>3. ~screen.away /\ \E over \in SUBSET calls, again \in {"none"} : Renders(p, over, again)
    BY <1>1 DEF ChangeSpacePath
  <2> QED BY <2>1, <2>2, <2>3, SelectsStep
<1>2. ASSUME NEW s \in SpaceSubjects \cup {"none"}, ChangeSubject(s) PROVE SpaceInv'
  <2> DEFINE p == [screen EXCEPT !.subject = s, !.topic = "none"]
  <2>1. p \in SpaceScreens
    BY <1>0, ZenonT(60) DEF SpaceScreens
  <2>2. SelectsOnly(p)
    BY <1>0 DEF SpaceScreens, SelectsOnly
  <2>3. ~screen.away /\ \E over \in SUBSET calls, again \in {"none"} : Renders(p, over, again)
    BY <1>2 DEF ChangeSubject
  <2> QED BY <2>1, <2>2, <2>3, SelectsStep
<1>3. ASSUME NEW tab \in SpaceTabs, ChangeTab(tab) PROVE SpaceInv'
  <2> DEFINE p == [screen EXCEPT !.tab = tab, !.topic = "none"]
  <2>1. p \in SpaceScreens
    BY <1>0, ZenonT(60) DEF SpaceScreens
  <2>2. SelectsOnly(p)
    BY <1>0 DEF SpaceScreens, SelectsOnly
  <2>3. ~screen.away /\ \E over \in SUBSET calls, again \in {"none"} : Renders(p, over, again)
    BY <1>3 DEF ChangeTab
  <2> QED BY <2>1, <2>2, <2>3, SelectsStep
<1>4. ASSUME NEW at \in SpaceAddresses, WalkHistory(at) PROVE SpaceInv'
  <2> DEFINE p == [screen EXCEPT !.path = at.path, !.subject = at.subject, !.tab = at.tab,
                               !.topic = at.topic]
  <2>0. /\ at.path \in SpacePaths \cup {"none"} /\ at.subject \in SpaceSubjects \cup {"none"}
        /\ at.tab \in SpaceTabs /\ at.topic \in TopicsOfSpace \cup {"none"}
    BY LearningSpaceAssumption
  <2>1. p \in SpaceScreens
    BY <1>0, <2>0, ZenonT(60) DEF SpaceScreens
  <2>2. SelectsOnly(p)
    BY <1>0 DEF SpaceScreens, SelectsOnly
  <2>3. ~screen.away /\ \E over \in SUBSET calls, again \in {"none"} : Renders(p, over, again)
    BY <1>4 DEF WalkHistory
  <2> QED BY <2>1, <2>2, <2>3, SelectsStep
<1>5. ASSUME NEW topic \in TopicsOfSpace, OpenTopic(topic) PROVE SpaceInv'
  <2> DEFINE p == [screen EXCEPT !.tab = "foundation", !.topic = topic]
  <2>1. p \in SpaceScreens
    BY <1>0 DEF SpaceScreens, SpaceTabs
  <2>2. SelectsOnly(p)
    BY <1>0 DEF SpaceScreens, SelectsOnly
  <2>3. ~screen.away /\ \E over \in SUBSET calls, again \in {"none"} : Renders(p, over, again)
    BY <1>5 DEF OpenTopic
  <2> QED BY <2>1, <2>2, <2>3, SelectsStep
<1>6. ASSUME CloseTopic PROVE SpaceInv'
  <2> DEFINE p == [screen EXCEPT !.topic = "none"]
  <2>1. p \in SpaceScreens
    BY <1>0, SMTT(40) DEF SpaceScreens
  <2>2. SelectsOnly(p)
    BY <1>0 DEF SpaceScreens, SelectsOnly
  <2>3. ~screen.away /\ \E over \in SUBSET calls, again \in {"none"} : Renders(p, over, again)
    BY <1>6 DEF CloseTopic
  <2> QED BY <2>1, <2>2, <2>3, SelectsStep
<1>8. ASSUME NEW c \in calls, SpaceTaxonomyArrives(c) PROVE SpaceInv'
  <2> DEFINE p == [screen EXCEPT !.taxonomy = TRUE]
  <2>1. p \in SpaceScreens
    BY <1>0, ZenonT(60) DEF SpaceScreens
  <2>2. SelectsOnly(p)
    BY <1>0 DEF SpaceScreens, SelectsOnly
  <2>3. ~screen.away /\ \E over \in SUBSET calls, again \in {"none"} : Renders(p, over, again)
    BY <1>8 DEF SpaceTaxonomyArrives
  <2> QED BY <2>1, <2>2, <2>3, SelectsStep
<1>7. ASSUME RetrySpace \/ RetryTopic \/ RetryPlaces PROVE SpaceInv'
  <2>1. SelectsOnly(screen)
    BY DEF SelectsOnly
  <2>2. ~screen.away /\ \E over \in SUBSET calls, again \in {"space", "topic", "places"} : Renders(screen, over, again)
    BY <1>7 DEF RetrySpace, RetryTopic, RetryPlaces
  <2> QED BY <1>0, <2>1, <2>2, SelectsStep
<1> QED BY <1>1, <1>2, <1>3, <1>4, <1>5, <1>6, <1>7, <1>8
        DEF SpaceSelectors, TabButtons, FoundationTopics, TrainingTopics

\* The answers of the reads.
LEMMA ReadsStep ==
  ASSUME SpaceInv, NEW c \in calls,
         \/ SpaceTaxonomyFails(c) \/ SpaceArrives(c) \/ SpaceFails(c) \/ PlacesRead(c)
         \/ PlacesArrive(c) \/ PlacesFail(c) \/ DeepTopicArrives(c) \/ DeepTopicFails(c)
  PROVE  SpaceInv'
<1>0. screen \in SpaceScreens /\ SpaceTypes
  BY DEF SpaceInv, SpaceTypes
<1>00. ~screen.away
  BY DEF SpaceInv, AwayIsQuiet, SpaceTaxonomyFails, SpaceArrives, SpaceFails, PlacesRead,
         PlacesArrive, PlacesFail, DeepTopicArrives, DeepTopicFails
<1>1. CASE SpaceTaxonomyFails(c)
  BY <1>1, <1>00 DEF AwayIsQuiet, SpaceTaxonomyFails, Ended, SpaceInv, SpaceTypes, RowsOfScope, DeepIsOf, OneStart, StartsKeyed
<1>2. CASE SpaceArrives(c)
  <2> DEFINE p == [screen EXCEPT !.space = c.subject, !.spaceState = "idle"]
  <2>1. c.subject \in SpaceSubjects
    BY <1>0, <1>2, SpaceCallForms DEF SpaceArrives
  <2>2. p \in SpaceScreens
    BY <1>0, <2>1 DEF SpaceScreens, Wait
  <2>3. SelectsOnly(p)
    BY <1>0 DEF SpaceScreens, SelectsOnly
  <2>4. Renders(p, {c}, "none") /\ {c} \in SUBSET calls
    BY <1>2 DEF SpaceArrives
  <2> QED BY <2>2, <2>3, <2>4, <1>00, SelectsStep
<1>3. CASE SpaceFails(c)
  <2> DEFINE p == [screen EXCEPT !.space = "none", !.spaceState = "error"]
  <2>2. p \in SpaceScreens
    BY <1>0 DEF SpaceScreens, Wait
  <2>3. SelectsOnly(p)
    BY <1>0 DEF SpaceScreens, SelectsOnly
  <2>4. Renders(p, {c}, "none") /\ {c} \in SUBSET calls
    BY <1>3 DEF SpaceFails
  <2> QED BY <2>2, <2>3, <2>4, <1>00, SelectsStep
<1>4. CASE PlacesRead(c)
  <2>1. PICK may \in BOOLEAN : may = MayStart(c.scope, screen.user)
    BY DEF MayStart
  <2> DEFINE d == [c EXCEPT !.read = TRUE, !.canStart = may]
  <2>2. calls' = (calls \ {c}) \cup {d} /\ screen' = screen /\ server' = server /\ c.kind = "places"
    BY <1>4, <2>1 DEF PlacesRead
  <2>3. d \in SpaceReadCalls /\ d.kind = "places" /\ d.scope = c.scope
    BY <1>0, <2>1, <2>2, SpaceCallForms DEF SpaceReadCalls
  <2> HIDE DEF d
  <2> QED BY <1>00, <2>2, <2>3
          DEF AwayIsQuiet, SpaceInv, SpaceTypes, RowsOfScope, DeepIsOf, OneStart, StartsKeyed
<1>5. CASE PlacesArrive(c)
  <2> DEFINE rows == [place |-> c.scope, canStart |-> c.canStart]
             p == [screen EXCEPT !.rows = rows, !.rowsState = "idle"]
  <2>1. rows \in RowsOfSpace /\ rows.place = screen.rowsScope
    BY <1>0, <1>5, SpaceCallForms DEF PlacesArrive, RowsOfSpace, SpaceInv, RowsOfScope
  <2>2. Renders(p, {c}, "none") /\ {c} \in SUBSET calls
    BY <1>5 DEF PlacesArrive
  <2> HIDE DEF rows
  <2>3. p \in SpaceScreens
    BY <1>0, <2>1 DEF SpaceScreens, Wait
  <2>4. /\ p.keys = screen.keys /\ p.made = screen.made /\ p.opened = screen.opened
        /\ p.starting = screen.starting /\ p.away = screen.away /\ p.rowsScope = screen.rowsScope
        /\ p.rows = rows /\ p.deep = screen.deep
    BY <1>0 DEF SpaceScreens
  <2> HIDE DEF p
  <2> QED BY <2>1, <2>2, <2>3, <2>4, <1>00, RendersForm, RenderedStep DEF SpaceInv, DeepIsOf
<1>6. CASE PlacesFail(c)
  <2> DEFINE p == [screen EXCEPT !.rowsState = "error"]
  <2>2. p \in SpaceScreens
    BY <1>0 DEF SpaceScreens, Wait
  <2>3. SelectsOnly(p)
    BY <1>0 DEF SpaceScreens, SelectsOnly
  <2>4. Renders(p, {c}, "none") /\ {c} \in SUBSET calls
    BY <1>6 DEF PlacesFail
  <2> QED BY <2>2, <2>3, <2>4, <1>00, SelectsStep
<1>7. CASE DeepTopicArrives(c)
  <2>1. PICK s \in Wait : /\ s = IF c.topic \in SpaceTopics[c.subject] THEN "idle" ELSE "error"
    BY DEF Wait
  <2> DEFINE deep == [subject |-> c.subject, topic |-> c.topic, state |-> s]
             p == [screen EXCEPT !.deep = deep]
  <2>2. Renders(p, {c}, "none") /\ {c} \in SUBSET calls
    BY <1>7, <2>1 DEF DeepTopicArrives
  <2>3. c.subject \in SpaceSubjects /\ c.topic \in TopicsOfSpace
    BY <1>0, <1>7, SpaceCallForms DEF DeepTopicArrives
  <2>4. p \in SpaceScreens
    BY <1>0, <2>1, <2>3, SMTT(40) DEF SpaceScreens
  <2>5. /\ p.keys = screen.keys /\ p.made = screen.made /\ p.opened = screen.opened
        /\ p.starting = screen.starting /\ p.away = screen.away /\ p.rowsScope = screen.rowsScope
        /\ p.rows = screen.rows /\ p.deep = deep
    BY <1>0 DEF SpaceScreens
  <2>6. deep.state = "idle" => deep.topic \in SpaceTopics[deep.subject]
    BY <2>1
  <2> HIDE DEF p, deep
  <2> QED BY <2>2, <2>4, <2>5, <2>6, <1>00, RendersForm, RenderedStep DEF SpaceInv, RowsOfScope
<1>8. CASE DeepTopicFails(c)
  <2> DEFINE p == [screen EXCEPT !.deep.state = "error"]
  <2>2. Renders(p, {c}, "none") /\ {c} \in SUBSET calls
    BY <1>8 DEF DeepTopicFails
  <2>4. p \in SpaceScreens
    BY <1>0 DEF SpaceScreens, Wait
  <2>5. /\ p.keys = screen.keys /\ p.made = screen.made /\ p.opened = screen.opened
        /\ p.starting = screen.starting /\ p.away = screen.away /\ p.rowsScope = screen.rowsScope
        /\ p.rows = screen.rows /\ p.deep.state = "error"
    BY <1>0 DEF SpaceScreens
  <2> HIDE DEF p
  <2> QED BY <2>2, <2>4, <2>5, <1>00, RendersForm, RenderedStep DEF SpaceInv, RowsOfScope
<1> QED BY <1>1, <1>2, <1>3, <1>4, <1>5, <1>6, <1>7, <1>8

\* Leaving the page: the starts that were sent go on, unheard.
LEMMA LeavesStep ==
  ASSUME SpaceInv, NEW p \in SpaceScreens, LeavesTo(p),
         p.rows = screen.rows, p.rowsScope = screen.rowsScope, p.deep = screen.deep,
         \A q \in Placements : screen.opened \cup {screen.keys[q]} \subseteq p.opened \cup {p.keys[q]} \cup {0}
  PROVE  SpaceInv'
<1>1. /\ screen' \in SpaceScreens /\ screen'.away /\ screen'.rows = screen.rows
      /\ screen'.rowsScope = screen.rowsScope /\ screen'.deep = screen.deep
      /\ screen'.opened = p.opened /\ screen'.keys = p.keys /\ server' = server
  <2>1. [p EXCEPT !.away = TRUE] \in SpaceScreens
    BY ZenonT(60) DEF SpaceScreens
  <2> QED BY <2>1 DEF LeavesTo, SpaceScreens
<1>2. \A c \in calls' : /\ c \in SpaceStarts /\ c.gone /\ c.stage # "token"
                         /\ \E d \in calls : d.kind = "start" /\ d.stage # "token" /\ c.key = d.key /\ c.place = d.place
  <2> SUFFICES ASSUME NEW c \in calls'
               PROVE  /\ c \in SpaceStarts /\ c.gone /\ c.stage # "token"
                      /\ \E d \in calls : d.kind = "start" /\ d.stage # "token" /\ c.key = d.key /\ c.place = d.place
    OBVIOUS
  <2>1. PICK d \in calls : d.kind = "start" /\ d.stage \in {"sent", "stored"} /\ c = [d EXCEPT !.gone = TRUE]
    BY DEF LeavesTo, SpaceReads
  <2>2. d \in SpaceStarts
    BY <2>1, SpaceCallForms DEF SpaceInv
  <2>3. c \in SpaceStarts /\ c.gone /\ c.stage = d.stage /\ c.key = d.key /\ c.place = d.place
    BY <2>1, <2>2 DEF SpaceStarts
  <2> QED BY <2>1, <2>3
<1>3. SpaceTypes'
  BY <1>1, <1>2 DEF SpaceInv, SpaceTypes
<1>4. RowsOfScope'
  BY <1>1, <1>2 DEF SpaceInv, RowsOfScope, SpaceStarts
<1>5. DeepIsOf'
  BY <1>1 DEF SpaceInv, DeepIsOf
<1>6. OneStart'
  BY <1>2 DEF OneStart
<1>7. StartsKeyed'
  <2>1. ASSUME NEW c \in calls' PROVE c.key \in StartKeys /\ c.key \in screen'.opened \cup {screen'.keys[c.place]}
    <3>1. PICK d \in calls : d.kind = "start" /\ d.stage # "token" /\ c.key = d.key /\ c.place = d.place
      BY <1>2, <2>1
    <3>2. d.key \in StartKeys /\ d.key \in screen.opened \cup {screen.keys[d.place]}
      BY <3>1 DEF SpaceInv, StartsKeyed
    <3>3. d.place \in Placements
      BY <3>1, SpaceCallForms DEF SpaceInv, SpaceStarts
    <3>4. d.key # 0
      BY <3>2, LearningSpaceAssumption DEF StartKeys
    <3> QED BY <1>1, <3>1, <3>2, <3>3, <3>4
  <2>2. ASSUME NEW q \in Placements PROVE server'[q] \subseteq screen'.opened \cup {screen'.keys[q]}
    <3>1. server[q] \subseteq StartKeys /\ server[q] \subseteq screen.opened \cup {screen.keys[q]}
      BY DEF SpaceInv, StartsKeyed, SpaceTypes
    <3>2. 0 \notin server[q]
      BY <3>1, LearningSpaceAssumption DEF StartKeys
    <3> QED BY <1>1, <3>1, <3>2
  <2> QED BY <1>2, <2>1, <2>2 DEF StartsKeyed
<1>8. AwayIsQuiet'
  BY <1>2 DEF AwayIsQuiet, SpaceStarts
<1> QED BY <1>3, <1>4, <1>5, <1>6, <1>7, <1>8 DEF SpaceInv

LEMMA NoPlaceIsNone == NoPlace \notin Placements
BY DEF NoPlace, Placements

LEMMA StartPlacementStep ==
  ASSUME SpaceInv, HandleStartPlacement
  PROVE  SpaceInv'
<1>0. screen \in SpaceScreens /\ SpaceTypes
  BY DEF SpaceInv, SpaceTypes
<1>1. CASE ~screen.user
  <2>1. LeavesTo(screen)
    BY <1>1 DEF HandleStartPlacement
  <2> QED BY <1>0, <2>1, LeavesStep
<1>2. CASE screen.user
  <2> DEFINE place == screen.rows.place
             c == [kind |-> "start", place |-> place, path |-> screen.path,
                   scope |-> PlaceOf(screen), key |-> 0, stage |-> "token", gone |-> FALSE]
  <2>1. /\ screen.starting = NoPlace /\ ~screen.away
        /\ screen' = [screen EXCEPT !.starting = place]
        /\ calls' = calls \cup {c} /\ server' = server
    BY <1>2 DEF HandleStartPlacement, RowsShown
  <2>2. /\ place \in Placements /\ PlaceOf(screen) \in Placements /\ screen.path \in SpacePaths
    <3>1. place = PlaceOf(screen) /\ PlacesWanted(screen)
      BY DEF HandleStartPlacement, RowsShown, SpaceInv, RowsOfScope
    <3>2. screen.path # "none"
      BY <3>1 DEF PlacesWanted, SubjectInScope
    <3> QED BY <1>0, <3>1, <3>2, WantedIsPlace DEF SpaceScreens
  <2>3. c \in SpaceStarts /\ c.kind = "start" /\ c.place = place /\ c.stage = "token" /\ ~c.gone
    BY <2>2, LearningSpaceAssumption DEF SpaceStarts
  <2>4. /\ screen' \in SpaceScreens /\ screen'.starting = place /\ screen'.rows = screen.rows
        /\ screen'.rowsScope = screen.rowsScope /\ screen'.deep = screen.deep
        /\ screen'.keys = screen.keys /\ screen'.opened = screen.opened /\ screen'.away = screen.away
    BY <1>0, <2>1, <2>2 DEF SpaceScreens
  <2> HIDE DEF c, place
  <2>5. \A d \in calls : d.kind = "start" => d.gone
    <3> SUFFICES ASSUME NEW d \in calls, d.kind = "start", ~d.gone PROVE FALSE
      BY <1>0, SpaceCallForms DEF SpaceStarts
    <3> QED BY <2>1, NoPlaceIsNone, SpaceCallForms DEF SpaceInv, OneStart, SpaceStarts
  <2>6. SpaceTypes'
    BY <1>0, <2>1, <2>3, <2>4 DEF SpaceTypes
  <2>7. RowsOfScope' /\ DeepIsOf' /\ AwayIsQuiet'
    BY <2>1, <2>3, <2>4 DEF SpaceInv, RowsOfScope, DeepIsOf, AwayIsQuiet
  <2>8. OneStart'
    BY <2>1, <2>3, <2>4, <2>5 DEF SpaceInv, OneStart
  <2>9. StartsKeyed'
    BY <2>1, <2>3, <2>4 DEF SpaceInv, StartsKeyed
  <2> QED BY <2>6, <2>7, <2>8, <2>9 DEF SpaceInv
<1> QED BY <1>1, <1>2

\* A start is over, here or in a page that is gone.
LEMMA StartEndsStep ==
  ASSUME SpaceInv, NEW c \in calls, c.kind = "start", calls' = calls \ {c}, server' = server,
         screen' = screen \/ (~c.gone /\ screen' = [screen EXCEPT !.starting = NoPlace])
  PROVE  SpaceInv'
<1>0. screen \in SpaceScreens /\ SpaceTypes
  BY DEF SpaceInv, SpaceTypes
<1>1. /\ screen' \in SpaceScreens /\ screen'.rows = screen.rows
      /\ screen'.rowsScope = screen.rowsScope /\ screen'.deep = screen.deep
      /\ screen'.keys = screen.keys /\ screen'.opened = screen.opened /\ screen'.away = screen.away
      /\ screen'.starting = screen.starting \/ ~c.gone
  BY <1>0 DEF SpaceScreens
<1>2. SpaceTypes' /\ RowsOfScope' /\ DeepIsOf' /\ AwayIsQuiet'
  BY <1>0, <1>1 DEF SpaceInv, SpaceTypes, RowsOfScope, DeepIsOf, AwayIsQuiet
<1>3. OneStart'
  BY <1>1 DEF SpaceInv, OneStart
<1>4. StartsKeyed'
  BY <1>1 DEF SpaceInv, StartsKeyed
<1> QED BY <1>2, <1>3, <1>4 DEF SpaceInv

LEMMA StartSendsStep ==
  ASSUME SpaceInv, NEW c \in calls, StartSends(c)
  PROVE  SpaceInv'
<1>0. screen \in SpaceScreens /\ SpaceTypes
  BY DEF SpaceInv, SpaceTypes
<1>1. c \in SpaceStarts /\ c.kind = "start" /\ c.stage = "token"
  BY <1>0, SpaceCallForms DEF StartSends
<1>2. CASE StillHere(c)
  <2> DEFINE key == StartKey(c.place)
             d == [c EXCEPT !.stage = "sent", !.key = key]
  <2>1. PICK made \in {key, screen.made} :
           screen' = [screen EXCEPT !.keys[c.place] = key, !.made = made]
    <3>1. PICK made \in {key, screen.made} : made = IF key > screen.made THEN key ELSE screen.made
      OBVIOUS
    <3>2. screen' = [screen EXCEPT !.keys[c.place] = key, !.made = IF key > screen.made THEN key ELSE screen.made]
      BY <1>0, <1>2 DEF StartSends, SpaceScreens
    <3> QED BY <3>1, <3>2
  <2>2. key \in StartKeys /\ calls' = (calls \ {c}) \cup {d} /\ server' = server
    BY <1>2 DEF StartSends
  <2>3. key = screen.keys[c.place] \/ screen.keys[c.place] = 0
    BY DEF StartKey
  <2> HIDE DEF key
  <2>4. StartKeys \subseteq 0..MaxStartKeys /\ 0 \notin StartKeys
    BY LearningSpaceAssumption DEF StartKeys
  <2>5. /\ screen' \in SpaceScreens /\ screen'.keys = [screen.keys EXCEPT ![c.place] = key]
        /\ screen'.rows = screen.rows /\ screen'.starting = screen.starting
        /\ screen'.rowsScope = screen.rowsScope /\ screen'.deep = screen.deep
        /\ screen'.opened = screen.opened /\ screen'.away = screen.away
    <3>1. /\ [screen.keys EXCEPT ![c.place] = key] \in [Placements -> 0..MaxStartKeys]
          /\ made \in 0..MaxStartKeys
      BY <1>0, <1>1, <2>1, <2>2, <2>4 DEF SpaceScreens
    <3>2. PICK keys \in [Placements -> 0..MaxStartKeys] : keys = [screen.keys EXCEPT ![c.place] = key]
      BY <3>1
    <3>3. screen' = [screen EXCEPT !.keys = keys, !.made = made]
      BY <1>0, <2>1, <3>2 DEF SpaceScreens
    <3>4. [screen EXCEPT !.keys = keys, !.made = made] \in SpaceScreens
      BY <1>0, <3>1, <3>2, ZenonT(60) DEF SpaceScreens
    <3> QED BY <1>0, <3>2, <3>3, <3>4 DEF SpaceScreens
  <2>6. d \in SpaceStarts /\ d.kind = "start" /\ d.place = c.place /\ d.key = key /\ d.gone = c.gone /\ d.stage # "token"
    BY <1>1, <2>2, <2>4 DEF SpaceStarts
  <2> HIDE DEF d
  <2>7. SpaceTypes'
    BY <1>0, <2>2, <2>5, <2>6 DEF SpaceTypes
  <2>8. RowsOfScope' /\ DeepIsOf' /\ AwayIsQuiet'
    BY <2>2, <2>5, <2>6 DEF SpaceInv, RowsOfScope, DeepIsOf, AwayIsQuiet
  <2>9. OneStart'
    <3>1. ~c.gone
      BY <1>2 DEF StillHere
    <3> QED BY <1>1, <2>2, <2>5, <2>6, <3>1 DEF SpaceInv, OneStart
  <2>10. StartsKeyed'
    <3>1. c.place \in Placements /\ screen.keys \in [Placements -> 0..MaxStartKeys]
      BY <1>0, <1>1 DEF SpaceStarts, SpaceScreens
    <3>2. screen'.keys[c.place] = key
      BY <2>5, <3>1
    <3>3. \A q \in Placements : q # c.place => screen'.keys[q] = screen.keys[q]
      BY <2>5, <3>1
    <3>4. ASSUME NEW e \in calls', e.kind = "start", e.stage # "token"
          PROVE  /\ e.key \in StartKeys /\ e.key \in screen'.opened \cup {screen'.keys[e.place]}
                 /\ ~e.gone => e.key = screen'.keys[e.place]
      <4>1. CASE e = d
        BY <2>2, <2>6, <3>2, <4>1
      <4>2. CASE e # d
        <5>1. e \in calls /\ e.place \in Placements /\ e.gone \in BOOLEAN
          BY <1>0, <2>2, <3>4, <4>2, SpaceCallForms DEF SpaceStarts
        <5>2. /\ e.key \in StartKeys /\ e.key \in screen.opened \cup {screen.keys[e.place]}
              /\ ~e.gone => e.key = screen.keys[e.place]
          BY <3>4, <5>1 DEF SpaceInv, StartsKeyed
        <5>3. e.gone
          <6> SUFFICES ASSUME ~e.gone PROVE FALSE
            BY <5>1
          <6>1. e = c
            BY <1>1, <1>2, <3>4, <5>1 DEF SpaceInv, OneStart, StillHere
          <6> QED BY <1>1, <3>4, <6>1
        <5>4. screen.keys[e.place] = 0 \/ screen'.keys[e.place] = screen.keys[e.place]
          BY <2>3, <3>2, <3>3, <5>1
        <5> QED BY <2>4, <2>5, <5>2, <5>3, <5>4
      <4> QED BY <4>1, <4>2
    <3>5. ASSUME NEW q \in Placements PROVE server'[q] \subseteq screen'.opened \cup {screen'.keys[q]}
      <4>1. server[q] \subseteq StartKeys /\ server[q] \subseteq screen.opened \cup {screen.keys[q]}
        BY <1>0 DEF SpaceInv, StartsKeyed, SpaceTypes
      <4>2. screen.keys[q] = 0 \/ screen'.keys[q] = screen.keys[q]
        BY <2>3, <3>2, <3>3
      <4> QED BY <2>2, <2>4, <2>5, <4>1, <4>2
    <3> QED BY <3>4, <3>5 DEF StartsKeyed
  <2> QED BY <2>7, <2>8, <2>9, <2>10 DEF SpaceInv
<1>3. CASE ~StillHere(c)
  <2>1. screen' = [screen EXCEPT !.starting = NoPlace] /\ calls' = calls \ {c} /\ server' = server
    BY <1>3 DEF StartSends, Ended
  <2>2. ~c.gone
    BY <1>1 DEF SpaceInv, OneStart
  <2> QED BY <1>1, <2>1, <2>2, StartEndsStep
<1> QED BY <1>2, <1>3

LEMMA AttemptStoredStep ==
  ASSUME SpaceInv, NEW c \in calls, AttemptStored(c)
  PROVE  SpaceInv'
<1>0. screen \in SpaceScreens /\ SpaceTypes
  BY DEF SpaceInv, SpaceTypes
<1>1. c \in SpaceStarts /\ c.kind = "start" /\ c.stage = "sent"
  BY <1>0, SpaceCallForms DEF AttemptStored
<1> DEFINE d == [c EXCEPT !.stage = "stored"]
<1>2. /\ calls' = (calls \ {c}) \cup {d} /\ screen' = screen
      /\ server' = [server EXCEPT ![c.place] = @ \cup {c.key}]
  BY DEF AttemptStored, Advances
<1>3. /\ d \in SpaceStarts /\ d.kind = "start" /\ d.place = c.place /\ d.key = c.key
      /\ d.gone = c.gone /\ d.stage # "token"
  BY <1>1 DEF SpaceStarts
<1> HIDE DEF d
<1>4. c.key \in StartKeys /\ c.key \in screen.opened \cup {screen.keys[c.place]}
      /\ (~c.gone => c.key = screen.keys[c.place])
  BY <1>1 DEF SpaceInv, StartsKeyed
<1>5. c.place \in Placements /\ server \in [Placements -> SUBSET StartKeys]
  BY <1>0, <1>1 DEF SpaceStarts, SpaceTypes
<1>6. SpaceTypes'
  BY <1>0, <1>2, <1>3, <1>4, <1>5 DEF SpaceTypes
<1>7. RowsOfScope' /\ DeepIsOf' /\ AwayIsQuiet'
  BY <1>2, <1>3 DEF SpaceInv, RowsOfScope, DeepIsOf, AwayIsQuiet
<1>8. OneStart'
  BY <1>1, <1>2, <1>3 DEF SpaceInv, OneStart
<1>9. StartsKeyed'
  <2>1. \A q \in Placements : server'[q] \subseteq screen.opened \cup {screen.keys[q]}
    BY <1>2, <1>4, <1>5 DEF SpaceInv, StartsKeyed
  <2> QED BY <1>1, <1>2, <1>3, <1>4, <2>1 DEF SpaceInv, StartsKeyed
<1> QED BY <1>6, <1>7, <1>8, <1>9 DEF SpaceInv

LEMMA AttemptStartsStep ==
  ASSUME SpaceInv, NEW c \in calls, AttemptStarts(c)
  PROVE  SpaceInv'
<1>0. screen \in SpaceScreens /\ SpaceTypes
  BY DEF SpaceInv, SpaceTypes
<1>1. c \in SpaceStarts /\ c.kind = "start" /\ c.stage = "stored"
  BY <1>0, SpaceCallForms DEF AttemptStarts
<1>2. CASE StillHere(c)
  <2>1. /\ c.place \in Placements /\ screen.keys \in [Placements -> 0..MaxStartKeys]
        /\ screen.opened \in SUBSET StartKeys
    BY <1>0, <1>1 DEF SpaceStarts, SpaceScreens
  <2>2. c.key \in StartKeys /\ c.key = screen.keys[c.place]
    BY <1>1, <1>2 DEF SpaceInv, StartsKeyed, StillHere
  <2> DEFINE keys == [screen.keys EXCEPT ![c.place] = 0]
             opened == screen.opened \cup {c.key}
             p == [screen EXCEPT !.keys = keys, !.starting = NoPlace, !.opened = opened]
  <2>3. keys \in [Placements -> 0..MaxStartKeys] /\ opened \in SUBSET StartKeys
    BY <2>1, <2>2, LearningSpaceAssumption
  <2>4. LeavesTo(p)
    <3>1. p = [screen EXCEPT !.keys[c.place] = 0, !.starting = NoPlace, !.opened = @ \cup {c.key}]
      BY <1>0 DEF SpaceScreens
    <3> QED BY <1>2, <3>1 DEF AttemptStarts
  <2>5. \A q \in Placements : screen.opened \cup {screen.keys[q]} \subseteq opened \cup {keys[q]} \cup {0}
    BY <2>1, <2>2
  <2> HIDE DEF keys, opened
  <2>6. p \in SpaceScreens /\ p.rows = screen.rows /\ p.rowsScope = screen.rowsScope
        /\ p.deep = screen.deep /\ p.keys = keys /\ p.opened = opened
    BY <1>0, <2>3 DEF SpaceScreens
  <2> HIDE DEF p
  <2> QED BY <2>4, <2>5, <2>6, LeavesStep
<1>3. CASE ~StillHere(c)
  <2>1. /\ screen' = IF c.gone THEN screen ELSE [screen EXCEPT !.starting = NoPlace]
        /\ calls' = calls \ {c} /\ server' = server
    BY <1>3 DEF AttemptStarts, Ended
  <2> QED BY <1>1, <2>1, StartEndsStep
<1> QED BY <1>2, <1>3

LEMMA OpenedForm ==
  ASSUME NEW user \in BOOLEAN, NEW at \in SpaceAddresses
  PROVE  LET p == SpaceOpened(user, at)
         IN /\ p \in SpaceScreens /\ p.rows = NoRows /\ p.deep.subject = "none" /\ ~p.away
<1>1. /\ at.path \in SpacePaths \cup {"none"} /\ at.subject \in SpaceSubjects \cup {"none"}
      /\ at.tab \in SpaceTabs /\ at.topic \in TopicsOfSpace \cup {"none"}
  BY LearningSpaceAssumption
<1>2. NoRows \in RowsOfSpace
  BY DEF NoRows, RowsOfSpace
<1> DEFINE keys == [p \in Placements |-> 0]
<1>3. keys \in [Placements -> 0..MaxStartKeys] /\ 0 \in 0..MaxStartKeys
  BY LearningSpaceAssumption
<1> DEFINE p == [page |-> "space", away |-> FALSE, user |-> user, taxonomy |-> FALSE, path |-> at.path,
                 subject |-> at.subject, tab |-> at.tab, topic |-> at.topic,
                 space |-> "none", spaceState |-> "idle", rows |-> NoRows,
                 rowsScope |-> NoPlace, rowsState |-> "idle", deep |-> NoTopic, starting |-> NoPlace,
                 keys |-> keys, made |-> 0, opened |-> {}]
<1>4. SpaceOpened(user, at) = p
  BY DEF SpaceOpened
<1> HIDE DEF keys
<1>5. p \in SpaceScreens
  BY <1>1, <1>2, <1>3 DEF SpaceScreens, Wait, NoTopic
<1>6. p.rows = NoRows /\ p.deep.subject = "none" /\ ~p.away
  BY DEF NoTopic
<1> HIDE DEF p
<1> QED BY <1>4, <1>5, <1>6

LEMMA ComeBackStep ==
  ASSUME SpaceInv, NEW user \in BOOLEAN, NEW at \in SpaceAddresses, ComeBack(user, at)
  PROVE  SpaceInv'
<1>0. screen \in SpaceScreens /\ SpaceTypes
  BY DEF SpaceInv, SpaceTypes
<1>1. /\ screen' \in SpaceScreens /\ screen'.rows = NoRows /\ screen'.deep.subject = "none"
      /\ ~screen'.away /\ screen'.keys = screen.keys /\ screen'.opened = screen.opened
  <2>1. screen.keys \in [Placements -> 0..MaxStartKeys] /\ screen.made \in 0..MaxStartKeys
        /\ screen.opened \in SUBSET StartKeys
    BY <1>0 DEF SpaceScreens
  <2>2. screen' = [SpaceOpened(user, at) EXCEPT !.keys = screen.keys, !.made = screen.made, !.opened = screen.opened]
    BY DEF ComeBack
  <2> DEFINE p == SpaceOpened(user, at)
  <2>3. p \in SpaceScreens /\ p.rows = NoRows /\ p.deep.subject = "none" /\ ~p.away
    BY OpenedForm
  <2> HIDE DEF p
  <2>4. PICK keys \in [Placements -> 0..MaxStartKeys], made \in 0..MaxStartKeys, opened \in SUBSET StartKeys :
           keys = screen.keys /\ made = screen.made /\ opened = screen.opened
    BY <2>1
  <2>5. screen' = [p EXCEPT !.keys = keys, !.made = made, !.opened = opened]
    BY <2>2, <2>4 DEF p
  <2>6. /\ [p EXCEPT !.keys = keys, !.made = made, !.opened = opened] \in SpaceScreens
        /\ screen'.rows = p.rows /\ screen'.deep = p.deep /\ screen'.away = p.away
        /\ screen'.keys = keys /\ screen'.opened = opened
    BY <2>3, <2>4, <2>5 DEF SpaceScreens
  <2> QED BY <2>3, <2>4, <2>5, <2>6
<1>2. calls' = calls \cup {[kind |-> "taxonomy"]} /\ server' = server /\ screen.away
  BY DEF ComeBack
<1>3. [kind |-> "taxonomy"] \in SpaceReadCalls
  BY DEF SpaceReadCalls
<1>4. \A c \in calls' : c.kind = "taxonomy" \/ (c \in calls /\ c.kind = "start" /\ c.gone)
  <2>1. \A c \in calls : c.kind = "start"
    BY <1>2 DEF SpaceInv, AwayIsQuiet
  <2>2. \A c \in calls : c.gone
    <3> SUFFICES ASSUME NEW c \in calls, ~c.gone PROVE FALSE
      BY <1>0, <2>1, SpaceCallForms DEF SpaceStarts
    <3> QED BY <1>2, <2>1 DEF SpaceInv, OneStart
  <2> QED BY <1>2, <2>1, <2>2
<1>5. SpaceTypes'
  BY <1>0, <1>1, <1>2, <1>3 DEF SpaceTypes
<1>6. RowsOfScope' /\ DeepIsOf' /\ AwayIsQuiet'
  BY <1>1, <1>4 DEF RowsOfScope, DeepIsOf, AwayIsQuiet
<1>7. OneStart'
  BY <1>4 DEF SpaceInv, OneStart
<1>8. StartsKeyed'
  BY <1>1, <1>2, <1>4 DEF SpaceInv, StartsKeyed
<1> QED BY <1>5, <1>6, <1>7, <1>8 DEF SpaceInv

LEMMA SpaceStep == SpaceInv /\ [SpaceNext]_tabVars => SpaceInv'
<1> SUFFICES ASSUME SpaceInv, [SpaceNext]_tabVars PROVE SpaceInv'
  OBVIOUS
<1>1. CASE UNCHANGED tabVars
  BY <1>1 DEF tabVars, SpaceInv, AwayIsQuiet, SpaceTypes, RowsOfScope, DeepIsOf, OneStart, StartsKeyed
<1>2. CASE \/ SpaceSelectors \/ TabButtons \/ FoundationTopics \/ TrainingTopics \/ CloseTopic
           \/ RetrySpace \/ RetryTopic \/ RetryPlaces
           \/ \E at \in SpaceAddresses : WalkHistory(at)
           \/ \E c \in calls : SpaceTaxonomyArrives(c)
  BY <1>2, SpaceSelectorsStep
<1>3. CASE HandleStartPlacement
  BY <1>3, StartPlacementStep
<1>4. CASE LeaveSpace
  <2>1. screen \in SpaceScreens
    BY DEF SpaceInv, SpaceTypes
  <2> QED BY <1>4, <2>1, LeavesStep DEF LeaveSpace
<1>5. CASE \E at \in SpaceAddresses, user \in BOOLEAN : ComeBack(user, at)
  BY <1>5, ComeBackStep
<1>6. ASSUME NEW c \in calls,
             \/ SpaceTaxonomyFails(c) \/ SpaceArrives(c) \/ SpaceFails(c) \/ PlacesRead(c)
             \/ PlacesArrive(c) \/ PlacesFail(c) \/ DeepTopicArrives(c) \/ DeepTopicFails(c)
      PROVE  SpaceInv'
  BY <1>6, ReadsStep
<1>7. ASSUME NEW c \in calls, StartSends(c) \/ AttemptStored(c) \/ AttemptStarts(c) PROVE SpaceInv'
  BY <1>7, StartSendsStep, AttemptStoredStep, AttemptStartsStep
<1>8. ASSUME NEW c \in calls, StartFails(c) PROVE SpaceInv'
  BY <1>8, StartEndsStep DEF StartFails, Ended
<1> QED BY <1>1, <1>2, <1>3, <1>4, <1>5, <1>6, <1>7, <1>8
        DEF SpaceNext, TrainingTab, ExamsTab, PlacementRows

LEMMA SpaceStart == SpaceInit => SpaceInv
<1> SUFFICES ASSUME SpaceInit PROVE SpaceInv
  OBVIOUS
<1>1. PICK user \in BOOLEAN, at \in SpaceAddresses : screen = SpaceOpened(user, at)
  BY DEF SpaceInit
<1>2. /\ screen \in SpaceScreens /\ screen.rows = NoRows /\ screen.deep.subject = "none" /\ ~screen.away
  BY <1>1, OpenedForm
<1>3. calls = {[kind |-> "taxonomy"]} /\ server = [p \in Placements |-> {}]
  BY DEF SpaceInit
<1>4. SpaceTypes
  <2>1. [kind |-> "taxonomy"] \in SpaceReadCalls
    BY DEF SpaceReadCalls
  <2> QED BY <1>2, <1>3, <2>1 DEF SpaceTypes
<1>5. RowsOfScope /\ DeepIsOf /\ AwayIsQuiet /\ OneStart /\ StartsKeyed
  BY <1>2, <1>3 DEF RowsOfScope, DeepIsOf, AwayIsQuiet, OneStart, StartsKeyed
<1> QED BY <1>4, <1>5 DEF SpaceInv

\* What the invariant says of the page: what can be pressed belongs to the selection, and
\* at most one attempt of a placement is one that the learner was never taken to.
LEMMA SpaceShown == SpaceInv => SpaceTypeOK /\ SpaceOfSelection /\ NoAttemptIsWasted
<1> SUFFICES ASSUME SpaceInv PROVE SpaceTypeOK /\ SpaceOfSelection /\ NoAttemptIsWasted
  OBVIOUS
<1>0. screen \in SpaceScreens /\ server \in [Placements -> SUBSET StartKeys]
  BY DEF SpaceInv, SpaceTypes
<1>1. SpaceTypeOK
  BY <1>0 DEF SpaceTypeOK, SpaceScreens, RowsOfSpace
<1>2. RowsShown => screen.rows.place = PlaceOf(screen)
  BY DEF RowsShown, SpaceInv, RowsOfScope
<1>3. TopicShown(screen) => TopicId(screen) \in SpaceTopics[screen.subject]
  <2> SUFFICES ASSUME TopicShown(screen) PROVE TopicId(screen) \in SpaceTopics[screen.subject]
    OBVIOUS
  <2>1. screen.subject \in SpaceSubjects /\ screen.subject # "none"
    BY <1>0 DEF TopicShown, VisibleSpace, SpaceScreens
  <2>2. CASE Listed(screen)
    BY <2>1, <2>2, LearningSpaceAssumption DEF Listed
  <2>3. CASE screen.deep = [subject |-> screen.subject, topic |-> TopicId(screen), state |-> "idle"]
    <3>1. screen.deep.state = "idle" /\ screen.deep.subject = screen.subject /\ screen.deep.topic = TopicId(screen)
      BY <2>3
    <3> QED BY <2>1, <3>1 DEF SpaceInv, DeepIsOf
  <2> QED BY <2>2, <2>3 DEF TopicShown
<1>4. \A p \in Placements : Cardinality(server[p] \ screen.opened) <= 1
  <2> SUFFICES ASSUME NEW p \in Placements PROVE Cardinality(server[p] \ screen.opened) <= 1
    OBVIOUS
  <2>1. server[p] \ screen.opened \subseteq {screen.keys[p]}
    BY DEF SpaceInv, StartsKeyed
  <2>2. IsFiniteSet({screen.keys[p]}) /\ Cardinality({screen.keys[p]}) = 1
    BY FS_Singleton
  <2> QED BY <2>1, <2>2, FS_Subset
<1> QED BY <1>1, <1>2, <1>3, <1>4 DEF SpaceOfSelection, NoAttemptIsWasted

\* LearningSpacePage.tsx: for any paths, subjects, topics and addresses, the rows and the
\* topic on the screen are of what is selected, and the starts of a place that no page
\* opened yet, lost and repeated ones included, come to one attempt.
THEOREM SpaceCorrect ==
  SpaceSpec => [](SpaceTypeOK /\ SpaceOfSelection /\ NoAttemptIsWasted)
BY SpaceStart, SpaceStep, SpaceShown, PTL DEF SpaceSpec

(***************************************************************************)
(* ReviewLibrary: the list on the screen is the server's.                   *)
(***************************************************************************)
\* The fields of the page: what a list holds is told apart only by being the server's.
ReviewFields ==
  /\ DOMAIN screen = {"page", "view", "known", "rows", "index", "more", "busy", "failed",
                       "saving", "lost", "toggles"}
  /\ screen.page = "review" /\ DOMAIN screen.view = {"path", "subject", "tab", "pageNo"}
  /\ screen.busy \in BOOLEAN /\ screen.failed \in BOOLEAN /\ screen.lost \in BOOLEAN
  /\ \A c \in calls :
       \/ /\ c.kind = "review" /\ DOMAIN c = {"kind", "view", "read", "rows", "more"}
          /\ c.read \in BOOLEAN
       \/ /\ c.kind = "toggle" /\ DOMAIN c = {"kind", "card", "saves", "n", "stage"}

\* The list of the view is asked for once, and for as long as the page waits.
OneReviewRead ==
  /\ \A c, d \in calls : c.kind = "review" /\ d.kind = "review" => c = d
  /\ \A c \in calls : c.kind = "review" =>
       screen.busy /\ ~screen.failed /\ c.view = screen.view /\ screen.view.path # "none"

\* What the server holds was changed, and the page will ask again.
Stars == \E c \in calls : c.kind = "toggle" /\ c.stage = "stored"

\* But for those stars and for answers that were lost, every list that the page has or is
\* about to have is the server's.
ListsAreTrue ==
  ~screen.lost /\ ~Stars =>
    /\ \A c \in calls : c.kind = "review" /\ c.read =>
         c.rows = ReviewRowsOf(c.view, server) /\ c.more = MoreThan(c.view, server)
    /\ screen.view.path # "none" /\ ~screen.busy /\ ~screen.failed =>
         screen.rows = ReviewRowsOf(screen.view, server) /\ screen.more = MoreThan(screen.view, server)

ReviewInv == ReviewFields /\ OneReviewRead /\ ListsAreTrue

\* Another list, or the same again, is asked for.
LEMMA LoadReviewStep ==
  ASSUME ReviewInv, NEW p, NEW over, over = {} \/ (\E c \in calls : over = {c}),
         DOMAIN p = DOMAIN screen, p.page = "review", DOMAIN p.view = DOMAIN screen.view,
         p.busy \in BOOLEAN, p.failed \in BOOLEAN, p.lost = screen.lost,
         p = [x \in DOMAIN screen |-> p[x]],
         LoadReview(p, over), server' = server
  PROVE  ReviewInv'
<1>1. CASE p.view.path = "none"
  <2>1. screen' = [p EXCEPT !.rows = <<>>, !.more = FALSE] /\ calls' \subseteq calls
        /\ \A c \in calls' : c.kind # "review"
    BY <1>1 DEF LoadReview, AbortedReview, ReviewReads
  <2>2. /\ DOMAIN screen' = DOMAIN screen /\ screen'.page = "review" /\ screen'.view = p.view
        /\ screen'.busy = p.busy /\ screen'.failed = p.failed /\ screen'.lost = p.lost
    BY <2>1 DEF ReviewInv, ReviewFields
  <2>3. ReviewFields'
    BY <2>1, <2>2 DEF ReviewInv, ReviewFields
  <2>4. OneReviewRead' /\ ListsAreTrue'
    BY <1>1, <2>1, <2>2 DEF OneReviewRead, ListsAreTrue
  <2> QED BY <2>3, <2>4 DEF ReviewInv
<1>2. CASE p.view.path # "none"
  <2> DEFINE r == ReviewRequest(p.view)
  <2>1. /\ screen' = [p EXCEPT !.busy = TRUE, !.failed = FALSE] /\ calls' \subseteq calls \cup {r}
        /\ \A c \in calls' : c.kind = "review" => c = r
    BY <1>2 DEF LoadReview, AbortedReview, ReviewReads
  <2>2. /\ DOMAIN screen' = DOMAIN screen /\ screen'.page = "review" /\ screen'.view = p.view
        /\ screen'.busy = TRUE /\ screen'.failed = FALSE /\ screen'.lost = p.lost
    BY <2>1 DEF ReviewInv, ReviewFields
  <2>3. /\ r.kind = "review" /\ DOMAIN r = {"kind", "view", "read", "rows", "more"}
        /\ r.read = FALSE /\ r.view = p.view
    BY DEF ReviewRequest
  <2> HIDE DEF r
  <2>4. ReviewFields'
    BY <2>1, <2>2, <2>3 DEF ReviewInv, ReviewFields
  <2>5. OneReviewRead' /\ ListsAreTrue'
    BY <1>2, <2>1, <2>2, <2>3 DEF OneReviewRead, ListsAreTrue
  <2> QED BY <2>4, <2>5 DEF ReviewInv
<1> QED BY <1>1, <1>2

\* Steps that neither ask for a list nor answer one.
LEMMA QuietReviewStep ==
  ASSUME ReviewInv, server' = server, DOMAIN screen' = DOMAIN screen,
         screen'.page = screen.page, screen'.view = screen.view, screen'.busy = screen.busy,
         screen'.failed = screen.failed, screen'.lost = screen.lost, screen'.rows = screen.rows,
         screen'.more = screen.more,
         \A c \in calls' : c \in calls \/
            (c.kind = "toggle" /\ DOMAIN c = {"kind", "card", "saves", "n", "stage"}),
         \A c \in calls : c.kind = "toggle" /\ c.stage = "stored" => c \in calls'
  PROVE  ReviewInv'
<1>1. ReviewFields'
  BY DEF ReviewInv, ReviewFields
<1>2. OneReviewRead'
  BY DEF ReviewInv, OneReviewRead
<1>3. ListsAreTrue'
  BY DEF ReviewInv, ListsAreTrue, Stars
<1> QED BY <1>1, <1>2, <1>3 DEF ReviewInv

LEMMA ReviewAnsweredStep ==
  ASSUME ReviewInv, NEW c \in calls, ReviewRead(c) \/ ReviewArrives(c) \/ ReviewFails(c)
  PROVE  ReviewInv'
<1>0. ReviewFields /\ OneReviewRead /\ ListsAreTrue
  BY DEF ReviewInv
<1>1. /\ c.kind = "review" /\ c.view = screen.view /\ screen.busy /\ ~screen.failed
      /\ \A d \in calls : d.kind = "review" => d = c
  BY <1>0 DEF ReviewRead, ReviewArrives, ReviewFails, OneReviewRead
<1>2. CASE ReviewRead(c)
  <2> DEFINE d == [c EXCEPT !.read = TRUE, !.rows = ReviewRowsOf(c.view, server),
                            !.more = MoreThan(c.view, server)]
  <2>1. calls' = (calls \ {c}) \cup {d} /\ screen' = screen /\ server' = server
    BY <1>2 DEF ReviewRead
  <2>2. /\ d.kind = "review" /\ DOMAIN d = DOMAIN c /\ d.read = TRUE /\ d.view = c.view
        /\ d.rows = ReviewRowsOf(c.view, server) /\ d.more = MoreThan(c.view, server)
    BY <1>0, <1>1 DEF ReviewFields
  <2> HIDE DEF d
  <2>3. ReviewFields'
    BY <1>0, <1>1, <2>1, <2>2 DEF ReviewFields
  <2>4. OneReviewRead'
    BY <1>0, <1>1, <2>1, <2>2 DEF OneReviewRead
  <2>5. ListsAreTrue'
    BY <1>0, <1>1, <2>1, <2>2 DEF ListsAreTrue, Stars
  <2> QED BY <2>3, <2>4, <2>5 DEF ReviewInv
<1>3. CASE ReviewArrives(c)
  <2>1. /\ screen' = [screen EXCEPT !.rows = c.rows, !.index = 1, !.more = c.more, !.busy = FALSE]
        /\ calls' = calls \ {c} /\ server' = server /\ c.read
    BY <1>3 DEF ReviewArrives, Ended
  <2>2. /\ DOMAIN screen' = DOMAIN screen /\ screen'.page = screen.page /\ screen'.view = screen.view
        /\ screen'.busy = FALSE /\ screen'.failed = screen.failed /\ screen'.lost = screen.lost
        /\ screen'.rows = c.rows /\ screen'.more = c.more
    BY <1>0, <2>1 DEF ReviewFields
  <2>3. ReviewFields'
    BY <1>0, <2>1, <2>2 DEF ReviewFields
  <2>4. OneReviewRead'
    BY <1>1, <2>1 DEF OneReviewRead
  <2>5. ListsAreTrue'
    BY <1>0, <1>1, <2>1, <2>2 DEF ListsAreTrue, Stars
  <2> QED BY <2>3, <2>4, <2>5 DEF ReviewInv
<1>4. CASE ReviewFails(c)
  <2>1. /\ screen' = [screen EXCEPT !.busy = FALSE, !.failed = TRUE]
        /\ calls' = calls \ {c} /\ server' = server
    BY <1>4 DEF ReviewFails, Ended
  <2>2. /\ DOMAIN screen' = DOMAIN screen /\ screen'.page = screen.page /\ screen'.view = screen.view
        /\ screen'.busy = FALSE /\ screen'.failed = TRUE /\ screen'.lost = screen.lost
    BY <1>0, <2>1 DEF ReviewFields
  <2>3. ReviewFields'
    BY <1>0, <2>1, <2>2 DEF ReviewFields
  <2>4. OneReviewRead'
    BY <1>1, <2>1 DEF OneReviewRead
  <2>5. ListsAreTrue'
    BY <1>1, <2>1, <2>2 DEF ListsAreTrue
  <2> QED BY <2>3, <2>4, <2>5 DEF ReviewInv
<1> QED BY <1>2, <1>3, <1>4

LEMMA ReviewChoosesStep ==
  ASSUME ReviewInv,
         \/ ReviewPathsArrive \/ ReviewSelects
         \/ \E tab \in ReviewTabs : ChooseReviewTab(tab)
         \/ \E by \in {-1, 1} : TurnReviewPage(by)
  PROVE  ReviewInv'
<1>0. ReviewFields
  BY DEF ReviewInv
<1>1. ASSUME NEW view, DOMAIN view = DOMAIN screen.view, view = [x \in DOMAIN screen.view |-> view[x]],
             Shows([screen EXCEPT !.view = view])
      PROVE  ReviewInv'
  <2> DEFINE p == [screen EXCEPT !.view = view]
  <2>1. /\ DOMAIN p = DOMAIN screen /\ p.page = "review" /\ DOMAIN p.view = DOMAIN screen.view
        /\ p.busy \in BOOLEAN /\ p.failed \in BOOLEAN /\ p.lost = screen.lost
        /\ p = [x \in DOMAIN screen |-> p[x]]
    BY <1>0, <1>1 DEF ReviewFields
  <2>2. LoadReview(p, {}) /\ server' = server
    BY <1>1 DEF Shows
  <2> HIDE DEF p
  <2> QED BY <2>1, <2>2, LoadReviewStep
<1>2. ASSUME NEW view, DOMAIN view = DOMAIN screen.view, Selected(view)
      PROVE  ReviewInv'
  <2>1. /\ DOMAIN [view EXCEPT !.pageNo = 1] = DOMAIN screen.view
        /\ [view EXCEPT !.pageNo = 1] = [x \in DOMAIN screen.view |-> [view EXCEPT !.pageNo = 1][x]]
    BY <1>2
  <2> QED BY <1>1, <1>2, <2>1 DEF Selected
<1>3. ASSUME ReviewPathsArrive PROVE ReviewInv'
  <2> DEFINE q == [screen EXCEPT !.known = TRUE]
  <2>1. /\ DOMAIN q = DOMAIN screen /\ q.page = screen.page /\ q.view = screen.view
        /\ q.busy = screen.busy /\ q.failed = screen.failed /\ q.lost = screen.lost
        /\ q.rows = screen.rows /\ q.more = screen.more
    BY <1>0 DEF ReviewFields
  <2>2. CASE screen' = q /\ UNCHANGED <<calls, server>>
    BY <2>1, <2>2, QuietReviewStep
  <2>3. CASE Shows([q EXCEPT !.view.subject = "all", !.view.pageNo = 1])
    <3> DEFINE p == [q EXCEPT !.view.subject = "all", !.view.pageNo = 1]
    <3>1. /\ DOMAIN p = DOMAIN screen /\ p.page = "review" /\ DOMAIN p.view = DOMAIN screen.view
          /\ p.busy \in BOOLEAN /\ p.failed \in BOOLEAN /\ p.lost = screen.lost
          /\ p = [x \in DOMAIN screen |-> p[x]]
      BY <1>0, <2>1 DEF ReviewFields
    <3>2. LoadReview(p, {}) /\ server' = server
      BY <2>3 DEF Shows
    <3> HIDE DEF p
    <3> QED BY <3>1, <3>2, LoadReviewStep
  <2> QED BY <1>3, <2>2, <2>3 DEF ReviewPathsArrive
<1>4. ASSUME NEW path \in ReviewPaths \cup {"none"}, ChooseReviewPath(path) PROVE ReviewInv'
  BY <1>2, <1>4 DEF ChooseReviewPath
<1>5. ASSUME NEW subject \in SubjectsOfPaths \cup {"all"}, ChooseReviewSubject(subject) PROVE ReviewInv'
  BY <1>2, <1>5 DEF ChooseReviewSubject
<1>6. ASSUME NEW tab \in ReviewTabs, ChooseReviewTab(tab) PROVE ReviewInv'
  BY <1>2, <1>6 DEF ChooseReviewTab
<1>7. ASSUME NEW by \in {-1, 1}, TurnReviewPage(by) PROVE ReviewInv'
  <2> DEFINE view == [screen.view EXCEPT !.pageNo = @ + by]
  <2>1. [screen EXCEPT !.view.pageNo = @ + by] = [screen EXCEPT !.view = view]
    BY <1>0 DEF ReviewFields
  <2>2. DOMAIN view = DOMAIN screen.view /\ view = [x \in DOMAIN screen.view |-> view[x]]
    OBVIOUS
  <2>3. Shows([screen EXCEPT !.view = view])
    BY <1>7, <2>1 DEF TurnReviewPage
  <2> QED BY <1>1, <2>2, <2>3
<1> QED BY <1>3, <1>4, <1>5, <1>6, <1>7 DEF ReviewSelects

LEMMA StarsStep ==
  ASSUME ReviewInv, \/ QuestionCards
                    \/ \E c \in calls : SavedStored(c) \/ ToggleDone(c) \/ ToggleFails(c)
  PROVE  ReviewInv'
<1>0. ReviewFields /\ OneReviewRead /\ ListsAreTrue
  BY DEF ReviewInv
<1>1. ASSUME NEW by \in {-1, 1}, TurnQuestion(by) PROVE ReviewInv'
  <2>1. screen' = [screen EXCEPT !.index = @ + by] /\ calls' = calls /\ server' = server
    BY <1>1 DEF TurnQuestion
  <2> QED BY <1>0, <2>1, QuietReviewStep DEF ReviewFields
<1>2. CASE ToggleSaved
  <2> DEFINE card == screen.rows[screen.index].card
             t == [kind |-> "toggle", card |-> card, saves |-> ~screen.rows[screen.index].saved,
                   n |-> screen.toggles, stage |-> "sent"]
  <2>1. /\ screen' = [screen EXCEPT !.saving = card, !.toggles = @ + 1] /\ server' = server
        /\ calls' = calls \cup {t}
    BY <1>2 DEF ToggleSaved
  <2>2. t.kind = "toggle" /\ DOMAIN t = {"kind", "card", "saves", "n", "stage"}
    OBVIOUS
  <2> HIDE DEF t, card
  <2> QED BY <1>0, <2>1, <2>2, QuietReviewStep DEF ReviewFields
<1>3. ASSUME NEW c \in calls, SavedStored(c) PROVE ReviewInv'
  <2> DEFINE d == [c EXCEPT !.stage = "stored"]
  <2>1. calls' = (calls \ {c}) \cup {d} /\ screen' = screen /\ c.kind = "toggle"
    BY <1>3 DEF SavedStored, Advances
  <2>2. d.kind = "toggle" /\ d.stage = "stored" /\ DOMAIN d = DOMAIN c
    BY <1>0, <2>1 DEF ReviewFields
  <2> HIDE DEF d
  <2>3. ReviewFields' /\ OneReviewRead'
    BY <1>0, <2>1, <2>2 DEF ReviewFields, OneReviewRead
  <2>4. ListsAreTrue'
    BY <2>1, <2>2 DEF ListsAreTrue, Stars
  <2> QED BY <2>3, <2>4 DEF ReviewInv
<1>4. ASSUME NEW c \in calls, ToggleDone(c) PROVE ReviewInv'
  <2> DEFINE p == [screen EXCEPT !.saving = 0]
  <2>1. /\ DOMAIN p = DOMAIN screen /\ p.page = "review" /\ DOMAIN p.view = DOMAIN screen.view
        /\ p.busy \in BOOLEAN /\ p.failed \in BOOLEAN /\ p.lost = screen.lost
        /\ p = [x \in DOMAIN screen |-> p[x]]
    BY <1>0 DEF ReviewFields
  <2>2. LoadReview(p, {c}) /\ server' = server
    BY <1>4 DEF ToggleDone
  <2> HIDE DEF p
  <2> QED BY <2>1, <2>2, LoadReviewStep
<1>5. ASSUME NEW c \in calls, ToggleFails(c) PROVE ReviewInv'
  <2>1. PICK lost \in BOOLEAN : lost = (screen.lost \/ c.stage = "stored")
    OBVIOUS
  <2>2. /\ screen' = [screen EXCEPT !.saving = 0, !.lost = lost]
        /\ calls' = calls \ {c} /\ server' = server /\ c.kind = "toggle"
    BY <1>0, <1>5, <2>1 DEF ToggleFails, Ended, ReviewFields
  <2>3. CASE c.stage = "stored"
    <3>1. /\ DOMAIN screen' = DOMAIN screen /\ screen'.page = screen.page /\ screen'.view = screen.view
          /\ screen'.busy = screen.busy /\ screen'.failed = screen.failed /\ screen'.lost = TRUE
      BY <1>0, <2>1, <2>2, <2>3 DEF ReviewFields
    <3>2. ReviewFields' /\ OneReviewRead'
      BY <1>0, <2>2, <3>1 DEF ReviewFields, OneReviewRead
    <3>3. ListsAreTrue'
      BY <3>1 DEF ListsAreTrue
    <3> QED BY <3>2, <3>3 DEF ReviewInv
  <2>4. CASE c.stage # "stored"
    <3>1. lost = screen.lost
      BY <1>0, <2>1, <2>4 DEF ReviewFields
    <3> QED BY <1>0, <2>2, <2>4, <3>1, QuietReviewStep DEF ReviewFields
  <2> QED BY <2>3, <2>4
<1> QED BY <1>1, <1>2, <1>3, <1>4, <1>5 DEF QuestionCards

LEMMA ReviewStep == ReviewInv /\ [ReviewNext]_tabVars => ReviewInv'
<1> SUFFICES ASSUME ReviewInv, [ReviewNext]_tabVars PROVE ReviewInv'
  OBVIOUS
<1>1. CASE UNCHANGED tabVars
  BY <1>1 DEF tabVars, ReviewInv, ReviewFields, OneReviewRead, ListsAreTrue, Stars
<1>2. CASE ReviewNext
  BY <1>2, ReviewAnsweredStep, ReviewChoosesStep, StarsStep DEF ReviewNext
<1> QED BY <1>1, <1>2

LEMMA ReviewStart == ReviewInit => ReviewInv
<1> SUFFICES ASSUME ReviewInit PROVE ReviewInv
  OBVIOUS
<1>1. PICK view \in SelectedView :
        /\ screen = [page |-> "review", view |-> view, known |-> FALSE, rows |-> <<>>,
                     index |-> 1, more |-> FALSE, busy |-> view.path # "none",
                     failed |-> FALSE, saving |-> 0, lost |-> FALSE, toggles |-> 0]
        /\ calls = IF view.path = "none" THEN {} ELSE {ReviewRequest(view)}
  BY DEF ReviewInit
<1>2. /\ DOMAIN screen = {"page", "view", "known", "rows", "index", "more", "busy", "failed",
                          "saving", "lost", "toggles"}
      /\ screen.page = "review" /\ screen.view = view /\ screen.busy = (view.path # "none")
      /\ screen.failed = FALSE /\ screen.lost = FALSE
  BY <1>1
<1>3. DOMAIN view = {"path", "subject", "tab", "pageNo"}
  BY DEF SelectedView
<1>4. \A c \in calls : /\ c.kind = "review" /\ DOMAIN c = {"kind", "view", "read", "rows", "more"}
                        /\ c.read = FALSE /\ c.view = view /\ view.path # "none"
                        /\ c = ReviewRequest(view)
  BY <1>1 DEF ReviewRequest
<1>5. ReviewFields /\ OneReviewRead /\ ListsAreTrue
  BY <1>2, <1>3, <1>4 DEF ReviewFields, OneReviewRead, ListsAreTrue
<1> QED BY <1>5 DEF ReviewInv

LEMMA ReviewShown == ReviewInv => ReviewIsTrue
BY DEF ReviewInv, ReviewFields, ListsAreTrue, Stars, ReviewIsTrue, Toggles

\* ReviewLibraryPage.tsx: for any paths, cards and size of a page, the list on the screen
\* is the server's list of the tab, subject and page that are selected, once the answers
\* that are under way have come.
THEOREM ReviewCorrect == ReviewSpec => []ReviewIsTrue
BY ReviewStart, ReviewStep, ReviewShown, PTL DEF ReviewSpec

(***************************************************************************)
(* ReviewPractice: the cards that are due, and the two writers of evidence. *)
(***************************************************************************)
\* The types, with versions and counts that are not bounded.
VersionedItem == [card : ReviewCardIds, version : Nat \ {0}]
ItemLists == UNION {[1..n -> VersionedItem] : n \in Nat}
PracticeScreens ==
  [page : {"practice"}, items : ItemLists, index : Nat \ {0},
   selected : {"none", "right", "wrong"}, result : {"none", "right", "wrong"}, answered : Nat,
   correct : Nat, busy : BOOLEAN, submitting : BOOLEAN, error : BOOLEAN]
DueReads == [kind : {"practice"}, stage : {"sent"}, read : BOOLEAN, items : ItemLists]
Counts == [count : Nat, right : Nat]
AnswerCalls ==
  [kind : {"answer"}, by : {"page", "tab"}, card : ReviewCardIds, version : Nat \ {0},
   right : BOOLEAN, type : CardTypes, base : Counts,
   stage : {"sent", "seen", "writing", "stored", "refused"}, heard : BOOLEAN]
HandoverCalls ==
  [kind : {"handover"}, attempt : 1..NHandovers, card : ReviewCardIds, right : BOOLEAN,
   base : Counts, stage : {"writing"}]
CardRows == [type : CardTypes, version : Nat \ {0}, due : BOOLEAN, saved : BOOLEAN]
Submissions ==
  [by : {"page", "tab"}, card : ReviewCardIds, version : Nat \ {0}, right : BOOLEAN,
   type : CardTypes, was : CardTypes]
Evidence == [of : (ReviewCardIds \X (Nat \ {0})) \cup ({0} \X (1..NHandovers)), right : BOOLEAN]
EvidenceStores ==
  [cards : [ReviewCardIds -> CardRows], submissions : SUBSET Submissions,
   evidence : SUBSET Evidence, progress : Counts, elsewhere : Nat]
PracticeTypes ==
  /\ screen \in PracticeScreens /\ calls \subseteq DueReads \cup AnswerCalls \cup HandoverCalls
  /\ server \in EvidenceStores
  /\ IsFiniteSet(server.evidence) /\ IsFiniteSet(server.submissions)

\* What a writer has read before it holds the lock is still worth something: an answer is
\* never of a version to come, and its type is that of the card as long as the version is;
\* who holds the lock has counted the evidence there is.
AnswerFits(c) ==
  /\ c.version <= server.cards[c.card].version
  /\ c.stage \in {"seen", "writing"} /\ c.version = server.cards[c.card].version =>
       c.type = server.cards[c.card].type
  /\ c.stage = "writing" => SameVersion(c)
  /\ c.heard => c.by = "page"
  /\ c.stage = "stored" => Recorded(c)
CallFitsStore(c) ==
  /\ c.kind = "answer" => AnswerFits(c)
  /\ c.kind = "handover" => \A e \in server.evidence : e.of # <<0, c.attempt>>
  /\ c.stage = "writing" => c.base = Counted(server.evidence)
OneWriter ==
  /\ \A c \in calls : CallFitsStore(c)
  /\ \A c, d \in calls : c.stage = "writing" /\ d.stage = "writing" => c = d

\* What is recorded of a card is of a version that is over.
RecordedIsOver ==
  /\ server.progress = Counted(server.evidence)
  /\ \A s \in server.submissions : s.version < server.cards[s.card].version /\ s.type = s.was
  /\ \A s, t \in server.submissions : s.card = t.card /\ s.version = t.version => s = t
  /\ \A e \in server.evidence :
       e.of[1] # 0 => e.of[2] < server.cards[e.of[1]].version

\* The list arrives once, in an empty page, and names no card twice.
NoCardTwice(items) ==
  \A i, j \in DOMAIN items : items[i].card = items[j].card => i = j
OfThePast(items) ==
  \A i \in DOMAIN items : items[i].version <= server.cards[items[i].card].version
OneList ==
  /\ \A c, d \in calls : c.kind = "practice" /\ d.kind = "practice" => c = d
  /\ \A c \in calls : c.kind = "practice" =>
       screen.busy /\ DOMAIN screen.items = {} /\ NoCardTwice(c.items) /\ OfThePast(c.items)
  /\ NoCardTwice(screen.items) /\ OfThePast(screen.items)

\* The answer that the page waits for is that to the card on the screen, with the option
\* that is selected there.
AnswerOfScreen(c) ==
  /\ screen.submitting /\ Practising /\ screen.result = "none" /\ screen.selected # "none"
  /\ c.card = CurrentItem.card /\ c.version = CurrentItem.version
  /\ c.right = (screen.selected = "right")
OneIsHeard ==
  /\ \A c, d \in calls : c.kind = "answer" /\ d.kind = "answer" /\ c.heard /\ d.heard => c = d
  /\ \A c \in calls : c.kind = "answer" /\ c.heard => AnswerOfScreen(c)

\* The page has passed every card it counts, and each of them was recorded.
RecordedFor(item, s) == s.by = "page" /\ s.card = item.card /\ s.version = item.version
CountedIsRecorded ==
  /\ screen.answered = screen.index - 1 + (IF screen.result = "none" THEN 0 ELSE 1)
  /\ screen.result # "none" => Practising /\ screen.selected = screen.result
  /\ 1..screen.answered \subseteq DOMAIN screen.items
  /\ \A i \in 1..screen.answered : \E s \in server.submissions : RecordedFor(screen.items[i], s)
  /\ screen.result # "none" =>
       \E s \in server.submissions :
         RecordedFor(CurrentItem, s) /\ s.right = (screen.result = "right")

PracticeInv ==
  /\ PracticeTypes /\ OneWriter /\ RecordedIsOver /\ OneList /\ OneIsHeard
  /\ CountedIsRecorded

LEMMA CountedType ==
  ASSUME NEW E, IsFiniteSet(E)
  PROVE  Counted(E) \in Counts
<1>1. IsFiniteSet({e \in E : e.right})
  BY FS_Subset
<1> QED BY <1>1, FS_CardinalityType DEF Counted, Counts

LEMMA CountedWithOne ==
  ASSUME NEW E, IsFiniteSet(E), NEW e, e \notin E, e.right \in BOOLEAN
  PROVE  IsFiniteSet(E \cup {e}) /\ Counted(E \cup {e}) = WithOne(Counted(E), e.right)
<1> DEFINE R == {d \in E : d.right}
           S == {d \in E \cup {e} : d.right}
<1>1. IsFiniteSet(R) /\ e \notin R
  BY FS_Subset
<1>2. IsFiniteSet(E \cup {e}) /\ Cardinality(E \cup {e}) = Cardinality(E) + 1
  BY FS_AddElement
<1>3. Cardinality(E) \in Nat /\ Cardinality(R) \in Nat
  BY <1>1, FS_CardinalityType
<1>4. CASE e.right
  <2>1. S = R \cup {e}
    BY <1>4
  <2>2. Cardinality(R \cup {e}) = Cardinality(R) + 1
    BY <1>1, FS_AddElement
  <2> HIDE DEF R, S
  <2>3. Cardinality(S) = Cardinality(R) + 1
    BY <2>1, <2>2
  <2> USE DEF R, S
  <2> QED BY <1>2, <1>3, <1>4, <2>3 DEF Counted, WithOne
<1>5. CASE ~e.right
  <2>1. S = R
    BY <1>5
  <2> HIDE DEF R, S
  <2>2. Cardinality(S) = Cardinality(R) + 0
    BY <1>3, <2>1
  <2> USE DEF R, S
  <2> QED BY <1>2, <1>3, <1>5, <2>2 DEF Counted, WithOne
<1> QED BY <1>4, <1>5

LEMMA DueCardsForm ==
  ASSUME NEW cards \in [ReviewCardIds -> CardRows], NEW items \in DueCards(cards)
  PROVE  /\ items \in ItemLists /\ NoCardTwice(items)
         /\ \A i \in DOMAIN items : items[i].version <= cards[items[i].card].version
<1> DEFINE due == {q \in ReviewCardIds : cards[q].due}
<1>1. IsFiniteSet(due) /\ Cardinality(due) \in Nat
  <2>1. IsFiniteSet(ReviewCardIds)
    BY FS_Interval, PracticeAssumption DEF ReviewCardIds
  <2>2. IsFiniteSet(due)
    BY <2>1, FS_Subset
  <2> QED BY <2>2, FS_CardinalityType
<1>2. PICK n \in 0..Cardinality(due) : \E f \in Injection(1..n, due) :
        items = [i \in DOMAIN f |-> [card |-> f[i], version |-> cards[f[i]].version]]
  BY DEF DueCards
<1>3. PICK f \in Injection(1..n, due) :
        items = [i \in DOMAIN f |-> [card |-> f[i], version |-> cards[f[i]].version]]
  BY <1>2
<1>4. n \in Nat
  BY <1>1, <1>2
<1>5. f \in [1..n -> due] /\ \A i, j \in 1..n : f[i] = f[j] => i = j
  BY <1>3 DEF Injection, IsInjective
<1>6. DOMAIN items = 1..n /\ \A i \in 1..n : items[i] = [card |-> f[i], version |-> cards[f[i]].version]
  BY <1>3, <1>5
<1>7. \A i \in 1..n : items[i] \in VersionedItem
  BY <1>5, <1>6 DEF VersionedItem, CardRows
<1>8. items \in [1..n -> VersionedItem]
  BY <1>3, <1>5, <1>6, <1>7
<1>9. ASSUME NEW i \in 1..n PROVE items[i].version <= cards[items[i].card].version
  <2>1. f[i] \in ReviewCardIds
    BY <1>5
  <2>2. cards[f[i]] \in CardRows
    BY <2>1
  <2>3. cards[f[i]].version \in Nat
    BY <2>2 DEF CardRows
  <2>4. items[i].card = f[i] /\ items[i].version = cards[f[i]].version
    BY <1>6
  <2> QED BY <2>3, <2>4
<1> QED BY <1>4, <1>5, <1>6, <1>8, <1>9 DEF ItemLists, NoCardTwice

LEMMA PracticeStart == ASSUME PracticeInit PROVE PracticeInv
<1>1. PICK due \in SUBSET ReviewCardIds :
        server = [cards |-> [q \in ReviewCardIds |-> [type |-> "error_recovery", version |-> 1,
                                                     due |-> q \in due, saved |-> FALSE]],
                  submissions |-> {}, evidence |-> {}, progress |-> [count |-> 0, right |-> 0],
                  elsewhere |-> 0]
  BY DEF PracticeInit
<1>2. <<>> \in ItemLists /\ DOMAIN <<>> = {}
  <2>1. <<>> \in [1..0 -> VersionedItem]
    OBVIOUS
  <2> QED BY <2>1 DEF ItemLists
<1>3. PracticeTypes
  <2>1. screen \in PracticeScreens
    BY <1>2 DEF PracticeInit, PracticeScreens
  <2>2. calls \subseteq DueReads
    BY <1>2 DEF PracticeInit, DueReads
  <2>3. server.cards \in [ReviewCardIds -> CardRows]
    BY <1>1 DEF CardRows, CardTypes
  <2>4. server \in EvidenceStores
    BY <1>1, <2>3 DEF EvidenceStores, Counts
  <2> QED BY <1>1, <2>1, <2>2, <2>4, FS_EmptySet DEF PracticeTypes
<1>4. OneWriter
  BY DEF PracticeInit, OneWriter, CallFitsStore
<1>5. RecordedIsOver
  <2>1. {e \in {} : e.right} = {}
    OBVIOUS
  <2>2. Counted({}) = [count |-> 0, right |-> 0]
    BY <2>1, FS_EmptySet DEF Counted
  <2> QED BY <1>1, <2>2 DEF RecordedIsOver
<1>6. OneList /\ OneIsHeard
  BY <1>2 DEF PracticeInit, OneList, OneIsHeard, NoCardTwice, OfThePast
<1>7. CountedIsRecorded
  BY DEF PracticeInit, CountedIsRecorded
<1> QED BY <1>3, <1>4, <1>5, <1>6, <1>7 DEF PracticeInv

\* Versions only grow.
LEMMA PastStaysPast ==
  ASSUME PracticeTypes, PracticeTypes', NEW items \in ItemLists, OfThePast(items),
         \A q \in ReviewCardIds : server.cards[q].version <= server'.cards[q].version
  PROVE  OfThePast(items)'
<1> SUFFICES ASSUME NEW i \in DOMAIN items
             PROVE  items[i].version <= server'.cards[items[i].card].version
  BY DEF OfThePast
<1>1. items[i] \in VersionedItem
  BY DEF ItemLists
<1>2. PICK q \in ReviewCardIds, v \in Nat : items[i].card = q /\ items[i].version = v
  BY <1>1 DEF VersionedItem
<1>3. v <= server.cards[q].version /\ server.cards[q].version <= server'.cards[q].version
  BY <1>2 DEF OfThePast
<1>4. server.cards[q].version \in Nat /\ server'.cards[q].version \in Nat
  BY DEF PracticeTypes, EvidenceStores, CardRows
<1> QED BY <1>2, <1>3, <1>4

\* A step of one call, which is not heard on the page: nothing that the page knows of
\* changes.
LEMMA PageKept ==
  ASSUME PracticeInv, PracticeTypes', screen' = screen, NEW c, NEW d,
         calls' \subseteq (calls \ {c}) \cup {d}, d.kind \in {"answer", "handover"},
         d.kind = "answer" /\ d.heard =>
           /\ c \in calls /\ c.kind = "answer" /\ c.heard
           /\ c.card = d.card /\ c.version = d.version /\ c.right = d.right,
         server.submissions \subseteq server'.submissions,
         \A q \in ReviewCardIds : server.cards[q].version <= server'.cards[q].version
  PROVE  OneList' /\ OneIsHeard' /\ CountedIsRecorded'
<1>1. OneList'
  <2>1. \A items \in ItemLists : OfThePast(items) => OfThePast(items)'
    BY PastStaysPast DEF PracticeInv
  <2>2. screen.items \in ItemLists /\ \A a \in calls : a.kind = "practice" => a.items \in ItemLists
    BY DEF PracticeInv, PracticeTypes, PracticeScreens, DueReads, AnswerCalls, HandoverCalls
  <2> QED BY <2>1, <2>2 DEF PracticeInv, OneList
<1>2. OneIsHeard'
  <2>1. ASSUME NEW a \in calls', a.kind = "answer", a.heard
        PROVE  \E b \in calls : /\ b.kind = "answer" /\ b.heard /\ (a = b \/ (a = d /\ b = c))
                                /\ a.card = b.card /\ a.version = b.version /\ a.right = b.right
    BY <2>1
  <2>2. \A a, b \in calls' : a.kind = "answer" /\ b.kind = "answer" /\ a.heard /\ b.heard => a = b
    BY <2>1 DEF PracticeInv, OneIsHeard
  <2>3. \A a \in calls' : a.kind = "answer" /\ a.heard => AnswerOfScreen(a)'
    BY <2>1 DEF PracticeInv, OneIsHeard, AnswerOfScreen, Practising, CurrentItem
  <2> QED BY <2>2, <2>3 DEF OneIsHeard
<1>3. CountedIsRecorded'
  BY DEF PracticeInv, CountedIsRecorded, RecordedFor, Practising, CurrentItem
<1> QED BY <1>1, <1>2, <1>3

\* A step of one call, by which nothing is written.
LEMMA OneCallMoves ==
  ASSUME PracticeInv, screen' = screen, NEW c, NEW d \in AnswerCalls \cup HandoverCalls,
         calls' \subseteq (calls \ {c}) \cup {d},
         d.kind = "answer" /\ d.heard =>
           /\ c \in calls /\ c.kind = "answer" /\ c.heard
           /\ c.card = d.card /\ c.version = d.version /\ c.right = d.right,
         CallFitsStore(d), d.stage = "writing" => \A e \in calls : e.stage = "writing" => e = c,
         server' \in EvidenceStores, server'.cards = server.cards,
         server'.submissions = server.submissions, server'.evidence = server.evidence,
         server'.progress = server.progress
  PROVE  PracticeInv'
<1>1. PracticeTypes'
  BY DEF PracticeInv, PracticeTypes
<1>2. d.kind \in {"answer", "handover"}
  BY DEF AnswerCalls, HandoverCalls
<1>3. OneList' /\ OneIsHeard' /\ CountedIsRecorded'
  <2>1. \A q \in ReviewCardIds : server.cards[q].version <= server'.cards[q].version
    BY DEF PracticeInv, PracticeTypes, EvidenceStores, CardRows
  <2> QED BY <1>1, <1>2, <2>1, PageKept
<1>4. \A e : CallFitsStore(e) => CallFitsStore(e)'
  BY DEF CallFitsStore, AnswerFits, SameVersion, Recorded
<1>5. OneWriter'
  BY <1>4 DEF PracticeInv, OneWriter
<1>6. RecordedIsOver'
  BY DEF PracticeInv, RecordedIsOver
<1> QED BY <1>1, <1>3, <1>5, <1>6 DEF PracticeInv

LEMMA CallEnds ==
  ASSUME PracticeInv, UNCHANGED <<screen, server>>, NEW c \in calls, c.kind # "practice",
         calls' = calls \ {c}
  PROVE  PracticeInv'
<1>1. c \in AnswerCalls \cup HandoverCalls /\ CallFitsStore(c)
  BY DEF PracticeInv, PracticeTypes, DueReads, OneWriter
<1>2. server' \in EvidenceStores /\ calls' \subseteq (calls \ {c}) \cup {c}
  BY DEF PracticeInv, PracticeTypes
<1>3. \A e \in calls : c.stage = "writing" /\ e.stage = "writing" => e = c
  BY DEF PracticeInv, OneWriter
<1> QED BY <1>1, <1>2, <1>3, OneCallMoves

\* The handlers that only the screen knows of.
LEMMA OnlyPracticeScreen ==
  ASSUME PracticeInv, UNCHANGED <<calls, server>>, screen' \in PracticeScreens,
         screen'.items = screen.items, screen'.busy = screen.busy,
         \A c \in calls : c.kind = "answer" => ~c.heard,
         CountedIsRecorded'
  PROVE  PracticeInv'
<1>1. PracticeTypes' /\ OneList' /\ OneIsHeard'
  BY DEF PracticeInv, PracticeTypes, OneList, OneIsHeard, OfThePast
<1>2. \A e : CallFitsStore(e) => CallFitsStore(e)'
  BY DEF CallFitsStore, AnswerFits, SameVersion, Recorded
<1>3. OneWriter' /\ RecordedIsOver'
  BY <1>2 DEF PracticeInv, OneWriter, RecordedIsOver
<1> QED BY <1>1, <1>3 DEF PracticeInv

LEMMA SelectOptionStep ==
  ASSUME PracticeInv, NEW option \in {"right", "wrong"}, SelectOption(option)
  PROVE  PracticeInv'
<1>1. /\ screen' \in PracticeScreens /\ screen'.items = screen.items
      /\ screen'.busy = screen.busy /\ screen'.answered = screen.answered
      /\ screen'.index = screen.index /\ screen'.result = screen.result
      /\ screen.result = "none" /\ ~screen.submitting
  BY DEF PracticeInv, PracticeTypes, PracticeScreens, SelectOption
<1>2. \A c \in calls : c.kind = "answer" => ~c.heard
  BY <1>1 DEF PracticeInv, OneIsHeard, AnswerOfScreen
<1>3. UNCHANGED <<calls, server>>
  BY DEF SelectOption
<1>4. CountedIsRecorded'
  BY <1>1, <1>3 DEF PracticeInv, CountedIsRecorded, RecordedFor
<1> QED BY <1>1, <1>2, <1>3, <1>4, OnlyPracticeScreen

LEMMA NextCardStep == ASSUME PracticeInv, NextCard PROVE PracticeInv'
<1>0. screen \in PracticeScreens /\ screen.index + 1 \in Nat \ {0}
  BY DEF PracticeInv, PracticeTypes, PracticeScreens
<1>1. /\ screen' \in PracticeScreens /\ screen'.items = screen.items
      /\ screen'.busy = screen.busy /\ screen'.answered = screen.answered
      /\ screen'.index = screen.index + 1 /\ screen'.result = "none"
      /\ screen.result # "none"
  BY <1>0 DEF PracticeScreens, NextCard
<1>2. \A c \in calls : c.kind = "answer" => ~c.heard
  BY <1>1 DEF PracticeInv, OneIsHeard, AnswerOfScreen
<1>3. UNCHANGED <<calls, server>>
  BY DEF NextCard
<1>4. screen.index \in Nat /\ screen.answered = screen.index
  BY <1>1 DEF PracticeInv, PracticeTypes, PracticeScreens, CountedIsRecorded
<1>5. CountedIsRecorded'
  BY <1>1, <1>3, <1>4 DEF PracticeInv, CountedIsRecorded, RecordedFor
<1> QED BY <1>1, <1>2, <1>3, <1>5, OnlyPracticeScreen

LEMMA SubmitReviewStep == ASSUME PracticeInv, SubmitReview PROVE PracticeInv'
<1>1. /\ screen \in PracticeScreens /\ screen.index \in DOMAIN screen.items
      /\ screen.result = "none" /\ ~screen.submitting /\ screen.selected # "none"
      /\ Practising /\ ~screen.busy
  BY DEF PracticeInv, PracticeTypes, SubmitReview, Practising
<1>2. /\ screen' \in PracticeScreens /\ screen'.items = screen.items
      /\ screen'.busy = screen.busy /\ screen'.answered = screen.answered
      /\ screen'.index = screen.index /\ screen'.result = screen.result
      /\ screen'.selected = screen.selected /\ screen'.submitting
  BY <1>1 DEF PracticeScreens, SubmitReview
<1>3. CurrentItem \in VersionedItem
  BY <1>1 DEF PracticeScreens, ItemLists, CurrentItem
<1>4. PICK d : d = ReviewAnswer("page", CurrentItem, screen.selected = "right")
  OBVIOUS
<1>5. /\ d \in AnswerCalls /\ d.kind = "answer" /\ d.stage = "sent" /\ d.heard /\ d.by = "page"
      /\ d.card = CurrentItem.card /\ d.version = CurrentItem.version
      /\ d.right = (screen.selected = "right")
  BY <1>3, <1>4 DEF ReviewAnswer, AnswerCalls, CardTypes, Counts, VersionedItem
<1>6. calls' = calls \cup {d} /\ server' = server
  BY <1>4 DEF SubmitReview
<1>7. \A c \in calls : c.kind = "answer" => ~c.heard
  BY <1>1 DEF PracticeInv, OneIsHeard, AnswerOfScreen
<1>8. PracticeTypes'
  BY <1>2, <1>5, <1>6 DEF PracticeInv, PracticeTypes
<1>9. OneIsHeard'
  BY <1>1, <1>2, <1>5, <1>6, <1>7 DEF OneIsHeard, AnswerOfScreen, Practising, CurrentItem
<1>10. OneList' /\ CountedIsRecorded'
  BY <1>1, <1>2, <1>5, <1>6 DEF PracticeInv, OneList, OfThePast, CountedIsRecorded, RecordedFor
<1>11. d.version <= server.cards[d.card].version
  BY <1>1, <1>5 DEF PracticeInv, OneList, OfThePast, CurrentItem
<1>12. \A e : CallFitsStore(e) => CallFitsStore(e)'
  BY <1>6 DEF CallFitsStore, AnswerFits, SameVersion, Recorded
<1>13. CallFitsStore(d)
  BY <1>5, <1>11 DEF CallFitsStore, AnswerFits
<1>14. OneWriter' /\ RecordedIsOver'
  BY <1>5, <1>6, <1>12, <1>13 DEF PracticeInv, OneWriter, RecordedIsOver
<1> QED BY <1>8, <1>9, <1>10, <1>14 DEF PracticeInv

\* The continuation of a request, after which the page waits for no answer.
LEMMA PageHears ==
  ASSUME PracticeInv, screen' \in PracticeScreens,
         screen'.items = screen.items, screen'.busy = screen.busy,
         NEW c \in calls, c.kind = "answer", c.heard, NEW d \in AnswerCalls,
         calls' \subseteq (calls \ {c}) \cup {d}, d \in calls' => ~d.heard /\ CallFitsStore(d),
         d \in calls' /\ d.stage = "writing" => c.stage = "writing",
         server' \in EvidenceStores, server'.cards = server.cards,
         server'.submissions = server.submissions, server'.evidence = server.evidence,
         server'.progress = server.progress, CountedIsRecorded'
  PROVE  PracticeInv'
<1>1. PracticeTypes'
  BY DEF PracticeInv, PracticeTypes
<1>2. d.kind = "answer"
  BY DEF AnswerCalls
<1>3. OneList'
  BY <1>2 DEF PracticeInv, OneList, OfThePast
<1>4. OneIsHeard'
  BY DEF PracticeInv, OneIsHeard
<1>5. \A e : CallFitsStore(e) => CallFitsStore(e)'
  BY DEF CallFitsStore, AnswerFits, SameVersion, Recorded
<1>6. OneWriter'
  BY <1>5 DEF PracticeInv, OneWriter
<1>7. RecordedIsOver'
  BY DEF PracticeInv, RecordedIsOver
<1> QED BY <1>1, <1>3, <1>4, <1>6, <1>7 DEF PracticeInv

LEMMA AnswerShownStep ==
  ASSUME PracticeInv, NEW c \in calls, AnswerShown(c)
  PROVE  PracticeInv'
<1>1. /\ c \in AnswerCalls /\ c.kind = "answer" /\ c.heard /\ c.by = "page" /\ Recorded(c)
      /\ AnswerOfScreen(c) /\ c.right \in BOOLEAN
  BY DEF PracticeInv, PracticeTypes, DueReads, AnswerCalls, HandoverCalls, OneWriter,
         CallFitsStore, AnswerFits, OneIsHeard, AnswerShown
<1>2. /\ screen \in PracticeScreens /\ screen.answered + 1 \in Nat
      /\ screen.correct + (IF c.right THEN 1 ELSE 0) \in Nat
  BY DEF PracticeInv, PracticeTypes, PracticeScreens
<1>3. PICK result \in {"right", "wrong"} : result = IF c.right THEN "right" ELSE "wrong"
  OBVIOUS
<1>4. /\ screen' \in PracticeScreens /\ screen'.items = screen.items
      /\ screen'.busy = screen.busy /\ screen'.answered = screen.answered + 1
      /\ screen'.index = screen.index /\ screen'.result = result
      /\ screen'.selected = screen.selected
  BY <1>2, <1>3 DEF PracticeScreens, AnswerShown
<1>5. screen.selected = result
  BY <1>1, <1>2, <1>3 DEF AnswerOfScreen, PracticeScreens
<1>6. PICK s \in server.submissions :
        s.by = "page" /\ s.card = c.card /\ s.version = c.version /\ s.right = c.right
  BY <1>1 DEF Recorded
<1>7. RecordedFor(CurrentItem, s) /\ s.right = (result = "right")
  BY <1>1, <1>3, <1>6 DEF AnswerOfScreen, RecordedFor
<1>8. Practising /\ screen.index \in DOMAIN screen.items /\ screen.result = "none"
  BY <1>1 DEF AnswerOfScreen, Practising
<1>9. /\ screen.index \in Nat /\ screen.answered \in Nat
      /\ screen.answered + 1 = screen.index
  BY <1>2, <1>8 DEF PracticeInv, PracticeScreens, CountedIsRecorded
<1>10. server' = server /\ calls' = calls \ {c}
  BY DEF AnswerShown, Ended
<1>11. CountedIsRecorded'
  <2>1. Practising' /\ CurrentItem' = CurrentItem
    BY <1>4, <1>8 DEF Practising, CurrentItem
  <2>2. \A i \in 1..screen'.answered : i \in DOMAIN screen'.items /\
          \E t \in server.submissions : RecordedFor(screen'.items[i], t)
    <3>1. \A i \in 1..screen.index : i = screen.index \/ i \in 1..screen.answered
      BY <1>9
    <3> QED BY <1>4, <1>7, <1>8, <1>9, <3>1 DEF PracticeInv, CountedIsRecorded, CurrentItem
  <2>3. screen'.answered = screen'.index - 1 + (IF screen'.result = "none" THEN 0 ELSE 1)
    BY <1>4, <1>9
  <2> QED BY <1>4, <1>5, <1>7, <1>10, <2>1, <2>2, <2>3 DEF CountedIsRecorded, RecordedFor
<1> QED BY <1>1, <1>4, <1>10, <1>11, PageHears DEF PracticeInv, PracticeTypes

LEMMA AnswerFailsStep ==
  ASSUME PracticeInv, NEW c \in calls, AnswerFails(c)
  PROVE  PracticeInv'
<1>1. /\ c \in AnswerCalls /\ c.kind = "answer" /\ c.heard /\ CallFitsStore(c)
  BY DEF PracticeInv, PracticeTypes, DueReads, AnswerCalls, HandoverCalls, OneWriter,
         AnswerFails
<1>2. /\ screen' \in PracticeScreens /\ screen'.items = screen.items
      /\ screen'.busy = screen.busy /\ screen'.answered = screen.answered
      /\ screen'.index = screen.index /\ screen'.result = screen.result
      /\ screen'.selected = screen.selected
  BY DEF PracticeInv, PracticeTypes, PracticeScreens, AnswerFails
<1>3. PICK d : d = [c EXCEPT !.heard = FALSE]
  OBVIOUS
<1>4. /\ d \in AnswerCalls /\ ~d.heard /\ d.stage = c.stage /\ d.card = c.card /\ d.by = c.by
      /\ d.version = c.version /\ d.right = c.right /\ d.type = c.type /\ d.base = c.base
      /\ d.kind = "answer"
  BY <1>1, <1>3 DEF AnswerCalls
<1>5. CallFitsStore(d)
  BY <1>1, <1>4 DEF CallFitsStore, AnswerFits, SameVersion, Recorded
<1>6. /\ calls' \subseteq (calls \ {c}) \cup {d}
      /\ server' \in EvidenceStores /\ server'.cards = server.cards
      /\ server'.submissions = server.submissions /\ server'.evidence = server.evidence
      /\ server'.progress = server.progress
  <2>1. CASE Ended(c) /\ UNCHANGED server
    BY <2>1 DEF Ended, PracticeInv, PracticeTypes
  <2>2. CASE /\ calls' = (calls \ {c}) \cup {[c EXCEPT !.heard = FALSE]}
             /\ server' = [server EXCEPT !.elsewhere = @ + 1]
    <3>1. server \in EvidenceStores /\ server.elsewhere + 1 \in Nat
      BY DEF PracticeInv, PracticeTypes, EvidenceStores
    <3> QED BY <1>3, <2>2, <3>1 DEF EvidenceStores
  <2> QED BY <2>1, <2>2 DEF AnswerFails
<1>7. CountedIsRecorded'
  BY <1>2, <1>6 DEF PracticeInv, CountedIsRecorded, RecordedFor, Practising, CurrentItem
<1> QED BY <1>1, <1>2, <1>4, <1>5, <1>6, <1>7, PageHears

LEMMA PracticeReadStep ==
  ASSUME PracticeInv, NEW c \in calls, PracticeRead(c)
  PROVE  PracticeInv'
<1>1. c \in DueReads /\ c.kind = "practice"
  BY DEF PracticeInv, PracticeTypes, AnswerCalls, HandoverCalls, PracticeRead
<1>2. PICK items \in DueCards(server.cards) :
        calls' = (calls \ {c}) \cup {[c EXCEPT !.read = TRUE, !.items = items]}
  BY DEF PracticeRead
<1>3. /\ items \in ItemLists /\ NoCardTwice(items) /\ OfThePast(items)
  <2>1. server.cards \in [ReviewCardIds -> CardRows]
    BY DEF PracticeInv, PracticeTypes, EvidenceStores
  <2> QED BY <1>2, <2>1, DueCardsForm DEF OfThePast
<1>4. PICK d : d = [c EXCEPT !.read = TRUE, !.items = items]
  OBVIOUS
<1>5. d \in DueReads /\ d.kind = "practice" /\ d.stage = "sent" /\ d.items = items
  BY <1>1, <1>3, <1>4 DEF DueReads
<1>6. calls' = (calls \ {c}) \cup {d} /\ screen' = screen /\ server' = server
  BY <1>2, <1>4 DEF PracticeRead
<1>7. PracticeTypes'
  BY <1>5, <1>6 DEF PracticeInv, PracticeTypes
<1>8. OneList' /\ OneIsHeard' /\ CountedIsRecorded'
  BY <1>1, <1>3, <1>5, <1>6
     DEF PracticeInv, OneList, OfThePast, OneIsHeard, AnswerOfScreen, CountedIsRecorded,
         RecordedFor, Practising, CurrentItem
<1>9. \A e : CallFitsStore(e) => CallFitsStore(e)'
  BY <1>6 DEF CallFitsStore, AnswerFits, SameVersion, Recorded
<1>10. CallFitsStore(d)
  BY <1>5 DEF CallFitsStore
<1>11. OneWriter' /\ RecordedIsOver'
  BY <1>5, <1>6, <1>9, <1>10 DEF PracticeInv, OneWriter, RecordedIsOver
<1> QED BY <1>7, <1>8, <1>11 DEF PracticeInv

\* The list arrives, or it does not.
LEMMA ListEnds ==
  ASSUME PracticeInv, NEW c \in calls, c.kind = "practice", Ended(c), server' = server,
         screen' \in PracticeScreens, screen'.items \in {c.items, screen.items},
         screen'.index = screen.index, screen'.answered = screen.answered,
         screen'.result = screen.result
  PROVE  PracticeInv'
<1>1. calls' = calls \ {c} /\ screen.busy /\ DOMAIN screen.items = {}
  BY DEF PracticeInv, OneList, Ended
<1>2. /\ PracticeTypes' /\ \A a \in calls' : a.kind # "practice"
  BY <1>1 DEF PracticeInv, PracticeTypes, OneList
<1>3. OneList'
  BY <1>1, <1>2 DEF PracticeInv, OneList, OfThePast
<1>4. ~Practising
  BY <1>1 DEF Practising
<1>5. OneIsHeard'
  BY <1>1, <1>4 DEF PracticeInv, OneIsHeard, AnswerOfScreen
<1>6. CountedIsRecorded'
  BY <1>1, <1>4 DEF PracticeInv, CountedIsRecorded
<1>7. \A e : CallFitsStore(e) => CallFitsStore(e)'
  BY DEF CallFitsStore, AnswerFits, SameVersion, Recorded
<1>8. OneWriter' /\ RecordedIsOver'
  BY <1>1, <1>7 DEF PracticeInv, OneWriter, RecordedIsOver
<1> QED BY <1>2, <1>3, <1>5, <1>6, <1>8 DEF PracticeInv

LEMMA PracticeArrivesStep ==
  ASSUME PracticeInv, NEW c \in calls, PracticeArrives(c)
  PROVE  PracticeInv'
<1>1. c \in DueReads /\ c.kind = "practice"
  BY DEF PracticeInv, PracticeTypes, AnswerCalls, HandoverCalls, PracticeArrives
<1>2. PICK items \in ItemLists : items = c.items
  BY <1>1 DEF DueReads
<1>3. /\ screen' \in PracticeScreens /\ screen'.items = c.items
      /\ screen'.index = screen.index /\ screen'.answered = screen.answered
      /\ screen'.result = screen.result
  BY <1>2 DEF PracticeInv, PracticeTypes, PracticeScreens, PracticeArrives
<1> QED BY <1>1, <1>3, ListEnds DEF PracticeArrives

LEMMA PracticeFailsStep ==
  ASSUME PracticeInv, NEW c \in calls, PracticeFails(c)
  PROVE  PracticeInv'
<1>1. /\ screen' \in PracticeScreens /\ screen'.items = screen.items
      /\ screen'.index = screen.index /\ screen'.answered = screen.answered
      /\ screen'.result = screen.result
  BY DEF PracticeInv, PracticeTypes, PracticeScreens, PracticeFails
<1> QED BY <1>1, ListEnds DEF PracticeFails

LEMMA AnswerHasForm ==
  ASSUME PracticeInv, NEW c \in calls, c.kind = "answer"
  PROVE  c \in AnswerCalls /\ AnswerFits(c) /\ CallFitsStore(c)
BY DEF PracticeInv, PracticeTypes, DueReads, HandoverCalls, OneWriter, CallFitsStore

LEMMA AnswerLookedUpStep ==
  ASSUME PracticeInv, NEW c \in calls, AnswerLookedUp(c)
  PROVE  PracticeInv'
<1>1. c \in AnswerCalls /\ c.kind = "answer" /\ AnswerFits(c) /\ c.stage = "sent"
  BY AnswerHasForm DEF AnswerLookedUp
<1>2. /\ screen' = screen /\ server' \in EvidenceStores /\ server' = server
  BY DEF AnswerLookedUp, PracticeInv, PracticeTypes
<1>3. server.cards[c.card].type \in CardTypes
  BY <1>1 DEF PracticeInv, PracticeTypes, EvidenceStores, CardRows, AnswerCalls
<1>4. CASE Recorded(c)
  <2>1. PICK d : d = [c EXCEPT !.stage = "stored"]
    OBVIOUS
  <2>2. /\ d \in AnswerCalls /\ d.heard = c.heard /\ d.stage = "stored" /\ d.card = c.card
        /\ d.by = c.by /\ d.version = c.version /\ d.right = c.right /\ d.kind = "answer"
    BY <1>1, <2>1 DEF AnswerCalls
  <2>3. calls' \subseteq (calls \ {c}) \cup {d}
    BY <1>4, <2>1 DEF AnswerLookedUp, Advances
  <2>4. CallFitsStore(d)
    BY <1>1, <1>4, <2>2 DEF CallFitsStore, AnswerFits, Recorded
  <2> QED BY <1>1, <1>2, <2>2, <2>3, <2>4, OneCallMoves
<1>5. CASE ~Recorded(c)
  <2>1. PICK d : d = [c EXCEPT !.stage = "seen", !.type = server.cards[c.card].type]
    OBVIOUS
  <2>2. /\ d \in AnswerCalls /\ d.heard = c.heard /\ d.stage = "seen" /\ d.card = c.card
        /\ d.by = c.by /\ d.version = c.version /\ d.right = c.right /\ d.kind = "answer"
        /\ d.type = server.cards[c.card].type
    BY <1>1, <1>3, <2>1 DEF AnswerCalls
  <2>3. calls' \subseteq (calls \ {c}) \cup {d}
    BY <1>5, <2>1 DEF AnswerLookedUp
  <2>4. CallFitsStore(d)
    BY <1>1, <2>2 DEF CallFitsStore, AnswerFits
  <2> QED BY <1>1, <1>2, <2>2, <2>3, <2>4, OneCallMoves
<1> QED BY <1>4, <1>5

LEMMA BeginAnswerStep ==
  ASSUME PracticeInv, NEW c \in calls, BeginAnswer(c)
  PROVE  PracticeInv'
<1>1. /\ c \in AnswerCalls /\ c.kind = "answer" /\ AnswerFits(c) /\ c.stage = "seen"
      /\ \A e \in calls : e.stage # "writing"
  BY AnswerHasForm DEF BeginAnswer, MayBegin, EvidenceUnlocked, EvidenceLocked
<1>2. /\ screen' = screen /\ server' \in EvidenceStores /\ server' = server
  BY DEF BeginAnswer, PracticeInv, PracticeTypes
<1>3. PICK base \in Counts : base = Counted(server.evidence)
  BY CountedType DEF PracticeInv, PracticeTypes
<1>4. PICK stage \in {"stored", "writing", "refused"} :
        stage = IF Recorded(c) THEN "stored" ELSE IF SameVersion(c) THEN "writing" ELSE "refused"
  OBVIOUS
<1>5. (stage = "stored" => Recorded(c)) /\ (stage = "writing" => SameVersion(c))
  BY <1>4
<1>6. PICK d : d = [c EXCEPT !.stage = stage, !.base = base]
  OBVIOUS
<1>7. /\ d \in AnswerCalls /\ d.heard = c.heard /\ d.stage = stage /\ d.card = c.card
      /\ d.by = c.by /\ d.version = c.version /\ d.right = c.right /\ d.kind = "answer"
      /\ d.type = c.type /\ d.base = base
  BY <1>1, <1>6 DEF AnswerCalls
<1>8. calls' \subseteq (calls \ {c}) \cup {d}
  BY <1>3, <1>4, <1>6 DEF BeginAnswer
<1>9. CallFitsStore(d)
  BY <1>1, <1>3, <1>5, <1>7 DEF CallFitsStore, AnswerFits, Recorded, SameVersion
<1> QED BY <1>1, <1>2, <1>7, <1>8, <1>9, OneCallMoves

LEMMA EvidenceRollsBackStep ==
  ASSUME PracticeInv, NEW c \in calls, EvidenceRollsBack(c)
  PROVE  PracticeInv'
<1>1. /\ screen' = screen /\ server' \in EvidenceStores /\ server' = server
  BY DEF EvidenceRollsBack, PracticeInv, PracticeTypes
<1>2. CASE c.kind = "answer"
  <2>1. PICK d : d = [c EXCEPT !.stage = "refused"]
    OBVIOUS
  <2>2. /\ d \in AnswerCalls /\ d.heard = c.heard /\ d.stage = "refused" /\ d.card = c.card
        /\ d.by = c.by /\ d.version = c.version /\ d.right = c.right /\ d.kind = "answer"
    BY <1>2, <2>1, AnswerHasForm DEF AnswerCalls
  <2>3. calls' \subseteq (calls \ {c}) \cup {d}
    BY <1>2, <2>1 DEF EvidenceRollsBack, Advances
  <2>4. CallFitsStore(d)
    BY <1>2, <2>2, AnswerHasForm DEF CallFitsStore, AnswerFits
  <2> QED BY <1>1, <1>2, <2>2, <2>3, <2>4, OneCallMoves
<1>3. CASE c.kind # "answer"
  <2>1. c.kind # "practice"
    BY DEF EvidenceRollsBack, PracticeInv, PracticeTypes, DueReads, AnswerCalls, HandoverCalls
  <2> QED BY <1>1, <1>3, <2>1, CallEnds DEF EvidenceRollsBack, Ended
<1> QED BY <1>2, <1>3

LEMMA NobodyHearsStep ==
  ASSUME PracticeInv, NEW c \in calls, NobodyHears(c)
  PROVE  PracticeInv'
BY CallEnds DEF NobodyHears, Ended

LEMMA OtherTabAnswersStep ==
  ASSUME PracticeInv, NEW item \in PracticeItem, NEW right \in BOOLEAN,
         OtherTabAnswers(item, right)
  PROVE  PracticeInv'
<1>1. item.card \in ReviewCardIds /\ item.version \in Nat \ {0}
  BY DEF PracticeItem, CardVersions
<1>2. PICK d : d = ReviewAnswer("tab", item, right)
  OBVIOUS
<1>3. /\ d \in AnswerCalls /\ ~d.heard /\ d.stage = "sent" /\ d.kind = "answer"
      /\ d.card = item.card /\ d.version = item.version
  BY <1>1, <1>2 DEF ReviewAnswer, AnswerCalls, CardTypes, Counts
<1>4. calls' \subseteq (calls \ {d}) \cup {d} /\ screen' = screen
  BY <1>2 DEF OtherTabAnswers
<1>5. CallFitsStore(d)
  BY <1>3 DEF CallFitsStore, AnswerFits, OtherTabAnswers
<1>6. /\ server' \in EvidenceStores /\ server'.cards = server.cards
      /\ server'.submissions = server.submissions /\ server'.evidence = server.evidence
      /\ server'.progress = server.progress
  <2>1. server \in EvidenceStores /\ server.elsewhere + 1 \in Nat
    BY DEF PracticeInv, PracticeTypes, EvidenceStores
  <2> QED BY <2>1 DEF EvidenceStores, OtherTabAnswers
<1> QED BY <1>3, <1>4, <1>5, <1>6, OneCallMoves

LEMMA BeginHandoverStep ==
  ASSUME PracticeInv, NEW a \in 1..NHandovers, NEW right \in BOOLEAN, BeginHandover(a, right)
  PROVE  PracticeInv'
<1>1. PICK base \in Counts : base = Counted(server.evidence)
  BY CountedType DEF PracticeInv, PracticeTypes
<1>2. PICK d : d = [kind |-> "handover", attempt |-> a, card |-> 1, right |-> right,
                    base |-> base, stage |-> "writing"]
  OBVIOUS
<1>3. 1 \in ReviewCardIds
  BY PracticeAssumption DEF ReviewCardIds
<1>4. /\ d \in HandoverCalls /\ d.kind = "handover" /\ d.attempt = a /\ d.base = base
  BY <1>2, <1>3 DEF HandoverCalls
<1>5. /\ calls' \subseteq (calls \ {d}) \cup {d} /\ screen' = screen /\ server' = server
      /\ \A e \in server.evidence : e.of # <<0, a>>
      /\ \A e \in calls : e.stage # "writing"
  BY <1>1, <1>2 DEF BeginHandover, MayBegin, EvidenceUnlocked, EvidenceLocked
<1>6. CallFitsStore(d)
  BY <1>1, <1>4, <1>5 DEF CallFitsStore
<1>7. server' \in EvidenceStores
  BY <1>5 DEF PracticeInv, PracticeTypes
<1> QED BY <1>4, <1>5, <1>6, <1>7, OneCallMoves

\* The row of a card changes: its version grows, unless its type stays.
LEMMA CardRowChanges ==
  ASSUME PracticeInv, UNCHANGED <<screen, calls>>, NEW q \in ReviewCardIds,
         NEW row \in CardRows, server' \in EvidenceStores,
         server'.cards = [server.cards EXCEPT ![q] = row],
         server'.submissions = server.submissions, server'.evidence = server.evidence,
         server'.progress = server.progress, row.type = server.cards[q].type,
         row.version >= server.cards[q].version,
         \/ \A c \in calls : c.stage = "writing" => c.card # q
         \/ row.due /\ row.version = server.cards[q].version
  PROVE  PracticeInv'
<1>1. PracticeTypes' /\ server.cards \in [ReviewCardIds -> CardRows]
  BY DEF PracticeInv, PracticeTypes, EvidenceStores
<1>2. \A p \in ReviewCardIds : server'.cards[p] = IF p = q THEN row ELSE server.cards[p]
  BY <1>1
<1>3. \A p \in ReviewCardIds :
        /\ server.cards[p].version \in Nat /\ server'.cards[p].version \in Nat
        /\ server.cards[p].version <= server'.cards[p].version
        /\ server'.cards[p].type = server.cards[p].type
  BY <1>1, <1>2 DEF CardRows
<1>4. OneList' /\ OneIsHeard' /\ CountedIsRecorded'
  <2> DEFINE d == [kind |-> "handover"]
  <2>1. d.kind = "handover" /\ calls' \subseteq (calls \ {d}) \cup {d}
    OBVIOUS
  <2> HIDE DEF d
  <2> QED BY <1>1, <1>3, <2>1, PageKept
<1>5. ASSUME NEW c \in calls PROVE CallFitsStore(c)'
  <2>1. CASE c.kind = "answer"
    <3>1. c \in AnswerCalls /\ AnswerFits(c) /\ CallFitsStore(c)
      BY <2>1, AnswerHasForm
    <3>2. c.card \in ReviewCardIds /\ c.version \in Nat
      BY <3>1 DEF AnswerCalls
    <3>3. c.stage = "writing" => SameVersion(c)'
      BY <1>2, <3>1, <3>2 DEF AnswerFits, SameVersion
    <3>4. c.version <= server'.cards[c.card].version
      BY <1>3, <3>1, <3>2 DEF AnswerFits
    <3>5. c.stage \in {"seen", "writing"} /\ c.version = server'.cards[c.card].version =>
            c.type = server'.cards[c.card].type
      BY <1>3, <3>1, <3>2 DEF AnswerFits
    <3> QED BY <2>1, <3>1, <3>3, <3>4, <3>5 DEF CallFitsStore, AnswerFits, Recorded
  <2>2. CASE c.kind # "answer"
    BY <2>2 DEF PracticeInv, OneWriter, CallFitsStore
  <2> QED BY <2>1, <2>2
<1>6. OneWriter'
  BY <1>5 DEF PracticeInv, OneWriter
<1>7. RecordedIsOver'
  <2>1. \A s \in server.submissions : s.card \in ReviewCardIds /\ s.version \in Nat
    BY DEF PracticeInv, PracticeTypes, EvidenceStores, Submissions
  <2>2. \A s \in server.submissions : s.version < server'.cards[s.card].version
    BY <1>3, <2>1 DEF PracticeInv, RecordedIsOver
  <2>3. ASSUME NEW e \in server.evidence, e.of[1] # 0
        PROVE  e.of[2] < server'.cards[e.of[1]].version
    <3>1. e.of[1] \in ReviewCardIds /\ e.of[2] \in Nat
      BY <2>3 DEF PracticeInv, PracticeTypes, EvidenceStores, Evidence
    <3> QED BY <1>3, <2>3, <3>1 DEF PracticeInv, RecordedIsOver
  <2> QED BY <2>2, <2>3 DEF PracticeInv, RecordedIsOver
<1> QED BY <1>1, <1>4, <1>6, <1>7 DEF PracticeInv

LEMMA SetSavedElsewhereStep ==
  ASSUME PracticeInv, NEW q \in ReviewCardIds, NEW saved \in BOOLEAN,
         SetSavedElsewhere(q, saved)
  PROVE  PracticeInv'
<1>1. server \in EvidenceStores /\ server.elsewhere + 1 \in Nat
  BY DEF PracticeInv, PracticeTypes, EvidenceStores
<1>2. PICK row : row = [server.cards[q] EXCEPT !.saved = saved, !.version = @ + 1]
  OBVIOUS
<1>3. PICK old \in CardRows : old = server.cards[q] /\ old.version \in Nat
  BY <1>1 DEF EvidenceStores, CardRows
<1>4. /\ row \in CardRows /\ row.type = server.cards[q].type
      /\ row.version >= server.cards[q].version
  <2>1. row = [old EXCEPT !.saved = saved, !.version = @ + 1] /\ old.version + 1 \in Nat \ {0}
    BY <1>2, <1>3
  <2>2. row \in CardRows /\ row.type = old.type /\ row.version = old.version + 1
    BY <1>3, <2>1 DEF CardRows
  <2> QED BY <1>3, <2>2
<1>5. server' = [server EXCEPT !.elsewhere = @ + 1, !.cards = [@ EXCEPT ![q] = row]]
  BY <1>1, <1>2, <1>3 DEF SetSavedElsewhere, EvidenceStores, CardRows
<1>6. /\ server'.cards = [server.cards EXCEPT ![q] = row]
      /\ server'.submissions = server.submissions /\ server'.evidence = server.evidence
      /\ server'.progress = server.progress
  BY <1>1, <1>5 DEF EvidenceStores
<1>7. server' \in EvidenceStores
  BY <1>1, <1>4, <1>5 DEF EvidenceStores
<1> QED BY <1>4, <1>6, <1>7, CardRowChanges DEF SetSavedElsewhere

LEMMA CardFallsDueStep ==
  ASSUME PracticeInv, NEW q \in ReviewCardIds, CardFallsDue(q)
  PROVE  PracticeInv'
<1>1. server \in EvidenceStores
  BY DEF PracticeInv, PracticeTypes
<1>2. PICK row : row = [server.cards[q] EXCEPT !.due = TRUE]
  OBVIOUS
<1>3. PICK old \in CardRows : old = server.cards[q] /\ old.version \in Nat
  BY <1>1 DEF EvidenceStores, CardRows
<1>4. /\ row \in CardRows /\ row.type = server.cards[q].type /\ row.due
      /\ row.version = server.cards[q].version /\ row.version >= server.cards[q].version
  <2>1. row = [old EXCEPT !.due = TRUE]
    BY <1>2, <1>3
  <2>2. row \in CardRows /\ row.type = old.type /\ row.due /\ row.version = old.version
    BY <1>3, <2>1 DEF CardRows
  <2> QED BY <1>3, <2>2
<1>5. server' = [server EXCEPT !.cards = [@ EXCEPT ![q] = row]]
  BY <1>1, <1>2, <1>3 DEF CardFallsDue, EvidenceStores, CardRows
<1>6. /\ server'.cards = [server.cards EXCEPT ![q] = row]
      /\ server'.submissions = server.submissions /\ server'.evidence = server.evidence
      /\ server'.progress = server.progress
  BY <1>1, <1>5 DEF EvidenceStores
<1>7. server' \in EvidenceStores
  BY <1>1, <1>4, <1>5 DEF EvidenceStores
<1> QED BY <1>4, <1>6, <1>7, CardRowChanges DEF CardFallsDue

\* Who holds the lock commits: the evidence is counted, the card has a new version, and
\* what the others have read of the card is old.
LEMMA EvidenceCommitted ==
  ASSUME PracticeInv, NEW c \in calls, c.stage = "writing", c.card \in ReviewCardIds,
         NEW row \in CardRows, row.version = server.cards[c.card].version + 1,
         NEW e, e \notin server.evidence, e.right = c.right, c.right \in BOOLEAN,
         e.of[1] # 0 => e.of = <<c.card, server.cards[c.card].version>>,
         server' \in EvidenceStores, server'.cards = [server.cards EXCEPT ![c.card] = row],
         server'.evidence = server.evidence \cup {e},
         server'.progress = WithOne(c.base, c.right),
         server.submissions \subseteq server'.submissions
  PROVE  /\ IsFiniteSet(server'.evidence) /\ server'.progress = Counted(server'.evidence)
         /\ \A q \in ReviewCardIds : server.cards[q].version <= server'.cards[q].version
         /\ \A b \in calls \ {c} : CallFitsStore(b)' /\ b.stage # "writing"
         /\ \A x \in server'.evidence :
              x.of[1] # 0 => x.of[2] < server'.cards[x.of[1]].version
         /\ \A s \in server.submissions : s.version < server'.cards[s.card].version
<1>1. server \in EvidenceStores /\ server.cards \in [ReviewCardIds -> CardRows]
  BY DEF PracticeInv, PracticeTypes, EvidenceStores
<1>2. /\ \A q \in ReviewCardIds : server.cards[q].version \in Nat
      /\ \A q \in ReviewCardIds : server'.cards[q] = IF q = c.card THEN row ELSE server.cards[q]
  BY <1>1 DEF CardRows
<1>3. \A q \in ReviewCardIds : /\ server'.cards[q].version \in Nat
                               /\ server.cards[q].version <= server'.cards[q].version
                               /\ q = c.card => server.cards[q].version < server'.cards[q].version
  BY <1>2 DEF CardRows
<1>4. IsFiniteSet(server'.evidence) /\ server'.progress = Counted(server'.evidence)
  <2>1. IsFiniteSet(server.evidence) /\ c.base = Counted(server.evidence)
    BY DEF PracticeInv, PracticeTypes, OneWriter, CallFitsStore
  <2> QED BY <2>1, CountedWithOne
<1>5. ASSUME NEW b \in calls \ {c}
      PROVE  CallFitsStore(b)' /\ b.stage # "writing"
  <2>1. b.stage # "writing"
    BY DEF PracticeInv, OneWriter
  <2>2. b.kind # "handover"
    BY <2>1 DEF PracticeInv, PracticeTypes, DueReads, AnswerCalls, HandoverCalls
  <2>3. CASE b.kind = "answer"
    <3>1. b \in AnswerCalls /\ AnswerFits(b)
      BY <2>3, AnswerHasForm
    <3>2. b.card \in ReviewCardIds /\ b.version \in Nat
      BY <3>1 DEF AnswerCalls
    <3>3. b.version <= server'.cards[b.card].version
      BY <1>2, <1>3, <3>1, <3>2 DEF AnswerFits
    <3>4. b.stage = "seen" /\ b.version = server'.cards[b.card].version =>
            b.type = server'.cards[b.card].type
      BY <1>2, <1>3, <3>1, <3>2 DEF AnswerFits
    <3> QED BY <2>1, <2>3, <3>1, <3>3, <3>4 DEF CallFitsStore, AnswerFits, Recorded
  <2>4. CASE b.kind # "answer"
    BY <2>1, <2>2, <2>4 DEF CallFitsStore
  <2> QED BY <2>1, <2>3, <2>4
<1>6. ASSUME NEW x \in server'.evidence, x.of[1] # 0
      PROVE  x.of[2] < server'.cards[x.of[1]].version
  <2>1. CASE x \in server.evidence
    <3>1. x.of[1] \in ReviewCardIds /\ x.of[2] \in Nat
      BY <1>1, <1>6, <2>1 DEF EvidenceStores, Evidence
    <3> QED BY <1>2, <1>3, <1>6, <2>1, <3>1 DEF PracticeInv, RecordedIsOver
  <2>2. CASE x = e
    BY <1>3, <1>6, <2>2
  <2> QED BY <2>1, <2>2
<1>7. ASSUME NEW s \in server.submissions
      PROVE  s.version < server'.cards[s.card].version
  <2>1. s.card \in ReviewCardIds /\ s.version \in Nat
    BY <1>1 DEF EvidenceStores, Submissions
  <2> QED BY <1>2, <1>3, <2>1 DEF PracticeInv, RecordedIsOver
<1> QED BY <1>3, <1>4, <1>5, <1>6, <1>7

LEMMA CardAfterForm ==
  ASSUME NEW old \in CardRows, NEW right \in BOOLEAN
  PROVE  CardAfter(old, right) \in CardRows /\ CardAfter(old, right).version = old.version + 1
<1>1. PICK type \in CardTypes : type = IF right THEN "mastery_review" ELSE "error_recovery"
  BY DEF CardTypes
<1>2. CardAfter(old, right) = [old EXCEPT !.type = type, !.version = @ + 1, !.due = FALSE]
  BY <1>1 DEF CardAfter
<1>3. old.version + 1 \in Nat \ {0}
  BY DEF CardRows
<1> QED BY <1>2, <1>3 DEF CardRows

LEMMA CommitHandoverStep ==
  ASSUME PracticeInv, NEW c \in calls, CommitHandover(c)
  PROVE  PracticeInv'
<1>1. /\ c \in HandoverCalls /\ c.kind = "handover" /\ c.stage = "writing" /\ CallFitsStore(c)
      /\ c.card \in ReviewCardIds /\ c.right \in BOOLEAN
  BY DEF PracticeInv, PracticeTypes, DueReads, AnswerCalls, HandoverCalls, OneWriter,
         CommitHandover
<1>2. server \in EvidenceStores /\ server.cards[c.card] \in CardRows
  BY <1>1 DEF PracticeInv, PracticeTypes, EvidenceStores
<1>3. PICK row : row = CardAfter(server.cards[c.card], c.right)
  OBVIOUS
<1>4. row \in CardRows /\ row.version = server.cards[c.card].version + 1
  BY <1>1, <1>2, <1>3, CardAfterForm
<1>5. PICK e : e = [of |-> <<0, c.attempt>>, right |-> c.right]
  OBVIOUS
<1>6. /\ e \in Evidence /\ e \notin server.evidence /\ e.right = c.right /\ e.of[1] = 0
  BY <1>1, <1>5 DEF Evidence, HandoverCalls, CallFitsStore
<1>7. PICK progress : progress = WithOne(c.base, c.right)
  OBVIOUS
<1>8. progress \in Counts
  <2>1. c.base \in Counts
    BY <1>1 DEF HandoverCalls
  <2> QED BY <1>7, <2>1 DEF Counts, WithOne
<1>9. server' = [server EXCEPT !.cards = [@ EXCEPT ![c.card] = row], !.evidence = @ \cup {e},
                               !.progress = progress]
  BY <1>1, <1>2, <1>3, <1>5, <1>7 DEF CommitHandover, EvidenceStores
<1>10. /\ server' \in EvidenceStores /\ server'.cards = [server.cards EXCEPT ![c.card] = row]
       /\ server'.submissions = server.submissions /\ server'.progress = progress
       /\ server'.evidence = server.evidence \cup {e}
  BY <1>2, <1>4, <1>6, <1>8, <1>9 DEF EvidenceStores
<1>11. /\ IsFiniteSet(server'.evidence) /\ server'.progress = Counted(server'.evidence)
       /\ \A q \in ReviewCardIds : server.cards[q].version <= server'.cards[q].version
       /\ \A b \in calls \ {c} : CallFitsStore(b)' /\ b.stage # "writing"
       /\ \A x \in server'.evidence :
            x.of[1] # 0 => x.of[2] < server'.cards[x.of[1]].version
       /\ \A s \in server.submissions : s.version < server'.cards[s.card].version
  BY <1>1, <1>4, <1>6, <1>7, <1>10, EvidenceCommitted
<1>12. calls' = calls \ {c} /\ screen' = screen
  BY DEF CommitHandover, Ended
<1>13. PracticeTypes'
  BY <1>10, <1>11, <1>12 DEF PracticeInv, PracticeTypes
<1>14. OneList' /\ OneIsHeard' /\ CountedIsRecorded'
  <2>1. calls' \subseteq (calls \ {c}) \cup {c}
    BY <1>12
  <2> QED BY <1>1, <1>10, <1>11, <1>12, <1>13, <2>1, PageKept
<1>15. OneWriter' /\ RecordedIsOver'
  BY <1>10, <1>11, <1>12 DEF PracticeInv, OneWriter, RecordedIsOver
<1> QED BY <1>13, <1>14, <1>15 DEF PracticeInv

LEMMA CommitAnswerStep ==
  ASSUME PracticeInv, NEW c \in calls, CommitAnswer(c)
  PROVE  PracticeInv'
<1>1. /\ c \in AnswerCalls /\ c.kind = "answer" /\ c.stage = "writing" /\ CallFitsStore(c)
      /\ c.card \in ReviewCardIds /\ c.right \in BOOLEAN /\ c.version \in Nat \ {0}
      /\ SameVersion(c) /\ c.version = server.cards[c.card].version
      /\ c.type = server.cards[c.card].type
  BY AnswerHasForm DEF AnswerCalls, CommitAnswer, AnswerFits, SameVersion
<1>2. server \in EvidenceStores /\ server.cards[c.card] \in CardRows
  BY <1>1 DEF PracticeInv, PracticeTypes, EvidenceStores
<1>3. PICK row : row = CardAfter(server.cards[c.card], c.right)
  OBVIOUS
<1>4. row \in CardRows /\ row.version = server.cards[c.card].version + 1
  BY <1>1, <1>2, <1>3, CardAfterForm
<1>5. PICK e : e = [of |-> <<c.card, c.version>>, right |-> c.right]
  OBVIOUS
<1>6. /\ e \in Evidence /\ e.right = c.right /\ e.of = <<c.card, c.version>>
      /\ e \notin server.evidence
  <2>1. e \in Evidence /\ e.right = c.right /\ e.of = <<c.card, c.version>> /\ e.of[1] # 0
    BY <1>1, <1>5 DEF Evidence, ReviewCardIds
  <2> QED BY <1>1, <1>2, <2>1 DEF PracticeInv, RecordedIsOver, CardRows
<1>7. PICK progress : progress = WithOne(c.base, c.right)
  OBVIOUS
<1>8. progress \in Counts
  <2>1. c.base \in Counts
    BY <1>1 DEF AnswerCalls
  <2> QED BY <1>7, <2>1 DEF Counts, WithOne
<1>9. PICK s : s = [by |-> c.by, card |-> c.card, version |-> c.version, right |-> c.right,
                    type |-> c.type, was |-> server.cards[c.card].type]
  OBVIOUS
<1>10. /\ s \in Submissions /\ s.type = s.was /\ s.card = c.card /\ s.version = c.version
       /\ s.by = c.by /\ s.right = c.right
  BY <1>1, <1>2, <1>9 DEF Submissions, AnswerCalls, CardRows
<1>11. server' = [server EXCEPT !.cards = [@ EXCEPT ![c.card] = row],
                                !.submissions = @ \cup {s}, !.evidence = @ \cup {e},
                                !.progress = progress]
  BY <1>1, <1>2, <1>3, <1>5, <1>7, <1>9 DEF CommitAnswer, EvidenceStores
<1>12. /\ server' \in EvidenceStores /\ server'.cards = [server.cards EXCEPT ![c.card] = row]
       /\ server'.submissions = server.submissions \cup {s} /\ server'.progress = progress
       /\ server'.evidence = server.evidence \cup {e}
  BY <1>2, <1>4, <1>6, <1>8, <1>10, <1>11 DEF EvidenceStores
<1>13. /\ IsFiniteSet(server'.evidence) /\ server'.progress = Counted(server'.evidence)
       /\ \A q \in ReviewCardIds : server.cards[q].version <= server'.cards[q].version
       /\ \A b \in calls \ {c} : CallFitsStore(b)' /\ b.stage # "writing"
       /\ \A x \in server'.evidence :
            x.of[1] # 0 => x.of[2] < server'.cards[x.of[1]].version
       /\ \A t \in server.submissions : t.version < server'.cards[t.card].version
  BY <1>1, <1>4, <1>6, <1>7, <1>12, EvidenceCommitted
<1>14. PICK d : d = [c EXCEPT !.stage = "stored"]
  OBVIOUS
<1>15. /\ d \in AnswerCalls /\ d.heard = c.heard /\ d.stage = "stored" /\ d.card = c.card
       /\ d.by = c.by /\ d.version = c.version /\ d.right = c.right /\ d.kind = "answer"
  BY <1>1, <1>14 DEF AnswerCalls
<1>16. calls' = (calls \ {c}) \cup {d} /\ screen' = screen
  BY <1>14 DEF CommitAnswer, Advances
<1>17. PracticeTypes'
  <2>1. IsFiniteSet(server'.submissions)
    BY <1>12, FS_AddElement DEF PracticeInv, PracticeTypes
  <2> QED BY <1>12, <1>13, <1>15, <1>16, <2>1 DEF PracticeInv, PracticeTypes
<1>18. OneList' /\ OneIsHeard' /\ CountedIsRecorded'
  <2>1. calls' \subseteq (calls \ {c}) \cup {d} /\ server.submissions \subseteq server'.submissions
    BY <1>12, <1>16
  <2> QED BY <1>1, <1>13, <1>15, <1>16, <1>17, <2>1, PageKept
<1>19. server'.cards[c.card] = row /\ c.version < row.version
  BY <1>1, <1>2, <1>4, <1>12 DEF EvidenceStores
<1>20. CallFitsStore(d)'
  <2>1. Recorded(d)'
    BY <1>10, <1>12, <1>15 DEF Recorded
  <2>2. d.heard => d.by = "page"
    BY <1>1, <1>15 DEF CallFitsStore, AnswerFits
  <2>3. c.version <= row.version
    BY <1>1, <1>19, <1>4 DEF CardRows
  <2> QED BY <1>15, <1>19, <2>1, <2>2, <2>3 DEF CallFitsStore, AnswerFits
<1>21. OneWriter'
  BY <1>13, <1>15, <1>16, <1>20 DEF OneWriter
<1>22. RecordedIsOver'
  <2>1. \A t \in server.submissions : t.card = s.card => t.version # s.version
    BY <1>1, <1>2, <1>10 DEF PracticeInv, RecordedIsOver, EvidenceStores, Submissions, CardRows
  <2>2. \A t, u \in server'.submissions : t.card = u.card /\ t.version = u.version => t = u
    BY <1>12, <2>1 DEF PracticeInv, RecordedIsOver
  <2>3. \A t \in server'.submissions : t.version < server'.cards[t.card].version /\ t.type = t.was
    BY <1>10, <1>12, <1>13, <1>19 DEF PracticeInv, RecordedIsOver
  <2> QED BY <1>13, <2>2, <2>3 DEF RecordedIsOver
<1> QED BY <1>17, <1>18, <1>21, <1>22 DEF PracticeInv

LEMMA PracticeStep == ASSUME PracticeInv, [PracticeNext]_tabVars PROVE PracticeInv'
<1>1. CASE UNCHANGED tabVars
  BY <1>1 DEF tabVars, PracticeInv, PracticeTypes, OneWriter, CallFitsStore, AnswerFits,
              SameVersion, Recorded, RecordedIsOver, OneList, OfThePast, OneIsHeard,
              AnswerOfScreen, CountedIsRecorded, RecordedFor, Practising, CurrentItem
<1>2. ASSUME NEW option \in {"right", "wrong"}, SelectOption(option) PROVE PracticeInv'
  BY <1>2, SelectOptionStep
<1>3. CASE SubmitReview \/ NextCard
  BY <1>3, SubmitReviewStep, NextCardStep
<1>4. ASSUME NEW c \in calls, PracticeRead(c) \/ PracticeArrives(c) \/ PracticeFails(c)
      PROVE  PracticeInv'
  BY <1>4, PracticeReadStep, PracticeArrivesStep, PracticeFailsStep
<1>5. ASSUME NEW c \in calls,
             AnswerShown(c) \/ AnswerFails(c) \/ AnswerLookedUp(c) \/ BeginAnswer(c)
      PROVE  PracticeInv'
  BY <1>5, AnswerShownStep, AnswerFailsStep, AnswerLookedUpStep, BeginAnswerStep
<1>6. ASSUME NEW c \in calls,
             CommitAnswer(c) \/ EvidenceRollsBack(c) \/ NobodyHears(c) \/ CommitHandover(c)
      PROVE  PracticeInv'
  BY <1>6, CommitAnswerStep, EvidenceRollsBackStep, NobodyHearsStep, CommitHandoverStep
<1>7. ASSUME NEW item \in PracticeItem, NEW right \in BOOLEAN, OtherTabAnswers(item, right)
      PROVE  PracticeInv'
  BY <1>7, OtherTabAnswersStep
<1>8. ASSUME NEW q \in ReviewCardIds, NEW saved \in BOOLEAN, SetSavedElsewhere(q, saved)
      PROVE  PracticeInv'
  BY <1>8, SetSavedElsewhereStep
<1>9. ASSUME NEW q \in ReviewCardIds, CardFallsDue(q) PROVE PracticeInv'
  BY <1>9, CardFallsDueStep
<1>10. ASSUME NEW a \in 1..NHandovers, NEW right \in BOOLEAN, BeginHandover(a, right)
       PROVE  PracticeInv'
  BY <1>10, BeginHandoverStep
<1> QED BY <1>1, <1>2, <1>3, <1>4, <1>5, <1>6, <1>7, <1>8, <1>9, <1>10 DEF PracticeNext

\* The cards that the page counts are different ones, and so are their submissions.
LEMMA PracticeShown ==
  ASSUME PracticeInv
  PROVE  AnsweredOnce /\ ProgressIsOfEvidence /\ ResultIsRecorded
<1>1. AnsweredOnce /\ ProgressIsOfEvidence
  BY DEF PracticeInv, RecordedIsOver, AnsweredOnce, ProgressIsOfEvidence
<1> DEFINE Own == {s \in server.submissions : s.by = "page"}
           f == [i \in 1..screen.answered |->
                   CHOOSE s \in server.submissions : RecordedFor(screen.items[i], s)]
<1>2. IsFiniteSet(Own) /\ screen.answered \in Nat
  <2>1. IsFiniteSet(server.submissions) /\ screen.answered \in Nat
    BY DEF PracticeInv, PracticeTypes, PracticeScreens
  <2> QED BY <2>1, FS_Subset
<1>3. \A i \in 1..screen.answered :
        f[i] \in server.submissions /\ RecordedFor(screen.items[i], f[i])
  <2> TAKE i \in 1..screen.answered
  <2>1. \E s \in server.submissions : RecordedFor(screen.items[i], s)
    BY DEF PracticeInv, CountedIsRecorded
  <2> QED BY <2>1
<1>4. f \in [1..screen.answered -> Own]
  BY <1>3 DEF RecordedFor
<1>5. ASSUME NEW i \in 1..screen.answered, NEW j \in 1..screen.answered, f[i] = f[j]
      PROVE  i = j
  <2>1. i \in DOMAIN screen.items /\ j \in DOMAIN screen.items
    BY DEF PracticeInv, CountedIsRecorded
  <2>2. screen.items[i].card = screen.items[j].card
    BY <1>3, <1>5 DEF RecordedFor
  <2> QED BY <2>1, <2>2 DEF PracticeInv, OneList, NoCardTwice
<1> HIDE DEF f, Own
<1>6. f \in Injection(1..screen.answered, Own)
  BY <1>4, <1>5 DEF Injection, IsInjective
<1>7. Cardinality(1..screen.answered) <= Cardinality(Own)
  BY <1>2, <1>6, FS_Injection
<1>8. Cardinality(1..screen.answered) = screen.answered
  BY <1>2, FS_Interval
<1>9. screen.answered <= Cardinality({s \in server.submissions : s.by = "page"})
  BY <1>7, <1>8 DEF Own
<1>10. ResultIsRecorded
  BY <1>9 DEF PracticeInv, CountedIsRecorded, RecordedFor, ResultIsRecorded
<1> QED BY <1>1, <1>10

\* ReviewPracticePage.tsx and internal/learning: however the answers of two tabs, the
\* outcomes of attempts, the stars and the schedule of the cards interleave, a card is
\* answered once for every time it was due, the progress of a skill counts exactly the
\* evidence there is, and the page counts and shows what was recorded.
THEOREM PracticeCorrect ==
  PracticeSpec => [](AnsweredOnce /\ ProgressIsOfEvidence /\ ResultIsRecorded)
<1>1. PracticeInit => PracticeInv
  BY PracticeStart
<1>2. PracticeInv /\ [PracticeNext]_tabVars => PracticeInv'
  BY PracticeStep
<1>3. PracticeInv => AnsweredOnce /\ ProgressIsOfEvidence /\ ResultIsRecorded
  BY PracticeShown
<1> QED BY <1>1, <1>2, <1>3, PTL DEF PracticeSpec

(***************************************************************************)
(* The pages together (MCLearnerPages): the tab shows one of them, whose       *)
(* invariant holds, and only that page's steps are taken.                     *)
(***************************************************************************)
LearnerInv ==
  \/ AttemptPageInv \/ PlayerInv \/ PlanInv \/ SignInInv
  \/ SpaceInv \/ ReviewInv \/ GoalInv \/ PracticeInv

LEMMA InvariantsMount ==
  /\ AttemptPageInv => Mounted("attempt")
  /\ PlayerInv => Mounted("player")
  /\ PlanInv => Mounted("plan")
  /\ SignInInv => Mounted("signin")
  /\ SpaceInv => Mounted("space")
  /\ ReviewInv => Mounted("review")
  /\ GoalInv => Mounted("goals")
  /\ PracticeInv => Mounted("practice")
<1>1. AttemptPageInv => Mounted("attempt")
  BY DEF AttemptPageInv, AttemptTypes, AttemptScreens, Mounted
<1>2. PlayerInv => Mounted("player")
  BY DEF PlayerInv, PlayerTypes, PlayerScreens, Mounted
<1>3. PlanInv => Mounted("plan")
  BY DEF PlanInv, PlanTypes, PlanScreens, Mounted
<1>4. SignInInv => Mounted("signin")
  BY DEF SignInInv, SignInTypes, SignInScreens, Mounted
<1>5. SpaceInv => Mounted("space")
  BY DEF SpaceInv, SpaceTypes, SpaceScreens, Mounted
<1>6. ReviewInv => Mounted("review")
  BY DEF ReviewInv, ReviewFields, Mounted
<1>7. GoalInv => Mounted("goals")
  BY DEF GoalInv, GoalTypes, GoalScreens, Mounted
<1>8. PracticeInv => Mounted("practice")
  BY DEF PracticeInv, PracticeTypes, PracticeScreens, Mounted
<1> QED BY <1>1, <1>2, <1>3, <1>4, <1>5, <1>6, <1>7, <1>8

LEMMA LearnerStart == Init => LearnerInv
BY AttemptPageStart, PlayerStart, PlanStart, SignInStart, SpaceStart, ReviewStart, GoalsStart,
   PracticeStart DEF Init, LearnerInv

LEMMA LearnerStep == LearnerInv /\ [Next]_tabVars => LearnerInv'
<1> SUFFICES ASSUME LearnerInv, [Next]_tabVars PROVE LearnerInv'
  OBVIOUS
<1>1. CASE AttemptPageInv
  <2>1. [AttemptPageNext]_tabVars
    BY <1>1, InvariantsMount DEF Next, Mounted
  <2> QED BY <1>1, <2>1, AttemptPageStep DEF LearnerInv
<1>2. CASE PlayerInv
  <2>1. [PlayerNext]_tabVars
    BY <1>2, InvariantsMount DEF Next, Mounted
  <2> QED BY <1>2, <2>1, PlayerStep DEF LearnerInv
<1>3. CASE PlanInv
  <2>1. [StudyPlanNext]_tabVars
    BY <1>3, InvariantsMount DEF Next, Mounted
  <2> QED BY <1>3, <2>1, PlanStep DEF LearnerInv
<1>4. CASE SignInInv
  <2>1. [SignInNext]_tabVars
    BY <1>4, InvariantsMount DEF Next, Mounted
  <2> QED BY <1>4, <2>1, SignInStep DEF LearnerInv
<1>5. CASE SpaceInv
  <2>1. [SpaceNext]_tabVars
    BY <1>5, InvariantsMount DEF Next, Mounted
  <2> QED BY <1>5, <2>1, SpaceStep DEF LearnerInv
<1>6. CASE ReviewInv
  <2>1. [ReviewNext]_tabVars
    BY <1>6, InvariantsMount DEF Next, Mounted
  <2> QED BY <1>6, <2>1, ReviewStep DEF LearnerInv
<1>7. CASE GoalInv
  <2>1. [GoalsNext]_tabVars
    BY <1>7, InvariantsMount DEF Next, Mounted
  <2> QED BY <1>7, <2>1, GoalsStep DEF LearnerInv
<1>8. CASE PracticeInv
  <2>1. [PracticeNext]_tabVars
    BY <1>8, InvariantsMount DEF Next, Mounted
  <2> QED BY <1>8, <2>1, PracticeStep DEF LearnerInv
<1> QED BY <1>1, <1>2, <1>3, <1>4, <1>5, <1>6, <1>7, <1>8 DEF LearnerInv

\* A property of one page says nothing of the others.
LEMMA ElsewhereNothing ==
  /\ ~Mounted("attempt") => ScoredIsShown /\ TimerStaysSet
  /\ ~Mounted("player") => DoneMeansPassed /\ ProgressIsTrue
  /\ ~Mounted("plan") => PlanOfView
  /\ ~Mounted("signin") => SessionIsOne
  /\ ~Mounted("space") => SpaceOfSelection /\ NoAttemptIsWasted
  /\ ~Mounted("review") => ReviewIsTrue
  /\ ~Mounted("goals") => OneGoalPerHorizon
  /\ ~Mounted("practice") => AnsweredOnce /\ ProgressIsOfEvidence /\ ResultIsRecorded
<1>1. ~Mounted("attempt") => ScoredIsShown /\ TimerStaysSet
  BY DEF ScoredIsShown, TimerStaysSet
<1>2. ~Mounted("player") => DoneMeansPassed /\ ProgressIsTrue
  BY DEF DoneMeansPassed, ProgressIsTrue
<1>3. ~Mounted("plan") => PlanOfView
  BY DEF PlanOfView
<1>4. ~Mounted("signin") => SessionIsOne
  BY DEF SessionIsOne, UserIsTheSession, TokenIsCurrent
<1>5. ~Mounted("space") => SpaceOfSelection /\ NoAttemptIsWasted
  BY DEF SpaceOfSelection, NoAttemptIsWasted
<1>6. ~Mounted("review") => ReviewIsTrue
  BY DEF ReviewIsTrue
<1>7. ~Mounted("goals") => OneGoalPerHorizon
  BY DEF OneGoalPerHorizon
<1>8. ~Mounted("practice") => AnsweredOnce /\ ProgressIsOfEvidence /\ ResultIsRecorded
  BY DEF AnsweredOnce, ProgressIsOfEvidence, ResultIsRecorded
<1> QED BY <1>1, <1>2, <1>3, <1>4, <1>5, <1>6, <1>7, <1>8

\* What the invariant of the mounted page says of every property.
LEMMA LearnerShown ==
  LearnerInv =>
    /\ AttemptsAreSafe /\ ProgressIsEarned /\ SelectionIsShown
    /\ SessionIsOne /\ OneGoalPerHorizon
<1> SUFFICES ASSUME LearnerInv
             PROVE  /\ AttemptsAreSafe /\ ProgressIsEarned /\ SelectionIsShown
                    /\ SessionIsOne /\ OneGoalPerHorizon
  OBVIOUS
<1>1. ScoredIsShown /\ TimerStaysSet
  <2>1. Mounted("attempt") => AttemptPageInv
    BY InvariantsMount DEF LearnerInv, Mounted
  <2> QED BY <2>1, ElsewhereNothing, AttemptPageShown
<1>2. DoneMeansPassed /\ ProgressIsTrue
  <2>1. Mounted("player") => PlayerInv
    BY InvariantsMount DEF LearnerInv, Mounted
  <2> QED BY <2>1, ElsewhereNothing, PlayerShown
<1>3. PlanOfView
  <2>1. Mounted("plan") => PlanInv
    BY InvariantsMount DEF LearnerInv, Mounted
  <2> QED BY <2>1, ElsewhereNothing DEF PlanInv
<1>4. SessionIsOne
  <2>1. Mounted("signin") => SignInInv
    BY InvariantsMount DEF LearnerInv, Mounted
  <2> QED BY <2>1, ElsewhereNothing, SignInShown
<1>5. SpaceOfSelection /\ NoAttemptIsWasted
  <2>1. Mounted("space") => SpaceInv
    BY InvariantsMount DEF LearnerInv, Mounted
  <2> QED BY <2>1, ElsewhereNothing, SpaceShown
<1>6. ReviewIsTrue
  <2>1. Mounted("review") => ReviewInv
    BY InvariantsMount DEF LearnerInv, Mounted
  <2> QED BY <2>1, ElsewhereNothing, ReviewShown
<1>7. OneGoalPerHorizon
  <2>1. Mounted("goals") => GoalInv
    BY InvariantsMount DEF LearnerInv, Mounted
  <2> QED BY <2>1, ElsewhereNothing, GoalsShown
<1>8. AnsweredOnce /\ ProgressIsOfEvidence /\ ResultIsRecorded
  <2>1. Mounted("practice") => PracticeInv
    BY InvariantsMount DEF LearnerInv, Mounted
  <2> QED BY <2>1, ElsewhereNothing, PracticeShown
<1> QED BY <1>1, <1>2, <1>3, <1>4, <1>5, <1>6, <1>7, <1>8
           DEF AttemptsAreSafe, ProgressIsEarned, SelectionIsShown

LEMMA LearnerInvariant == Spec => []LearnerInv
BY LearnerStart, LearnerStep, PTL DEF Spec

\* What is scored is what the learner saw as answered, a running attempt keeps its timer
\* (AssessmentAttemptPage.tsx), and a start that is repeated uses up no other attempt
\* (LearningSpacePage.tsx), for any papers, addresses and number of starts.
THEOREM AttemptsSafe == Spec => []AttemptsAreSafe
BY LearnerInvariant, LearnerShown, PTL

\* A lesson is shown as done only with the questions that must be passed and with its own
\* progress (CourseLearningPage.tsx), and a card of the review is answered once, with its
\* evidence counted once (ReviewPracticePage.tsx, internal/learning), for any courses,
\* lessons, questions and cards.
THEOREM ProgressEarned == Spec => []ProgressIsEarned
BY LearnerInvariant, LearnerShown, PTL

\* What the study plan, the learning space and the review library show belongs to what is
\* selected there, whichever answers are late, lost or out of order.
THEOREM SelectionShown == Spec => []SelectionIsShown
BY LearnerInvariant, LearnerShown, PTL

\* The client's user and token are its session's (AuthProvider.tsx), and a learner has one
\* active goal of a horizon in a scope (ReviewLibraryPage.tsx), whichever page is mounted.
THEOREM SessionAndGoalsHold == Spec => [](SessionIsOne /\ OneGoalPerHorizon)
BY LearnerInvariant, LearnerShown, PTL

\* A plan that was archived stays archived (StudyPlanPage.tsx), whichever page is mounted.
THEOREM ArchivedHolds == Spec => ArchivedStays
<1>1. LearnerInv /\ [Next]_tabVars =>
        [Mounted("plan") =>
           \A r \in server.plans, q \in server'.plans :
             r.id = q.id /\ r.status = "archived" => q.status = "archived"]_tabVars
  <2> SUFFICES ASSUME LearnerInv, [Next]_tabVars, Mounted("plan")
               PROVE  \A r \in server.plans, q \in server'.plans :
                        r.id = q.id /\ r.status = "archived" => q.status = "archived"
    OBVIOUS
  <2>1. PlanInv
    BY InvariantsMount DEF LearnerInv, Mounted
  <2>2. [StudyPlanNext]_tabVars
    BY DEF Next, Mounted
  <2> QED BY <2>1, <2>2, ArchivedStep
<1> QED BY <1>1, LearnerInvariant, PTL DEF Spec, ArchivedStays
=============================================================================
