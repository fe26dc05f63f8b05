------------------------------- MODULE SignIn -------------------------------
(***************************************************************************)
(* Signing in and out: apps/web/src/features/auth/state/AuthProvider.tsx,     *)
(* which keeps the user and the token that every writing request carries      *)
(* (getCsrfToken), and the header of the site with the dialog that uses it    *)
(* (public/header/OriginalHeader.tsx).                                       *)
(*                                                                         *)
(* The session itself is a cookie that only the server's answers set.  The    *)
(* server keeps one token for a session and replaces it whenever it is asked  *)
(* for one: a token is a pair of a session and a version.  Passwords, codes    *)
(* and names are left out: any sign-in may be refused.                        *)
(***************************************************************************)
EXTENDS BrowserTab

CONSTANTS
  SignInAccounts, PhoneAccounts,   \* what may be typed, and which of it is a phone
  MaxSessions, MaxTokens, MaxSignIns,
  MaxAsks                          \* how often ensureCsrf is called

ASSUME SignInAssumption ==
  /\ PhoneAccounts \subseteq SignInAccounts
  /\ MaxSessions \in Nat \ {0} /\ MaxTokens \in Nat /\ MaxSignIns \in Nat /\ MaxAsks \in Nat

Sessions == 1..MaxSessions
Tokens == [session : 0..MaxSessions, version : 0..MaxTokens]
NoToken == [session |-> 0, version |-> 0]
Anyone == SignInAccounts \cup {"none"}

\* input is what stands in the field of the login form; owner is "none" for a session
\* that was not made yet and for one that was revoked.
SignInTypeOK ==
  Mounted("signin") =>
    /\ screen \in
         [page : {"signin"}, user : Anyone, token : Tokens, loading : BOOLEAN,
          menu : BOOLEAN, open : BOOLEAN, signUp : BOOLEAN, input : Anyone,
          codeSent : BOOLEAN, smart : BOOLEAN, submitting : BOOLEAN,
          overtaken : BOOLEAN, crossed : BOOLEAN, lost : BOOLEAN,
          signIns : 0..MaxSignIns, asks : 0..MaxAsks]
    /\ server \in
         [cookie : 0..MaxSessions, made : 0..MaxSessions, owner : [Sessions -> Anyone],
          token : [Sessions -> 0..MaxTokens]]

TokenReads(cs) == {c \in cs : c.kind = "csrf"}
OwnerOf(session) == IF session = 0 THEN "none" ELSE server.owner[session]
TokenOf(session) ==
  [session |-> session, version |-> IF session = 0 THEN 0 ELSE server.token[session]]

(***************************************************************************)
(* The provider: who is signed in, asked once when the site is opened.  A     *)
(* request carries the cookie of the moment it is sent.  "overtaken" remembers*)
(* that a sign-in ended before that answer, "crossed" that a token was asked  *)
(* for while another request for one, or a change of session, was under way,  *)
(* and "lost" that the answer to a sign-out, or to the question, did not come.*)
(***************************************************************************)
SiteOpened(asks) ==
  [page |-> "signin", user |-> "none", token |-> NoToken, loading |-> TRUE,
   menu |-> FALSE, open |-> asks # "no", signUp |-> asks = "signup", input |-> "none",
   codeSent |-> FALSE, smart |-> FALSE, submitting |-> FALSE,
   overtaken |-> FALSE, crossed |-> FALSE, lost |-> FALSE, signIns |-> 0, asks |-> 0]

WhoIs(session) == [kind |-> "me", session |-> session]

\* The address may ask for the dialog.
SignInInit ==
  /\ \E visitor \in Anyone :
       LET session == IF visitor = "none" THEN 0 ELSE 1
       IN /\ server = [cookie |-> session, made |-> session,
                       owner |-> [s \in Sessions |-> IF s = 1 THEN visitor ELSE "none"],
                       token |-> [s \in Sessions |-> 0]]
          /\ calls = {WhoIs(session)}
  /\ \E asks \in {"no", "login", "signup"} : screen = SiteOpened(asks)

MeArrives(c) ==
  /\ c.kind = "me"
  /\ screen' = [screen EXCEPT !.user = OwnerOf(c.session), !.loading = FALSE]
  /\ Ended(c) /\ UNCHANGED server

MeFails(c) ==
  /\ c.kind = "me"
  /\ screen' = [screen EXCEPT !.user = "none", !.loading = FALSE, !.lost = TRUE]
  /\ Ended(c) /\ UNCHANGED server

Logout(n, token) ==
  [kind |-> "logout", n |-> n, session |-> server.cookie, token |-> token, stage |-> "sent"]

\* ensureCsrf(): "after" is what waits for the token, a sign-out or the write of a page;
\* the write itself is not of this module.
EnsureCsrf(after) ==
  /\ screen.asks < MaxAsks
  /\ LET asked == [screen EXCEPT !.asks = @ + 1]
     IN IF screen.token # NoToken
        THEN /\ calls' = calls \cup (IF after = "logout"
                                     THEN {Logout(screen.asks, screen.token)} ELSE {})
             /\ screen' = asked
        ELSE /\ calls' = calls \cup {[kind |-> "csrf", n |-> screen.asks, after |-> after,
                                      session |-> server.cookie, token |-> NoToken]}
             /\ screen' = [asked EXCEPT !.crossed = @ \/ TokenReads(calls) # {}]
  /\ UNCHANGED server

\* The token of before is worth nothing from now on, whoever holds it.
TokenReplaced(c) ==
  /\ c.kind = "csrf" /\ c.token = NoToken /\ OwnerOf(c.session) # "none"
  /\ server.token[c.session] < MaxTokens
  /\ server' = [server EXCEPT !.token[c.session] = @ + 1]
  /\ calls' = (calls \ {c}) \cup
       {[c EXCEPT !.token = [session |-> c.session, version |-> server.token[c.session] + 1]]}
  /\ UNCHANGED screen

CsrfArrives(c) ==
  /\ c.kind = "csrf" /\ c.token # NoToken
  /\ screen' = [screen EXCEPT !.token = c.token]
  /\ calls' = (calls \ {c}) \cup (IF c.after = "logout" THEN {Logout(c.n, c.token)} ELSE {})
  /\ UNCHANGED server

CsrfFails(c) ==
  /\ c.kind = "csrf"
  /\ screen' = [screen EXCEPT !.crossed = @ \/ c.token # NoToken]
  /\ Ended(c) /\ UNCHANGED server

PageWrites == screen.user # "none" /\ screen.token = NoToken /\ EnsureCsrf("write")

(***************************************************************************)
(* The dialog.                                                             *)
(***************************************************************************)
Becomes(p) == screen' = p /\ UNCHANGED <<calls, server>>

\* A link of the site, or an address that asks for the dialog, whoever is signed in; the
\* home page asks for it without another address.
FollowLink == screen.menu /\ Becomes([screen EXCEPT !.menu = FALSE])

AddressAsks ==
  \E signUp \in BOOLEAN, menu \in {FALSE, screen.menu} :
    Becomes([screen EXCEPT !.open = TRUE, !.signUp = signUp, !.menu = menu])

\* What was sent goes on: the dialog may be opened again before it ends.
CloseAuthDialog ==
  screen.open /\ Becomes([screen EXCEPT !.open = FALSE, !.input = "none", !.codeSent = FALSE])

\* A link of the dialog only hides it: what was typed, and a code that was sent, stay.
LeaveByLink == screen.open /\ Becomes([screen EXCEPT !.open = FALSE, !.menu = FALSE])

ToggleSignUp ==
  screen.open /\ Becomes([screen EXCEPT !.signUp = ~@, !.input = "none"])

LoginForm == screen.open /\ ~screen.signUp

\* A code that was asked for is forgotten.
TypeInput(account) ==
  LoginForm /\ Becomes([screen EXCEPT !.input = account, !.codeSent = FALSE])

Authenticates(p, kind, account) ==
  /\ screen.signIns < MaxSignIns
  /\ screen' = [p EXCEPT !.signIns = @ + 1]
  /\ calls' = calls \cup {[kind |-> kind, account |-> account, n |-> screen.signIns, new |-> 0]}
  /\ UNCHANGED server

HandleSmartLogin ==
  /\ LoginForm /\ ~screen.smart /\ screen.input # "none"
  /\ Authenticates([screen EXCEPT !.smart = TRUE], "login", screen.input)

PhoneTyped == LoginForm /\ screen.input \in PhoneAccounts

SendCode ==
  /\ PhoneTyped /\ ~screen.smart /\ ~screen.codeSent
  /\ screen' = [screen EXCEPT !.smart = TRUE]
  /\ calls' = calls \cup {[kind |-> "code"]}
  /\ UNCHANGED server

\* The code is asked for, although the phone in the field may be another by now.
CodeSent(c) ==
  /\ c.kind = "code"
  /\ \E sent \in BOOLEAN :
       screen' = [screen EXCEPT !.smart = FALSE, !.codeSent = @ \/ sent]
  /\ Ended(c) /\ UNCHANGED server

VerifyCode ==
  /\ PhoneTyped /\ screen.codeSent /\ ~screen.smart
  /\ Authenticates([screen EXCEPT !.smart = TRUE], "login", screen.input)

SendAgain == PhoneTyped /\ screen.codeSent /\ Becomes([screen EXCEPT !.codeSent = FALSE])

\* The form of a new account has a flag of its own: it does not wait for a login.
HandleEmailAuth(account) ==
  /\ screen.open /\ screen.signUp /\ ~screen.submitting
  /\ Authenticates([screen EXCEPT !.submitting = TRUE], "signup", account)

AuthCall(c) == c.kind \in {"login", "signup"}
DoneWaiting(p, c) ==
  IF c.kind = "login" THEN [p EXCEPT !.smart = FALSE] ELSE [p EXCEPT !.submitting = FALSE]

\* A new session, with its first token.
WithSession(account) ==
  [server EXCEPT !.made = @ + 1, !.owner[server.made + 1] = account]

SessionCreated(c) ==
  /\ AuthCall(c) /\ c.new = 0 /\ server.made < MaxSessions
  /\ server' = WithSession(c.account)
  /\ calls' = (calls \ {c}) \cup {[c EXCEPT !.new = server.made + 1]}
  /\ UNCHANGED screen

\* The answer brings the cookie, and with it the user and the token; the dialog is
\* closed, even when it was opened again for another account.
SignedIn(c) ==
  /\ AuthCall(c) /\ c.new # 0
  /\ server' = [server EXCEPT !.cookie = c.new]
  /\ screen' = [DoneWaiting(screen, c) EXCEPT
        !.user = c.account, !.token = TokenOf(c.new), !.open = FALSE, !.menu = FALSE,
        !.input = IF c.kind = "login" THEN "none" ELSE @,
        !.codeSent = IF c.kind = "login" THEN FALSE ELSE @,
        !.overtaken = @ \/ screen.loading,
        !.crossed = @ \/ TokenReads(calls) # {}]
  /\ Ended(c)

AuthFails(c) ==
  /\ AuthCall(c)
  /\ screen' = DoneWaiting(screen, c)
  /\ Ended(c) /\ UNCHANGED server

\* Google is another site: the page is gone with all it waited for.  The callback leads
\* back to /login, which opens the dialog, with a session or without.
SignInWithGoogle(account) ==
  /\ screen.open /\ screen.signIns < MaxSignIns
  /\ \/ UNCHANGED server
     \/ /\ server.made < MaxSessions
        /\ server' = [WithSession(account) EXCEPT !.cookie = server.made + 1]
  /\ screen' = [SiteOpened("login") EXCEPT !.signIns = screen.signIns + 1, !.asks = screen.asks]
  /\ calls' = {WhoIs(server'.cookie)}

(***************************************************************************)
(* Signing out.  The button waits for nothing: it may be pressed again.       *)
(***************************************************************************)
SignOut == screen.user # "none" /\ screen.menu /\ EnsureCsrf("logout")

\* A session that is there is revoked only with its token; one that is gone needs none.
LoggedOut(c) ==
  /\ c.kind = "logout" /\ c.stage = "sent"
  /\ IF OwnerOf(c.session) = "none" THEN Advances(c, "done") /\ UNCHANGED server
     ELSE IF c.token # TokenOf(c.session) THEN Advances(c, "refused") /\ UNCHANGED server
     ELSE Advances(c, "done") /\ server' = [server EXCEPT !.owner[c.session] = "none"]
  /\ UNCHANGED screen

\* The form is the login's, unless the address already asked for the dialog.
Loses(p, signUp) ==
  [p EXCEPT !.user = "none", !.token = NoToken, !.menu = FALSE, !.open = TRUE, !.signUp = signUp]

\* FAULTY: the token stays.
SignedOutKeepingToken(c) ==
  /\ c.kind = "logout" /\ c.stage = "done"
  /\ server' = [server EXCEPT !.cookie = 0]
  /\ screen' = [screen EXCEPT !.user = "none", !.menu = FALSE, !.open = TRUE]
  /\ Ended(c)

\* The answer takes the cookie away, whichever it is by now.
SignedOut(c) ==
  /\ c.kind = "logout" /\ c.stage = "done"
  /\ server' = [server EXCEPT !.cookie = 0]
  /\ \E signUp \in {FALSE, screen.open /\ screen.signUp} :
       screen' = [Loses(screen, signUp) EXCEPT !.crossed = @ \/ TokenReads(calls) # {}]
  /\ Ended(c)

SignOutFails(c) ==
  /\ c.kind = "logout"
  /\ screen' = [screen EXCEPT !.lost = @ \/ c.stage = "done"]
  /\ Ended(c) /\ UNCHANGED server

(***************************************************************************)
(* The parts of the header.                                                *)
(***************************************************************************)
UserMenu ==
  \/ SignOut
  \/ screen.user # "none" /\ Becomes([screen EXCEPT !.menu = ~@])

\* The menus of the navigation, on a desktop and on a telephone: what they open and
\* fold is left out, but for the links and the button of the dialog.
NavigationMenu ==
  \/ FollowLink
  \/ screen.user = "none" /\ Becomes([screen EXCEPT !.open = TRUE, !.signUp = FALSE])

SmartLoginForm == HandleSmartLogin \/ \E account \in SignInAccounts : TypeInput(account)
CodePanel == SendCode \/ SendAgain \/ VerifyCode
SignUpForm == \E account \in SignInAccounts \ PhoneAccounts : HandleEmailAuth(account)
LoginDialog ==
  \/ CloseAuthDialog \/ LeaveByLink \/ ToggleSignUp \/ SmartLoginForm \/ CodePanel \/ SignUpForm
  \/ \E account \in SignInAccounts \ PhoneAccounts : SignInWithGoogle(account)

SignInNext ==
  \/ UserMenu \/ NavigationMenu \/ AddressAsks \/ LoginDialog \/ PageWrites
  \/ \E c \in calls :
       \/ MeArrives(c) \/ MeFails(c) \/ TokenReplaced(c) \/ CsrfArrives(c) \/ CsrfFails(c)
       \/ CodeSent(c) \/ SessionCreated(c) \/ SignedIn(c) \/ AuthFails(c)
       \/ LoggedOut(c) \/ SignedOut(c) \/ SignOutFails(c)

SignInSpec == SignInInit /\ [][SignInNext]_tabVars

(***************************************************************************)
(* Properties                                                              *)
(***************************************************************************)
\* Whoever the header shows is who the server knows this browser as, whatever the
\* order in which sign-ins, sign-outs and the writes of pages end, once no answer to a
\* sign-out is on its way.  It holds but for what the code leaves open: the first
\* question about the user is answered after a sign-in, and an answer that was lost.
UserIsTheSession ==
  /\ Mounted("signin") /\ ~screen.loading /\ ~screen.overtaken /\ ~screen.lost
  /\ \A c \in calls : c.kind = "logout" => c.stage # "done"
  => screen.user = OwnerOf(server.cookie)

\* The token that is kept is the one the server takes: no page is refused for ever
\* because of it.  It holds unless two requests for a token, or one and a change of
\* session, crossed.
TokenIsCurrent ==
  Mounted("signin") /\ ~screen.crossed /\ screen.token # NoToken =>
    screen.token = TokenOf(server.cookie)

\* The user and the token that the client keeps are those of its session cookie, but for
\* the races named above.
SessionIsOne == UserIsTheSession /\ TokenIsCurrent
=============================================================================
