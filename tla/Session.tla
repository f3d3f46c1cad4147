------------------------------ MODULE Session ------------------------------
(***************************************************************************)
(* The session of one browser tab: AppStateService, AuthService and        *)
(* CryptoService, the interceptors and guards, and the pages that call     *)
(* them (login, callback, setup, the unlock dialog, settings).             *)
(*                                                                         *)
(* The tab is one thread. A flow is a call that waits, for a server or for *)
(* the key derivation; an action is an event with the code that runs up to *)
(* the next await. Flows of different kinds interleave, and whatever ends  *)
(* a session does not end the flows that were begun in it.                 *)
(*                                                                         *)
(* Left out: passwords, pictures, messages. Of the server: its sessions    *)
(* (AuthService.cpp, ApiRouter.cpp), the cookie, and the                   *)
(* vault_verification of each account.                                     *)
(***************************************************************************)
EXTENDS Integers, FiniteSets

CONSTANTS Users,     \* accounts, by e-mail
          Confirmed, \* the accounts whose e-mail has been verified before
          Phrases,   \* security phrases
          Together,  \* bound: the flows that are interleaved, sets of kinds
          GoesOn,    \* bound: flows begin after the tab has strayed
          MaxLogins, \* bound: forms of the login page that are sent
          MaxKeys,   \* bound: vault keys that setup generates
          NoOne,
          Nameless   \* the user of a token that was issued without its claims

Kinds == {"restore", "login", "register", "verify", "unlock", "setup",
          "change", "profile", "request", "logout"}

ASSUME SessionAssumption ==
    /\ Together \subseteq SUBSET Kinds /\ {MaxKeys, MaxLogins} \subseteq Nat
    /\ GoesOn \in BOOLEAN
    /\ IsFiniteSet(Users) /\ Confirmed \subseteq Users /\ NoOne \notin Users \cup Phrases
    /\ Nameless \notin Users \cup {NoOne}

\* Bound of what is proved of the vault: of the flows that are interleaved, the
\* login page sends one form at a time, and a vault is not set up beside a change
\* of the profile or a request that was begun in the drive.
Separate ==
    \A kinds \in Together :
        /\ \A j, k \in kinds \cap {"login", "register", "verify"} : j = k
        /\ "setup" \in kinds => kinds \cap {"profile", "request"} = {}

\* Bound: one more than there are flows, so that one is carried by none.
Tokens == 1..11

NoToken == 0

Keys == [owner : Users, number : 1..MaxKeys]

NoKey == [owner |-> NoOne, number |-> 0]

\* vault_verification: the vault key, encrypted with the master key that
\* deriveVaultKey makes of a phrase and, as its salt, an e-mail.
Sealed == [email : Users, phrase : Phrases, key : Keys]

NoVault == [email |-> NoOne, phrase |-> NoOne, key |-> NoKey]

VARIABLES app,        \* AppStateService: the status and the user
          token,      \* AuthService.jwtToken
          vaultKey,   \* CryptoService.vaultKey
          unlocked,   \* CryptoService._isUnlocked
          page,       \* the route
          view,       \* LoginComponent.view
          typed,      \* the account in the login form, or NoOne
          flow,       \* the flow of each kind
          session,    \* what each token says, and whether it is valid
          cookie,     \* the HttpOnly cookie
          verified,   \* accounts whose e-mail is verified (external)
          vault,      \* vault_verification of each account (external)
          made,       \* the vault keys made so far
          logins,     \* the forms of the login page sent so far
          files,      \* history: whose files are encrypted with which key
          strayed     \* history: a flow went on after its session, or a refresh
                      \* failed and left the vault key in memory

memory == <<app, token, vaultKey, unlocked>>
pages  == <<page, view, typed>>
server == <<session, cookie, verified, vault>>
vars == <<memory, pages, flow, server, made, logins, files, strayed>>

Off == [at |-> "off", user |-> NoOne, phrase |-> NoOne, next |-> NoOne,
        token |-> NoToken, vault |-> NoVault, how |-> "", stale |-> FALSE]

Steps == {"off", "wait", "ask", "derive", "open", "check", "again", "seal",
          "post", "put", "refresh"}

TypeOK ==
    /\ app \in [status : {"Loading", "Unauthenticated", "Onboarding", "Locked",
                          "Unlocked"}, user : Users \cup {NoOne, Nameless}]
    /\ token \in Tokens \cup {NoToken} /\ cookie \in Tokens \cup {NoToken}
    /\ vaultKey \in Keys \cup {NoKey} /\ unlocked \in BOOLEAN
    /\ page \in {"login", "callback", "setup", "home"}
    /\ view \in {"login", "register", "avatar", "verify"}
    /\ typed \in Users \cup {NoOne}
    /\ flow \in [Kinds ->
          [at : Steps, user : Users \cup {NoOne}, phrase : Phrases \cup {NoOne},
           next : Phrases \cup {NoOne}, token : Tokens \cup {NoToken},
           vault : Sealed \cup {NoVault}, stale : BOOLEAN,
           how : {"", "google", "link", "all", "name", "picture", "avatar"}]]
    /\ session \in [Tokens -> [owner : Users \cup {NoOne, Nameless}, init : BOOLEAN,
                               alive : BOOLEAN]]
    /\ verified \subseteq Users
    /\ vault \in [Users -> Sealed \cup {NoVault}]
    /\ made \in 0..MaxKeys /\ logins \in 0..MaxLogins
    /\ files \subseteq [owner : Users, key : Keys]
    /\ strayed \in BOOLEAN

(***************************************************************************)
(* The services.                                                           *)
(***************************************************************************)
SignedOut == [status |-> "Unauthenticated", user |-> NoOne]

\* AppStateService.login, with the user and the flag that the token holds.
LoggedIn(claims) ==
    [status |-> IF claims.init THEN "Locked" ELSE "Onboarding", user |-> claims.owner]

Lock(a) == [a EXCEPT !.status = "Locked"]

Unlock(a) == [a EXCEPT !.status = "Unlocked"]

\* A token that is missing, expired, or of a session that has been ended.
Accepts(t) == t # NoToken /\ session[t].alive

Initialised(u) == vault[u] # NoVault

\* The tokens that the flows carry; a login or a refresh replaces the others.
Carried(f) == {f[k].token : k \in Kinds}

Fresh(f) == CHOOSE t \in Tokens : t \notin Carried(f)

NoSession == [owner |-> NoOne, init |-> FALSE, alive |-> FALSE]

\* generate_token swallows every failure of the database: the token says what
\* has been read of the account by then, and its session may not be stored.
Claims(u) ==
    [owner : {u}, init : {Initialised(u)}, alive : BOOLEAN]
        \cup {[owner |-> Nameless, init |-> FALSE, alive |-> FALSE]}

Issue(t, claims, f) ==
    session' = [s \in Tokens |->
                  IF s = t THEN claims
                  ELSE IF s \in Carried(f) THEN session[s] ELSE NoSession]

\* authGuard, vaultGuard and the constructor of the login page: where any
\* navigation inside the application ends.
Landing(a) ==
    CASE a.status = "Unauthenticated" -> "login"
      [] a.status = "Onboarding"      -> "setup"
      [] OTHER                        -> "home"

Guarded(a, open) == IF Landing(a) = "home" /\ ~open THEN Lock(a) ELSE a

\* The login page is made again whenever it is opened.
Form ==
    IF page = "login" /\ page' = "login" THEN UNCHANGED <<view, typed>>
    ELSE view' = "login" /\ typed' = NoOne

\* router.navigate to any page of the application.
Navigates(a, open) ==
    /\ app' = Guarded(a, open)
    /\ page' = Landing(a)
    /\ Form

(***************************************************************************)
(* Flows.                                                                  *)
(***************************************************************************)
Running == {k \in Kinds \ {"logout"} : flow[k].at # "off"}

\* Bound: the flow of a kind begins again only once it has ended.
MayBegin(k) ==
    /\ flow[k].at = "off"
    /\ \E kinds \in Together : Running \cup {k} \subseteq kinds

Ended(f, k) == [f EXCEPT ![k] = Off]

Goes(k, step) == flow' = [flow EXCEPT ![k].at = step]

Asks(k, step) == flow' = [flow EXCEPT ![k].at = step, ![k].token = token]

\* What changes the session leaves the flows that run as they are.
Outlived(f) ==
    [k \in Kinds |-> IF f[k].at \in {"off", "wait"} \/ k = "logout" THEN f[k]
                     ELSE [f[k] EXCEPT !.stale = TRUE]]

Strays(k) == strayed' = (strayed \/ flow[k].stale)

\* The request of logout, sent with the token of the session that ends.
Farewell(f, how) ==
    IF token = NoToken \/ f["logout"].at # "off" THEN f
    ELSE [f EXCEPT !["logout"] = [Off EXCEPT !.at = "ask", !.token = token,
                                             !.how = how]]

\* Mutant of SignsOut: the vault stays open.
SignsOutOpen(f, how) ==
    /\ token' = NoToken /\ UNCHANGED <<vaultKey, unlocked>>
    /\ app' = SignedOut
    /\ page' = "login" /\ Form
    /\ flow' = Farewell(Outlived(f), how)

\* AuthService.logout and logoutGlobal.
SignsOut(f, how) ==
    /\ token' = NoToken /\ vaultKey' = NoKey /\ unlocked' = FALSE
    /\ app' = SignedOut
    /\ page' = "login" /\ Form
    /\ flow' = Farewell(Outlived(f), how)

\* errorInterceptor: a request of flow k is answered with 401.
Unauthorized(k) ==
    /\ SignsOut(Ended(flow, k), "")
    /\ UNCHANGED <<server, made, logins, files, strayed>>

\* Any other failure, whether or not the server has done what it was asked.
Fails(k) ==
    /\ flow' = Ended(flow, k)
    /\ UNCHANGED <<memory, pages, made, logins, files, strayed>>

\* A request of flow k fails before the server acts on it.
Refused(k) ==
    \/ ~Accepts(flow[k].token) /\ Unauthorized(k)
    \/ Fails(k) /\ UNCHANGED server

\* Mutant of Restores: the state is updated, the token is not.
RestoresState(k, f, a) ==
    LET t == Fresh(f)
    IN  /\ Accepts(flow[k].token)
        /\ cookie' = t
        /\ \E claims \in Claims(session[flow[k].token].owner) :
              a = LoggedIn(claims) /\ Issue(t, claims, f)
        /\ flow' = Outlived(f)
        /\ strayed' = (strayed \/ flow[k].stale)
        /\ UNCHANGED <<token, vaultKey, unlocked, verified, vault, made, logins, files>>

\* restoreSession, sent with the cookie that flow k carries: nobody is logged
\* in, or the new token says who.
Restores(k, f, a) ==
    LET t == Fresh(f)
    IN  /\ Accepts(flow[k].token)
        /\ token' = t /\ cookie' = t
        /\ \E claims \in Claims(session[flow[k].token].owner) :
              a = LoggedIn(claims) /\ Issue(t, claims, f)
        /\ flow' = Outlived(f)
        /\ strayed' = (strayed \/ flow[k].stale)
        /\ UNCHANGED <<vaultKey, unlocked, verified, vault, made, logins, files>>

\* The failure is caught by appState.logout() alone, which clears neither the old
\* token nor the vault key: a key that is in memory is there for the next user.
NotRestored(k, f, a) ==
    /\ a = SignedOut
    /\ strayed' = (strayed \/ flow[k].stale \/ vaultKey # NoKey)
    /\ flow' = Outlived(f)
    /\ UNCHANGED <<token, vaultKey, unlocked, server, made, logins, files>>

RestoreSession(k, f, a) == Restores(k, f, a) \/ NotRestored(k, f, a)

(***************************************************************************)
(* Loading the page.                                                       *)
(***************************************************************************)
Init ==
    /\ app = [status |-> "Loading", user |-> NoOne]
    /\ token = NoToken /\ vaultKey = NoKey /\ unlocked = FALSE
    /\ page = "login" /\ view = "login" /\ typed = NoOne
    /\ flow = [k \in Kinds |-> IF k = "restore" THEN [Off EXCEPT !.at = "ask"]
                               ELSE Off]
    /\ session = [t \in Tokens |-> NoSession]
    /\ cookie = NoToken
    /\ verified = Confirmed
    /\ vault = [u \in Users |-> NoVault] /\ made = 0 /\ logins = 0
    /\ files = {} /\ strayed = FALSE

LogsIn == logins < MaxLogins /\ logins' = logins + 1

\* The page is loaded again, by F5, by a link, or when Google redirects to the
\* callback page, where a flow waits until the application has started.
Reload(to, callback) ==
    /\ app' = [status |-> "Loading", user |-> NoOne]
    /\ token' = NoToken /\ vaultKey' = NoKey /\ unlocked' = FALSE
    /\ page' = to /\ view' = "login" /\ typed' = NoOne
    /\ flow' = [k \in Kinds |->
                  CASE k = "restore" -> [Off EXCEPT !.at = "ask", !.token = cookie]
                    [] k = "login"   -> callback
                    [] OTHER         -> Off]
    /\ UNCHANGED <<server, made, files, strayed>>

\* Nothing is shown, and nothing can be clicked, before the session is restored.
AtHome == page = "home" /\ app.status # "Loading"

Refresh ==
    /\ app.status # "Loading" /\ page # "callback"
    /\ Reload(page, Off) /\ UNCHANGED logins

\* loginWithGoogle and linkGoogleDrive leave the page; Google sends u back.
GoogleReturns(u) ==
    /\ page = "login" /\ app.status = "Unauthenticated"
    /\ LogsIn
    /\ Reload("callback", [Off EXCEPT !.at = "wait", !.user = u, !.how = "google"])

GoogleLinks ==
    /\ AtHome
    /\ Reload("callback", [Off EXCEPT !.at = "wait", !.how = "link"])
    /\ UNCHANGED logins

\* APP_INITIALIZER: the application starts when the session is restored.
Start ==
    /\ flow["restore"].at = "ask"
    /\ \E a \in [status : {"Unauthenticated", "Onboarding", "Locked"},
                 user : Users \cup {NoOne, Nameless}] :
          /\ RestoreSession("restore", Ended(flow, "restore"), a)
          /\ IF page = "callback"
             THEN app' = a /\ UNCHANGED pages
             ELSE Navigates(a, unlocked)

\* Back, forward, or a link within the application.
Navigate ==
    /\ app.status # "Loading" /\ page # "callback"
    /\ Navigates(app, unlocked)
    /\ <<app', page'>> # <<app, page>>
    /\ UNCHANGED <<token, vaultKey, unlocked, flow, server, made, logins, files, strayed>>

(***************************************************************************)
(* Logging in.                                                             *)
(***************************************************************************)
AtLogin == page = "login" /\ app.status # "Loading"

ShowView(v) ==
    /\ AtLogin
    /\ <<view, v>> \in {<<"login", "register">>, <<"register", "login">>,
                        <<"verify", "login">>}
    /\ view' = v
    /\ UNCHANGED <<memory, page, typed, flow, server, made, logins, files, strayed>>

\* The name and the password stay in the form, for doVerify.
DoLogin(u) ==
    /\ AtLogin /\ view = "login" /\ MayBegin("login")
    /\ LogsIn /\ typed' = u
    /\ flow' = [flow EXCEPT !["login"] = [Off EXCEPT !.at = "ask", !.user = u]]
    /\ UNCHANGED <<memory, page, view, server, made, files, strayed>>

\* A login has been granted: the token, with its claims, and the cookie.
Enters(claims, f) ==
    LET t == Fresh(f)
    IN  /\ token' = t /\ cookie' = t /\ Issue(t, claims, f)
        /\ flow' = Outlived(f)
        /\ UNCHANGED <<vaultKey, unlocked, verified, vault, made, logins, files, strayed>>

\* loginWithCredentials from doLogin, or from doVerify (how = "avatar").
LoginGranted ==
    LET l == flow["login"]
    IN  /\ l.at = "ask" /\ l.how \in {"", "avatar"} /\ l.user \in verified
        /\ \E claims \in Claims(l.user) :
              /\ Enters(claims, Ended(flow, "login"))
              /\ IF l.how = ""
                 THEN Navigates(LoggedIn(claims), unlocked)
                 ELSE /\ app' = LoggedIn(claims) /\ UNCHANGED <<page, typed>>
                      /\ view' = IF page = "login" THEN "avatar" ELSE view

\* 403: the interceptor locks, before anyone has logged in.
LoginUnverified ==
    LET l == flow["login"]
    IN  /\ l.at = "ask" /\ l.how \in {"", "avatar"} /\ l.user \notin verified
        /\ app' = Lock(app)
        /\ view' = IF page # "login" THEN view
                   ELSE IF l.how = "" THEN "verify" ELSE "login"
        /\ flow' = Ended(flow, "login")
        /\ UNCHANGED <<token, vaultKey, unlocked, page, typed, server, made,
                       logins, files, strayed>>

\* Wrong credentials are a 401, for the interceptor too.
LoginDenied ==
    /\ flow["login"].at = "ask" /\ flow["login"].how \in {"", "avatar"}
    /\ Unauthorized("login")

LoginFails ==
    /\ flow["login"].at = "ask" /\ flow["login"].how \in {"", "avatar"}
    /\ flow' = Ended(flow, "login")
    /\ view' = IF flow["login"].how = "" \/ page # "login" THEN view ELSE "login"
    /\ UNCHANGED <<memory, page, typed, server, made, logins, files, strayed>>

\* handleFragment, or ngOnInit with a code: the callback page has started.
CallbackStarts ==
    /\ page = "callback" /\ app.status # "Loading" /\ flow["login"].at = "wait"
    /\ Asks("login", "ask")
    /\ UNCHANGED <<memory, pages, server, made, logins, files, strayed>>

\* A redirect without a token, or a refused login: back to the login page,
\* whose constructor sends whoever has been restored to the drive.
GoogleFails ==
    /\ flow["login"].at \in {"wait", "ask"} /\ flow["login"].how = "google"
    /\ app.status # "Loading"
    /\ flow' = Ended(flow, "login")
    /\ Navigates(app, unlocked)
    /\ UNCHANGED <<token, vaultKey, unlocked, server, made, logins, files, strayed>>

GoogleGranted ==
    /\ flow["login"].at = "ask" /\ flow["login"].how = "google"
    /\ \E claims \in Claims(flow["login"].user) :
          /\ Enters(claims, Ended(flow, "login"))
          /\ Navigates(LoggedIn(claims), unlocked)

\* linkGoogleDrive: a failure leaves the callback page with its button.
DriveLinked ==
    /\ flow["login"].at = "ask" /\ flow["login"].how = "link"
    /\ \/ /\ Accepts(flow["login"].token)
          /\ flow' = Ended(flow, "login")
          /\ Navigates(app, unlocked)
          /\ UNCHANGED <<token, vaultKey, unlocked, server, made, logins, files, strayed>>
       \/ Refused("login")

GoToLogin ==
    /\ page = "callback" /\ flow["login"].at = "off"
    /\ app.status # "Loading"
    /\ Navigates(app, unlocked)
    /\ UNCHANGED <<token, vaultKey, unlocked, flow, server, made, logins, files, strayed>>

DoRegister(u) ==
    /\ AtLogin /\ view = "register" /\ MayBegin("register") /\ u \notin verified
    /\ LogsIn /\ typed' = u
    /\ flow' = [flow EXCEPT !["register"].at = "ask"]
    /\ UNCHANGED <<memory, page, view, server, made, files, strayed>>

Registered ==
    /\ flow["register"].at = "ask"
    /\ flow' = Ended(flow, "register")
    /\ view' \in IF page = "login" THEN {"verify", "register"} ELSE {view}
    /\ UNCHANGED <<memory, page, typed, server, made, logins, files, strayed>>

DoVerify(u) ==
    /\ AtLogin /\ view = "verify" /\ MayBegin("verify")
    /\ typed \in {u, NoOne} /\ u \notin verified
    /\ LogsIn
    /\ flow' = [flow EXCEPT !["verify"] =
                  [Off EXCEPT !.at = "ask", !.user = u,
                              !.how = IF typed = NoOne THEN "" ELSE "avatar"]]
    /\ UNCHANGED <<memory, pages, server, made, files, strayed>>

\* With a name and a password in the form, doVerify logs in.
Verified ==
    LET v == flow["verify"]
    IN  /\ v.at = "ask"
        /\ verified' = verified \cup {v.user}
        /\ IF v.how = "avatar" /\ flow["login"].at = "off"
           THEN /\ flow' = [Ended(flow, "verify") EXCEPT
                              !["login"] = [Off EXCEPT !.at = "ask", !.user = v.user,
                                                       !.how = "avatar"]]
                /\ UNCHANGED view
           ELSE /\ flow' = Ended(flow, "verify")
                /\ view' = IF page = "login" THEN "login" ELSE view
        /\ UNCHANGED <<memory, page, typed, session, cookie, vault, made, logins, files,
                       strayed>>

VerifyFails == flow["verify"].at = "ask" /\ Fails("verify") /\ UNCHANGED server

AvatarForm == AtLogin /\ view = "avatar" /\ flow["profile"].at = "off"

\* finishAvatarUpload without a picture.
SkipAvatar ==
    /\ AvatarForm
    /\ Navigates(app, unlocked)
    /\ UNCHANGED <<token, vaultKey, unlocked, flow, server, made, logins, files, strayed>>

(***************************************************************************)
(* The vault: unlocking, setting up, locking, changing the phrase.         *)
(***************************************************************************)
\* The drive shows its buttons by the state, not by the key.
UnlockOffered == page = "home" /\ app.status = "Locked"

LockOffered == AtHome /\ app.status # "Locked"

\* appState.user()?.email: the salt of every derivation.
Named == app.user \in Users

\* The dialog takes one phrase at a time.
UnlockForm == UnlockOffered /\ MayBegin("unlock")

\* UnlockModalComponent.onSubmit, after the pause for its spinner.
BeginUnlock(p) ==
    /\ UnlockForm
    /\ Named
    /\ flow' = [flow EXCEPT !["unlock"] = [Off EXCEPT !.at = "derive",
                                             !.user = app.user, !.phrase = p]]
    /\ UNCHANGED <<memory, pages, server, made, logins, files, strayed>>

UnlockAsks ==
    /\ flow["unlock"].at = "derive"
    /\ Asks("unlock", "ask")
    /\ UNCHANGED <<memory, pages, server, made, logins, files, strayed>>

\* The verification of whoever the token belongs to; there may be none.
Verification(k, step) ==
    LET t == flow[k].token
    IN  /\ flow[k].at = "ask"
        /\ \/ /\ Accepts(t) /\ Initialised(session[t].owner)
              /\ flow' = [flow EXCEPT ![k].at = step,
                                      ![k].vault = vault[session[t].owner]]
              /\ UNCHANGED <<memory, pages, server, made, logins, files, strayed>>
           \/ Refused(k)

\* decryptName: XChaCha20-Poly1305 fails under any other master key.
Opens(k) ==
    flow[k].vault.email = flow[k].user /\ flow[k].vault.phrase = flow[k].phrase

\* unlockVault ends; onSubmit unlocks the state, whatever it is by now.
Unlocks ==
    /\ flow["unlock"].at = "open"
    /\ IF Opens("unlock")
       THEN /\ vaultKey' = flow["unlock"].vault.key /\ unlocked' = TRUE
            /\ app' = Unlock(app)
            /\ Strays("unlock")
       ELSE UNCHANGED <<vaultKey, unlocked, app, strayed>>
    /\ flow' = Ended(flow, "unlock")
    /\ UNCHANGED <<token, pages, server, made, logins, files>>

SetupForm == page = "setup" /\ MayBegin("setup")

BeginSetup(p) ==
    /\ SetupForm /\ Named
    /\ made < MaxKeys
    /\ flow' = [flow EXCEPT !["setup"] = [Off EXCEPT !.at = "derive",
                                            !.user = app.user, !.phrase = p]]
    /\ UNCHANGED <<memory, pages, server, made, logins, files, strayed>>

\* initializeVault: the key is in use before anyone else knows it.
SetupSeals ==
    LET s == flow["setup"]
        k == [owner |-> s.user, number |-> made + 1]
    IN  /\ s.at = "derive" /\ made < MaxKeys
        /\ made' = made + 1
        /\ vaultKey' = k
        /\ flow' = [flow EXCEPT !["setup"].at = "seal",
                      !["setup"].vault = [email |-> s.user, phrase |-> s.phrase,
                                          key |-> k]]
        /\ Strays("setup")
        /\ UNCHANGED <<app, token, unlocked, pages, server, logins, files>>

\* The vault is stored under the account of the token at the time it is sent.
Posts(k) ==
    /\ flow[k].at = "seal"
    /\ Asks(k, "post")
    /\ Strays(k)
    /\ UNCHANGED <<memory, pages, server, made, logins, files>>

Stores(k) ==
    LET t == flow[k].token
    IN  /\ flow[k].at = "post" /\ Accepts(t)
        /\ vault' = [vault EXCEPT ![session[t].owner] = flow[k].vault]
        /\ Strays(k)
        /\ UNCHANGED <<session, cookie, verified>>

\* The server has stored it, but the answer is lost.
StoreLost(k) ==
    /\ Stores(k)
    /\ flow' = Ended(flow, k)
    /\ UNCHANGED <<memory, pages, made, logins, files>>

StoreRefused(k) == flow[k].at = "post" /\ Refused(k)

\* Mutant of SetupStored: any answer will do.
SetupStoredUnchecked ==
    /\ flow["setup"].at = "post"
    /\ unlocked' = TRUE
    /\ flow' = [flow EXCEPT !["setup"].at = "refresh", !["setup"].token = cookie]
    /\ Strays("setup")
    /\ UNCHANGED <<app, token, vaultKey, pages, server, made, logins, files>>

SetupStored ==
    /\ Stores("setup")
    /\ unlocked' = TRUE
    /\ flow' = [flow EXCEPT !["setup"].at = "refresh", !["setup"].token = cookie]
    /\ UNCHANGED <<app, token, vaultKey, pages, made, logins, files>>

\* restoreSession puts the state to Locked, or to no user at all; then it is
\* unlocked, in either case.
SetupEnds ==
    /\ flow["setup"].at = "refresh"
    /\ \E a \in [status : {"Unauthenticated", "Onboarding", "Locked"},
                 user : Users \cup {NoOne, Nameless}] :
          /\ RestoreSession("setup", Ended(flow, "setup"), a)
          /\ Navigates(Unlock(a), unlocked)

\* Mutant of LockVault: the state is not told.
LockVaultOnly ==
    /\ LockOffered
    /\ vaultKey' = NoKey /\ unlocked' = FALSE
    /\ UNCHANGED <<app, token, pages, flow, server, made, logins, files, strayed>>

\* TopbarComponent.lockVault, VaultHomeComponent.lockDrive.
LockVault ==
    /\ LockOffered
    /\ vaultKey' = NoKey /\ unlocked' = FALSE
    /\ app' = Lock(app)
    /\ UNCHANGED <<token, pages, flow, server, made, logins, files, strayed>>

\* Settings; the button needs _isUnlocked, whatever the state says.
ChangeForm == page = "home" /\ unlocked /\ MayBegin("change")

BeginChange(p, q) ==
    /\ ChangeForm
    /\ vaultKey # NoKey /\ Named
    /\ flow' = [flow EXCEPT !["change"] =
                  [Off EXCEPT !.at = "derive", !.user = app.user, !.phrase = p,
                              !.next = q]]
    /\ UNCHANGED <<memory, pages, server, made, logins, files, strayed>>

ChangeAsks ==
    /\ flow["change"].at = "derive"
    /\ Asks("change", "ask")
    /\ UNCHANGED <<memory, pages, server, made, logins, files, strayed>>

ChangeChecks ==
    /\ flow["change"].at = "check"
    /\ IF Opens("change") THEN Goes("change", "again")
       ELSE flow' = Ended(flow, "change")
    /\ UNCHANGED <<memory, pages, server, made, logins, files, strayed>>

\* The vault key is read only now: it is gone if the vault has been locked.
ChangeSeals ==
    LET c == flow["change"]
    IN  /\ c.at = "again"
        /\ IF vaultKey = NoKey
           THEN flow' = Ended(flow, "change") /\ UNCHANGED strayed
           ELSE /\ flow' = [flow EXCEPT !["change"].at = "seal",
                              !["change"].vault = [email |-> c.user,
                                                   phrase |-> c.next,
                                                   key |-> vaultKey]]
                /\ Strays("change")
        /\ UNCHANGED <<memory, pages, server, made, logins, files>>

ChangeStored ==
    /\ Stores("change")
    /\ flow' = Ended(flow, "change")
    /\ UNCHANGED <<memory, pages, made, logins, files>>

(***************************************************************************)
(* The profile, other requests, and signing out.                           *)
(***************************************************************************)
ProfileMenu == page = "home" /\ app.user # NoOne

BeginProfile(how) ==
    /\ \/ ProfileMenu /\ how \in {"name", "picture"}
       \/ AvatarForm /\ how = "avatar"
    /\ MayBegin("profile")
    /\ flow' = [flow EXCEPT !["profile"] = [Off EXCEPT !.at = "put", !.how = how,
                                                       !.token = token]]
    /\ UNCHANGED <<memory, pages, server, made, logins, files, strayed>>

\* The topbar sends a picture with fetch, past the interceptors.
ProfileSaved ==
    LET p == flow["profile"]
    IN  /\ p.at = "put"
        /\ \/ /\ Accepts(p.token)
              /\ flow' = [flow EXCEPT !["profile"].at = "refresh",
                                      !["profile"].token = cookie]
              /\ UNCHANGED <<memory, pages, server, made, logins, files, strayed>>
           \/ p.how # "picture" /\ Refused("profile")
           \/ p.how = "picture" /\ Fails("profile") /\ UNCHANGED server

\* A new token, and a state that is Locked although the vault key is not gone.
ProfileEnds ==
    /\ flow["profile"].at = "refresh"
    /\ \E a \in [status : {"Unauthenticated", "Onboarding", "Locked"},
                 user : Users \cup {NoOne, Nameless}] :
          /\ RestoreSession("profile", Ended(flow, "profile"), a)
          /\ IF flow["profile"].how = "avatar" /\ page = "login"
             THEN Navigates(a, unlocked)
             ELSE app' = a /\ UNCHANGED pages

\* Any request of the drive.
BeginRequest ==
    /\ AtHome /\ MayBegin("request")
    /\ flow' = [flow EXCEPT !["request"] = [Off EXCEPT !.at = "ask",
                                                       !.token = token]]
    /\ UNCHANGED <<memory, pages, server, made, logins, files, strayed>>

RequestEnds ==
    /\ flow["request"].at = "ask"
    /\ \/ Refused("request")
       \/ Accepts(flow["request"].token) /\ Fails("request") /\ UNCHANGED server

\* 403, from the server for a folder of someone else, or from Google, to an
\* account with files: the state is locked, the key is kept.
Forbidden ==
    /\ flow["request"].at = "ask" /\ Accepts(flow["request"].token)
    /\ Initialised(session[flow["request"].token].owner)
    /\ flow' = Ended(flow, "request")
    /\ app' = Lock(app)
    /\ Strays("request")
    /\ UNCHANGED <<token, vaultKey, unlocked, pages, server, made, logins, files>>

\* A file is uploaded: encryptName and the key of the file use the vault key.
Upload ==
    /\ AtHome /\ app.status # "Locked"
    /\ vaultKey # NoKey /\ Accepts(token)
    /\ files' = files \cup {[owner |-> session[token].owner, key |-> vaultKey]}
    /\ files' # files
    /\ UNCHANGED <<memory, pages, flow, server, made, logins, strayed>>

Logout(how) ==
    /\ AtHome /\ how \in {"", "all"}
    /\ SignsOut(flow, how)
    /\ UNCHANGED <<server, made, logins, files, strayed>>

\* The server ends one session, or all of the account.
LogoutEnds ==
    LET l == flow["logout"]
        gone == IF l.how = "" THEN {l.token}
                ELSE {t \in Tokens : session[t].owner = session[l.token].owner}
    IN  /\ l.at = "ask"
        /\ \/ /\ Accepts(l.token)
              /\ session' = [t \in Tokens |->
                               [session[t] EXCEPT !.alive = @ /\ t \notin gone]]
              /\ cookie' = NoToken
              /\ flow' = Ended(flow, "logout")
              /\ UNCHANGED <<memory, pages, verified, vault, made, logins, files, strayed>>
           \/ Refused("logout")

\* Elsewhere: a day has passed, ten newer sessions, or a global logout.
Expire ==
    /\ \E t \in {token, cookie} : Accepts(t)
    /\ session' = [t \in Tokens |->
                     [session[t] EXCEPT !.alive = @ /\ t \notin {token, cookie}]]
    /\ UNCHANGED <<memory, pages, flow, cookie, verified, vault, made, logins, files,
                   strayed>>

(***************************************************************************)
(* The specification.                                                      *)
(***************************************************************************)
Loads ==
    Refresh \/ GoogleLinks \/ Start \/ Navigate \/ CallbackStarts
    \/ \E u \in Users : GoogleReturns(u)

Forms ==
    \/ \E v \in {"login", "register"} : ShowView(v)
    \/ \E u \in Users : DoLogin(u) \/ DoRegister(u) \/ DoVerify(u)
    \/ SkipAvatar \/ GoToLogin

Answers ==
    \/ LoginGranted \/ LoginUnverified \/ LoginDenied \/ LoginFails
    \/ GoogleGranted \/ GoogleFails \/ DriveLinked
    \/ Registered \/ Verified \/ VerifyFails
    \/ UnlockAsks \/ Verification("unlock", "open") \/ Unlocks
    \/ SetupSeals \/ SetupStored \/ SetupEnds
    \/ ChangeAsks \/ Verification("change", "check") \/ ChangeChecks
    \/ ChangeSeals \/ ChangeStored
    \/ \E k \in {"setup", "change"} : Posts(k) \/ StoreLost(k) \/ StoreRefused(k)
    \/ ProfileSaved \/ ProfileEnds \/ RequestEnds \/ Forbidden \/ LogoutEnds

Clicks ==
    \/ \E p \in Phrases : BeginUnlock(p) \/ BeginSetup(p)
    \/ \E p, q \in Phrases : p # q /\ BeginChange(p, q)
    \/ \E how \in {"name", "picture", "avatar"} : BeginProfile(how)
    \/ \E how \in {"", "all"} : Logout(how)
    \/ LockVault \/ BeginRequest \/ Upload

\* Bound: nothing new is begun once the tab has strayed.
MayAct == strayed => GoesOn

Next ==
    \/ Loads \/ Answers
    \/ MayAct /\ (Forms \/ Clicks \/ Expire)

Spec == Init /\ [][Next]_vars

(***************************************************************************)
(* Properties.                                                             *)
(***************************************************************************)
\* The token in memory is of the user that the state shows, although each of
\* them is written by logins, refreshes and logouts that overtake each other
\* (AuthService.jwtToken, AppStateService.login and logout).
TokenIsUsers ==
    token # NoToken /\ app.user # NoOne => session[token].owner = app.user

\* The vault is promised nothing any more, by the next three properties, once the
\* tab has strayed, which happens in two ways. A flow has outlived its session:
\* it went on, although somebody had been logged in, or out, since it began. Or a
\* key has outlived it: a refresh failed, its catchError (auth.service.ts:74-77)
\* called appState.logout() alone, and the vault key stayed in memory. Whoever
\* signs in next, in the same tab, finds it there: changeSecurityPhrase
\* (crypto.service.ts:160) would store it, sealed, as the vault of that account,
\* and the files which that account has could not be read again. LogoutWipes says
\* what the second way breaks.

\* Unless the tab has strayed, in one of these two ways, an unlocked drive is open
\* with the key of its own user, and with the one that is stored for that user:
\* never with one of an earlier user of the tab, nor with one whose setup failed
\* (CryptoService.unlockVault, initializeVault, lockVault). A user without an
\* e-mail, whose token was issued without claims, has no account to compare with.
UnlockedWithOwnKey ==
    ~strayed /\ app.status = "Unlocked" =>
        /\ vaultKey # NoKey
        /\ app.user \in Users => vault[app.user].key = vaultKey

\* Unless a flow, or the vault key, has outlived its session, whatever fails or is
\* repeated while a vault is set up or its phrase is changed, the vault of an
\* account opens with its own e-mail, and what has been uploaded can be read with
\* the key in it (CryptoService.changeSecurityPhrase, initializeVault).
FilesStayReadable ==
    ~strayed =>
        /\ \A u \in Users : Initialised(u) => vault[u].email = u
        /\ \A f \in files : vault[f.owner].key = f.key

\* Whoever is logged out by a button, or by whichever request has been refused,
\* leaves no key in memory, and none comes back (AuthService.logout, logoutGlobal):
\* nobody is logged in, no flow has outlived its session and no failed refresh has
\* left the key, and there is none.
SignedOutIsWiped ==
    ~strayed /\ app.status = "Unauthenticated" => vaultKey = NoKey

\* "Lives strictly in RAM. Wiped on lock/logout." (crypto.service.ts:25, of the
\* vault key): a step that logs out leaves no key. The code breaks it, when a
\* refresh fails while the vault is open (AuthService.restoreSession).
LogoutWipes ==
    [][app.status # "Unauthenticated" /\ app'.status = "Unauthenticated"
         => vaultKey' = NoKey]_vars
=============================================================================
