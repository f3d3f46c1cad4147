---------------------------- MODULE SessionProofs ----------------------------
(***************************************************************************)
(* Proofs about Session, for any accounts, phrases and numbers of logins   *)
(* and keys. Whichever flows interleave: the token in memory is of the     *)
(* user that is shown, and a tab where nobody is logged in has no key,     *)
(* unless a flow, or by a failed refresh the key, has outlived its         *)
(* session. When the flows that overlap are Separate, and with the same    *)
(* exceptions: an unlocked drive is open with the stored key of its user,  *)
(* and the files stay readable.                                            *)
(***************************************************************************)
EXTENDS Session, FiniteSetTheorems, TLAPS

\* A flow is a record, whatever is in it.
Whole(x) ==
    x = [at |-> x.at, user |-> x.user, phrase |-> x.phrase, next |-> x.next,
         token |-> x.token, vault |-> x.vault, how |-> x.how,
         stale |-> x.stale]

FlowsWhole(f) == f = [k \in Kinds |-> f[k]] /\ Whole(f["setup"])

\* What these proofs need of the types.
Shaped ==
    /\ FlowsWhole(flow)
    /\ app = [status |-> app.status, user |-> app.user]
    /\ session = [t \in Tokens |-> session[t]]
    /\ \A t \in Tokens :
          session[t] = [owner |-> session[t].owner, init |-> session[t].init,
                        alive |-> session[t].alive]
    /\ token \in Tokens \cup {NoToken}

-----------------------------------------------------------------------------
(* A token that no flow carries.                                           *)

LEMMA IntervalSize ==
    \A n \in Nat : n > 0 => IsFiniteSet(1..n) /\ Cardinality(1..n) = n
<1>. SUFFICES ASSUME NEW n \in Nat, n > 0
              PROVE  IsFiniteSet(1..n) /\ Cardinality(1..n) = n
    OBVIOUS
<1>1. /\ IsFiniteSet(1..n)
      /\ Cardinality(1..n) = IF 1 > n THEN 0 ELSE n - 1 + 1
    BY FS_Interval
<1>. QED
    BY <1>1

LEMMA FreshIsNew ==
    ASSUME NEW f
    PROVE  Fresh(f) \in Tokens /\ Fresh(f) \notin Carried(f)
<1>. DEFINE kind == <<"restore", "login", "register", "verify", "unlock",
                      "setup", "change", "profile", "request", "logout">>
            g == [i \in 1..10 |-> f[kind[i]].token]
<1>1. \A k \in Kinds : \E i \in 1..10 : k = kind[i]
    BY DEF Kinds
<1>2. \A i \in 1..10 : kind[i] \in Kinds
    BY DEF Kinds
<1>. HIDE DEF kind
<1>3. g \in Surjection(1..10, Carried(f))
    <2>1. g \in [1..10 -> Carried(f)]
        BY <1>2 DEF Carried
    <2>2. \A t \in Carried(f) : \E i \in 1..10 : g[i] = t
        BY <1>1 DEF Carried
    <2>. QED
        BY <2>1, <2>2 DEF Surjection
<1>4. IsFiniteSet(Carried(f)) /\ Cardinality(Carried(f)) <= 10
    <2>1. IsFiniteSet(1..10) /\ Cardinality(1..10) = 10
        <3>1. 10 \in Nat /\ 10 > 0
            OBVIOUS
        <3>. QED
            BY <3>1, IntervalSize, Zenon
    <2>. QED
        BY <1>3, <2>1, FS_Surjection
<1>5. Cardinality(Tokens) = 11
    <2>1. 11 \in Nat /\ 11 > 0
        OBVIOUS
    <2>. QED
        BY <2>1, IntervalSize, Zenon DEF Tokens
<1>6. ~(Tokens \subseteq Carried(f))
    <2>1. Tokens \subseteq Carried(f) => Cardinality(Tokens) <= Cardinality(Carried(f))
        BY <1>4, FS_Subset
    <2>2. Cardinality(Carried(f)) \in Nat
        BY <1>4, FS_CardinalityType
    <2>. QED
        BY <1>4, <1>5, <2>1, <2>2
<1>. QED
    BY <1>6 DEF Fresh

-----------------------------------------------------------------------------
(* The invariant, and what a step may do to keep it.                       *)

\* While nobody is shown, a vault is only set up by a flow of an earlier
\* session.
Nobody ==
    /\ app.status = "Unauthenticated" => app.user = NoOne
    /\ app.user = NoOne => flow["setup"].at = "off" \/ flow["setup"].stale
    /\ flow["setup"].at # "wait"

SessionInv == Shaped /\ TokenIsUsers /\ Nobody /\ SignedOutIsWiped

\* f is what a step makes of the flows before it ends or changes a session:
\* the setup goes on, has ended, or has not begun.
Continues(f) ==
    /\ FlowsWhole(f)
    /\ \/ f["setup"].at = "off"
       \/ /\ f["setup"].at # "wait" /\ flow["setup"].at # "off"
          /\ flow["setup"].stale => f["setup"].stale

\* The user stays, and nobody is logged out.
UserKept ==
    /\ app' = [status |-> app'.status, user |-> app.user]
    /\ app'.status = app.status \/ app'.status # "Unauthenticated"

SessionsKept ==
    /\ session' = [t \in Tokens |-> session'[t]]
    /\ \A t \in Tokens :
          session'[t] = [owner |-> session[t].owner, init |-> session'[t].init,
                         alive |-> session'[t].alive]

LEMMA PlainStep ==
    ASSUME SessionInv, UserKept, SessionsKept, Continues(flow'),
           token' = token, strayed => strayed',
           \/ vaultKey' \in {vaultKey, NoKey} \/ strayed'
           \/ app'.status # "Unauthenticated"
    PROVE  SessionInv'
<1>1. Shaped'
    BY DEF SessionInv, Shaped, UserKept, SessionsKept, Continues
<1>2. TokenIsUsers'
    BY DEF SessionInv, Shaped, TokenIsUsers, UserKept, SessionsKept, NoToken
<1>3. Nobody'
    BY DEF SessionInv, Nobody, UserKept, Continues
<1>4. SignedOutIsWiped'
    BY DEF SessionInv, SignedOutIsWiped, UserKept
<1>. QED
    BY <1>1, <1>2, <1>3, <1>4 DEF SessionInv

LEMMA OutlivedSetup ==
    ASSUME NEW f, FlowsWhole(f), f["setup"].at # "wait"
    PROVE  /\ FlowsWhole(Outlived(f))
           /\ Outlived(f)["setup"].at # "wait"
           /\ Outlived(f)["setup"].at = "off" \/ Outlived(f)["setup"].stale
    BY DEF FlowsWhole, Whole, Outlived, Kinds

LEMMA FarewellSetup ==
    ASSUME NEW f, FlowsWhole(f), NEW how
    PROVE  /\ FlowsWhole(Farewell(f, how))
           /\ Farewell(f, how)["setup"] = f["setup"]
    BY DEF FlowsWhole, Whole, Farewell, Kinds, Off

\* Whoever logs out, or is logged out by a 401.
LEMMA LeavingStep ==
    ASSUME SessionInv, NEW f, Continues(f), NEW how, SignsOut(f, how),
           session' = session, strayed => strayed'
    PROVE  SessionInv'
<1>1. /\ FlowsWhole(flow') /\ flow'["setup"].at # "wait"
      /\ flow'["setup"].at = "off" \/ flow'["setup"].stale
    <2>1. FlowsWhole(f) /\ f["setup"].at # "wait"
        BY DEF Continues
    <2>. QED
        BY <2>1, OutlivedSetup, FarewellSetup DEF SignsOut
<1>2. app' = SignedOut /\ token' = NoToken /\ vaultKey' = NoKey
    BY DEF SignsOut
<1>3. Shaped'
    BY <1>1, <1>2 DEF SessionInv, Shaped, SignedOut
<1>4. TokenIsUsers' /\ SignedOutIsWiped'
    BY <1>2 DEF TokenIsUsers, SignedOutIsWiped
<1>5. Nobody'
    BY <1>1, <1>2 DEF Nobody, SignedOut
<1>. QED
    BY <1>3, <1>4, <1>5 DEF SessionInv

\* The claims of a token are a record, of its account or of nobody.
LEMMA ClaimsMade ==
    ASSUME NEW u, NEW c \in Claims(u)
    PROVE  /\ c = [owner |-> c.owner, init |-> c.init, alive |-> c.alive]
           /\ c.owner \in {u, Nameless}
           /\ c.owner # Nameless => c.owner = u /\ c.init = Initialised(u)
           /\ u # Nameless /\ c.owner = Nameless => c.init = FALSE /\ c.alive = FALSE
    BY DEF Claims

\* A token is issued, and whoever it names is shown from then on.
LEMMA EnteringStep ==
    ASSUME SessionInv, NEW f, Continues(f), NEW u, NEW c \in Claims(u),
           Issue(Fresh(f), c, f), token' = Fresh(f), flow' = Outlived(f),
           app' = [status |-> app'.status, user |-> c.owner],
           app'.status # "Unauthenticated"
    PROVE  SessionInv'
<1>1. /\ FlowsWhole(flow') /\ flow'["setup"].at # "wait"
      /\ flow'["setup"].at = "off" \/ flow'["setup"].stale
    <2>1. FlowsWhole(f) /\ f["setup"].at # "wait"
        BY DEF Continues
    <2>. QED
        BY <2>1, OutlivedSetup
<1>2. token' \in Tokens /\ session'[token'].owner = c.owner
    BY FreshIsNew DEF Issue
<1>3. Shaped'
    <2>1. \A t \in Tokens :
              session'[t] = [owner |-> session'[t].owner,
                             init |-> session'[t].init,
                             alive |-> session'[t].alive]
        BY ClaimsMade DEF SessionInv, Shaped, Issue, NoSession
    <2>2. session' = [t \in Tokens |-> session'[t]]
        BY DEF Issue
    <2>. QED
        BY <1>1, <1>2, <2>1, <2>2 DEF Shaped
<1>4. TokenIsUsers' /\ SignedOutIsWiped'
    BY <1>2 DEF TokenIsUsers, SignedOutIsWiped
<1>5. Nobody'
    BY <1>1 DEF Nobody
<1>. QED
    BY <1>3, <1>4, <1>5 DEF SessionInv

\* The session is restored, with a new token, or nobody is logged in.
LEMMA RestoringStep ==
    ASSUME SessionInv, NEW k, NEW f, Continues(f),
           NEW a, a = [status |-> a.status, user |-> a.user],
           RestoreSession(k, f, a),
           app' = [status |-> app'.status, user |-> a.user],
           app'.status = a.status \/ app'.status # "Unauthenticated"
    PROVE  SessionInv'
<1>1. CASE Restores(k, f, a)
    <2>. DEFINE u == session[flow[k].token].owner
    <2>1. PICK c \in Claims(u) : a = LoggedIn(c) /\ Issue(Fresh(f), c, f)
        BY <1>1 DEF Restores
    <2>2. a.user = c.owner /\ a.status # "Unauthenticated"
        BY <2>1 DEF LoggedIn
    <2>3. token' = Fresh(f) /\ flow' = Outlived(f)
        BY <1>1 DEF Restores
    <2>. HIDE DEF u
    <2>. QED
        BY <2>1, <2>2, <2>3, EnteringStep
<1>2. CASE NotRestored(k, f, a)
    <2>1. /\ FlowsWhole(flow') /\ flow'["setup"].at # "wait"
          /\ flow'["setup"].at = "off" \/ flow'["setup"].stale
        <3>1. FlowsWhole(f) /\ f["setup"].at # "wait"
            BY DEF Continues
        <3>. QED
            BY <1>2, <3>1, OutlivedSetup DEF NotRestored
    <2>2. app'.user = NoOne /\ token' = token /\ session' = session
        BY <1>2 DEF NotRestored, SignedOut, server
    <2>3. Shaped'
        BY <2>1, <2>2 DEF SessionInv, Shaped
    <2>4. TokenIsUsers' /\ Nobody'
        BY <2>1, <2>2 DEF TokenIsUsers, Nobody
    <2>5. strayed' \/ vaultKey' = NoKey
        BY <1>2, Zenon DEF NotRestored
    <2>6. SignedOutIsWiped'
        BY <2>5 DEF SignedOutIsWiped
    <2>. QED
        BY <2>3, <2>4, <2>6 DEF SessionInv
<1>. QED
    BY <1>1, <1>2 DEF RestoreSession

-----------------------------------------------------------------------------
(* What the steps make of the flows and of the state.                      *)

LEMMA SameFlows ==
    ASSUME SessionInv
    PROVE  Continues(flow)
    BY DEF SessionInv, Shaped, Nobody, Continues

\* Some other flow begins, goes on or ends.
LEMMA OtherFlow ==
    ASSUME SessionInv, NEW k \in Kinds \ {"setup"}, NEW x
    PROVE  Continues([flow EXCEPT ![k] = x])
<1>1. FlowsWhole([flow EXCEPT ![k] = x])
    BY DEF SessionInv, Shaped, FlowsWhole, Kinds
<1>2. [flow EXCEPT ![k] = x]["setup"] = flow["setup"]
    BY DEF SessionInv, Shaped, FlowsWhole, Kinds
<1>. QED
    BY <1>1, <1>2 DEF SessionInv, Nobody, Continues

LEMMA OtherFlowGoesOn ==
    ASSUME SessionInv, NEW k \in Kinds \ {"setup"}, NEW step, NEW t, NEW v,
           \/ flow' = [flow EXCEPT ![k].at = step, ![k].token = t]
           \/ flow' = [flow EXCEPT ![k].at = step, ![k].vault = v]
           \/ flow' = [flow EXCEPT ![k].at = step]
    PROVE  Continues(flow')
<1>1. /\ flow' = [j \in Kinds |-> flow'[j]]
      /\ flow'["setup"] = flow["setup"]
    BY DEF SessionInv, Shaped, FlowsWhole, Kinds
<1>. QED
    BY <1>1 DEF SessionInv, Shaped, FlowsWhole, Nobody, Continues

LEMMA FlowEnded ==
    ASSUME SessionInv, NEW k \in Kinds
    PROVE  Continues(Ended(flow, k))
<1>1. CASE k = "setup"
    <2>1. Ended(flow, k)["setup"] = Off
        BY <1>1 DEF SessionInv, Shaped, FlowsWhole, Ended, Kinds
    <2>2. Ended(flow, k) = [j \in Kinds |-> Ended(flow, k)[j]]
        BY DEF SessionInv, Shaped, FlowsWhole, Ended
    <2>3. Whole(Off) /\ Off.at = "off"
        BY DEF Whole, Off
    <2>. QED
        BY <2>1, <2>2, <2>3 DEF Continues, FlowsWhole
<1>2. CASE k # "setup"
    BY <1>2, OtherFlow DEF Ended
<1>. QED
    BY <1>1, <1>2

\* The setup goes on.
LEMMA SetupGoesOn ==
    ASSUME SessionInv, flow["setup"].at # "off",
           NEW step, step \notin {"off", "wait"}, NEW t, NEW v,
           NEW x, x = [at |-> step, user |-> flow["setup"].user,
                       phrase |-> flow["setup"].phrase,
                       next |-> flow["setup"].next, token |-> t,
                       vault |-> v, how |-> flow["setup"].how,
                       stale |-> flow["setup"].stale]
    PROVE  Continues([flow EXCEPT !["setup"] = x])
<1>1. Whole(x)
    BY DEF Whole
<1>2. FlowsWhole([flow EXCEPT !["setup"] = x])
    BY <1>1 DEF SessionInv, Shaped, FlowsWhole, Kinds
<1>3. [flow EXCEPT !["setup"] = x]["setup"] = x
    BY DEF SessionInv, Shaped, FlowsWhole, Kinds
<1>. QED
    BY <1>2, <1>3 DEF Continues

LEMMA QuietStep ==
    ASSUME SessionInv, Continues(flow'), app' = app, token' = token,
           session' = session, vaultKey' = vaultKey, strayed => strayed'
    PROVE  SessionInv'
<1>1. UserKept /\ SessionsKept
    BY DEF SessionInv, Shaped, UserKept, SessionsKept
<1>. QED
    BY <1>1, PlainStep

LEMMA GuardKeepsUser ==
    ASSUME NEW a, a = [status |-> a.status, user |-> a.user], NEW open
    PROVE  /\ Guarded(a, open) = [status |-> Guarded(a, open).status,
                                  user |-> a.user]
           /\ \/ Guarded(a, open).status = a.status
              \/ Guarded(a, open).status # "Unauthenticated"
    BY DEF Guarded, Lock

LEMMA NavigatingStep ==
    ASSUME SessionInv, Continues(flow'), NEW open, Navigates(app, open),
           token' = token, session' = session, vaultKey' = vaultKey,
           strayed => strayed'
    PROVE  SessionInv'
<1>1. UserKept /\ SessionsKept
    BY GuardKeepsUser DEF SessionInv, Shaped, UserKept, SessionsKept, Navigates
<1>. QED
    BY <1>1, PlainStep

LEMMA RefusedStep ==
    ASSUME SessionInv, NEW k \in Kinds, Refused(k)
    PROVE  SessionInv'
<1>1. CASE Unauthorized(k)
    BY <1>1, FlowEnded, LeavingStep DEF Unauthorized, server
<1>2. CASE Fails(k) /\ UNCHANGED server
    BY <1>2, FlowEnded, QuietStep DEF Fails, memory, server
<1>. QED
    BY <1>1, <1>2 DEF Refused

-----------------------------------------------------------------------------
(* The steps.                                                              *)

LEMMA SessionStart == Init => SessionInv
<1>. SUFFICES ASSUME Init
              PROVE  SessionInv
    OBVIOUS
<1>1. flow["setup"] = Off
    BY DEF Init, Kinds
<1>2. Whole(Off) /\ Off.at = "off"
    BY DEF Whole, Off
<1>3. FlowsWhole(flow)
    BY <1>1, <1>2 DEF Init, FlowsWhole
<1>4. Shaped
    BY <1>3 DEF Init, Shaped, NoSession
<1>. QED
    BY <1>1, <1>2, <1>4
       DEF Init, SessionInv, TokenIsUsers, Nobody, SignedOutIsWiped

LEMMA ReloadStep ==
    ASSUME SessionInv, NEW to, NEW callback, Reload(to, callback)
    PROVE  SessionInv'
<1>1. flow'["setup"] = Off
    BY DEF Reload, Kinds
<1>2. Whole(Off) /\ Off.at = "off"
    BY DEF Whole, Off
<1>3. FlowsWhole(flow')
    BY <1>1, <1>2 DEF Reload, FlowsWhole
<1>4. /\ app' = [status |-> "Loading", user |-> NoOne] /\ token' = NoToken
      /\ vaultKey' = NoKey /\ session' = session
    BY DEF Reload, server
<1>5. Shaped'
    BY <1>3, <1>4 DEF SessionInv, Shaped
<1>. QED
    BY <1>1, <1>2, <1>4, <1>5
       DEF SessionInv, TokenIsUsers, Nobody, SignedOutIsWiped

LEMMA LoadsStep ==
    ASSUME SessionInv, Loads
    PROVE  SessionInv'
<1>1. CASE Refresh \/ GoogleLinks \/ \E u \in Users : GoogleReturns(u)
    BY <1>1, ReloadStep DEF Refresh, GoogleLinks, GoogleReturns
<1>2. CASE Start
    <2>1. PICK a \in [status : {"Unauthenticated", "Onboarding", "Locked"},
                      user : Users \cup {NoOne, Nameless}] :
              /\ RestoreSession("restore", Ended(flow, "restore"), a)
              /\ app' = a \/ Navigates(a, unlocked)
        BY <1>2 DEF Start
    <2>2. a = [status |-> a.status, user |-> a.user]
        OBVIOUS
    <2>3. /\ app' = [status |-> app'.status, user |-> a.user]
          /\ app'.status = a.status \/ app'.status # "Unauthenticated"
        BY <2>1, <2>2, GuardKeepsUser DEF Navigates
    <2>4. Continues(Ended(flow, "restore"))
        BY FlowEnded DEF Kinds
    <2>. QED
        BY <2>1, <2>2, <2>3, <2>4, RestoringStep
<1>3. CASE Navigate
    BY <1>3, SameFlows, NavigatingStep DEF Navigate, server
<1>4. CASE CallbackStarts
    <2>1. Continues(flow')
        BY <1>4, OtherFlowGoesOn DEF CallbackStarts, Asks, Kinds
    <2>. QED
        BY <1>4, <2>1, QuietStep DEF CallbackStarts, memory, server
<1>. QED
    BY <1>1, <1>2, <1>3, <1>4 DEF Loads

LEMMA FormsStep ==
    ASSUME SessionInv, Forms
    PROVE  SessionInv'
<1>1. CASE \E v \in {"login", "register"} : ShowView(v)
    BY <1>1, SameFlows, QuietStep DEF ShowView, memory, server
<1>2. ASSUME NEW u \in Users, DoLogin(u)
      PROVE  SessionInv'
    <2>1. Continues(flow')
        BY <1>2, OtherFlow DEF DoLogin, Kinds
    <2>. QED
        BY <1>2, <2>1, QuietStep DEF DoLogin, memory, server
<1>3. ASSUME NEW u \in Users, DoRegister(u)
      PROVE  SessionInv'
    <2>1. Continues(flow')
        BY <1>3, OtherFlow DEF DoRegister, Kinds
    <2>. QED
        BY <1>3, <2>1, QuietStep DEF DoRegister, memory, server
<1>4. ASSUME NEW u \in Users, DoVerify(u)
      PROVE  SessionInv'
    <2>1. Continues(flow')
        BY <1>4, OtherFlow DEF DoVerify, Kinds
    <2>. QED
        BY <1>4, <2>1, QuietStep DEF DoVerify, memory, server
<1>5. CASE SkipAvatar \/ GoToLogin
    BY <1>5, SameFlows, NavigatingStep DEF SkipAvatar, GoToLogin, server
<1>. QED
    BY <1>1, <1>2, <1>3, <1>4, <1>5 DEF Forms

LEMMA LoginStep ==
    ASSUME SessionInv,
           \/ LoginGranted \/ LoginUnverified \/ LoginDenied \/ LoginFails
           \/ GoogleGranted \/ GoogleFails \/ DriveLinked
    PROVE  SessionInv'
<1>. DEFINE l == flow["login"]
<1>1. Continues(Ended(flow, "login"))
    BY FlowEnded DEF Kinds
<1>2. \A c : /\ LoggedIn(c) = [status |-> LoggedIn(c).status, user |-> c.owner]
             /\ LoggedIn(c).status # "Unauthenticated"
    BY DEF LoggedIn
<1>3. CASE LoginGranted \/ GoogleGranted
    <2>1. PICK c \in Claims(l.user) :
              /\ Enters(c, Ended(flow, "login"))
              /\ app' = LoggedIn(c) \/ Navigates(LoggedIn(c), unlocked)
        BY <1>3 DEF LoginGranted, GoogleGranted
    <2>2. /\ app' = [status |-> app'.status, user |-> c.owner]
          /\ app'.status # "Unauthenticated"
        BY <1>2, <2>1, GuardKeepsUser DEF Navigates
    <2>. QED
        BY <1>1, <2>1, <2>2, EnteringStep DEF Enters
<1>5. CASE LoginUnverified
    <2>1. UserKept /\ SessionsKept
        BY <1>5 DEF LoginUnverified, Lock, server, SessionInv, Shaped, UserKept,
                    SessionsKept
    <2>. QED
        BY <1>1, <1>5, <2>1, PlainStep DEF LoginUnverified
<1>6. CASE LoginDenied
    BY <1>1, <1>6, LeavingStep DEF LoginDenied, Unauthorized, server
<1>7. CASE LoginFails
    BY <1>1, <1>7, QuietStep DEF LoginFails, memory, server
<1>8. CASE GoogleFails
    BY <1>1, <1>8, NavigatingStep DEF GoogleFails, server
<1>9. CASE DriveLinked
    <2>1. CASE Refused("login")
        BY <2>1, RefusedStep DEF Kinds
    <2>2. CASE ~Refused("login")
        BY <1>1, <1>9, <2>2, NavigatingStep DEF DriveLinked, server
    <2>. QED
        BY <2>1, <2>2
<1>. QED
    BY <1>3, <1>5, <1>6, <1>7, <1>8, <1>9

LEMMA MailStep ==
    ASSUME SessionInv, Registered \/ Verified \/ VerifyFails
    PROVE  SessionInv'
<1>1. CASE Registered
    BY <1>1, FlowEnded, QuietStep DEF Registered, Kinds, memory, server
<1>2. CASE Verified
    <2>1. /\ flow' = [k \in Kinds |-> flow'[k]]
          /\ flow'["setup"] = flow["setup"]
        BY <1>2 DEF Verified, Ended, SessionInv, Shaped, FlowsWhole, Kinds
    <2>2. Continues(flow')
        BY <2>1 DEF SessionInv, Shaped, FlowsWhole, Nobody, Continues
    <2>. QED
        BY <1>2, <2>2, QuietStep DEF Verified, memory
<1>3. CASE VerifyFails
    BY <1>3, FlowEnded, QuietStep DEF VerifyFails, Fails, Kinds, memory, server
<1>. QED
    BY <1>1, <1>2, <1>3

LEMMA VerificationStep ==
    ASSUME SessionInv, NEW k \in Kinds \ {"setup"}, NEW step,
           Verification(k, step)
    PROVE  SessionInv'
<1>1. CASE Refused(k)
    BY <1>1, RefusedStep
<1>2. CASE ~Refused(k)
    <2>1. /\ UNCHANGED <<memory, server, strayed>>
          /\ flow' = [flow EXCEPT ![k].at = step,
                                  ![k].vault = vault[session[flow[k].token].owner]]
        BY <1>2 DEF Verification
    <2>2. Continues(flow')
        BY <2>1, OtherFlowGoesOn
    <2>. QED
        BY <2>1, <2>2, QuietStep DEF memory, server
<1>. QED
    BY <1>1, <1>2

LEMMA UnlockStep ==
    ASSUME SessionInv,
           UnlockAsks \/ Verification("unlock", "open") \/ Unlocks
    PROVE  SessionInv'
<1>1. CASE UnlockAsks
    <2>1. Continues(flow')
        BY <1>1, OtherFlowGoesOn DEF UnlockAsks, Asks, Kinds
    <2>. QED
        BY <1>1, <2>1, QuietStep DEF UnlockAsks, memory, server
<1>2. CASE Verification("unlock", "open")
    BY <1>2, VerificationStep DEF Kinds
<1>3. CASE Unlocks
    <2>1. Continues(flow')
        BY <1>3, FlowEnded DEF Unlocks, Kinds
    <2>2. token' = token /\ session' = session
        BY <1>3 DEF Unlocks, server
    <2>3. SessionsKept
        BY <2>2 DEF SessionInv, Shaped, SessionsKept
    <2>4. CASE Opens("unlock")
        <3>1. app' = [status |-> "Unlocked", user |-> app.user]
            BY <1>3, <2>4 DEF Unlocks, Unlock, SessionInv, Shaped
        <3>2. strayed => strayed'
            BY <1>3, <2>4, Zenon DEF Unlocks, Strays
        <3>. QED
            BY <2>1, <2>2, <2>3, <3>1, <3>2, PlainStep DEF UserKept
    <2>5. CASE ~Opens("unlock")
        BY <1>3, <2>1, <2>2, <2>5, QuietStep DEF Unlocks
    <2>. QED
        BY <2>4, <2>5
<1>. QED
    BY <1>1, <1>2, <1>3

LEMMA PostsStep ==
    ASSUME SessionInv, NEW k \in {"setup", "change"},
           Posts(k) \/ StoreLost(k) \/ StoreRefused(k)
    PROVE  SessionInv'
<1>. k \in Kinds
    BY DEF Kinds
<1>1. CASE Posts(k)
    <2>1. Asks(k, "post") /\ flow[k].at = "seal"
        BY <1>1 DEF Posts
    <2>2. Continues(flow')
        <3>1. CASE k = "setup"
            <4>. DEFINE s == flow["setup"]
                        x == [s EXCEPT !.at = "post"]
                        y == [x EXCEPT !.token = token]
            <4>1. Whole(s)
                BY DEF SessionInv, Shaped, FlowsWhole
            <4>2. x = [at |-> "post", user |-> s.user, phrase |-> s.phrase,
                       next |-> s.next, token |-> s.token, vault |-> s.vault,
                       how |-> s.how, stale |-> s.stale]
                BY <4>1 DEF Whole
            <4>. HIDE DEF x
            <4>3. y = [at |-> "post", user |-> s.user, phrase |-> s.phrase,
                       next |-> s.next, token |-> token, vault |-> s.vault,
                       how |-> s.how, stale |-> s.stale]
                BY <4>2
            <4>4. flow' = [flow EXCEPT !["setup"] = y]
                BY <2>1, <3>1 DEF Asks, SessionInv, Shaped, FlowsWhole, Kinds, x
            <4>. HIDE DEF y
            <4>. QED
                BY <2>1, <3>1, <4>3, <4>4, SetupGoesOn
        <3>2. CASE k # "setup"
            BY <2>1, <3>2, OtherFlowGoesOn DEF Asks
        <3>. QED
            BY <3>1, <3>2
    <2>3. strayed => strayed'
        BY <1>1, Zenon DEF Posts, Strays
    <2>. QED
        BY <1>1, <2>2, <2>3, QuietStep DEF Posts, memory, server
<1>2. CASE StoreLost(k)
    <2>1. Continues(flow') /\ UNCHANGED <<memory, session>>
        BY <1>2, FlowEnded DEF StoreLost, Stores
    <2>2. strayed => strayed'
        BY <1>2, Zenon DEF StoreLost, Stores, Strays
    <2>. QED
        BY <2>1, <2>2, QuietStep DEF memory
<1>3. CASE StoreRefused(k)
    BY <1>3, RefusedStep DEF StoreRefused
<1>. QED
    BY <1>1, <1>2, <1>3

LEMMA ChangeStep ==
    ASSUME SessionInv,
           \/ ChangeAsks \/ Verification("change", "check") \/ ChangeChecks
           \/ ChangeSeals \/ ChangeStored
    PROVE  SessionInv'
<1>1. CASE ChangeAsks
    <2>1. Continues(flow')
        BY <1>1, OtherFlowGoesOn DEF ChangeAsks, Asks, Kinds
    <2>. QED
        BY <1>1, <2>1, QuietStep DEF ChangeAsks, memory, server
<1>2. CASE Verification("change", "check")
    BY <1>2, VerificationStep DEF Kinds
<1>3. CASE ChangeChecks
    <2>1. Continues(flow')
        BY <1>3, OtherFlowGoesOn, FlowEnded DEF ChangeChecks, Goes, Kinds
    <2>. QED
        BY <1>3, <2>1, QuietStep DEF ChangeChecks, memory, server
<1>4. CASE ChangeSeals
    <2>1. Continues(flow')
        <3>1. CASE vaultKey = NoKey
            BY <1>4, <3>1, FlowEnded DEF ChangeSeals, Kinds
        <3>2. CASE vaultKey # NoKey
            BY <1>4, <3>2, OtherFlowGoesOn DEF ChangeSeals, Kinds
        <3>. QED
            BY <3>1, <3>2
    <2>2. strayed => strayed'
        BY <1>4, Zenon DEF ChangeSeals, Strays
    <2>. QED
        BY <1>4, <2>1, <2>2, QuietStep DEF ChangeSeals, memory, server
<1>5. CASE ChangeStored
    <2>1. Continues(flow') /\ UNCHANGED <<memory, session>>
        BY <1>5, FlowEnded DEF ChangeStored, Stores, Kinds
    <2>2. strayed => strayed'
        BY <1>5, Zenon DEF ChangeStored, Stores, Strays
    <2>. QED
        BY <2>1, <2>2, QuietStep DEF memory
<1>. QED
    BY <1>1, <1>2, <1>3, <1>4, <1>5

LEMMA ProfileStep ==
    ASSUME SessionInv, ProfileSaved \/ ProfileEnds
    PROVE  SessionInv'
<1>. "profile" \in Kinds \ {"setup"}
    BY DEF Kinds
<1>1. CASE ProfileSaved
    <2>1. CASE Refused("profile")
        BY <2>1, RefusedStep
    <2>2. CASE Fails("profile") /\ UNCHANGED server
        BY <2>2, FlowEnded, QuietStep DEF Fails, memory, server
    <2>3. CASE /\ flow' = [flow EXCEPT !["profile"].at = "refresh",
                                       !["profile"].token = cookie]
               /\ UNCHANGED <<memory, server, strayed>>
        <3>1. Continues(flow')
            BY <2>3, OtherFlowGoesOn
        <3>. QED
            BY <2>3, <3>1, QuietStep DEF memory, server
    <2>. QED
        BY <1>1, <2>1, <2>2, <2>3 DEF ProfileSaved
<1>2. CASE ProfileEnds
    <2>1. PICK a \in [status : {"Unauthenticated", "Onboarding", "Locked"},
                      user : Users \cup {NoOne, Nameless}] :
              /\ RestoreSession("profile", Ended(flow, "profile"), a)
              /\ app' = a \/ Navigates(a, unlocked)
        BY <1>2 DEF ProfileEnds
    <2>2. a = [status |-> a.status, user |-> a.user]
        OBVIOUS
    <2>3. /\ app' = [status |-> app'.status, user |-> a.user]
          /\ app'.status = a.status \/ app'.status # "Unauthenticated"
        BY <2>1, <2>2, GuardKeepsUser DEF Navigates
    <2>. QED
        BY <2>1, <2>2, <2>3, FlowEnded, RestoringStep
<1>. QED
    BY <1>1, <1>2

LEMMA RequestStep ==
    ASSUME SessionInv, RequestEnds \/ Forbidden \/ LogoutEnds \/ Expire
    PROVE  SessionInv'
<1>. {"request", "logout"} \subseteq Kinds
    BY DEF Kinds
<1>1. CASE RequestEnds
    <2>1. CASE Refused("request")
        BY <2>1, RefusedStep
    <2>2. CASE Fails("request") /\ UNCHANGED server
        BY <2>2, FlowEnded, QuietStep DEF Fails, memory, server
    <2>. QED
        BY <1>1, <2>1, <2>2 DEF RequestEnds
<1>2. CASE Forbidden
    <2>1. UserKept /\ SessionsKept
        BY <1>2 DEF Forbidden, Lock, server, SessionInv, Shaped, UserKept,
                    SessionsKept
    <2>2. strayed => strayed'
        BY <1>2, Zenon DEF Forbidden, Strays
    <2>. QED
        BY <1>2, <2>1, <2>2, FlowEnded, PlainStep DEF Forbidden
<1>3. CASE LogoutEnds
    <2>1. CASE Refused("logout")
        BY <2>1, RefusedStep
    <2>2. CASE ~Refused("logout")
        <3>. DEFINE l == flow["logout"]
                    gone == IF l.how = "" THEN {l.token}
                            ELSE {t \in Tokens :
                                    session[t].owner = session[l.token].owner}
        <3>1. /\ UNCHANGED <<memory, strayed>> /\ flow' = Ended(flow, "logout")
              /\ session' = [t \in Tokens |->
                     [session[t] EXCEPT !.alive = @ /\ t \notin gone]]
            BY <1>3, <2>2 DEF LogoutEnds
        <3>. HIDE DEF gone
        <3>2. SessionsKept
            BY <3>1 DEF SessionInv, Shaped, SessionsKept
        <3>3. UserKept
            BY <3>1 DEF memory, SessionInv, Shaped, UserKept
        <3>. QED
            BY <3>1, <3>2, <3>3, FlowEnded, PlainStep DEF memory
    <2>. QED
        BY <2>1, <2>2
<1>4. CASE Expire
    <2>1. SessionsKept
        BY <1>4 DEF Expire, SessionInv, Shaped, SessionsKept
    <2>2. UserKept
        BY <1>4 DEF Expire, memory, SessionInv, Shaped, UserKept
    <2>. QED
        BY <1>4, <2>1, <2>2, SameFlows, PlainStep DEF Expire, memory
<1>. QED
    BY <1>1, <1>2, <1>3, <1>4

LEMMA SetupStep ==
    ASSUME SessionInv, SetupSeals \/ SetupStored \/ SetupEnds
    PROVE  SessionInv'
<1>. DEFINE s == flow["setup"]
<1>1. Whole(s) /\ "setup" \in Kinds
    BY DEF SessionInv, Shaped, FlowsWhole, Kinds
<1>2. CASE SetupSeals
    <2>. DEFINE v == [email |-> s.user, phrase |-> s.phrase,
                      key |-> [owner |-> s.user, number |-> made + 1]]
                x == [s EXCEPT !.at = "seal"]
                y == [x EXCEPT !.vault = v]
    <2>1. /\ s.at = "derive" /\ UNCHANGED <<app, token, session>>
          /\ flow' = [flow EXCEPT !["setup"].at = "seal", !["setup"].vault = v]
        BY <1>2 DEF SetupSeals, server
    <2>. HIDE DEF v
    <2>2. x = [at |-> "seal", user |-> s.user, phrase |-> s.phrase,
               next |-> s.next, token |-> s.token, vault |-> s.vault,
               how |-> s.how, stale |-> s.stale]
        BY <1>1 DEF Whole
    <2>3. flow' = [flow EXCEPT !["setup"] = y]
        BY <2>1 DEF SessionInv, Shaped, FlowsWhole, Kinds
    <2>. HIDE DEF x
    <2>4. y = [at |-> "seal", user |-> s.user, phrase |-> s.phrase,
               next |-> s.next, token |-> s.token, vault |-> v,
               how |-> s.how, stale |-> s.stale]
        BY <2>2
    <2>. HIDE DEF y
    <2>. s.at # "off"
        BY <2>1
    <2>5. Continues(flow')
        BY <2>3, <2>4, SetupGoesOn
    <2>6. (strayed => strayed') /\ (s.stale => strayed')
        BY <1>2, Zenon DEF SetupSeals, Strays
    <2>7. app.status = "Unauthenticated" => s.stale
        BY <2>1, Zenon DEF SessionInv, Nobody
    <2>8. UserKept /\ SessionsKept
        BY <2>1 DEF SessionInv, Shaped, UserKept, SessionsKept
    <2>. QED
        BY <2>1, <2>5, <2>6, <2>7, <2>8, PlainStep
<1>3. CASE SetupStored
    <2>. DEFINE x == [s EXCEPT !.at = "refresh"]
                y == [x EXCEPT !.token = cookie]
    <2>1. /\ s.at = "post" /\ UNCHANGED <<app, token, vaultKey, session>>
          /\ flow' = [flow EXCEPT !["setup"].at = "refresh",
                                  !["setup"].token = cookie]
        BY <1>3 DEF SetupStored, Stores
    <2>2. x = [at |-> "refresh", user |-> s.user, phrase |-> s.phrase,
               next |-> s.next, token |-> s.token, vault |-> s.vault,
               how |-> s.how, stale |-> s.stale]
        BY <1>1 DEF Whole
    <2>3. flow' = [flow EXCEPT !["setup"] = y]
        BY <2>1 DEF SessionInv, Shaped, FlowsWhole, Kinds
    <2>. HIDE DEF x
    <2>4. y = [at |-> "refresh", user |-> s.user, phrase |-> s.phrase,
               next |-> s.next, token |-> cookie, vault |-> s.vault,
               how |-> s.how, stale |-> s.stale]
        BY <2>2
    <2>. HIDE DEF y
    <2>. s.at # "off"
        BY <2>1
    <2>5. Continues(flow')
        BY <2>3, <2>4, SetupGoesOn
    <2>6. strayed => strayed'
        BY <1>3, Zenon DEF SetupStored, Stores, Strays
    <2>. QED
        BY <2>1, <2>5, <2>6, QuietStep
<1>4. CASE SetupEnds
    <2>1. PICK a \in [status : {"Unauthenticated", "Onboarding", "Locked"},
                      user : Users \cup {NoOne, Nameless}] :
              /\ RestoreSession("setup", Ended(flow, "setup"), a)
              /\ Navigates(Unlock(a), unlocked)
        BY <1>4 DEF SetupEnds
    <2>2. a = [status |-> a.status, user |-> a.user]
        OBVIOUS
    <2>3. Unlock(a) = [status |-> "Unlocked", user |-> a.user]
        BY <2>2 DEF Unlock
    <2>4. /\ app' = [status |-> app'.status, user |-> a.user]
          /\ app'.status # "Unauthenticated"
        BY <2>1, <2>3 DEF Navigates, Guarded, Lock
    <2>. QED
        BY <1>1, <2>1, <2>2, <2>4, FlowEnded, RestoringStep
<1>. QED
    BY <1>2, <1>3, <1>4

LEMMA ClicksStep ==
    ASSUME SessionInv, Clicks
    PROVE  SessionInv'
<1>. {"unlock", "change", "profile", "request"} \subseteq Kinds \ {"setup"}
    BY DEF Kinds
<1>1. ASSUME NEW p \in Phrases, BeginUnlock(p)
      PROVE  SessionInv'
    <2>1. Continues(flow')
        BY <1>1, OtherFlow DEF BeginUnlock
    <2>. QED
        BY <1>1, <2>1, QuietStep DEF BeginUnlock, memory, server
<1>2. ASSUME NEW p \in Phrases, BeginSetup(p)
      PROVE  SessionInv'
    <2>. DEFINE x == [at |-> "derive", user |-> app.user, phrase |-> p,
                      next |-> NoOne, token |-> NoToken, vault |-> NoVault,
                      how |-> "", stale |-> FALSE]
    <2>1. flow'["setup"] = x
        BY <1>2 DEF BeginSetup, Off, SessionInv, Shaped, FlowsWhole, Kinds
    <2>2. Whole(flow'["setup"]) /\ flow'["setup"].at = "derive"
        <3>1. Whole(x) /\ x.at = "derive"
            BY DEF Whole
        <3>. HIDE DEF x
        <3>. QED
            BY <2>1, <3>1
    <2>3. FlowsWhole(flow')
        BY <1>2, <2>2 DEF BeginSetup, SessionInv, Shaped, FlowsWhole
    <2>4. UNCHANGED <<app, token, vaultKey, session, strayed>> /\ app.user # NoOne
        BY <1>2, SessionAssumption DEF BeginSetup, Named, memory, server
    <2>5. Shaped'
        BY <2>3, <2>4 DEF SessionInv, Shaped
    <2>6. TokenIsUsers' /\ Nobody' /\ SignedOutIsWiped'
        BY <2>2, <2>4
           DEF SessionInv, TokenIsUsers, Nobody, SignedOutIsWiped
    <2>. QED
        BY <2>5, <2>6 DEF SessionInv
<1>3. ASSUME NEW p \in Phrases, NEW q \in Phrases, BeginChange(p, q)
      PROVE  SessionInv'
    <2>1. Continues(flow')
        BY <1>3, OtherFlow DEF BeginChange
    <2>. QED
        BY <1>3, <2>1, QuietStep DEF BeginChange, memory, server
<1>4. ASSUME NEW how, BeginProfile(how)
      PROVE  SessionInv'
    <2>1. Continues(flow')
        BY <1>4, OtherFlow DEF BeginProfile
    <2>. QED
        BY <1>4, <2>1, QuietStep DEF BeginProfile, memory, server
<1>5. ASSUME NEW how, Logout(how)
      PROVE  SessionInv'
    BY <1>5, SameFlows, LeavingStep DEF Logout, server
<1>6. CASE LockVault
    <2>1. UserKept /\ SessionsKept
        BY <1>6 DEF LockVault, Lock, server, SessionInv, Shaped, UserKept,
                    SessionsKept
    <2>. QED
        BY <1>6, <2>1, SameFlows, PlainStep DEF LockVault
<1>7. CASE BeginRequest
    <2>1. Continues(flow')
        BY <1>7, OtherFlow DEF BeginRequest
    <2>. QED
        BY <1>7, <2>1, QuietStep DEF BeginRequest, memory, server
<1>8. CASE Upload
    BY <1>8, SameFlows, QuietStep DEF Upload, memory, server
<1>. QED
    BY <1>1, <1>2, <1>3, <1>4, <1>5, <1>6, <1>7, <1>8 DEF Clicks

LEMMA SessionStep == SessionInv /\ [Next]_vars => SessionInv'
<1>. SUFFICES ASSUME SessionInv, [Next]_vars
              PROVE  SessionInv'
    OBVIOUS
<1>1. CASE Answers
    <2>1. CASE \E k \in {"setup", "change"} :
                   Posts(k) \/ StoreLost(k) \/ StoreRefused(k)
        BY <2>1, PostsStep
    <2>. QED
        BY <1>1, <2>1, LoginStep, MailStep, UnlockStep, SetupStep, ChangeStep,
           ProfileStep, RequestStep DEF Answers
<1>2. CASE UNCHANGED vars
    BY <1>2, SameFlows, QuietStep DEF vars, memory, server
<1>. QED
    BY <1>1, <1>2, LoadsStep, FormsStep, ClicksStep, RequestStep DEF Next

LEMMA SessionInvariant == Spec => []SessionInv
    BY SessionStart, SessionStep, PTL DEF Spec

\* The token in memory is of the user that is shown, whichever logins,
\* refreshes and logouts overtake each other (AuthService.jwtToken,
\* AppStateService.login and logout).
THEOREM TokensMatch == Spec => []TokenIsUsers
<1>1. SessionInv => TokenIsUsers
    BY DEF SessionInv
<1>. QED
    BY <1>1, SessionInvariant, PTL

\* Whoever is logged out by a button or by whichever request has been refused
\* leaves no key in memory (AuthService.logout, CryptoService): nobody is logged
\* in, no flow has outlived its session and no failed refresh, which logs out
\* without wiping (auth.service.ts:74-77), has left the key, and there is none.
THEOREM KeysAreWiped == Spec => []SignedOutIsWiped
<1>1. SessionInv => SignedOutIsWiped
    BY DEF SessionInv
<1>. QED
    BY <1>1, SessionInvariant, PTL

-----------------------------------------------------------------------------
(* Type correctness.                                                       *)

AppRecord == [status : {"Loading", "Unauthenticated", "Onboarding", "Locked",
                        "Unlocked"}, user : Users \cup {NoOne, Nameless}]

Hows == {"", "google", "link", "all", "name", "picture", "avatar"}

FlowRecord ==
    [at : Steps, user : Users \cup {NoOne}, phrase : Phrases \cup {NoOne},
     next : Phrases \cup {NoOne}, token : Tokens \cup {NoToken},
     vault : Sealed \cup {NoVault}, stale : BOOLEAN, how : Hows]

\* What a flow was begun with: somebody's account, and a phrase.
Begun(k, x) ==
    x.at # "off" =>
        /\ k \in {"verify", "unlock", "setup", "change"} => x.user \in Users
        /\ k = "login" /\ x.how # "link" => x.user \in Users
        /\ k = "setup" => x.phrase \in Phrases
        /\ k = "change" => x.next \in Phrases

FlowsTyped(f) == f \in [Kinds -> FlowRecord] /\ \A k \in Kinds : Begun(k, f[k])

MemoryTyped ==
    /\ app \in AppRecord /\ token \in Tokens \cup {NoToken}
    /\ vaultKey \in Keys \cup {NoKey} /\ unlocked \in BOOLEAN

PagesTyped ==
    /\ page \in {"login", "callback", "setup", "home"}
    /\ view \in {"login", "register", "avatar", "verify"}
    /\ typed \in Users \cup {NoOne}

\* A session that is alive is somebody's.
SessionsTyped ==
    /\ session \in [Tokens -> [owner : Users \cup {NoOne, Nameless}, init : BOOLEAN,
                               alive : BOOLEAN]]
    /\ \A t \in Tokens : session[t].alive => session[t].owner \in Users

ServerTyped ==
    /\ SessionsTyped
    /\ cookie \in Tokens \cup {NoToken} /\ verified \subseteq Users
    /\ vault \in [Users -> Sealed \cup {NoVault}]

RestTyped ==
    /\ made \in 0..MaxKeys /\ logins \in 0..MaxLogins
    /\ files \subseteq [owner : Users, key : Keys] /\ strayed \in BOOLEAN

TypeInv == MemoryTyped /\ PagesTyped /\ FlowsTyped(flow) /\ ServerTyped /\ RestTyped

LEMMA TypesAreOK == TypeInv => TypeOK
    BY DEF TypeInv, TypeOK, MemoryTyped, PagesTyped, FlowsTyped, ServerTyped,
           SessionsTyped, RestTyped, AppRecord, FlowRecord, Hows

LEMMA OffTyped == Off \in FlowRecord /\ Off.at = "off" /\ \A k : Begun(k, Off)
    BY DEF Off, FlowRecord, Steps, Hows, Begun

LEMMA FlowSet ==
    ASSUME NEW f, FlowsTyped(f), NEW k \in Kinds, NEW x \in FlowRecord, Begun(k, x)
    PROVE  FlowsTyped([f EXCEPT ![k] = x])
    BY DEF FlowsTyped

LEMMA EndedTyped ==
    ASSUME NEW f, FlowsTyped(f), NEW k \in Kinds
    PROVE  FlowsTyped(Ended(f, k))
    BY OffTyped, FlowSet DEF Ended

\* A flow takes its next step, with the token or the vault it was given.
LEMMA NextStepTyped ==
    ASSUME NEW f, FlowsTyped(f), NEW k \in Kinds, f[k].at # "off",
           NEW step \in Steps, NEW t \in Tokens \cup {NoToken},
           NEW v \in Sealed \cup {NoVault}, NEW g,
           \/ g = [f EXCEPT ![k].at = step, ![k].token = t]
           \/ g = [f EXCEPT ![k].at = step, ![k].vault = v]
           \/ g = [f EXCEPT ![k].at = step]
    PROVE  FlowsTyped(g)
<1>. DEFINE x == f[k]
            y == [x EXCEPT !.at = step]
<1>1. x \in FlowRecord /\ Begun(k, x)
    BY DEF FlowsTyped
<1>2. y \in FlowRecord /\ Begun(k, y)
    BY <1>1 DEF FlowRecord, Begun
<1>3. [f EXCEPT ![k] = y] = [f EXCEPT ![k].at = step]
    BY DEF FlowsTyped
<1>4. g \in {[f EXCEPT ![k] = y], [f EXCEPT ![k] = [y EXCEPT !.token = t]],
             [f EXCEPT ![k] = [y EXCEPT !.vault = v]]}
    BY DEF FlowsTyped
<1>. HIDE DEF y
<1>5. [y EXCEPT !.token = t] \in FlowRecord /\ Begun(k, [y EXCEPT !.token = t])
    BY <1>2 DEF FlowRecord, Begun
<1>6. [y EXCEPT !.vault = v] \in FlowRecord /\ Begun(k, [y EXCEPT !.vault = v])
    BY <1>2 DEF FlowRecord, Begun
<1>. QED
    BY <1>2, <1>4, <1>5, <1>6, FlowSet

LEMMA OutlivedTyped ==
    ASSUME NEW f, FlowsTyped(f)
    PROVE  FlowsTyped(Outlived(f))
<1>. SUFFICES ASSUME NEW k \in Kinds
              PROVE  Outlived(f)[k] \in FlowRecord /\ Begun(k, Outlived(f)[k])
    BY DEF FlowsTyped, Outlived
<1>1. f[k] \in FlowRecord /\ Begun(k, f[k])
    BY DEF FlowsTyped
<1>2. Outlived(f)[k] \in {f[k], [f[k] EXCEPT !.stale = TRUE]}
    BY DEF Outlived
<1>3. [f[k] EXCEPT !.stale = TRUE] \in FlowRecord
    BY <1>1 DEF FlowRecord
<1>4. Begun(k, [f[k] EXCEPT !.stale = TRUE])
    BY <1>1 DEF FlowRecord, Begun
<1>. QED
    BY <1>1, <1>2, <1>3, <1>4

LEMMA FarewellTyped ==
    ASSUME NEW f, FlowsTyped(f), NEW how \in {"", "all"},
           token \in Tokens \cup {NoToken}
    PROVE  FlowsTyped(Farewell(f, how))
<1>. DEFINE x == [Off EXCEPT !.at = "ask", !.token = token, !.how = how]
<1>1. x \in FlowRecord /\ Begun("logout", x) /\ "logout" \in Kinds
    BY DEF Off, FlowRecord, Steps, Hows, Begun, Kinds
<1>. HIDE DEF x
<1>2. FlowsTyped([f EXCEPT !["logout"] = x])
    BY <1>1, FlowSet
<1>. QED
    BY <1>2 DEF Farewell, x

LEMMA FormTyped ==
    ASSUME PagesTyped, page' \in {"login", "callback", "setup", "home"}, Form
    PROVE  PagesTyped'
    BY DEF PagesTyped, Form

LEMMA NavigatesTyped ==
    ASSUME PagesTyped, NEW a \in AppRecord, NEW open, Navigates(a, open)
    PROVE  app' \in AppRecord /\ PagesTyped'
<1>1. app' \in AppRecord
    BY DEF Navigates, Guarded, Lock, AppRecord
<1>2. page' \in {"login", "callback", "setup", "home"}
    BY DEF Navigates, Landing
<1>. QED
    BY <1>1, <1>2, FormTyped DEF Navigates

LEMMA IssueTyped ==
    ASSUME SessionsTyped, vault \in [Users -> Sealed \cup {NoVault}],
           NEW f, NEW u \in Users, NEW c \in Claims(u), Issue(Fresh(f), c, f)
    PROVE  SessionsTyped'
<1>1. /\ c \in [owner : Users \cup {NoOne, Nameless}, init : BOOLEAN, alive : BOOLEAN]
      /\ c.alive => c.owner \in Users
    <2>1. Initialised(u) \in BOOLEAN
        BY DEF Initialised
    <2>2. CASE c \in [owner : {u}, init : {Initialised(u)}, alive : BOOLEAN]
        BY <2>1, <2>2
    <2>3. CASE c = [owner |-> Nameless, init |-> FALSE, alive |-> FALSE]
        BY <2>3
    <2>. QED
        BY <2>2, <2>3 DEF Claims
<1>. QED
    BY <1>1 DEF SessionsTyped, Issue, NoSession

\* A step that leaves the tab's state and the server's.
LEMMA FlowStepTyped ==
    ASSUME TypeInv, UNCHANGED <<memory, pages, server>>, FlowsTyped(flow'),
           RestTyped'
    PROVE  TypeInv'
    BY DEF TypeInv, memory, pages, server, MemoryTyped, PagesTyped, ServerTyped,
           SessionsTyped

LEMMA SignsOutTyped ==
    ASSUME TypeInv, NEW f, FlowsTyped(f), NEW how \in {"", "all"},
           SignsOut(f, how), UNCHANGED <<server, made, logins, files, strayed>>
    PROVE  TypeInv'
<1>1. MemoryTyped'
    BY DEF SignsOut, SignedOut, MemoryTyped, AppRecord
<1>2. FlowsTyped(flow')
    BY OutlivedTyped, FarewellTyped DEF SignsOut, TypeInv, MemoryTyped
<1>3. PagesTyped'
    BY FormTyped DEF SignsOut, TypeInv
<1>. QED
    BY <1>1, <1>2, <1>3
       DEF TypeInv, ServerTyped, SessionsTyped, RestTyped, server

LEMMA RefusedTyped ==
    ASSUME TypeInv, NEW k \in Kinds, Refused(k)
    PROVE  TypeInv'
<1>1. CASE Unauthorized(k)
    BY <1>1, EndedTyped, SignsOutTyped DEF Unauthorized, TypeInv
<1>2. CASE Fails(k) /\ UNCHANGED server
    BY <1>2, EndedTyped, FlowStepTyped DEF Fails, TypeInv, RestTyped
<1>. QED
    BY <1>1, <1>2 DEF Refused

\* A session is restored, or is not.
LEMMA RestoreTyped ==
    ASSUME TypeInv, NEW k \in Kinds, NEW f, FlowsTyped(f), NEW a,
           RestoreSession(k, f, a), app' \in AppRecord, PagesTyped'
    PROVE  TypeInv'
<1>. DEFINE u == session[flow[k].token].owner
            t == Fresh(f)
<1>0. flow[k] \in FlowRecord
    BY DEF TypeInv, FlowsTyped
<1>1. CASE Restores(k, f, a)
    <2>1. flow[k].token \in Tokens
        BY <1>0, <1>1 DEF Restores, Accepts, FlowRecord
    <2>2. u \in Users
        BY <1>1, <2>1 DEF Restores, Accepts, TypeInv, ServerTyped, SessionsTyped
    <2>3. t \in Tokens
        BY FreshIsNew
    <2>4. SessionsTyped'
        <3>1. PICK c \in Claims(u) : Issue(t, c, f)
            BY <1>1 DEF Restores
        <3>. HIDE DEF u
        <3>. QED
            BY <2>2, <3>1, IssueTyped DEF TypeInv, ServerTyped
    <2>5. MemoryTyped'
        BY <1>1, <2>3 DEF Restores, TypeInv, MemoryTyped
    <2>6. ServerTyped'
        BY <1>1, <2>3, <2>4 DEF Restores, TypeInv, ServerTyped
    <2>7. RestTyped'
        BY <1>0, <1>1 DEF Restores, TypeInv, RestTyped, FlowRecord
    <2>8. FlowsTyped(flow')
        BY <1>1, OutlivedTyped DEF Restores
    <2>. QED
        BY <2>5, <2>6, <2>7, <2>8 DEF TypeInv
<1>2. CASE NotRestored(k, f, a)
    <2>1. MemoryTyped' /\ ServerTyped'
        BY <1>2 DEF NotRestored, TypeInv, MemoryTyped, ServerTyped,
                    SessionsTyped, server
    <2>2. RestTyped'
        BY <1>2 DEF NotRestored, TypeInv, RestTyped
    <2>3. FlowsTyped(flow')
        BY <1>2, OutlivedTyped DEF NotRestored
    <2>. QED
        BY <2>1, <2>2, <2>3 DEF TypeInv
<1>. QED
    BY <1>1, <1>2 DEF RestoreSession

LEMMA InitTyped == Init => TypeInv
<1>. SUFFICES ASSUME Init PROVE TypeInv
    OBVIOUS
<1>1. MemoryTyped /\ PagesTyped
    BY DEF Init, MemoryTyped, PagesTyped, AppRecord
<1>2. FlowsTyped(flow)
    <2>. DEFINE x == [Off EXCEPT !.at = "ask"]
    <2>1. x \in FlowRecord /\ \A k \in {"restore"} : Begun(k, x)
        BY DEF Off, FlowRecord, Steps, Hows, Begun
    <2>. HIDE DEF x
    <2>2. flow = [k \in Kinds |-> IF k = "restore" THEN x ELSE Off]
        BY DEF Init, x
    <2>. QED
        BY <2>1, <2>2, OffTyped DEF FlowsTyped
<1>3. ServerTyped
    BY SessionAssumption DEF Init, ServerTyped, SessionsTyped, NoSession
<1>4. MaxKeys \in Nat /\ MaxLogins \in Nat
    BY SessionAssumption, SMT
<1>5. made = 0 /\ logins = 0 /\ files = {} /\ strayed = FALSE
    BY DEF Init
<1>6. RestTyped
    <2>1. made \in 0..MaxKeys /\ logins \in 0..MaxLogins
        BY <1>4, <1>5
    <2>2. files \subseteq [owner : Users, key : Keys] /\ strayed \in BOOLEAN
        BY <1>5, Zenon
    <2>. QED
        BY <2>1, <2>2 DEF RestTyped
<1>. QED
    BY <1>1, <1>2, <1>3, <1>6 DEF TypeInv

LEMMA ReloadTyped ==
    ASSUME TypeInv, NEW to \in {"login", "callback", "setup", "home"},
           NEW callback \in FlowRecord, Begun("login", callback),
           Reload(to, callback), logins' \in 0..MaxLogins
    PROVE  TypeInv'
<1>1. MemoryTyped' /\ PagesTyped'
    BY DEF Reload, MemoryTyped, PagesTyped, AppRecord
<1>2. FlowsTyped(flow')
    <2>. DEFINE x == [Off EXCEPT !.at = "ask", !.token = cookie]
    <2>1. x \in FlowRecord /\ \A k \in {"restore"} : Begun(k, x)
        BY DEF Off, FlowRecord, Steps, Hows, Begun, TypeInv, ServerTyped
    <2>. HIDE DEF x
    <2>2. flow' = [k \in Kinds |-> CASE k = "restore" -> x
                                     [] k = "login"   -> callback
                                     [] OTHER         -> Off]
        BY DEF Reload, x
    <2>3. \A k \in Kinds : flow'[k] = IF k = "restore" THEN x
                                      ELSE IF k = "login" THEN callback ELSE Off
        BY <2>2
    <2>4. flow' = [k \in Kinds |-> flow'[k]]
        BY <2>2
    <2>. QED
        BY <2>1, <2>3, <2>4, OffTyped DEF FlowsTyped
<1>3. ServerTyped'
    BY DEF Reload, TypeInv, ServerTyped, SessionsTyped, server
<1>4. RestTyped'
    BY DEF Reload, TypeInv, RestTyped
<1>. QED
    BY <1>1, <1>2, <1>3, <1>4 DEF TypeInv

LEMMA LoadsTyped == ASSUME TypeInv, Loads PROVE TypeInv'
<1>. {"restore", "login"} \subseteq Kinds
    BY DEF Kinds
<1>0. logins \in 0..MaxLogins /\ page \in {"login", "callback", "setup", "home"}
        /\ MaxLogins \in Nat
    <2>1. MaxLogins \in Nat
        BY SessionAssumption, SMT
    <2>. QED
        BY <2>1 DEF TypeInv, RestTyped, PagesTyped
<1>1. CASE Refresh
    BY <1>0, <1>1, OffTyped, ReloadTyped DEF Refresh
<1>2. CASE GoogleLinks
    <2>. DEFINE x == [Off EXCEPT !.at = "wait", !.how = "link"]
    <2>1. x \in FlowRecord /\ Begun("login", x)
        BY DEF Off, FlowRecord, Steps, Hows, Begun
    <2>. QED
        BY <1>0, <1>2, <2>1, ReloadTyped DEF GoogleLinks
<1>3. ASSUME NEW u \in Users, GoogleReturns(u) PROVE TypeInv'
    <2>. DEFINE x == [Off EXCEPT !.at = "wait", !.user = u, !.how = "google"]
    <2>1. x \in FlowRecord /\ Begun("login", x)
        BY DEF Off, FlowRecord, Steps, Hows, Begun
    <2>2. logins' \in 0..MaxLogins
        BY <1>0, <1>3 DEF GoogleReturns, LogsIn
    <2>. QED
        BY <1>3, <2>1, <2>2, ReloadTyped DEF GoogleReturns
<1>4. CASE Start
    <2>1. PICK a \in [status : {"Unauthenticated", "Onboarding", "Locked"},
                      user : Users \cup {NoOne, Nameless}] :
              /\ RestoreSession("restore", Ended(flow, "restore"), a)
              /\ (app' = a /\ UNCHANGED pages) \/ Navigates(a, unlocked)
        BY <1>4 DEF Start
    <2>2. a \in AppRecord
        BY DEF AppRecord
    <2>3. app' \in AppRecord /\ PagesTyped'
        BY <2>1, <2>2, NavigatesTyped DEF TypeInv, PagesTyped, pages
    <2>. QED
        BY <2>1, <2>3, EndedTyped, RestoreTyped DEF TypeInv
<1>5. CASE Navigate
    <2>1. app' \in AppRecord /\ PagesTyped'
        BY <1>5, NavigatesTyped DEF Navigate, TypeInv, MemoryTyped
    <2>. QED
        BY <1>5, <2>1 DEF Navigate, TypeInv, MemoryTyped, ServerTyped,
                          SessionsTyped, RestTyped, server
<1>6. CASE CallbackStarts
    <2>1. FlowsTyped(flow')
        BY <1>6, NextStepTyped
           DEF CallbackStarts, Asks, TypeInv, MemoryTyped, Steps
    <2>. QED
        BY <1>6, <2>1, FlowStepTyped DEF CallbackStarts, TypeInv, RestTyped
<1>. QED
    BY <1>1, <1>2, <1>3, <1>4, <1>5, <1>6 DEF Loads

LEMMA NavigatingTyped ==
    ASSUME TypeInv, NEW a \in AppRecord, NEW open, Navigates(a, open),
           UNCHANGED <<token, vaultKey, unlocked, server, made, logins, files,
                       strayed>>,
           FlowsTyped(flow')
    PROVE  TypeInv'
<1>1. app' \in AppRecord /\ PagesTyped'
    BY NavigatesTyped DEF TypeInv
<1>. QED
    BY <1>1 DEF TypeInv, MemoryTyped, ServerTyped, SessionsTyped, RestTyped, server

LEMMA FormsTyped == ASSUME TypeInv, Forms PROVE TypeInv'
<1>. {"login", "register", "verify"} \subseteq Kinds
    BY DEF Kinds
<1>0. LogsIn => logins' \in 0..MaxLogins
    <2>1. MaxLogins \in Nat
        BY SessionAssumption, SMT
    <2>. QED
        BY <2>1 DEF TypeInv, RestTyped, LogsIn
<1>1. ASSUME NEW v \in {"login", "register"}, ShowView(v) PROVE TypeInv'
    BY <1>1 DEF ShowView, TypeInv, MemoryTyped, PagesTyped, ServerTyped,
                SessionsTyped, RestTyped, memory, server
<1>2. ASSUME NEW u \in Users, DoLogin(u) PROVE TypeInv'
    <2>. DEFINE x == [Off EXCEPT !.at = "ask", !.user = u]
    <2>1. x \in FlowRecord /\ Begun("login", x)
        BY DEF Off, FlowRecord, Steps, Hows, Begun
    <2>. HIDE DEF x
    <2>2. flow' = [flow EXCEPT !["login"] = x]
        BY <1>2 DEF DoLogin, x
    <2>3. FlowsTyped(flow')
        BY <2>1, <2>2, FlowSet DEF TypeInv
    <2>. QED
        BY <1>0, <1>2, <2>3 DEF DoLogin, TypeInv, MemoryTyped, PagesTyped,
             ServerTyped, SessionsTyped, RestTyped, memory, server
<1>3. ASSUME NEW u \in Users, DoRegister(u) PROVE TypeInv'
    <2>. DEFINE x == [flow["register"] EXCEPT !.at = "ask"]
    <2>0. flow["register"] \in FlowRecord
        BY DEF TypeInv, FlowsTyped
    <2>1. x \in FlowRecord /\ Begun("register", x)
        BY <2>0 DEF FlowRecord, Steps, Hows, Begun
    <2>2. flow' = [flow EXCEPT !["register"] = x]
        BY <1>3 DEF DoRegister
    <2>. HIDE DEF x
    <2>3. FlowsTyped(flow')
        BY <2>1, <2>2, FlowSet DEF TypeInv
    <2>. QED
        BY <1>0, <1>3, <2>3 DEF DoRegister, TypeInv, MemoryTyped, PagesTyped,
             ServerTyped, SessionsTyped, RestTyped, memory, server
<1>4. ASSUME NEW u \in Users, DoVerify(u) PROVE TypeInv'
    <2>. DEFINE x == [Off EXCEPT !.at = "ask", !.user = u,
                                 !.how = IF typed = NoOne THEN "" ELSE "avatar"]
    <2>1. x \in FlowRecord /\ Begun("verify", x)
        BY DEF Off, FlowRecord, Steps, Hows, Begun
    <2>. HIDE DEF x
    <2>2. flow' = [flow EXCEPT !["verify"] = x]
        BY <1>4 DEF DoVerify, x
    <2>3. FlowsTyped(flow')
        BY <2>1, <2>2, FlowSet DEF TypeInv
    <2>. QED
        BY <1>0, <1>4, <2>3 DEF DoVerify, TypeInv, MemoryTyped, PagesTyped,
             ServerTyped, SessionsTyped, RestTyped, memory, pages, server
<1>5. CASE SkipAvatar \/ GoToLogin
    BY <1>5, NavigatingTyped DEF SkipAvatar, GoToLogin, TypeInv, MemoryTyped
<1>. QED
    BY <1>1, <1>2, <1>3, <1>4, <1>5 DEF Forms

LEMMA EntersTyped ==
    ASSUME TypeInv, NEW f, FlowsTyped(f), NEW u \in Users, NEW c \in Claims(u),
           Enters(c, f),
           app' \in AppRecord, PagesTyped'
    PROVE  TypeInv'
<1>1. Fresh(f) \in Tokens
    BY FreshIsNew
<1>2. SessionsTyped'
    BY IssueTyped DEF Enters, TypeInv, ServerTyped
<1>3. FlowsTyped(flow')
    BY OutlivedTyped DEF Enters
<1>. QED
    BY <1>1, <1>2, <1>3
       DEF Enters, TypeInv, MemoryTyped, ServerTyped, RestTyped

LEMMA LoginTyped ==
    ASSUME TypeInv,
           \/ LoginGranted \/ LoginUnverified \/ LoginDenied \/ LoginFails
           \/ GoogleGranted \/ GoogleFails \/ DriveLinked
    PROVE  TypeInv'
<1>. DEFINE l == flow["login"]
<1>. "login" \in Kinds
    BY DEF Kinds
<1>0. FlowsTyped(Ended(flow, "login"))
    BY EndedTyped DEF TypeInv
<1>1. l.user \in Users \cup {NoOne}
        /\ (l.at # "off" /\ l.how # "link" => l.user \in Users)
    BY DEF TypeInv, FlowsTyped, FlowRecord, Begun
<1>2. l.user \in Users => \A c \in Claims(l.user) : LoggedIn(c) \in AppRecord
    BY DEF Claims, LoggedIn, AppRecord
<1>3. CASE LoginGranted \/ GoogleGranted
    <2>1. l.user \in Users
        BY <1>1, <1>3 DEF LoginGranted, GoogleGranted
    <2>2. PICK c \in Claims(l.user) :
              /\ Enters(c, Ended(flow, "login"))
              /\ \/ Navigates(LoggedIn(c), unlocked)
                 \/ /\ app' = LoggedIn(c) /\ UNCHANGED <<page, typed>>
                    /\ view' = IF page = "login" THEN "avatar" ELSE view
        BY <1>3 DEF LoginGranted, GoogleGranted
    <2>3. LoggedIn(c) \in AppRecord
        BY <1>2, <2>1
    <2>4. app' \in AppRecord /\ PagesTyped'
        <3>1. CASE Navigates(LoggedIn(c), unlocked)
            BY <2>3, <3>1, NavigatesTyped DEF TypeInv
        <3>2. CASE /\ app' = LoggedIn(c) /\ UNCHANGED <<page, typed>>
                   /\ view' = IF page = "login" THEN "avatar" ELSE view
            BY <2>3, <3>2 DEF TypeInv, PagesTyped
        <3>. QED
            BY <2>2, <3>1, <3>2
    <2>. QED
        BY <1>0, <2>1, <2>2, <2>4, EntersTyped
<1>5. CASE LoginUnverified
    BY <1>0, <1>5 DEF LoginUnverified, Lock, AppRecord, TypeInv, MemoryTyped,
         PagesTyped, ServerTyped, SessionsTyped, RestTyped, server
<1>6. CASE LoginDenied
    BY <1>0, <1>6, SignsOutTyped DEF LoginDenied, Unauthorized
<1>7. CASE LoginFails
    BY <1>0, <1>7 DEF LoginFails, TypeInv, MemoryTyped,
         PagesTyped, ServerTyped, SessionsTyped, RestTyped, memory, server
<1>8. CASE GoogleFails
    BY <1>0, <1>8, NavigatingTyped DEF GoogleFails, TypeInv, MemoryTyped
<1>9. CASE DriveLinked
    <2>1. CASE Refused("login")
        BY <2>1, RefusedTyped
    <2>2. CASE ~Refused("login")
        BY <1>0, <1>9, <2>2, NavigatingTyped DEF DriveLinked, TypeInv, MemoryTyped
    <2>. QED
        BY <2>1, <2>2
<1>. QED
    BY <1>3, <1>5, <1>6, <1>7, <1>8, <1>9

LEMMA MailTyped ==
    ASSUME TypeInv, Registered \/ Verified \/ VerifyFails
    PROVE  TypeInv'
<1>. {"login", "register", "verify"} \subseteq Kinds
    BY DEF Kinds
<1>1. CASE Registered
    <2>1. FlowsTyped(flow')
        BY <1>1, EndedTyped DEF Registered, TypeInv
    <2>2. view' \in {"login", "register", "avatar", "verify"}
        BY <1>1 DEF Registered, TypeInv, PagesTyped
    <2>. QED
        BY <1>1, <2>1, <2>2 DEF Registered, TypeInv, MemoryTyped, PagesTyped,
             ServerTyped, SessionsTyped, RestTyped, memory, server
<1>2. CASE Verified
    <2>. DEFINE v == flow["verify"]
                x == [Off EXCEPT !.at = "ask", !.user = v.user, !.how = "avatar"]
    <2>1. v.user \in Users
        BY <1>2 DEF Verified, TypeInv, FlowsTyped, Begun
    <2>2. x \in FlowRecord /\ Begun("login", x)
        BY <2>1 DEF Off, FlowRecord, Steps, Hows, Begun
    <2>3. FlowsTyped(Ended(flow, "verify"))
        BY EndedTyped DEF TypeInv
    <2>4. FlowsTyped([Ended(flow, "verify") EXCEPT !["login"] = x])
        BY <2>2, <2>3, FlowSet
    <2>5. FlowsTyped(flow')
        BY <1>2, <2>3, <2>4 DEF Verified
    <2>6. view' \in {"login", "register", "avatar", "verify"}
        BY <1>2 DEF Verified, TypeInv, PagesTyped
    <2>. QED
        BY <1>2, <2>1, <2>5, <2>6 DEF Verified, TypeInv, MemoryTyped, PagesTyped,
             ServerTyped, SessionsTyped, RestTyped, memory
<1>3. CASE VerifyFails
    BY <1>3, EndedTyped, FlowStepTyped DEF VerifyFails, Fails, TypeInv, RestTyped
<1>. QED
    BY <1>1, <1>2, <1>3

\* What the verification of an account is: a vault, if it has been set up.
LEMMA VerificationTyped ==
    ASSUME TypeInv, NEW k \in Kinds, NEW step \in Steps, Verification(k, step)
    PROVE  TypeInv'
<1>1. CASE Refused(k)
    BY <1>1, RefusedTyped
<1>2. CASE ~Refused(k)
    <2>. DEFINE t == flow[k].token
    <2>1. Accepts(t) /\ t \in Tokens
        BY <1>2 DEF Verification, Accepts, TypeInv, FlowsTyped, FlowRecord
    <2>2. session[t].owner \in Users
        BY <2>1 DEF Accepts, TypeInv, ServerTyped, SessionsTyped
    <2>3. vault[session[t].owner] \in Sealed \cup {NoVault}
        BY <2>2 DEF TypeInv, ServerTyped
    <2>4. /\ flow[k].at # "off"
          /\ flow' = [flow EXCEPT ![k].at = step,
                                  ![k].vault = vault[session[t].owner]]
        BY <1>2 DEF Verification
    <2>. DEFINE v == vault[session[t].owner]
    <2>. HIDE DEF v
    <2>5. FlowsTyped(flow')
        <3>1. v \in Sealed \cup {NoVault} /\ token \in Tokens \cup {NoToken}
            BY <2>3 DEF v, TypeInv, MemoryTyped
        <3>2. FlowsTyped(flow) /\ flow[k] \in FlowRecord /\ Begun(k, flow[k])
            BY DEF TypeInv, FlowsTyped
        <3>. DEFINE x == [flow[k] EXCEPT !.at = step, !.vault = v]
        <3>3. x \in FlowRecord /\ Begun(k, x)
            BY <2>4, <3>1, <3>2 DEF FlowRecord, Begun
        <3>4. flow' = [flow EXCEPT ![k] = x]
            BY <2>4, <3>2 DEF v, FlowsTyped
        <3>. HIDE DEF x
        <3>. QED
            BY <3>2, <3>3, <3>4, FlowSet
    <2>6. UNCHANGED <<memory, pages, server, made, logins, files, strayed>>
        BY <1>2 DEF Verification
    <2>7. RestTyped'
        BY <2>6 DEF TypeInv, RestTyped
    <2>. QED
        BY <2>5, <2>6, <2>7, FlowStepTyped
<1>. QED
    BY <1>1, <1>2

LEMMA UnlockTyped ==
    ASSUME TypeInv, UnlockAsks \/ Verification("unlock", "open") \/ Unlocks
    PROVE  TypeInv'
<1>. "unlock" \in Kinds /\ {"open", "ask"} \subseteq Steps
    BY DEF Kinds, Steps
<1>1. CASE UnlockAsks
    <2>1. FlowsTyped(flow')
        BY <1>1, NextStepTyped DEF UnlockAsks, Asks, TypeInv, MemoryTyped
    <2>. QED
        BY <1>1, <2>1, FlowStepTyped DEF UnlockAsks, TypeInv, RestTyped
<1>2. CASE Verification("unlock", "open")
    BY <1>2, VerificationTyped
<1>3. CASE Unlocks
    <2>0. flow["unlock"] \in FlowRecord
        BY DEF TypeInv, FlowsTyped
    <2>1. FlowsTyped(flow')
        BY <1>3, EndedTyped DEF Unlocks, TypeInv
    <2>2. flow["unlock"].vault.key \in Keys \cup {NoKey}
        BY <2>0 DEF FlowRecord, Sealed, NoVault
    <2>3. MemoryTyped'
        BY <1>3, <2>2 DEF Unlocks, Unlock, TypeInv, MemoryTyped, AppRecord
    <2>4. RestTyped'
        BY <1>3, <2>0 DEF Unlocks, Strays, TypeInv, RestTyped, FlowRecord
    <2>. QED
        BY <1>3, <2>1, <2>3, <2>4 DEF Unlocks, TypeInv, PagesTyped,
             ServerTyped, SessionsTyped, pages, server
<1>. QED
    BY <1>1, <1>2, <1>3

\* A vault is stored for an account.
LEMMA StoresTyped ==
    ASSUME TypeInv, NEW k \in Kinds, Stores(k)
    PROVE  ServerTyped' /\ strayed' \in BOOLEAN
<1>0. flow[k] \in FlowRecord
    BY DEF TypeInv, FlowsTyped
<1>1. strayed' \in BOOLEAN
    BY <1>0 DEF Stores, Strays, TypeInv, RestTyped, FlowRecord
<1>2. vault' \in [Users -> Sealed \cup {NoVault}]
    <2>. DEFINE v == flow[k].vault
                u == session[flow[k].token].owner
    <2>1. v \in Sealed \cup {NoVault}
        BY <1>0 DEF FlowRecord
    <2>2. vault' = [vault EXCEPT ![u] = v]
        BY DEF Stores
    <2>. HIDE DEF v, u
    <2>. QED
        BY <2>1, <2>2 DEF TypeInv, ServerTyped
<1>. QED
    BY <1>1, <1>2 DEF Stores, TypeInv, ServerTyped, SessionsTyped

LEMMA PostsTyped ==
    ASSUME TypeInv, NEW k \in {"setup", "change"},
           Posts(k) \/ StoreLost(k) \/ StoreRefused(k)
    PROVE  TypeInv'
<1>. k \in Kinds /\ "post" \in Steps
    BY DEF Kinds, Steps
<1>0. flow[k] \in FlowRecord
    BY DEF TypeInv, FlowsTyped
<1>1. CASE Posts(k)
    <2>1. FlowsTyped(flow')
        BY <1>1, NextStepTyped DEF Posts, Asks, TypeInv, MemoryTyped
    <2>2. RestTyped'
        BY <1>0, <1>1 DEF Posts, Strays, TypeInv, RestTyped, FlowRecord
    <2>. QED
        BY <1>1, <2>1, <2>2, FlowStepTyped DEF Posts
<1>2. CASE StoreLost(k)
    <2>1. FlowsTyped(flow')
        BY <1>2, EndedTyped DEF StoreLost, TypeInv
    <2>2. ServerTyped' /\ strayed' \in BOOLEAN
        BY <1>2, StoresTyped DEF StoreLost
    <2>. QED
        BY <1>2, <2>1, <2>2
           DEF StoreLost, TypeInv, MemoryTyped, PagesTyped, RestTyped, memory, pages
<1>3. CASE StoreRefused(k)
    BY <1>3, RefusedTyped DEF StoreRefused
<1>. QED
    BY <1>1, <1>2, <1>3

LEMMA SetupTyped ==
    ASSUME TypeInv, SetupSeals \/ SetupStored \/ SetupEnds
    PROVE  TypeInv'
<1>. "setup" \in Kinds /\ {"seal", "refresh"} \subseteq Steps
    BY DEF Kinds, Steps
<1>. DEFINE s == flow["setup"]
<1>0. s \in FlowRecord /\ Begun("setup", s)
    BY DEF TypeInv, FlowsTyped
<1>1. CASE SetupSeals
    <2>. DEFINE k == [owner |-> s.user, number |-> made + 1]
                v == [email |-> s.user, phrase |-> s.phrase, key |-> k]
    <2>0. MaxKeys \in Nat
        BY SessionAssumption, SMT
    <2>1. s.user \in Users /\ s.phrase \in Phrases /\ made + 1 \in 1..MaxKeys
            /\ made' \in 0..MaxKeys
        BY <1>0, <1>1, <2>0 DEF SetupSeals, Begun, TypeInv, RestTyped
    <2>2. k \in Keys
        BY <2>1 DEF Keys
    <2>3. vaultKey' = k /\ flow' = [flow EXCEPT !["setup"].at = "seal",
                                               !["setup"].vault = v]
        BY <1>1 DEF SetupSeals
    <2>. HIDE DEF k
    <2>4. v \in Sealed
        BY <2>1, <2>2 DEF Sealed
    <2>. HIDE DEF v
    <2>5. FlowsTyped(flow')
        <3>1. s.at # "off"
            BY <1>1 DEF SetupSeals
        <3>2. FlowsTyped(flow) /\ token \in Tokens \cup {NoToken}
            BY DEF TypeInv, MemoryTyped
        <3>. QED
            BY <2>3, <2>4, <3>1, <3>2, NextStepTyped
    <2>6. MemoryTyped'
        BY <1>1, <2>2, <2>3 DEF SetupSeals, TypeInv, MemoryTyped
    <2>7. RestTyped'
        BY <1>0, <1>1, <2>1 DEF SetupSeals, Strays, TypeInv, RestTyped, FlowRecord
    <2>. QED
        BY <1>1, <2>5, <2>6, <2>7 DEF SetupSeals, TypeInv, PagesTyped,
             ServerTyped, SessionsTyped, pages, server
<1>2. CASE SetupStored
    <2>1. FlowsTyped(flow')
        BY <1>2, NextStepTyped DEF SetupStored, Stores, TypeInv, ServerTyped
    <2>2. ServerTyped' /\ strayed' \in BOOLEAN
        BY <1>2, StoresTyped DEF SetupStored
    <2>. QED
        BY <1>2, <2>1, <2>2
           DEF SetupStored, TypeInv, MemoryTyped, PagesTyped, RestTyped, pages
<1>3. CASE SetupEnds
    <2>1. PICK a \in [status : {"Unauthenticated", "Onboarding", "Locked"},
                      user : Users \cup {NoOne, Nameless}] :
              /\ RestoreSession("setup", Ended(flow, "setup"), a)
              /\ Navigates(Unlock(a), unlocked)
        BY <1>3 DEF SetupEnds
    <2>2. Unlock(a) \in AppRecord
        BY DEF AppRecord, Unlock
    <2>3. app' \in AppRecord /\ PagesTyped'
        BY <2>1, <2>2, NavigatesTyped DEF TypeInv
    <2>. QED
        BY <2>1, <2>3, EndedTyped, RestoreTyped DEF TypeInv
<1>. QED
    BY <1>1, <1>2, <1>3

LEMMA ChangeTyped ==
    ASSUME TypeInv,
           \/ ChangeAsks \/ Verification("change", "check") \/ ChangeChecks
           \/ ChangeSeals \/ ChangeStored
    PROVE  TypeInv'
<1>. "change" \in Kinds /\ {"ask", "check", "again", "seal"} \subseteq Steps
    BY DEF Kinds, Steps
<1>. DEFINE c == flow["change"]
<1>0. c \in FlowRecord /\ Begun("change", c) /\ FlowsTyped(Ended(flow, "change"))
    BY EndedTyped DEF TypeInv, FlowsTyped
<1>1. CASE ChangeAsks
    <2>1. FlowsTyped(flow')
        BY <1>1, NextStepTyped DEF ChangeAsks, Asks, TypeInv, MemoryTyped
    <2>. QED
        BY <1>1, <2>1, FlowStepTyped DEF ChangeAsks, TypeInv, RestTyped
<1>2. CASE Verification("change", "check")
    BY <1>2, VerificationTyped
<1>3. CASE ChangeChecks
    <2>1. FlowsTyped(flow')
        BY <1>0, <1>3, NextStepTyped DEF ChangeChecks, Goes, TypeInv
    <2>. QED
        BY <1>3, <2>1, FlowStepTyped DEF ChangeChecks, TypeInv, RestTyped
<1>4. CASE ChangeSeals
    <2>1. CASE vaultKey = NoKey
        BY <1>0, <1>4, <2>1, FlowStepTyped DEF ChangeSeals, TypeInv, RestTyped
    <2>2. CASE vaultKey # NoKey
        <3>. DEFINE v == [email |-> c.user, phrase |-> c.next, key |-> vaultKey]
        <3>1. v \in Sealed
            BY <1>0, <1>4, <2>2 DEF ChangeSeals, Begun, Sealed, TypeInv, MemoryTyped
        <3>2. flow' = [flow EXCEPT !["change"].at = "seal", !["change"].vault = v]
            BY <1>4, <2>2 DEF ChangeSeals
        <3>. HIDE DEF v
        <3>3. FlowsTyped(flow')
            BY <1>4, <3>1, <3>2, NextStepTyped DEF ChangeSeals, TypeInv
        <3>4. RestTyped'
            BY <1>0, <1>4, <2>2 DEF ChangeSeals, Strays, TypeInv, RestTyped, FlowRecord
        <3>. QED
            BY <1>4, <3>3, <3>4, FlowStepTyped DEF ChangeSeals
    <2>. QED
        BY <2>1, <2>2
<1>5. CASE ChangeStored
    <2>1. ServerTyped' /\ strayed' \in BOOLEAN
        BY <1>5, StoresTyped DEF ChangeStored
    <2>. QED
        BY <1>0, <1>5, <2>1
           DEF ChangeStored, TypeInv, MemoryTyped, PagesTyped, RestTyped, memory, pages
<1>. QED
    BY <1>1, <1>2, <1>3, <1>4, <1>5

LEMMA ProfileTyped ==
    ASSUME TypeInv, ProfileSaved \/ ProfileEnds
    PROVE  TypeInv'
<1>. "profile" \in Kinds /\ "refresh" \in Steps
    BY DEF Kinds, Steps
<1>0. FlowsTyped(Ended(flow, "profile"))
    BY EndedTyped DEF TypeInv
<1>1. CASE ProfileSaved
    <2>1. CASE Refused("profile")
        BY <2>1, RefusedTyped
    <2>2. CASE Fails("profile") /\ UNCHANGED server
        BY <1>0, <2>2, FlowStepTyped DEF Fails, TypeInv, RestTyped
    <2>3. CASE /\ flow' = [flow EXCEPT !["profile"].at = "refresh",
                                       !["profile"].token = cookie]
               /\ UNCHANGED <<memory, pages, server, made, logins, files, strayed>>
        <3>1. FlowsTyped(flow')
            BY <1>1, <2>3, NextStepTyped DEF ProfileSaved, TypeInv, ServerTyped
        <3>. QED
            BY <2>3, <3>1, FlowStepTyped DEF TypeInv, RestTyped
    <2>. QED
        BY <1>1, <2>1, <2>2, <2>3 DEF ProfileSaved
<1>2. CASE ProfileEnds
    <2>1. PICK a \in [status : {"Unauthenticated", "Onboarding", "Locked"},
                      user : Users \cup {NoOne, Nameless}] :
              /\ RestoreSession("profile", Ended(flow, "profile"), a)
              /\ (app' = a /\ UNCHANGED pages) \/ Navigates(a, unlocked)
        BY <1>2 DEF ProfileEnds
    <2>2. a \in AppRecord
        BY DEF AppRecord
    <2>3. app' \in AppRecord /\ PagesTyped'
        BY <2>1, <2>2, NavigatesTyped DEF TypeInv, PagesTyped, pages
    <2>. QED
        BY <1>0, <2>1, <2>3, RestoreTyped
<1>. QED
    BY <1>1, <1>2

LEMMA RequestTyped ==
    ASSUME TypeInv, RequestEnds \/ Forbidden \/ LogoutEnds \/ Expire
    PROVE  TypeInv'
<1>. {"request", "logout"} \subseteq Kinds
    BY DEF Kinds
<1>0. FlowsTyped(Ended(flow, "request")) /\ FlowsTyped(Ended(flow, "logout"))
        /\ flow["request"] \in FlowRecord
    BY EndedTyped DEF TypeInv, FlowsTyped
<1>1. CASE RequestEnds
    <2>1. CASE Refused("request")
        BY <2>1, RefusedTyped
    <2>2. CASE Fails("request") /\ UNCHANGED server
        BY <1>0, <2>2, FlowStepTyped DEF Fails, TypeInv, RestTyped
    <2>. QED
        BY <1>1, <2>1, <2>2 DEF RequestEnds
<1>2. CASE Forbidden
    <2>1. MemoryTyped'
        BY <1>2 DEF Forbidden, Lock, TypeInv, MemoryTyped, AppRecord
    <2>2. RestTyped'
        BY <1>0, <1>2 DEF Forbidden, Strays, TypeInv, RestTyped, FlowRecord
    <2>. QED
        BY <1>0, <1>2, <2>1, <2>2 DEF Forbidden, TypeInv, PagesTyped,
             ServerTyped, SessionsTyped, pages, server
<1>3. ASSUME NEW gone,
             session' = [t \in Tokens |->
                           [session[t] EXCEPT !.alive = @ /\ t \notin gone]]
      PROVE  SessionsTyped'
    <2>. SUFFICES ASSUME NEW t \in Tokens
                  PROVE  /\ session'[t] \in [owner : Users \cup {NoOne, Nameless},
                                             init : BOOLEAN, alive : BOOLEAN]
                         /\ session'[t].alive => session'[t].owner \in Users
        BY <1>3 DEF SessionsTyped
    <2>. DEFINE x == session[t]
                b == x.alive /\ t \notin gone
    <2>1. x \in [owner : Users \cup {NoOne, Nameless}, init : BOOLEAN, alive : BOOLEAN]
            /\ (x.alive => x.owner \in Users)
        BY DEF TypeInv, ServerTyped, SessionsTyped
    <2>2. b \in BOOLEAN /\ (b => x.alive)
        BY <2>1
    <2>3. session'[t] = [x EXCEPT !.alive = b]
        BY <1>3
    <2>. HIDE DEF b, x
    <2>. QED
        BY <2>1, <2>2, <2>3
<1>4. CASE LogoutEnds
    <2>1. CASE Refused("logout")
        BY <2>1, RefusedTyped
    <2>2. CASE ~Refused("logout")
        <3>. DEFINE l == flow["logout"]
                    gone == IF l.how = "" THEN {l.token}
                            ELSE {t \in Tokens :
                                    session[t].owner = session[l.token].owner}
        <3>0. session' = [t \in Tokens |->
                            [session[t] EXCEPT !.alive = @ /\ t \notin gone]]
            BY <1>4, <2>2, Zenon DEF LogoutEnds
        <3>. HIDE DEF gone
        <3>1. SessionsTyped'
            BY <1>3, <3>0
        <3>. QED
            BY <1>0, <1>4, <2>2, <3>1 DEF LogoutEnds, TypeInv, MemoryTyped,
                 PagesTyped, ServerTyped, RestTyped, memory, pages
    <2>. QED
        BY <2>1, <2>2
<1>5. CASE Expire
    <2>1. SessionsTyped'
        BY <1>3, <1>5 DEF Expire
    <2>. QED
        BY <1>5, <2>1 DEF Expire, TypeInv, MemoryTyped, PagesTyped,
             ServerTyped, RestTyped, memory, pages
<1>. QED
    BY <1>1, <1>2, <1>4, <1>5

LEMMA ClicksTyped == ASSUME TypeInv, Clicks PROVE TypeInv'
<1>. {"unlock", "setup", "change", "profile", "request"} \subseteq Kinds
    BY DEF Kinds
<1>1. ASSUME NEW k \in Kinds, NEW x \in FlowRecord, Begun(k, x),
             flow' = [flow EXCEPT ![k] = x],
             UNCHANGED <<memory, pages, server, made, logins, files, strayed>>
      PROVE  TypeInv'
    <2>1. FlowsTyped(flow')
        BY <1>1, FlowSet DEF TypeInv
    <2>. QED
        BY <1>1, <2>1, FlowStepTyped DEF TypeInv, RestTyped
<1>3. ASSUME NEW p \in Phrases, BeginUnlock(p) PROVE TypeInv'
    <2>. DEFINE x == [Off EXCEPT !.at = "derive", !.user = app.user, !.phrase = p]
    <2>1. x \in FlowRecord /\ Begun("unlock", x)
        BY <1>3 DEF BeginUnlock, Named, Off, FlowRecord, Steps, Hows, Begun
    <2>. QED
        BY <1>1, <1>3, <2>1 DEF BeginUnlock
<1>4. ASSUME NEW p \in Phrases, BeginSetup(p) PROVE TypeInv'
    <2>. DEFINE x == [Off EXCEPT !.at = "derive", !.user = app.user, !.phrase = p]
    <2>1. x \in FlowRecord /\ Begun("setup", x)
        BY <1>4 DEF BeginSetup, Named, Off, FlowRecord, Steps, Hows, Begun
    <2>. QED
        BY <1>1, <1>4, <2>1 DEF BeginSetup
<1>5. ASSUME NEW p \in Phrases, NEW q \in Phrases, BeginChange(p, q)
      PROVE  TypeInv'
    <2>. DEFINE x == [Off EXCEPT !.at = "derive", !.user = app.user, !.phrase = p,
                                 !.next = q]
    <2>1. x \in FlowRecord /\ Begun("change", x)
        BY <1>5 DEF BeginChange, Named, Off, FlowRecord, Steps, Hows, Begun
    <2>. QED
        BY <1>1, <1>5, <2>1 DEF BeginChange
<1>6. ASSUME NEW how \in {"name", "picture", "avatar"}, BeginProfile(how)
      PROVE  TypeInv'
    <2>. DEFINE x == [Off EXCEPT !.at = "put", !.how = how, !.token = token]
    <2>1. x \in FlowRecord /\ Begun("profile", x)
        BY DEF Off, FlowRecord, Steps, Hows, Begun, TypeInv, MemoryTyped
    <2>. QED
        BY <1>1, <1>6, <2>1 DEF BeginProfile
<1>7. ASSUME NEW how \in {"", "all"}, Logout(how) PROVE TypeInv'
    BY <1>7, SignsOutTyped DEF Logout, TypeInv
<1>8. CASE LockVault
    BY <1>8 DEF LockVault, Lock, AppRecord, TypeInv, MemoryTyped, PagesTyped,
         ServerTyped, SessionsTyped, RestTyped, pages, server
<1>9. CASE BeginRequest
    <2>. DEFINE x == [Off EXCEPT !.at = "ask", !.token = token]
    <2>1. x \in FlowRecord /\ Begun("request", x)
        BY DEF Off, FlowRecord, Steps, Hows, Begun, TypeInv, MemoryTyped
    <2>. QED
        BY <1>1, <1>9, <2>1 DEF BeginRequest
<1>10. CASE Upload
    <2>1. session[token].owner \in Users /\ vaultKey \in Keys
        BY <1>10 DEF Upload, Accepts, TypeInv, MemoryTyped, ServerTyped, SessionsTyped
    <2>2. files' \subseteq [owner : Users, key : Keys]
        BY <1>10, <2>1 DEF Upload, TypeInv, RestTyped
    <2>. QED
        BY <1>10, <2>2, FlowStepTyped DEF Upload, TypeInv, RestTyped
<1>. QED
    BY <1>3, <1>4, <1>5, <1>6, <1>7, <1>8, <1>9, <1>10 DEF Clicks

LEMMA TypeStep == TypeInv /\ [Next]_vars => TypeInv'
<1>. SUFFICES ASSUME TypeInv, [Next]_vars PROVE TypeInv'
    OBVIOUS
<1>1. CASE Answers
    <2>1. CASE \E k \in {"setup", "change"} :
                   Posts(k) \/ StoreLost(k) \/ StoreRefused(k)
        BY <2>1, PostsTyped
    <2>. QED
        BY <1>1, <2>1, LoginTyped, MailTyped, UnlockTyped, SetupTyped, ChangeTyped,
           ProfileTyped, RequestTyped DEF Answers
<1>2. CASE UNCHANGED vars
    BY <1>2, FlowStepTyped DEF vars, TypeInv, RestTyped
<1>. QED
    BY <1>1, <1>2, LoadsTyped, FormsTyped, ClicksTyped, RequestTyped DEF Next

\* Type correctness of the tab and of what it knows of the server, for any
\* accounts, phrases and numbers of logins and keys.
THEOREM SessionTypes == Spec => []TypeOK
    BY InitTyped, TypeStep, TypesAreOK, PTL DEF Spec

-----------------------------------------------------------------------------
(* The vault.                                                              *)

OneByOne ==
    /\ \A j, k \in {"login", "register", "verify"} :
          flow[j].at # "off" /\ flow[k].at # "off" => j = k
    /\ flow["setup"].at # "off" =>
          flow["profile"].at = "off" /\ flow["request"].at = "off"
    /\ \A k \in Kinds \ {"login"} : flow[k].at # "wait"

On(x) == x.at # "off" /\ ~x.stale

\* A form of the login page has been sent.
Signing ==
    \/ flow["register"].at # "off" \/ flow["verify"].at # "off"
    \/ flow["login"].at # "off" /\ flow["login"].how \in {"", "avatar"}

Shut == vaultKey = NoKey /\ ~unlocked

OnlyLogin == \A k \in Kinds \ {"restore", "login"} : flow[k].at = "off"

\* While the application starts, and on the callback page, nothing else runs.
Starting ==
    /\ app.status = "Loading" =>
          /\ OnlyLogin /\ flow["login"].at \in {"off", "wait"} /\ ~Signing
          /\ app.user = NoOne /\ Shut
    /\ flow["restore"].at # "off" => app.status = "Loading"
    /\ page = "callback" => OnlyLogin /\ ~Signing /\ Shut
    /\ flow["login"].at # "off" /\ flow["login"].how \notin {"", "avatar"}
          => page = "callback"

\* Whoever is shown has a token, and the cookie is of the same session.
TokenHeld ==
    /\ app.user # NoOne => token # NoToken
    /\ token # NoToken => cookie \in {NoToken, token}

\* Who can be shown by which page.
Doors ==
    /\ Signing => app.user = NoOne /\ page \in {"login", "home"}
    /\ page = "login" /\ view # "avatar" => app.user = NoOne
    /\ page = "login" /\ view = "avatar" => ~Signing
    /\ page = "login" /\ view = "avatar" /\ app.user = NoOne =>
          app.status = "Unauthenticated" /\ ~On(flow["request"])
    /\ page = "setup" /\ app.user # NoOne => app.status = "Onboarding"

\* An open vault is the stored one of the user; a key that is not stored yet
\* is only held by the page that sets the vault up. Of a user without claims
\* nothing is known.
Opened ==
    /\ app.user = NoOne => Shut /\ app.status \notin {"Unlocked", "Onboarding"}
    /\ app.status = "Unlocked" => unlocked
    /\ unlocked => vaultKey # NoKey
    /\ app.user # Nameless =>
          /\ unlocked => Initialised(app.user) /\ vaultKey = vault[app.user].key
          /\ unlocked /\ app.status = "Onboarding" =>
                On(flow["setup"]) /\ flow["setup"].at = "refresh"
          /\ vaultKey # NoKey => Initialised(app.user) \/ app.status = "Onboarding"
          /\ app.status = "Onboarding" /\ Initialised(app.user) => vaultKey # NoKey
          /\ app.status = "Onboarding" /\ vaultKey # NoKey => page = "setup"

Readable ==
    /\ \A u \in Users : Initialised(u) => vault[u].email = u /\ vault[u].key # NoKey
    /\ \A f \in files : vault[f.owner].key = f.key
    /\ app.status = "Onboarding" => \A f \in files : f.owner # app.user

Calm == Starting /\ TokenHeld /\ Doors /\ Opened /\ Readable

\* A flow of the session that is shown: its token, and its account.
Sent(x) ==
    app.user # NoOne /\ x.token # NoToken => session[x.token].owner = app.user

Mine(x) == app.user \notin {NoOne, Nameless} /\ x.user = app.user

UnlockGood(x) ==
    On(x) =>
        /\ Sent(x) /\ Mine(x) /\ app.status \in {"Locked", "Unlocked"}
        /\ x.at = "open" =>
              x.vault.key = vault[app.user].key /\ Initialised(app.user)

SetupGood(x) ==
    On(x) =>
        /\ Sent(x) /\ Mine(x) /\ app.status = "Onboarding" /\ page = "setup"
        /\ x.at = "refresh" <=> unlocked
        /\ x.at \in {"seal", "post"} =>
              x.vault.email = app.user /\ x.vault.key = vaultKey /\ vaultKey # NoKey

ChangeGood(x) ==
    On(x) =>
        /\ Sent(x) /\ Mine(x) /\ app.status \in {"Locked", "Unlocked"}
        /\ vaultKey = NoKey \/ unlocked
        /\ x.at \in {"seal", "post"} =>
              /\ x.vault.email = app.user /\ x.vault.key = vault[app.user].key
              /\ Initialised(app.user)

\* Begun in the drive, where a vault that is not set up has no key.
Behind == app.status = "Onboarding" /\ app.user # Nameless => vaultKey = NoKey

ProfileGood(x) ==
    On(x) =>
        /\ Sent(x) /\ Behind /\ ~Signing
        /\ app.user = NoOne =>
              /\ x.how = "avatar" /\ app.status = "Unauthenticated"
              /\ page = "login" /\ view = "avatar"
        /\ x.how # "avatar" => page # "login"

RequestGood(x) == On(x) => Sent(x) /\ Behind

FlowsGood ==
    /\ UnlockGood(flow["unlock"]) /\ SetupGood(flow["setup"])
    /\ ChangeGood(flow["change"]) /\ ProfileGood(flow["profile"])
    /\ RequestGood(flow["request"])

VaultInv ==
    TypeInv /\ SessionInv /\ OneByOne /\ (~strayed => Calm /\ FlowsGood)

\* What has no key, no vault and no user.
LEMMA NothingKept ==
    /\ NoKey \notin Keys /\ NoOne \notin Users /\ Nameless \notin Users \cup {NoOne}
    /\ \A v \in Sealed : v # NoVault /\ v.key \in Keys /\ v.key # NoKey
    BY SessionAssumption DEF Keys, NoKey, Sealed, NoVault

LEMMA VaultAnswers ==
    ASSUME VaultInv
    PROVE  UnlockedWithOwnKey /\ FilesStayReadable
<1>1. UnlockedWithOwnKey
    BY NothingKept DEF VaultInv, Calm, Opened, UnlockedWithOwnKey
<1>2. FilesStayReadable
    BY DEF VaultInv, Calm, Readable, FilesStayReadable
<1>. QED
    BY <1>1, <1>2

\* The kinds of flows whose results change the vault or the session.
Inner == {"unlock", "setup", "change", "profile", "request"}

LEMMA Rows ==
    ASSUME TypeInv
    PROVE  /\ flow = [k \in Kinds |-> flow[k]]
           /\ \A k \in Kinds : Whole(flow[k]) /\ flow[k].token \in Tokens \cup {NoToken}
           /\ app = [status |-> app.status, user |-> app.user]
           /\ app.user \in Users \cup {NoOne, Nameless}
<1>1. flow \in [Kinds -> FlowRecord] /\ app \in AppRecord
    BY DEF TypeInv, FlowsTyped, MemoryTyped
<1>2. \A x \in FlowRecord : Whole(x) /\ x.token \in Tokens \cup {NoToken}
    BY DEF FlowRecord, Whole
<1>3. \A k \in Kinds : Whole(flow[k]) /\ flow[k].token \in Tokens \cup {NoToken}
    BY <1>1, <1>2
<1>. QED
    BY <1>1, <1>3 DEF AppRecord

\* A flow that outlives its session is stale.
LEMMA OutlivedFlows ==
    ASSUME NEW f, \A k \in Kinds : Whole(f[k]) /\ (k # "login" => f[k].at # "wait"),
           NEW k \in Kinds
    PROVE  /\ Outlived(f)[k].at = f[k].at /\ Outlived(f)[k].how = f[k].how
           /\ k \in Inner => ~On(Outlived(f)[k])
<1>. DEFINE x == f[k]
            y == [x EXCEPT !.stale = TRUE]
<1>1. Whole(x) /\ (k # "login" => x.at # "wait")
    OBVIOUS
<1>2. Outlived(f)[k] = IF x.at \in {"off", "wait"} \/ k = "logout" THEN x ELSE y
    BY DEF Outlived
<1>. HIDE DEF x
<1>3. y.at = x.at /\ y.how = x.how
    BY <1>1 DEF Whole
<1>4. y.stale = TRUE
    BY <1>1 DEF Whole
<1>. HIDE DEF y
<1>5. k \in Inner => k # "login" /\ k # "logout"
    BY DEF Inner
<1>6. CASE x.at \in {"off", "wait"} \/ k = "logout"
    BY <1>1, <1>2, <1>5, <1>6 DEF On, x
<1>7. CASE ~(x.at \in {"off", "wait"} \/ k = "logout")
    BY <1>2, <1>3, <1>4, <1>7 DEF On, x
<1>. QED
    BY <1>6, <1>7

LEMMA FarewellFlows ==
    ASSUME NEW f, f = [k \in Kinds |-> f[k]], NEW how, NEW k \in Kinds \ {"logout"}
    PROVE  Farewell(f, how)[k] = f[k]
    BY DEF Farewell

LEMMA FarewellWaits ==
    ASSUME NEW f, f = [k \in Kinds |-> f[k]], NEW how, f["logout"].at # "wait"
    PROVE  Farewell(f, how)["logout"].at # "wait"
    BY DEF Farewell, Kinds, Off

LEMMA EndedFlows ==
    ASSUME TypeInv, OneByOne, NEW k \in Kinds, NEW f, f = Ended(flow, k)
    PROVE  /\ f[k] = Off /\ \A j \in Kinds \ {k} : f[j] = flow[j]
           /\ f = [j \in Kinds |-> f[j]]
           /\ \A j \in Kinds : Whole(f[j]) /\ (j # "login" => f[j].at # "wait")
    BY Rows DEF Ended, Off, Whole, OneByOne

LEMMA OffIsOff == Off.at = "off" /\ ~On(Off) /\ Off.how = ""
    BY DEF Off, On

\* No flow begins.
LEMMA NoneBegins ==
    ASSUME OneByOne,
           \A k \in Kinds \ {"logout", "restore"} :
               flow'[k].at # "off" => flow[k].at # "off",
           \A k \in Kinds \ {"login"} : flow'[k].at # "wait"
    PROVE  OneByOne'
    BY DEF OneByOne, Kinds

\* A flow of the tab begins when those that run allow it.
LEMMA OneBegins ==
    ASSUME OneByOne, Separate, NEW k \in Kinds, MayBegin(k),
           \A j \in Kinds \ {k} : flow'[j].at = flow[j].at,
           flow'[k].at # "wait"
    PROVE  OneByOne'
<1>1. PICK kinds \in Together : Running \cup {k} \subseteq kinds
    BY DEF MayBegin
<1>2. \A j \in Kinds \ {"logout"} : flow'[j].at # "off" => j \in kinds
    BY <1>1 DEF Running
<1>3. /\ \A i, j \in kinds \cap {"login", "register", "verify"} : i = j
      /\ "setup" \in kinds => kinds \cap {"profile", "request"} = {}
    BY DEF Separate
<1>4. \A i, j \in {"login", "register", "verify"} :
          flow'[i].at # "off" /\ flow'[j].at # "off" => i = j
    BY <1>2, <1>3 DEF Kinds
<1>5. flow'["setup"].at # "off" =>
          flow'["profile"].at = "off" /\ flow'["request"].at = "off"
    BY <1>2, <1>3 DEF Kinds
<1>6. \A j \in Kinds \ {"login"} : flow'[j].at # "wait"
    BY DEF OneByOne
<1>. QED
    BY <1>4, <1>5, <1>6 DEF OneByOne

LEMMA StaleFlows ==
    ASSUME \A k \in Inner : ~On(flow'[k])
    PROVE  FlowsGood'
    BY DEF FlowsGood, UnlockGood, SetupGood, ChangeGood, ProfileGood, RequestGood,
           On, Inner

\* f is what a step makes of the flows before it changes the session.
Remaining(f) ==
    /\ f = [k \in Kinds |-> f[k]]
    /\ \A k \in Kinds : /\ Whole(f[k]) /\ (k # "login" => f[k].at # "wait")
                        /\ f[k].at # "off" => f[k] = flow[k]

LEMMA RemainingEnded ==
    ASSUME VaultInv, NEW k \in Kinds
    PROVE  /\ Remaining(Ended(flow, k)) /\ Ended(flow, k)[k].at = "off"
           /\ Remaining(flow)
<1>. DEFINE f == Ended(flow, k)
<1>0. /\ f[k] = Off /\ \A j \in Kinds \ {k} : f[j] = flow[j]
      /\ f = [j \in Kinds |-> f[j]]
      /\ \A j \in Kinds : Whole(f[j]) /\ (j # "login" => f[j].at # "wait")
    BY EndedFlows DEF VaultInv
<1>. HIDE DEF f
<1>1. Remaining(f) /\ f[k].at = "off"
    BY <1>0, OffIsOff DEF Remaining
<1>2. Remaining(flow)
    BY Rows DEF VaultInv, Remaining, OneByOne
<1>. QED
    BY <1>1, <1>2 DEF f

\* The flows go on when the session does not.
LEMMA OutlivedVault ==
    ASSUME VaultInv, NEW f, Remaining(f), flow' = Outlived(f)
    PROVE  /\ OneByOne' /\ FlowsGood' /\ ~On(flow'["request"])
           /\ \A k \in Kinds : /\ flow'[k].at = f[k].at /\ flow'[k].how = f[k].how
                               /\ f[k].at # "off" => f[k] = flow[k]
<1>1. \A k \in Kinds : /\ flow'[k].at = f[k].at /\ flow'[k].how = f[k].how
                       /\ k \in Inner => ~On(flow'[k])
    BY OutlivedFlows DEF Remaining
<1>2. OneByOne'
    BY <1>1, NoneBegins DEF VaultInv, Remaining
<1>3. FlowsGood' /\ ~On(flow'["request"])
    BY <1>1, StaleFlows DEF Inner, Kinds
<1>. QED
    BY <1>1, <1>2, <1>3 DEF Remaining

LEMMA LeavingVault ==
    ASSUME VaultInv, TypeInv', SessionInv', NEW f, Remaining(f), NEW how,
           SignsOut(f, how), UNCHANGED <<vault, files, strayed>>,
           ~strayed => /\ f["restore"].at = "off"
                       /\ f["login"].at # "off" => f["login"].how \in {"", "avatar"}
    PROVE  VaultInv'
<1>1. /\ \A k \in Kinds \ {"logout"} : /\ flow'[k].at = f[k].at /\ flow'[k].how = f[k].how
                                       /\ k \in Inner => ~On(flow'[k])
      /\ flow'["logout"].at # "wait"
    <2>. DEFINE g == Outlived(f)
    <2>1. g = [k \in Kinds |-> g[k]] /\ flow' = Farewell(g, how)
        BY DEF Outlived, SignsOut
    <2>2. \A k \in Kinds : /\ g[k].at = f[k].at /\ g[k].how = f[k].how
                           /\ k \in Inner => ~On(g[k])
        BY OutlivedFlows DEF Remaining
    <2>3. f["logout"].at # "wait"
        BY DEF Remaining, Kinds
    <2>. HIDE DEF g
    <2>4. g["logout"].at # "wait"
        BY <2>2, <2>3 DEF Kinds
    <2>5. flow'["logout"].at # "wait"
        BY <2>1, <2>4, FarewellWaits
    <2>6. \A k \in Kinds \ {"logout"} : flow'[k] = g[k]
        BY <2>1, FarewellFlows
    <2>. QED
        BY <2>2, <2>5, <2>6
<1>2. /\ app' = SignedOut /\ token' = NoToken /\ vaultKey' = NoKey /\ unlocked' = FALSE
      /\ page' = "login" /\ Form
    BY DEF SignsOut
<1>3. OneByOne'
    <2>1. \A k \in Kinds \ {"login"} : flow'[k].at # "wait"
        BY <1>1 DEF Remaining
    <2>2. \A k \in Kinds \ {"logout"} : flow'[k].at # "off" => flow[k].at # "off"
        BY <1>1 DEF Remaining
    <2>. QED
        BY <2>1, <2>2, NoneBegins DEF VaultInv
<1>4. FlowsGood' /\ ~On(flow'["request"])
    <2>1. \A k \in Inner : ~On(flow'[k])
        BY <1>1 DEF Inner, Kinds
    <2>. QED
        BY <2>1, StaleFlows DEF Inner
<1>5. ASSUME ~strayed' PROVE Calm'
    <2>1. Calm /\ ~strayed
        BY <1>5 DEF VaultInv
    <2>2. Signing' => Signing
        BY <1>1 DEF Signing, Remaining, Kinds
    <2>3. Starting'
        BY <1>1, <1>2, <2>1 DEF Starting, SignedOut, Kinds
    <2>4. TokenHeld' /\ Opened'
        BY <1>2 DEF TokenHeld, Opened, Shut, SignedOut
    <2>5. Doors'
        BY <1>2, <1>4, <2>1, <2>2 DEF Calm, Doors, SignedOut, Form
    <2>6. Readable'
        BY <1>2, <2>1 DEF Calm, Readable, SignedOut, Initialised
    <2>. QED
        BY <2>3, <2>4, <2>5, <2>6 DEF Calm
<1>. QED
    BY <1>3, <1>4, <1>5 DEF VaultInv

LEMMA ReloadVault ==
    ASSUME VaultInv, TypeInv', SessionInv', NEW to, NEW x, Reload(to, x),
           x.at \in {"off", "wait"},
           x.at = "wait" => to = "callback" /\ x.how \notin {"", "avatar"}
    PROVE  VaultInv'
<1>1. /\ app' = [status |-> "Loading", user |-> NoOne]
      /\ token' = NoToken /\ vaultKey' = NoKey /\ unlocked' = FALSE
      /\ page' = to /\ view' = "login"
      /\ UNCHANGED <<vault, files, strayed>>
    BY DEF Reload, server
<1>2. /\ flow'["restore"].at = "ask" /\ flow'["login"] = x
      /\ \A k \in Kinds \ {"restore", "login"} : flow'[k] = Off
    BY DEF Reload, Kinds, Off
<1>3. OneByOne'
    BY <1>2, OffIsOff DEF OneByOne, Kinds
<1>4. FlowsGood' /\ ~On(flow'["request"])
    BY <1>2, OffIsOff, StaleFlows DEF Inner, Kinds
<1>5. ~Signing' /\ OnlyLogin'
    BY <1>2, OffIsOff DEF Signing, Kinds, OnlyLogin
<1>6. ASSUME ~strayed' PROVE Calm'
    <2>1. Starting'
        BY <1>1, <1>2, <1>5 DEF Starting, Shut
    <2>2. TokenHeld' /\ Opened'
        BY <1>1 DEF TokenHeld, Opened, Shut
    <2>3. Doors'
        BY <1>1, <1>5 DEF Doors
    <2>4. Readable
        BY <1>1, <1>6 DEF VaultInv, Calm
    <2>5. Readable'
        BY <1>1, <2>4 DEF Readable, Initialised
    <2>. QED
        BY <2>1, <2>2, <2>3, <2>5 DEF Calm
<1>. QED
    BY <1>3, <1>4, <1>6 DEF VaultInv

\* A step that changes neither the memory of the tab, nor its pages, nor the
\* stored vaults, and after which the flows are as they should be.
LEMMA StillVault ==
    ASSUME VaultInv, TypeInv', SessionInv', OneByOne', strayed => strayed',
           UNCHANGED <<app, token, vaultKey, unlocked, page, view, vault, files>>,
           cookie' \in {cookie, NoToken},
           \A t \in Tokens : session'[t].owner = session[t].owner,
           \A k \in {"restore", "register", "verify"} :
               flow'[k].at # "off" => flow[k].at # "off",
           flow'["login"].at # "off" =>
               /\ flow["login"].at # "off" /\ flow'["login"].how = flow["login"].how
               /\ app.status = "Loading" => flow'["login"].at = flow["login"].at,
           ~strayed /\ (app.status = "Loading" \/ page = "callback") =>
               \A k \in Kinds \ {"restore", "login"} :
                   flow'[k].at # "off" => flow[k].at # "off",
           ~strayed' =>
               /\ UnlockGood(flow'["unlock"]) /\ SetupGood(flow'["setup"])
               /\ ChangeGood(flow'["change"]) /\ ProfileGood(flow'["profile"])
               /\ RequestGood(flow'["request"])
               /\ On(flow'["request"]) => On(flow["request"]) \/ page = "home"
               /\ On(flow["setup"]) /\ flow["setup"].at = "refresh" /\ unlocked =>
                     On(flow'["setup"]) /\ flow'["setup"].at = "refresh"
    PROVE  VaultInv'
<1>1. SUFFICES ASSUME ~strayed' PROVE Calm' /\ FlowsGood'
    BY DEF VaultInv
<1>2. ~strayed /\ Calm /\ FlowsGood
    BY <1>1 DEF VaultInv
<1>3. Signing' => Signing
    BY DEF Signing
<1>4. Starting'
    <2>1. OnlyLogin /\ (app.status = "Loading" \/ page = "callback") => OnlyLogin'
        BY <1>2 DEF OnlyLogin
    <2>. QED
        BY <1>2, <1>3, <2>1 DEF Calm, Starting, Shut
<1>5. TokenHeld' /\ Doors'
    BY <1>1, <1>2, <1>3 DEF Calm, TokenHeld, Doors
<1>6. Opened'
    BY <1>1, <1>2 DEF Calm, Opened, Shut, Initialised
<1>7. Readable'
    BY <1>2 DEF Calm, Readable, Initialised
<1>8. \A k \in Inner : flow'[k].token # NoToken => flow'[k].token \in Tokens
    <2>1. flow' \in [Kinds -> FlowRecord]
        BY DEF TypeInv, FlowsTyped
    <2>2. \A x \in FlowRecord : x.token # NoToken => x.token \in Tokens
        BY DEF FlowRecord
    <2>. QED
        BY <2>1, <2>2 DEF Inner, Kinds
<1>9. UnlockGood(flow["unlock"])' /\ SetupGood(flow["setup"])'
    BY <1>1, <1>8 DEF UnlockGood, SetupGood, Sent, Mine, Initialised, Inner, On
<1>10. ChangeGood(flow["change"])' /\ RequestGood(flow["request"])'
    BY <1>1, <1>8 DEF ChangeGood, RequestGood, Behind, Sent, Mine, Initialised, Inner, On
<1>11. ProfileGood(flow["profile"])'
    BY <1>1, <1>3, <1>8 DEF ProfileGood, Behind, Sent, Inner, On
<1>. QED
    BY <1>4, <1>5, <1>6, <1>7, <1>9, <1>10, <1>11 DEF Calm, FlowsGood

GoodFlow(k, x) ==
    /\ k = "unlock" => UnlockGood(x)
    /\ k = "setup" => /\ SetupGood(x)
                      /\ flow[k].at = "refresh" /\ unlocked /\ On(flow[k]) =>
                            On(x) /\ x.at = "refresh"
    /\ k = "change" => ChangeGood(x)
    /\ k = "profile" => ProfileGood(x)
    /\ k = "request" => RequestGood(x) /\ (On(x) => On(flow[k]) \/ page = "home")

\* One flow begins, goes on or ends, and nothing else happens in the tab.
LEMMA OneFlowVault ==
    ASSUME VaultInv, TypeInv', SessionInv', strayed => strayed',
           UNCHANGED <<app, token, vaultKey, unlocked, page, view, vault, files>>,
           cookie' \in {cookie, NoToken},
           \A t \in Tokens : session'[t].owner = session[t].owner,
           NEW k \in Inner \cup {"logout"}, NEW x, x.at # "wait",
           flow' = [flow EXCEPT ![k] = x],
           \/ flow[k].at # "off" \/ x.at = "off"
           \/ /\ Separate /\ MayBegin(k)
              /\ ~strayed => page # "callback" /\ app.status # "Loading",
           ~strayed' => GoodFlow(k, x)
    PROVE  VaultInv'
<1>1. /\ k \in Kinds \ {"restore", "login", "register", "verify"}
      /\ flow'[k] = x /\ \A j \in Kinds \ {k} : flow'[j] = flow[j]
    BY Rows DEF VaultInv, Inner, Kinds
<1>2. OneByOne /\ \A j \in Kinds \ {"login"} : flow'[j].at # "wait"
    BY <1>1 DEF VaultInv, OneByOne
<1>3. OneByOne'
    <2>1. CASE flow[k].at # "off" \/ x.at = "off"
        BY <1>1, <1>2, <2>1, NoneBegins
    <2>2. CASE Separate /\ MayBegin(k)
        BY <1>1, <1>2, <2>2, OneBegins
    <2>. QED
        BY <2>1, <2>2
<1>4. /\ \A j \in {"restore", "register", "verify"} : flow'[j] = flow[j]
      /\ flow'["login"] = flow["login"]
    BY <1>1 DEF Kinds
<1>5. ~strayed /\ (app.status = "Loading" \/ page = "callback") =>
          \A j \in Kinds \ {"restore", "login"} :
              flow'[j].at # "off" => flow[j].at # "off"
    BY <1>1
<1>6. ASSUME ~strayed'
      PROVE  /\ UnlockGood(flow'["unlock"]) /\ SetupGood(flow'["setup"])
             /\ ChangeGood(flow'["change"]) /\ ProfileGood(flow'["profile"])
             /\ RequestGood(flow'["request"])
             /\ On(flow'["request"]) => On(flow["request"]) \/ page = "home"
             /\ On(flow["setup"]) /\ flow["setup"].at = "refresh" /\ unlocked =>
                   On(flow'["setup"]) /\ flow'["setup"].at = "refresh"
    <2>1. GoodFlow(k, x) /\ FlowsGood
        BY <1>6 DEF VaultInv
    <2>2. \A j \in Inner : IF j = k THEN flow'[j] = x ELSE flow'[j] = flow[j]
        BY <1>1 DEF Inner, Kinds
    <2>3. UnlockGood(flow'["unlock"]) /\ SetupGood(flow'["setup"])
        BY <2>1, <2>2 DEF GoodFlow, FlowsGood, Inner
    <2>4. ChangeGood(flow'["change"]) /\ ProfileGood(flow'["profile"])
        BY <2>1, <2>2 DEF GoodFlow, FlowsGood, Inner
    <2>5. /\ RequestGood(flow'["request"])
          /\ On(flow'["request"]) => On(flow["request"]) \/ page = "home"
        BY <2>1, <2>2 DEF GoodFlow, FlowsGood, Inner
    <2>6. On(flow["setup"]) /\ flow["setup"].at = "refresh" /\ unlocked =>
              On(flow'["setup"]) /\ flow'["setup"].at = "refresh"
        BY <2>1, <2>2 DEF GoodFlow, Inner
    <2>. QED
        BY <2>3, <2>4, <2>5, <2>6
<1>. QED
    BY <1>3, <1>4, <1>5, <1>6, StillVault

\* A flow that has ended asks for nothing any more; the setup that is left is
\* the one that has not opened the vault.
LEMMA EndedVault ==
    ASSUME VaultInv, TypeInv', SessionInv', NEW k \in Kinds \ {"restore"},
           flow' = Ended(flow, k), strayed => strayed',
           UNCHANGED <<app, token, vaultKey, unlocked, page, view, vault, files>>,
           cookie' \in {cookie, NoToken},
           \A t \in Tokens : session'[t].owner = session[t].owner,
           k = "setup" => flow[k].at # "refresh"
    PROVE  VaultInv'
<1>1. flow'[k] = Off /\ \A j \in Kinds \ {k} : flow'[j] = flow[j]
    BY EndedFlows DEF VaultInv
<1>2. Off.at = "off" /\ ~On(Off)
    BY OffIsOff
<1>3. OneByOne'
    <2>1. /\ \A j \in Kinds : flow'[j].at # "off" => flow[j].at # "off"
          /\ \A j \in Kinds \ {"login"} : flow'[j].at # "wait"
        BY <1>1, <1>2 DEF VaultInv, OneByOne
    <2>. QED
        BY <2>1, NoneBegins DEF VaultInv
<1>4. \A j \in Kinds : flow'[j] = flow[j] \/ flow'[j] = Off
    BY <1>1
<1>5. ~strayed' => FlowsGood
    BY DEF VaultInv
<1>6. /\ UnlockGood(Off) /\ SetupGood(Off) /\ ChangeGood(Off)
      /\ ProfileGood(Off) /\ RequestGood(Off)
    BY <1>2 DEF UnlockGood, SetupGood, ChangeGood, ProfileGood, RequestGood
<1>7. ~strayed' =>
          /\ UnlockGood(flow'["unlock"]) /\ SetupGood(flow'["setup"])
          /\ ChangeGood(flow'["change"]) /\ ProfileGood(flow'["profile"])
          /\ RequestGood(flow'["request"])
          /\ On(flow'["request"]) => On(flow["request"])
    <2>1. /\ flow'["unlock"] \in {flow["unlock"], Off}
          /\ flow'["setup"] \in {flow["setup"], Off}
          /\ flow'["change"] \in {flow["change"], Off}
          /\ flow'["profile"] \in {flow["profile"], Off}
          /\ flow'["request"] \in {flow["request"], Off}
        BY <1>4 DEF Kinds
    <2>. QED
        BY <1>2, <1>5, <1>6, <2>1 DEF FlowsGood
<1>8. /\ \A j \in Kinds : flow'[j].at # "off" => flow'[j] = flow[j]
      /\ flow["setup"].at = "refresh" => flow'["setup"] = flow["setup"]
    BY <1>1, <1>2, <1>4 DEF Kinds
<1>9. {"restore", "login", "register", "verify"} \subseteq Kinds
    BY DEF Kinds
<1>. QED
    BY <1>3, <1>7, <1>8, <1>9, StillVault

LEMMA UnauthorizedVault ==
    ASSUME VaultInv, TypeInv', SessionInv', NEW k \in Kinds \ {"restore"},
           Unauthorized(k), flow[k].at \notin {"off", "wait"}
    PROVE  VaultInv'
<1>. DEFINE f == Ended(flow, k)
<1>1. Remaining(f) /\ f[k].at = "off"
    BY RemainingEnded
<1>2. /\ SignsOut(f, "") /\ UNCHANGED <<vault, files, strayed>>
      /\ f[k] = Off /\ \A j \in Kinds \ {k} : f[j] = flow[j]
    BY EndedFlows DEF Unauthorized, server, VaultInv
<1>. HIDE DEF f
<1>3. ASSUME ~strayed
      PROVE  /\ f["restore"].at = "off"
             /\ f["login"].at # "off" => f["login"].how \in {"", "avatar"}
    <2>1. Starting /\ (k # "login" => ~OnlyLogin)
        BY <1>3 DEF VaultInv, Calm, OnlyLogin
    <2>2. flow["restore"].at = "off"
        BY <2>1 DEF Starting
    <2>3. CASE k = "login"
        BY <1>1, <1>2, <2>2, <2>3 DEF Kinds
    <2>4. CASE k # "login"
        <3>1. /\ f["login"] = flow["login"] /\ f["restore"] = flow["restore"]
              /\ page # "callback"
            BY <1>2, <2>1, <2>4 DEF Starting, Kinds
        <3>. QED
            BY <2>1, <2>2, <3>1 DEF Starting
    <2>. QED
        BY <2>3, <2>4
<1>. QED
    BY <1>1, <1>2, <1>3, LeavingVault

LEMMA RefusedVault ==
    ASSUME VaultInv, TypeInv', SessionInv', NEW k \in Kinds \ {"restore"}, Refused(k),
           flow[k].at \notin {"off", "wait", "refresh"}
    PROVE  VaultInv'
<1>1. CASE Unauthorized(k)
    BY <1>1, UnauthorizedVault
<1>2. CASE Fails(k) /\ UNCHANGED server
    BY <1>2, EndedVault DEF Fails, memory, pages, server
<1>. QED
    BY <1>1, <1>2 DEF Refused

\* A flow takes its next step: what it carries from then on.
Asking(x, step, t) == [x EXCEPT !.at = step, !.token = t]

Holding(x, step, v) == [x EXCEPT !.at = step, !.vault = v]

Going(x, step) == [x EXCEPT !.at = step]

LEMMA AskingCarries ==
    ASSUME NEW x, Whole(x), NEW step, NEW t, NEW y, y = Asking(x, step, t)
    PROVE  /\ y.at = step /\ y.token = t /\ y.user = x.user
           /\ y.vault = x.vault /\ y.how = x.how /\ y.stale = x.stale
    BY DEF Whole, Asking

LEMMA HoldingCarries ==
    ASSUME NEW x, Whole(x), NEW step, NEW v, NEW y, y = Holding(x, step, v)
    PROVE  /\ y.at = step /\ y.vault = v /\ y.user = x.user
           /\ y.token = x.token /\ y.how = x.how /\ y.stale = x.stale
    BY DEF Whole, Holding

LEMMA GoingCarries ==
    ASSUME NEW x, Whole(x), NEW step, NEW y, y = Going(x, step)
    PROVE  /\ y.at = step /\ y.vault = x.vault /\ y.user = x.user
           /\ y.token = x.token /\ y.how = x.how /\ y.stale = x.stale
    BY DEF Whole, Going

\* The token in memory, and the cookie, are of the user that is shown.
LEMMA Owners ==
    ASSUME VaultInv, ~strayed, app.user # NoOne
    PROVE  /\ token \in Tokens /\ session[token].owner = app.user
           /\ app.user \in Users \cup {Nameless}
           /\ cookie # NoToken => session[cookie].owner = app.user
    BY Rows DEF VaultInv, Calm, TokenHeld, SessionInv, TokenIsUsers, TypeInv,
                MemoryTyped, AppRecord

LEMMA VerificationVault ==
    ASSUME VaultInv, TypeInv', SessionInv',
           \/ Verification("unlock", "open") \/ Verification("change", "check")
    PROVE  VaultInv'
<1>0. TypeInv /\ \A k \in {"unlock", "change"} : k \in Kinds
    BY DEF VaultInv, Kinds
<1>1. ASSUME NEW k \in {"unlock", "change"}, Verification(k, "open"), k = "unlock"
      PROVE  VaultInv'
    <2>1. CASE Refused(k)
        BY <1>0, <1>1, <2>1, RefusedVault DEF Verification, Kinds
    <2>2. CASE ~Refused(k)
        <3>. DEFINE u == session[flow[k].token].owner
        <3>1. /\ flow[k].at = "ask" /\ Accepts(flow[k].token) /\ Initialised(u)
              /\ flow' = [flow EXCEPT ![k].at = "open", ![k].vault = vault[u]]
              /\ UNCHANGED <<memory, pages, server, files, strayed>>
            BY <1>1, <2>2 DEF Verification
        <3>. HIDE DEF u
        <3>. DEFINE x == Holding(flow[k], "open", vault[u])
        <3>2. flow' = [flow EXCEPT ![k] = x] /\ Whole(flow[k])
            BY <1>0, <1>1, <3>1, Rows DEF Holding
        <3>3. /\ x.at = "open" /\ x.vault = vault[u] /\ x.user = flow[k].user
              /\ x.token = flow[k].token /\ x.stale = flow[k].stale
            BY <3>2, HoldingCarries
        <3>. HIDE DEF x
        <3>4. ~strayed => GoodFlow(k, x)
            BY <1>1, <3>1, <3>3 DEF GoodFlow, UnlockGood, Sent, Mine, On, Accepts,
               VaultInv, FlowsGood, u
        <3>. QED
            BY <1>1, <3>1, <3>2, <3>3, <3>4, OneFlowVault DEF memory, pages, server, Inner
    <2>. QED
        BY <2>1, <2>2
<1>2. ASSUME NEW k \in {"unlock", "change"}, Verification(k, "check"), k = "change"
      PROVE  VaultInv'
    <2>1. CASE Refused(k)
        BY <1>0, <1>2, <2>1, RefusedVault DEF Verification, Kinds
    <2>2. CASE ~Refused(k)
        <3>. DEFINE v == vault[session[flow[k].token].owner]
        <3>1. /\ flow[k].at = "ask"
              /\ flow' = [flow EXCEPT ![k].at = "check", ![k].vault = v]
              /\ UNCHANGED <<memory, pages, server, files, strayed>>
            BY <1>2, <2>2 DEF Verification
        <3>. HIDE DEF v
        <3>. DEFINE x == Holding(flow[k], "check", v)
        <3>2. flow' = [flow EXCEPT ![k] = x] /\ Whole(flow[k])
            BY <1>0, <1>2, <3>1, Rows DEF Holding
        <3>3. /\ x.at = "check" /\ x.user = flow[k].user
              /\ x.token = flow[k].token /\ x.stale = flow[k].stale
            BY <3>2, HoldingCarries
        <3>. HIDE DEF x
        <3>4. ~strayed => GoodFlow(k, x)
            BY <1>2, <3>1, <3>3 DEF GoodFlow, ChangeGood, Sent, Mine, On,
               VaultInv, FlowsGood
        <3>. QED
            BY <1>2, <3>1, <3>2, <3>3, <3>4, OneFlowVault DEF memory, pages, server, Inner
    <2>. QED
        BY <2>1, <2>2
<1>. QED
    BY <1>1, <1>2

LEMMA AsksVault ==
    ASSUME VaultInv, TypeInv', SessionInv', UnlockAsks \/ ChangeAsks
    PROVE  VaultInv'
<1>0. TypeInv /\ \A k \in {"unlock", "change"} : k \in Kinds
    BY DEF VaultInv, Kinds
<1>1. PICK k \in {"unlock", "change"} :
          /\ flow[k].at = "derive"
          /\ flow' = [flow EXCEPT ![k].at = "ask", ![k].token = token]
          /\ UNCHANGED <<memory, pages, server, files, strayed>>
    BY DEF UnlockAsks, ChangeAsks, Asks
<1>. DEFINE x == Asking(flow[k], "ask", token)
<1>2. flow' = [flow EXCEPT ![k] = x] /\ Whole(flow[k])
    BY <1>0, <1>1, Rows DEF Asking
<1>3. /\ x.at = "ask" /\ x.user = flow[k].user
      /\ x.token = token /\ x.stale = flow[k].stale
    BY <1>2, AskingCarries
<1>. HIDE DEF x
<1>4. ~strayed => GoodFlow(k, x)
    BY <1>1, <1>3, Owners DEF GoodFlow, UnlockGood, ChangeGood, Sent, Mine, On,
       VaultInv, FlowsGood
<1>. QED
    BY <1>1, <1>2, <1>3, <1>4, OneFlowVault DEF memory, pages, server, Inner

LEMMA PostsVault ==
    ASSUME VaultInv, TypeInv', SessionInv', NEW k \in {"setup", "change"}, Posts(k)
    PROVE  VaultInv'
<1>0. TypeInv /\ k \in Kinds
    BY DEF VaultInv, Kinds
<1>1. /\ flow[k].at = "seal" /\ strayed' = (strayed \/ flow[k].stale)
      /\ flow' = [flow EXCEPT ![k].at = "post", ![k].token = token]
      /\ UNCHANGED <<memory, pages, server, files>>
    BY DEF Posts, Asks, Strays
<1>. DEFINE x == Asking(flow[k], "post", token)
<1>2. flow' = [flow EXCEPT ![k] = x] /\ Whole(flow[k])
    BY <1>0, <1>1, Rows DEF Asking
<1>3. /\ x.at = "post" /\ x.user = flow[k].user /\ x.vault = flow[k].vault
      /\ x.token = token /\ x.stale = flow[k].stale
    BY <1>2, AskingCarries
<1>. HIDE DEF x
<1>4. ~strayed => GoodFlow(k, x)
    BY <1>1, <1>3, Owners DEF GoodFlow, SetupGood, ChangeGood, Sent, Mine, On,
       VaultInv, FlowsGood
<1>5. (strayed => strayed') /\ (~strayed' => GoodFlow(k, x))
    BY <1>1, <1>4
<1>6. flow[k].at # "off" /\ x.at # "wait" /\ UNCHANGED <<memory, page, view, server, files>>
    BY <1>1, <1>3 DEF pages
<1>. QED
    BY <1>2, <1>5, <1>6, OneFlowVault DEF memory, server, Inner

LEMMA BeginsVault ==
    ASSUME VaultInv, TypeInv', SessionInv', Separate,
           \/ \E p \in Phrases : BeginUnlock(p) \/ BeginSetup(p)
           \/ \E p, q \in Phrases : BeginChange(p, q)
           \/ \E how \in {"name", "picture", "avatar"} : BeginProfile(how)
           \/ BeginRequest
    PROVE  VaultInv'
<1>1. ASSUME NEW k \in Inner, NEW x, x.at # "wait", MayBegin(k),
             flow' = [flow EXCEPT ![k] = x],
             UNCHANGED <<memory, pages, server, made, logins, files, strayed>>,
             ~strayed => page # "callback" /\ app.status # "Loading" /\ GoodFlow(k, x)
      PROVE  VaultInv'
    <2>1. /\ UNCHANGED <<app, token, vaultKey, unlocked, page, view, vault, files>>
          /\ cookie' = cookie /\ session' = session
        BY <1>1 DEF memory, pages, server
    <2>2. (strayed => strayed') /\ (~strayed' => GoodFlow(k, x))
        BY <1>1
    <2>3. k \in Inner \cup {"logout"} /\ \A t \in Tokens : session'[t].owner = session[t].owner
        BY <2>1
    <2>. QED
        BY <1>1, <2>1, <2>2, <2>3, OneFlowVault
<1>2. ASSUME ~strayed
      PROVE  /\ Starting /\ Doors /\ Opened
             /\ app.status = "Unauthenticated" => app.user = NoOne
             /\ app.status \in {"Loading", "Unauthenticated", "Onboarding", "Locked",
                                "Unlocked"}
    BY <1>2 DEF VaultInv, Calm, SessionInv, Nobody, TypeInv, MemoryTyped, AppRecord
<1>3. ASSUME NEW p \in Phrases, BeginUnlock(p) PROVE VaultInv'
    <2>. DEFINE x == [Off EXCEPT !.at = "derive", !.user = app.user, !.phrase = p]
    <2>1. x.at = "derive" /\ x.user = app.user /\ x.token = NoToken
        BY DEF Off
    <2>2. /\ page = "home" /\ app.status = "Locked" /\ app.user \in Users
          /\ MayBegin("unlock") /\ flow' = [flow EXCEPT !["unlock"] = x]
          /\ UNCHANGED <<memory, pages, server, made, logins, files, strayed>>
        BY <1>3 DEF BeginUnlock, UnlockForm, UnlockOffered, Named
    <2>. app.user \notin {NoOne, Nameless}
        BY <2>2, NothingKept
    <2>. HIDE DEF x
    <2>3. GoodFlow("unlock", x)
        BY <2>1, <2>2 DEF GoodFlow, UnlockGood, Sent, Mine
    <2>. QED
        BY <1>1, <2>1, <2>2, <2>3 DEF Inner
<1>4. ASSUME NEW p \in Phrases, BeginSetup(p) PROVE VaultInv'
    <2>. DEFINE x == [Off EXCEPT !.at = "derive", !.user = app.user, !.phrase = p]
    <2>1. x.at = "derive" /\ x.user = app.user /\ x.token = NoToken
        BY DEF Off
    <2>2. /\ page = "setup" /\ app.user \in Users
          /\ MayBegin("setup") /\ flow' = [flow EXCEPT !["setup"] = x]
          /\ UNCHANGED <<memory, pages, server, made, logins, files, strayed>>
        BY <1>4 DEF BeginSetup, SetupForm, Named
    <2>. app.user \notin {NoOne, Nameless}
        BY <2>2, NothingKept
    <2>. HIDE DEF x
    <2>3. flow["setup"].at = "off"
        BY <2>2 DEF MayBegin
    <2>4. ~strayed => app.status = "Onboarding" /\ ~unlocked
        BY <1>2, <2>2, <2>3 DEF Starting, Doors, Opened, On
    <2>5. ~strayed => GoodFlow("setup", x)
        BY <2>1, <2>2, <2>3, <2>4 DEF GoodFlow, SetupGood, Sent, Mine
    <2>. QED
        BY <1>1, <2>1, <2>2, <2>4, <2>5 DEF Inner
<1>5. ASSUME NEW p \in Phrases, NEW q \in Phrases, BeginChange(p, q)
      PROVE  VaultInv'
    <2>. DEFINE x == [Off EXCEPT !.at = "derive", !.user = app.user, !.phrase = p,
                                 !.next = q]
    <2>1. x.at = "derive" /\ x.user = app.user /\ x.token = NoToken
        BY DEF Off
    <2>2. /\ page = "home" /\ unlocked /\ vaultKey # NoKey /\ app.user \in Users
          /\ MayBegin("change") /\ flow' = [flow EXCEPT !["change"] = x]
          /\ UNCHANGED <<memory, pages, server, made, logins, files, strayed>>
        BY <1>5 DEF BeginChange, ChangeForm, Named
    <2>. app.user \notin {NoOne, Nameless}
        BY <2>2, NothingKept
    <2>. HIDE DEF x
    <2>3. ~strayed => app.status \in {"Locked", "Unlocked"}
        BY <1>2, <2>2 DEF Starting, Opened
    <2>4. ~strayed => GoodFlow("change", x)
        BY <2>1, <2>2, <2>3 DEF GoodFlow, ChangeGood, Sent, Mine
    <2>. QED
        BY <1>1, <2>1, <2>2, <2>3, <2>4 DEF Inner
<1>6. ASSUME NEW how \in {"name", "picture", "avatar"}, BeginProfile(how)
      PROVE  VaultInv'
    <2>. DEFINE x == [Off EXCEPT !.at = "put", !.how = how, !.token = token]
    <2>1. x.at = "put" /\ x.how = how /\ x.token = token
        BY DEF Off
    <2>2. /\ \/ page = "home" /\ app.user # NoOne
             \/ page = "login" /\ view = "avatar" /\ how = "avatar"
                    /\ app.status # "Loading"
          /\ MayBegin("profile") /\ flow' = [flow EXCEPT !["profile"] = x]
          /\ UNCHANGED <<memory, pages, server, made, logins, files, strayed>>
        BY <1>6 DEF BeginProfile, ProfileMenu, AvatarForm, AtLogin
    <2>. HIDE DEF x
    <2>3. ~strayed => page # "callback" /\ app.status # "Loading" /\ ~Signing /\ Behind
        BY <1>2, <2>2 DEF Starting, Doors, Opened, Behind
    <2>4. ~strayed => Sent(x)
        BY <2>1, Owners DEF Sent
    <2>5. ~strayed => GoodFlow("profile", x)
        BY <1>2, <2>1, <2>2, <2>3, <2>4 DEF GoodFlow, ProfileGood, Doors
    <2>. QED
        BY <1>1, <2>1, <2>2, <2>3, <2>5 DEF Inner
<1>7. CASE BeginRequest
    <2>. DEFINE x == [Off EXCEPT !.at = "ask", !.token = token]
    <2>1. x.at = "ask" /\ x.token = token
        BY DEF Off
    <2>2. /\ page = "home" /\ app.status # "Loading"
          /\ MayBegin("request") /\ flow' = [flow EXCEPT !["request"] = x]
          /\ UNCHANGED <<memory, pages, server, made, logins, files, strayed>>
        BY <1>7 DEF BeginRequest, AtHome
    <2>. HIDE DEF x
    <2>3. ~strayed => Sent(x) /\ Behind
        BY <1>2, <2>1, <2>2, Owners DEF Sent, Opened, Behind
    <2>4. ~strayed => GoodFlow("request", x)
        BY <2>2, <2>3 DEF GoodFlow, RequestGood
    <2>. QED
        BY <1>1, <2>1, <2>2, <2>4 DEF Inner
<1>. QED
    BY <1>3, <1>4, <1>5, <1>6, <1>7

LEMMA ChangeVault ==
    ASSUME VaultInv, TypeInv', SessionInv', ChangeChecks \/ ChangeSeals
    PROVE  VaultInv'
<1>0. TypeInv /\ "change" \in Kinds /\ flow["change"].at \notin {"off", "wait"}
    BY DEF VaultInv, Kinds, ChangeChecks, ChangeSeals
<1>1. CASE \/ ChangeChecks /\ ~Opens("change")
           \/ ChangeSeals /\ vaultKey = NoKey
    <2>1. /\ flow' = Ended(flow, "change")
          /\ UNCHANGED <<memory, pages, server, files, strayed>>
        BY <1>1 DEF ChangeChecks, ChangeSeals
    <2>. QED
        BY <1>0, <2>1, EndedVault DEF memory, pages, server
<1>2. CASE ChangeChecks /\ Opens("change")
    <2>. DEFINE x == Going(flow["change"], "again")
    <2>1. /\ flow' = [flow EXCEPT !["change"].at = "again"]
          /\ UNCHANGED <<memory, pages, server, files, strayed>>
        BY <1>2 DEF ChangeChecks, Goes
    <2>2. flow' = [flow EXCEPT !["change"] = x] /\ Whole(flow["change"])
        BY <1>0, <2>1, Rows DEF Going
    <2>3. /\ x.at = "again" /\ x.user = flow["change"].user
          /\ x.token = flow["change"].token /\ x.stale = flow["change"].stale
        BY <2>2, GoingCarries
    <2>. HIDE DEF x
    <2>4. ~strayed => GoodFlow("change", x)
        BY <1>0, <2>3 DEF GoodFlow, ChangeGood, Sent, Mine, On, VaultInv, FlowsGood
    <2>. QED
        BY <1>0, <2>1, <2>2, <2>3, <2>4, OneFlowVault DEF memory, pages, server, Inner
<1>3. CASE ChangeSeals /\ vaultKey # NoKey
    <2>. DEFINE v == [email |-> flow["change"].user, phrase |-> flow["change"].next,
                      key |-> vaultKey]
                x == Holding(flow["change"], "seal", v)
    <2>1. /\ flow' = [flow EXCEPT !["change"].at = "seal", !["change"].vault = v]
          /\ strayed' = (strayed \/ flow["change"].stale)
          /\ UNCHANGED <<memory, pages, server, files>>
        BY <1>3 DEF ChangeSeals, Strays
    <2>2. v.email = flow["change"].user /\ v.key = vaultKey
        OBVIOUS
    <2>. HIDE DEF v
    <2>3. flow' = [flow EXCEPT !["change"] = x] /\ Whole(flow["change"])
        BY <1>0, <2>1, Rows DEF Holding
    <2>4. /\ x.at = "seal" /\ x.vault = v /\ x.user = flow["change"].user
          /\ x.token = flow["change"].token /\ x.stale = flow["change"].stale
        BY <2>3, HoldingCarries
    <2>. HIDE DEF x
    <2>5. ~strayed => GoodFlow("change", x)
        BY <1>0, <1>3, <2>2, <2>4 DEF GoodFlow, ChangeGood, Sent, Mine, On, VaultInv,
           FlowsGood, Calm, Opened
    <2>6. (strayed => strayed') /\ (~strayed' => GoodFlow("change", x))
        BY <2>1, <2>5
    <2>7. x.at # "wait" /\ UNCHANGED <<memory, page, view, server, files>>
        BY <2>1, <2>4 DEF pages
    <2>. QED
        BY <1>0, <2>3, <2>6, <2>7, OneFlowVault DEF memory, server, Inner
<1>. QED
    BY <1>1, <1>2, <1>3

LEMMA ProfileSavedVault ==
    ASSUME VaultInv, TypeInv', SessionInv', ProfileSaved
    PROVE  VaultInv'
<1>. DEFINE p == flow["profile"]
<1>0. TypeInv /\ "profile" \in Kinds /\ p.at = "put"
    BY DEF VaultInv, Kinds, ProfileSaved
<1>1. CASE Refused("profile")
    BY <1>0, <1>1, RefusedVault DEF Kinds
<1>2. CASE Fails("profile") /\ UNCHANGED server
    BY <1>0, <1>2, EndedVault DEF Fails, memory, pages, server, Kinds
<1>3. CASE /\ flow' = [flow EXCEPT !["profile"].at = "refresh",
                                   !["profile"].token = cookie]
           /\ UNCHANGED <<memory, pages, server, made, logins, files, strayed>>
    <2>. DEFINE x == Asking(p, "refresh", cookie)
    <2>1. flow' = [flow EXCEPT !["profile"] = x] /\ Whole(p)
        BY <1>0, <1>3, Rows DEF Asking
    <2>2. /\ x.at = "refresh" /\ x.token = cookie /\ x.how = p.how
          /\ x.stale = p.stale
        BY <2>1, AskingCarries
    <2>. HIDE DEF x
    <2>3. ~strayed => GoodFlow("profile", x)
        BY <1>0, <2>2, Owners DEF GoodFlow, ProfileGood, Sent, On, VaultInv, FlowsGood
    <2>4. /\ UNCHANGED <<app, token, vaultKey, unlocked, page, view, vault, files>>
          /\ cookie' = cookie /\ session' = session
          /\ (strayed => strayed') /\ (~strayed' => GoodFlow("profile", x))
        BY <1>3, <2>3 DEF memory, pages, server
    <2>5. "profile" \in Inner \cup {"logout"} /\ flow["profile"].at # "off" /\ x.at # "wait"
        BY <1>0, <2>2 DEF Inner
    <2>. QED
        BY <2>1, <2>4, <2>5, OneFlowVault
<1>. QED
    BY <1>1, <1>2, <1>3 DEF ProfileSaved

LEMMA EndsVault ==
    ASSUME VaultInv, TypeInv', SessionInv', RequestEnds \/ LogoutEnds \/ Expire
    PROVE  VaultInv'
<1>1. ASSUME NEW gone,
             session' = [t \in Tokens |->
                           [session[t] EXCEPT !.alive = @ /\ t \notin gone]]
      PROVE  \A t \in Tokens : session'[t].owner = session[t].owner
    BY <1>1 DEF VaultInv, SessionInv, Shaped
<1>2. CASE RequestEnds
    <2>1. flow["request"].at = "ask" /\ "request" \in Kinds \ {"restore"}
        BY <1>2 DEF RequestEnds, Kinds
    <2>2. CASE Refused("request")
        BY <2>1, <2>2, RefusedVault
    <2>3. CASE Fails("request") /\ UNCHANGED server
        BY <2>1, <2>3, EndedVault DEF Fails, memory, pages, server
    <2>. QED
        BY <1>2, <2>2, <2>3 DEF RequestEnds
<1>3. CASE LogoutEnds
    <2>1. flow["logout"].at = "ask" /\ "logout" \in Kinds \ {"restore"}
        BY <1>3 DEF LogoutEnds, Kinds
    <2>2. CASE Refused("logout")
        BY <2>1, <2>2, RefusedVault
    <2>3. CASE ~Refused("logout")
        <3>. DEFINE l == flow["logout"]
                    gone == IF l.how = "" THEN {l.token}
                            ELSE {t \in Tokens :
                                    session[t].owner = session[l.token].owner}
        <3>1. /\ session' = [t \in Tokens |->
                               [session[t] EXCEPT !.alive = @ /\ t \notin gone]]
              /\ cookie' = NoToken /\ flow' = Ended(flow, "logout")
              /\ UNCHANGED <<memory, pages, vault, files, strayed>>
            BY <1>3, <2>3, Zenon DEF LogoutEnds
        <3>. HIDE DEF gone
        <3>2. \A t \in Tokens : session'[t].owner = session[t].owner
            BY <1>1, <3>1
        <3>. QED
            BY <2>1, <3>1, <3>2, EndedVault DEF memory, pages
    <2>. QED
        BY <2>2, <2>3
<1>4. CASE Expire
    <2>1. /\ session' = [t \in Tokens |->
                           [session[t] EXCEPT !.alive = @ /\ t \notin {token, cookie}]]
          /\ UNCHANGED <<memory, pages, flow, cookie, vault, files, strayed>>
        BY <1>4 DEF Expire
    <2>2. \A t \in Tokens : session'[t].owner = session[t].owner
        BY <1>1, <2>1
    <2>3. OneByOne'
        BY <2>1 DEF VaultInv, OneByOne
    <2>4. ~strayed => FlowsGood
        BY DEF VaultInv
    <2>. QED
        BY <2>1, <2>2, <2>3, <2>4, StillVault DEF memory, pages, FlowsGood
<1>. QED
    BY <1>2, <1>3, <1>4

\* The unlock dialog opens the vault, with the key that is stored for its user.
LEMMA UnlocksVault ==
    ASSUME VaultInv, TypeInv', SessionInv', Unlocks
    PROVE  VaultInv'
<1>. DEFINE x == flow["unlock"]
<1>0. x.at = "open" /\ flow' = Ended(flow, "unlock") /\ "unlock" \in Kinds \ {"restore"}
    BY DEF Unlocks, Kinds
<1>1. CASE ~Opens("unlock")
    BY <1>0, <1>1, EndedVault DEF Unlocks, pages, server
<1>2. CASE Opens("unlock")
    <2>1. /\ vaultKey' = x.vault.key /\ unlocked' = TRUE
          /\ app' = Unlock(app) /\ strayed' = (strayed \/ x.stale)
          /\ UNCHANGED <<token, pages, server, files>>
        BY <1>2 DEF Unlocks, Strays
    <2>2. app'.status = "Unlocked" /\ app'.user = app.user
        BY <2>1, Rows DEF VaultInv, Unlock
    <2>3. flow'["unlock"] = Off /\ \A j \in Kinds \ {"unlock"} : flow'[j] = flow[j]
        BY <1>0, EndedFlows DEF VaultInv
    <2>4. OneByOne'
        <3>1. /\ \A j \in Kinds : flow'[j].at # "off" => flow[j].at # "off"
              /\ \A j \in Kinds \ {"login"} : flow'[j].at # "wait"
            BY <2>3, OffIsOff DEF VaultInv, OneByOne
        <3>. QED
            BY <3>1, NoneBegins DEF VaultInv
    <2>5. ASSUME ~strayed' PROVE Calm' /\ FlowsGood'
        <3>1. ~strayed /\ On(x) /\ Calm /\ FlowsGood
            BY <1>0, <2>1, <2>5 DEF On, VaultInv
        <3>2. /\ app.user \notin {NoOne, Nameless} /\ app.status \in {"Locked", "Unlocked"}
              /\ Initialised(app.user) /\ vaultKey' = vault[app.user].key
            BY <1>0, <2>1, <3>1 DEF FlowsGood, UnlockGood, Mine
        <3>3. vaultKey' # NoKey /\ app.user \in Users
            BY <3>1, <3>2, Rows DEF Calm, Readable, VaultInv
        <3>4. page \notin {"setup", "callback"} /\ ~Signing
            <4>1. ~OnlyLogin
                BY <1>0 DEF OnlyLogin, Kinds
            <4>. QED
                BY <3>1, <3>2, <4>1 DEF Calm, Starting, Doors
        <3>5. ~Signing' /\ flow'["login"] = flow["login"] /\ flow'["restore"] = flow["restore"]
            BY <2>3, <3>4 DEF Signing, Kinds
        <3>6. Starting'
            BY <2>1, <2>2, <3>1, <3>2, <3>4, <3>5 DEF Calm, Starting, pages
        <3>7. TokenHeld' /\ Doors'
            BY <2>1, <2>2, <3>1, <3>2, <3>4, <3>5 DEF Calm, TokenHeld, Doors, pages, server
        <3>8. Opened' /\ Readable'
            BY <2>1, <2>2, <3>1, <3>2, <3>3 DEF Calm, Opened, Readable, Initialised, server
        <3>9. /\ flow'["setup"] = flow["setup"] /\ flow'["change"] = flow["change"]
              /\ flow'["profile"] = flow["profile"] /\ flow'["request"] = flow["request"]
              /\ ~On(flow'["unlock"])
            BY <2>3, OffIsOff DEF Kinds
        <3>10. UnlockGood(flow["unlock"])' /\ SetupGood(flow["setup"])'
            BY <3>1, <3>2, <3>9 DEF FlowsGood, UnlockGood, SetupGood, On
        <3>11. ChangeGood(flow["change"])'
            BY <2>1, <2>2, <3>1, <3>2, <3>9
               DEF FlowsGood, ChangeGood, On, Sent, Mine, Initialised, server
        <3>12. ProfileGood(flow["profile"])' /\ RequestGood(flow["request"])'
            BY <2>1, <2>2, <3>1, <3>2, <3>5, <3>9
               DEF FlowsGood, ProfileGood, RequestGood, On, Sent, Behind, server, pages
        <3>. QED
            BY <3>6, <3>7, <3>8, <3>10, <3>11, <3>12 DEF Calm, FlowsGood
    <2>. QED
        BY <2>4, <2>5 DEF VaultInv
<1>. QED
    BY <1>1, <1>2

\* The vault of the user is stored: with the key it had, or, while it is set
\* up, with the key in memory.
LEMMA StoresRight ==
    ASSUME VaultInv, NEW k \in {"setup", "change"}, Stores(k), ~strayed',
           UNCHANGED <<app, files>>
    PROVE  LET v == flow[k].vault
           IN  /\ ~strayed /\ On(flow[k]) /\ app.user \in Users
               /\ vault'[app.user] = v /\ v # NoVault /\ v.key # NoKey
               /\ \A u \in Users \ {app.user} : vault'[u] = vault[u]
               /\ k = "change" => /\ v.key = vault[app.user].key /\ Initialised(app.user)
                                  /\ app.status \in {"Locked", "Unlocked"}
               /\ k = "setup" => v.key = vaultKey
               /\ Readable'
<1>. DEFINE x == flow[k]
            v == x.vault
<1>1. /\ x.at = "post" /\ Accepts(x.token) /\ strayed' = (strayed \/ x.stale)
      /\ vault' = [vault EXCEPT ![session[x.token].owner] = v]
    BY DEF Stores, Strays
<1>2. ~strayed /\ On(x) /\ Calm /\ FlowsGood
    BY <1>1 DEF On, VaultInv
<1>3. /\ app.user \notin {NoOne, Nameless}
      /\ session[x.token].owner = app.user /\ v.email = app.user
      /\ k = "change" => /\ v.key = vault[app.user].key /\ Initialised(app.user)
                         /\ app.status \in {"Locked", "Unlocked"}
      /\ k = "setup" => /\ v.key = vaultKey /\ vaultKey # NoKey
                        /\ app.status = "Onboarding"
    BY <1>1, <1>2 DEF FlowsGood, SetupGood, ChangeGood, Sent, Mine, Accepts
<1>. HIDE DEF v
<1>4. app.user \in Users /\ vault = [u \in Users |-> vault[u]]
    BY <1>3, Rows DEF VaultInv, TypeInv, ServerTyped
<1>5. vault'[app.user] = v /\ \A u \in Users \ {app.user} : vault'[u] = vault[u]
    BY <1>1, <1>3, <1>4
<1>6. v # NoVault /\ v.key # NoKey
    BY <1>2, <1>3, <1>4 DEF NoVault, Calm, Readable
<1>7. \A f \in files : f.owner \in Users
    BY DEF VaultInv, TypeInv, RestTyped
<1>8. Readable'
    <2>1. \A u \in Users : vault'[u] # NoVault => vault'[u].email = u /\ vault'[u].key # NoKey
        BY <1>2, <1>3, <1>5, <1>6 DEF Calm, Readable, Initialised
    <2>2. \A f \in files : vault'[f.owner].key = f.key
        <3>. SUFFICES ASSUME NEW f \in files PROVE vault'[f.owner].key = f.key
            OBVIOUS
        <3>1. vault[f.owner].key = f.key /\ f.owner \in Users
            BY <1>2, <1>7 DEF Calm, Readable
        <3>2. CASE f.owner # app.user
            BY <1>5, <3>1, <3>2
        <3>3. CASE f.owner = app.user
            BY <1>2, <1>3, <1>5, <3>1, <3>3 DEF Calm, Readable
        <3>. QED
            BY <3>2, <3>3
    <2>. QED
        BY <1>2, <2>1, <2>2 DEF Calm, Readable, Initialised
<1>. QED
    BY <1>2, <1>3, <1>4, <1>5, <1>6, <1>8 DEF v

LEMMA StoredVault ==
    ASSUME VaultInv, TypeInv', SessionInv', NEW k \in {"setup", "change"}, Stores(k),
           flow' = Ended(flow, k), UNCHANGED <<memory, pages, files>>
    PROVE  VaultInv'
<1>1. flow[k].at = "post" /\ k \in Kinds
    BY DEF Stores, Kinds
<1>2. flow'[k] = Off /\ \A j \in Kinds \ {k} : flow'[j] = flow[j]
    BY <1>1, EndedFlows DEF VaultInv
<1>3. /\ \A j \in Kinds : flow'[j].at # "off" => flow'[j] = flow[j]
      /\ \A j \in Kinds \ {"login"} : flow'[j].at # "wait"
    BY <1>2, OffIsOff DEF VaultInv, OneByOne
<1>4. OneByOne'
    BY <1>3, NoneBegins DEF VaultInv
<1>5. ASSUME ~strayed' PROVE Calm' /\ FlowsGood'
    <2>. DEFINE v == flow[k].vault
    <2>1. /\ ~strayed /\ On(flow[k]) /\ app.user \in Users
          /\ vault'[app.user] = v /\ v # NoVault /\ v.key # NoKey
          /\ k = "change" => /\ v.key = vault[app.user].key /\ Initialised(app.user)
                             /\ app.status \in {"Locked", "Unlocked"}
          /\ k = "setup" => v.key = vaultKey
          /\ Readable'
        BY <1>5, StoresRight DEF memory
    <2>. HIDE DEF v
    <2>2. Calm /\ FlowsGood /\ app.user # NoOne
        BY <2>1, NothingKept DEF VaultInv
    <2>3. UNCHANGED <<app, token, vaultKey, unlocked, page, view, session, cookie>>
        BY DEF Stores, memory, pages
    <2>4. k = "setup" => app.status = "Onboarding" /\ page = "setup" /\ ~unlocked
        BY <1>1, <2>1, <2>2 DEF FlowsGood, SetupGood
    <2>5. (Signing' => Signing) /\ (OnlyLogin => OnlyLogin')
        BY <1>3 DEF Signing, OnlyLogin, Kinds
    <2>6. Starting' /\ TokenHeld' /\ Doors'
        <3>1. /\ flow'["login"] = flow["login"] /\ flow'["restore"] = flow["restore"]
              /\ flow'["request"] = flow["request"]
            BY <1>2 DEF Kinds
        <3>. QED
            BY <2>2, <2>3, <2>5, <3>1 DEF Calm, Starting, TokenHeld, Doors, Shut
    <2>7. Opened'
        <3>1. k # "setup" => flow'["setup"] = flow["setup"]
            BY <1>2 DEF Kinds
        <3>. QED
            BY <2>1, <2>2, <2>3, <2>4, <3>1 DEF Calm, Opened, Shut, Initialised
    <2>8. \A j \in Inner : On(flow'[j]) => flow'[j] = flow[j] /\ j # k
        BY <1>2, <1>3, OffIsOff DEF On, Inner, Kinds
    <2>9. UnlockGood(flow["unlock"])' /\ SetupGood(flow["setup"])'
        BY <2>1, <2>2, <2>3, <2>4, <2>8
           DEF FlowsGood, UnlockGood, SetupGood, Sent, Mine, On, Initialised, Inner
    <2>10. ChangeGood(flow["change"])'
        BY <2>2, <2>3, <2>4, <2>8 DEF FlowsGood, ChangeGood, On, Inner
    <2>11. ProfileGood(flow["profile"])' /\ RequestGood(flow["request"])'
        BY <2>2, <2>3, <2>5, <2>8
           DEF FlowsGood, ProfileGood, RequestGood, Sent, Behind, On, Inner
    <2>. QED
        BY <2>1, <2>6, <2>7, <2>9, <2>10, <2>11 DEF Calm, FlowsGood
<1>. QED
    BY <1>4, <1>5 DEF VaultInv

LEMMA StoringVault ==
    ASSUME VaultInv, TypeInv', SessionInv', NEW k \in {"setup", "change"},
           StoreLost(k) \/ StoreRefused(k) \/ (k = "change" /\ ChangeStored)
    PROVE  VaultInv'
<1>1. CASE StoreRefused(k)
    BY <1>1, RefusedVault DEF StoreRefused, Kinds
<1>2. CASE StoreLost(k)
    BY <1>2, StoredVault DEF StoreLost
<1>3. CASE k = "change" /\ ChangeStored
    BY <1>3, StoredVault DEF ChangeStored
<1>. QED
    BY <1>1, <1>2, <1>3

LEMMA SetupStoredVault ==
    ASSUME VaultInv, TypeInv', SessionInv', SetupStored
    PROVE  VaultInv'
<1>. DEFINE s == flow["setup"]
            x == Asking(s, "refresh", cookie)
<1>0. /\ Stores("setup") /\ unlocked' = TRUE /\ s.at = "post"
      /\ flow' = [flow EXCEPT !["setup"].at = "refresh", !["setup"].token = cookie]
      /\ UNCHANGED <<app, token, vaultKey, pages, session, cookie, files>>
      /\ "setup" \in Kinds
    BY DEF SetupStored, Stores, Kinds
<1>1. flow' = [flow EXCEPT !["setup"] = x] /\ Whole(s)
    BY <1>0, Rows DEF Asking, VaultInv
<1>2. x.at = "refresh" /\ x.token = cookie /\ x.user = s.user /\ x.stale = s.stale
    BY <1>1, AskingCarries
<1>. HIDE DEF x
<1>3. flow'["setup"] = x /\ \A j \in Kinds \ {"setup"} : flow'[j] = flow[j]
    BY <1>0, <1>1, Rows DEF VaultInv
<1>4. OneByOne'
    <2>1. /\ \A j \in Kinds : flow'[j].at # "off" => flow[j].at # "off"
          /\ \A j \in Kinds \ {"login"} : flow'[j].at # "wait"
        BY <1>0, <1>2, <1>3 DEF VaultInv, OneByOne
    <2>. QED
        BY <2>1, NoneBegins DEF VaultInv
<1>5. ASSUME ~strayed' PROVE Calm' /\ FlowsGood'
    <2>. DEFINE v == flow["setup"].vault
    <2>1. /\ ~strayed /\ On(s) /\ app.user \in Users
          /\ vault'[app.user] = v /\ v # NoVault /\ v.key # NoKey /\ v.key = vaultKey
          /\ Readable'
        BY <1>0, <1>5, StoresRight
    <2>. HIDE DEF v
    <2>2. Calm /\ FlowsGood /\ app.user # NoOne
        BY <2>1, NothingKept DEF VaultInv
    <2>3. Mine(s) /\ app.status = "Onboarding" /\ page = "setup"
        BY <2>1, <2>2 DEF FlowsGood, SetupGood
    <2>4. /\ flow'["login"] = flow["login"] /\ flow'["restore"] = flow["restore"]
          /\ flow'["register"] = flow["register"] /\ flow'["verify"] = flow["verify"]
          /\ flow'["request"] = flow["request"] /\ flow'["unlock"] = flow["unlock"]
          /\ flow'["change"] = flow["change"] /\ flow'["profile"] = flow["profile"]
        BY <1>3 DEF Kinds
    <2>5. Signing' => Signing
        BY <2>4 DEF Signing
    <2>6. Starting' /\ TokenHeld' /\ Doors'
        BY <1>0, <2>2, <2>3, <2>4, <2>5 DEF Calm, Starting, TokenHeld, Doors, pages
    <2>7. On(flow'["setup"])
        BY <1>2, <1>3, <2>1 DEF On
    <2>8. Opened'
        BY <1>0, <1>2, <1>3, <2>1, <2>2, <2>3, <2>7 DEF Opened, Initialised, pages
    <2>9. SetupGood(flow["setup"])'
        BY <1>0, <1>2, <1>3, <2>1, <2>3, <2>7, Owners
           DEF SetupGood, Sent, Mine, pages
    <2>10. UnlockGood(flow["unlock"])' /\ ChangeGood(flow["change"])'
        BY <1>0, <2>2, <2>3, <2>4 DEF FlowsGood, UnlockGood, ChangeGood, On
    <2>11. ProfileGood(flow["profile"])' /\ RequestGood(flow["request"])'
        BY <1>0, <2>2, <2>4, <2>5
           DEF FlowsGood, ProfileGood, RequestGood, Sent, Behind, On, pages
    <2>. QED
        BY <2>1, <2>6, <2>8, <2>9, <2>10, <2>11 DEF Calm, FlowsGood
<1>. QED
    BY <1>4, <1>5 DEF VaultInv

LEMMA SealsVault ==
    ASSUME VaultInv, TypeInv', SessionInv', SetupSeals
    PROVE  VaultInv'
<1>. DEFINE s == flow["setup"]
            key == [owner |-> s.user, number |-> made + 1]
            v == [email |-> s.user, phrase |-> s.phrase, key |-> key]
            x == Holding(s, "seal", v)
<1>0. /\ s.at = "derive" /\ vaultKey' = key /\ "setup" \in Kinds
      /\ flow' = [flow EXCEPT !["setup"].at = "seal", !["setup"].vault = v]
      /\ strayed' = (strayed \/ s.stale)
      /\ UNCHANGED <<app, token, unlocked, pages, server, files>>
    BY DEF SetupSeals, Strays, Kinds
<1>1. v.email = s.user /\ v.key = key /\ key.owner = s.user
    OBVIOUS
<1>. HIDE DEF v, key
<1>2. flow' = [flow EXCEPT !["setup"] = x] /\ Whole(s)
    BY <1>0, Rows DEF Holding, VaultInv
<1>3. x.at = "seal" /\ x.vault = v /\ x.user = s.user /\ x.token = s.token /\ x.stale = s.stale
    BY <1>2, HoldingCarries
<1>. HIDE DEF x
<1>4. flow'["setup"] = x /\ \A j \in Kinds \ {"setup"} : flow'[j] = flow[j]
    BY <1>0, <1>2, Rows DEF VaultInv
<1>5. OneByOne'
    <2>1. /\ \A j \in Kinds : flow'[j].at # "off" => flow[j].at # "off"
          /\ \A j \in Kinds \ {"login"} : flow'[j].at # "wait"
        BY <1>0, <1>3, <1>4 DEF VaultInv, OneByOne
    <2>. QED
        BY <2>1, NoneBegins DEF VaultInv
<1>6. ASSUME ~strayed' PROVE Calm' /\ FlowsGood'
    <2>1. ~strayed /\ On(s) /\ Calm /\ FlowsGood
        BY <1>0, <1>6 DEF On, VaultInv
    <2>2. /\ Sent(s) /\ Mine(s) /\ app.status = "Onboarding" /\ page = "setup" /\ ~unlocked
          /\ app.user \notin {NoOne, Nameless}
        BY <1>0, <2>1 DEF FlowsGood, SetupGood, Mine
    <2>3. key # NoKey
        BY <1>1, <2>2 DEF Mine, NoKey
    <2>4. /\ flow'["login"] = flow["login"] /\ flow'["restore"] = flow["restore"]
          /\ flow'["register"] = flow["register"] /\ flow'["verify"] = flow["verify"]
          /\ flow'["request"] = flow["request"] /\ flow'["unlock"] = flow["unlock"]
          /\ flow'["change"] = flow["change"] /\ flow'["profile"] = flow["profile"]
        BY <1>4 DEF Kinds
    <2>5. Signing' => Signing
        BY <2>4 DEF Signing
    <2>6. Starting' /\ TokenHeld' /\ Doors'
        BY <1>0, <2>1, <2>2, <2>4, <2>5 DEF Calm, Starting, TokenHeld, Doors, pages, server
    <2>7. Opened' /\ Readable'
        BY <1>0, <2>1, <2>2, <2>3 DEF Calm, Opened, Readable, Initialised, pages, server
    <2>8. SetupGood(flow["setup"])'
        BY <1>0, <1>1, <1>3, <1>4, <2>1, <2>2, <2>3
           DEF SetupGood, Sent, Mine, On, pages, server
    <2>9. ~On(flow["unlock"]) /\ ~On(flow["change"])
        BY <2>1, <2>2 DEF FlowsGood, UnlockGood, ChangeGood
    <2>10. ~On(flow["profile"]) /\ ~On(flow["request"])
        BY <1>0 DEF VaultInv, OneByOne, On
    <2>11. /\ UnlockGood(flow["unlock"])' /\ ChangeGood(flow["change"])'
           /\ ProfileGood(flow["profile"])' /\ RequestGood(flow["request"])'
        BY <2>4, <2>9, <2>10 DEF UnlockGood, ChangeGood, ProfileGood, RequestGood, On
    <2>. QED
        BY <2>6, <2>7, <2>8, <2>11 DEF Calm, FlowsGood
<1>. QED
    BY <1>5, <1>6 DEF VaultInv

\* What locks the state: the button, and an answer 403.
LEMMA LocksVault ==
    ASSUME VaultInv, TypeInv', SessionInv', LockVault
    PROVE  VaultInv'
<1>0. /\ page = "home" /\ vaultKey' = NoKey /\ unlocked' = FALSE /\ app' = Lock(app)
      /\ UNCHANGED <<token, pages, flow, server, files, strayed>>
    BY DEF LockVault, LockOffered, AtHome
<1>1. app'.status = "Locked" /\ app'.user = app.user /\ app.status # "Loading"
    BY <1>0, Rows DEF VaultInv, Lock, LockVault, LockOffered, AtHome
<1>2. OneByOne'
    BY <1>0 DEF VaultInv, OneByOne
<1>3. ASSUME ~strayed' PROVE Calm' /\ FlowsGood'
    <2>1. ~strayed /\ Calm /\ FlowsGood
        BY <1>0, <1>3 DEF VaultInv
    <2>2. Signing' => Signing
        BY <1>0 DEF Signing
    <2>3. Starting' /\ TokenHeld' /\ Doors'
        BY <1>0, <1>1, <2>1, <2>2 DEF Calm, Starting, TokenHeld, Doors, pages, server
    <2>4. Opened' /\ Readable'
        BY <1>0, <1>1, <2>1 DEF Calm, Opened, Readable, Initialised, Shut, pages, server
    <2>5. UnlockGood(flow["unlock"])' /\ SetupGood(flow["setup"])'
        BY <1>0, <1>1, <2>1
           DEF FlowsGood, UnlockGood, SetupGood, Sent, Mine, On, Initialised, server
    <2>6. ChangeGood(flow["change"])'
        BY <1>0, <1>1, <2>1 DEF FlowsGood, ChangeGood, Sent, Mine, On, Initialised, server
    <2>7. ProfileGood(flow["profile"])' /\ RequestGood(flow["request"])'
        BY <1>0, <1>1, <2>1, <2>2
           DEF FlowsGood, ProfileGood, RequestGood, Sent, Behind, On, pages, server
    <2>. QED
        BY <2>3, <2>4, <2>5, <2>6, <2>7 DEF Calm, FlowsGood
<1>. QED
    BY <1>2, <1>3 DEF VaultInv

LEMMA ForbiddenVault ==
    ASSUME VaultInv, TypeInv', SessionInv', Forbidden
    PROVE  VaultInv'
<1>. DEFINE r == flow["request"]
<1>0. /\ r.at = "ask" /\ Accepts(r.token) /\ Initialised(session[r.token].owner)
      /\ flow' = Ended(flow, "request") /\ app' = Lock(app)
      /\ strayed' = (strayed \/ r.stale) /\ "request" \in Kinds
      /\ UNCHANGED <<token, vaultKey, unlocked, pages, server, files>>
    BY DEF Forbidden, Strays, Kinds
<1>1. app'.status = "Locked" /\ app'.user = app.user
    BY <1>0, Rows DEF VaultInv, Lock
<1>2. flow'["request"] = Off /\ \A j \in Kinds \ {"request"} : flow'[j] = flow[j]
    BY <1>0, EndedFlows DEF VaultInv
<1>3. OneByOne'
    <2>1. /\ \A j \in Kinds : flow'[j].at # "off" => flow[j].at # "off"
          /\ \A j \in Kinds \ {"login"} : flow'[j].at # "wait"
        BY <1>2, OffIsOff DEF VaultInv, OneByOne
    <2>. QED
        BY <2>1, NoneBegins DEF VaultInv
<1>4. ASSUME ~strayed' PROVE Calm' /\ FlowsGood'
    <2>1. ~strayed /\ On(r) /\ Calm /\ FlowsGood
        BY <1>0, <1>4 DEF On, VaultInv
    <2>2. Sent(r) /\ Behind
        BY <2>1 DEF FlowsGood, RequestGood
    <2>3. app.status # "Onboarding"
        <3>1. app.user = NoOne => app.status # "Onboarding"
            BY <2>1 DEF Calm, Opened
        <3>2. app.user # NoOne => Initialised(app.user) /\ app.user # Nameless
            <4>1. session[r.token].owner \in Users
                BY <1>0, Rows DEF Accepts, VaultInv, TypeInv, ServerTyped, SessionsTyped
            <4>. QED
                BY <1>0, <2>2, <4>1, NothingKept DEF Sent, Accepts
        <3>. QED
            BY <2>1, <2>2, <3>1, <3>2 DEF Calm, Opened, Behind
    <2>4. ~OnlyLogin /\ app.status # "Loading" /\ page # "callback"
        <3>1. ~OnlyLogin
            BY <1>0 DEF OnlyLogin, Kinds
        <3>. QED
            BY <2>1, <3>1 DEF Calm, Starting
    <2>5. /\ flow'["login"] = flow["login"] /\ flow'["restore"] = flow["restore"]
          /\ flow'["register"] = flow["register"] /\ flow'["verify"] = flow["verify"]
          /\ flow'["setup"] = flow["setup"] /\ flow'["unlock"] = flow["unlock"]
          /\ flow'["change"] = flow["change"] /\ flow'["profile"] = flow["profile"]
        BY <1>2 DEF Kinds
    <2>6. Signing' => Signing
        BY <2>5 DEF Signing
    <2>7. Starting' /\ TokenHeld'
        BY <1>0, <1>1, <2>1, <2>4, <2>5 DEF Calm, Starting, TokenHeld, pages, server
    <2>8. Doors'
        BY <1>0, <1>1, <2>1, <2>3, <2>6 DEF Calm, Doors, pages
    <2>9. Opened' /\ Readable'
        BY <1>0, <1>1, <2>1, <2>3 DEF Calm, Opened, Readable, Initialised, Shut, pages, server
    <2>10. UnlockGood(flow["unlock"])' /\ SetupGood(flow["setup"])'
        BY <1>0, <1>1, <2>1, <2>3, <2>5
           DEF FlowsGood, UnlockGood, SetupGood, Sent, Mine, On, Initialised, server
    <2>11. ChangeGood(flow["change"])'
        BY <1>0, <1>1, <2>1, <2>5
           DEF FlowsGood, ChangeGood, Sent, Mine, On, Initialised, server
    <2>12. ProfileGood(flow["profile"])' /\ RequestGood(flow["request"])'
        <3>1. On(flow["profile"]) => app.user # NoOne
            BY <2>1 DEF FlowsGood, ProfileGood, Calm, Doors
        <3>. QED
            BY <1>0, <1>1, <1>2, <2>1, <2>5, <2>6, <3>1, OffIsOff
               DEF FlowsGood, ProfileGood, RequestGood, Sent, Behind, On, pages, server
    <2>. QED
        BY <2>7, <2>8, <2>9, <2>10, <2>11, <2>12 DEF Calm, FlowsGood
<1>. QED
    BY <1>3, <1>4 DEF VaultInv

\* What is uploaded is encrypted with the key of the user's vault.
LEMMA UploadVault ==
    ASSUME VaultInv, TypeInv', SessionInv', Upload
    PROVE  VaultInv'
<1>0. /\ page = "home" /\ app.status \notin {"Loading", "Locked"} /\ vaultKey # NoKey
      /\ Accepts(token)
      /\ files' = files \cup {[owner |-> session[token].owner, key |-> vaultKey]}
      /\ UNCHANGED <<memory, pages, flow, server, strayed>>
    BY DEF Upload, AtHome
<1>1. OneByOne'
    BY <1>0 DEF VaultInv, OneByOne
<1>2. ASSUME ~strayed' PROVE Calm' /\ FlowsGood'
    <2>1. ~strayed /\ Calm /\ FlowsGood
        BY <1>0, <1>2 DEF VaultInv
    <2>0. app.user \notin {NoOne, Nameless}
        <3>1. app.user # NoOne
            BY <1>0, <2>1 DEF Calm, Opened, Shut
        <3>2. token \in Tokens /\ session[token].owner = app.user
            BY <2>1, <3>1, Owners
        <3>3. session[token].owner \in Users
            BY <1>0, <3>2 DEF Accepts, VaultInv, TypeInv, ServerTyped, SessionsTyped
        <3>. QED
            BY <3>1, <3>2, <3>3, NothingKept
    <2>2. app.user # NoOne /\ app.status = "Unlocked"
        BY <1>0, <2>0, <2>1 DEF Calm, Opened, Shut, VaultInv, SessionInv, Nobody, TypeInv,
                          MemoryTyped, AppRecord
    <2>3. session[token].owner = app.user /\ vaultKey = vault[app.user].key
        BY <2>0, <2>1, <2>2, Owners DEF Calm, Opened
    <2>4. Readable'
        BY <1>0, <2>1, <2>2, <2>3
           DEF Calm, Readable, Initialised, memory, server
    <2>5. Starting' /\ TokenHeld' /\ Doors' /\ Opened'
        BY <1>0, <2>1 DEF Calm, Starting, TokenHeld, Doors, Opened, Signing, OnlyLogin,
           Shut, Initialised, On, memory, pages, server
    <2>6. FlowsGood'
        <3>1. UnlockGood(flow["unlock"])'
            BY <1>0, <2>1 DEF FlowsGood, UnlockGood, Sent, Mine, Initialised, On, memory,
               pages, server
        <3>2. SetupGood(flow["setup"])'
            BY <1>0, <2>1 DEF FlowsGood, SetupGood, Sent, Mine, On, memory, pages, server
        <3>3. ChangeGood(flow["change"])'
            BY <1>0, <2>1 DEF FlowsGood, ChangeGood, Sent, Mine, Initialised, On, memory,
               pages, server
        <3>4. ProfileGood(flow["profile"])' /\ RequestGood(flow["request"])'
            BY <1>0, <2>1 DEF FlowsGood, ProfileGood, RequestGood, Sent, Behind, Signing,
               On, memory, pages, server
        <3>. QED
            BY <3>1, <3>2, <3>3, <3>4 DEF FlowsGood
    <2>. QED
        BY <2>4, <2>5, <2>6 DEF Calm
<1>. QED
    BY <1>1, <1>2 DEF VaultInv

-----------------------------------------------------------------------------
(* The session begins, is restored, or is gone.                            *)

\* Where those that a login or a restored session leaves running may stand, and
\* what is shown of the user that has entered.
Entry(f) ==
    /\ f["restore"].at = "off"
    /\ f["register"].at = "off" /\ f["verify"].at = "off"
    /\ f["login"].at # "off" =>
          f["login"].how \notin {"", "avatar"} /\ page' = "callback"
    /\ page' = "callback" =>
          Shut /\ \A k \in Kinds \ {"restore", "login"} : f[k].at = "off"
    /\ page' = "login" => view' = "avatar"
    /\ page' = "setup" => app'.status = "Onboarding"
    /\ \/ app'.status \in {"Locked", "Onboarding"}
       \/ app'.status = "Unlocked" /\ unlocked
    /\ unlocked => vaultKey # NoKey
    /\ app'.user # Nameless =>
          /\ app'.status = "Onboarding" <=> ~Initialised(app'.user)
          /\ app'.status = "Onboarding" => ~unlocked
          /\ app'.status = "Onboarding" /\ vaultKey # NoKey => page' = "setup"
          /\ unlocked => vaultKey = vault[app'.user].key

LEMMA EnteredVault ==
    ASSUME VaultInv, TypeInv', SessionInv', NEW f, Remaining(f), flow' = Outlived(f),
           UNCHANGED <<vaultKey, unlocked, vault, files>>, strayed => strayed',
           token' # NoToken, cookie' = token', app'.user \in Users \cup {Nameless},
           ~strayed' => Entry(f)
    PROVE  VaultInv'
<1>1. /\ OneByOne' /\ FlowsGood'
      /\ \A k \in Kinds : flow'[k].at = f[k].at /\ flow'[k].how = f[k].how
    BY OutlivedVault
<1>2. ASSUME ~strayed' PROVE Calm'
    <2>1. Calm /\ Entry(f)
        BY <1>2 DEF VaultInv
    <2>2. ~Signing'
        BY <1>1, <2>1 DEF Signing, Kinds, Entry
    <2>3. page' = "callback" => OnlyLogin'
        BY <1>1, <2>1 DEF OnlyLogin, Entry
    <2>4. flow'["restore"].at = "off" /\ (flow'["login"].at # "off" => page' = "callback")
        BY <1>1, <2>1 DEF Kinds, Entry
    <2>5. Starting'
        BY <2>1, <2>2, <2>3, <2>4 DEF Starting, Shut, Entry
    <2>6. TokenHeld' /\ Doors'
        BY <2>1, <2>2, NothingKept DEF TokenHeld, Doors, Entry
    <2>7. Opened'
        BY <2>1, NothingKept DEF Opened, Shut, Initialised, Entry
    <2>8. app'.status = "Onboarding" => \A x \in files : x.owner # app'.user
        <3>1. \A x \in files : x.owner \in Users /\ x.key \in Keys
            BY DEF VaultInv, TypeInv, RestTyped
        <3>. SUFFICES ASSUME app'.status = "Onboarding", NEW x \in files, x.owner = app'.user
                      PROVE  FALSE
            OBVIOUS
        <3>2. vault[x.owner] = NoVault
            BY <2>1, <3>1, NothingKept DEF Entry, Initialised
        <3>3. vault[x.owner].key = x.key
            BY <2>1 DEF Calm, Readable
        <3>4. x.key = NoKey
            BY <3>2, <3>3 DEF NoVault
        <3>. QED
            BY <3>1, <3>4, NothingKept
    <2>9. Readable'
        BY <2>1, <2>8 DEF Calm, Readable, Initialised
    <2>. QED
        BY <2>5, <2>6, <2>7, <2>9 DEF Calm
<1>. QED
    BY <1>1, <1>2 DEF VaultInv

LEMMA GoneVault ==
    ASSUME VaultInv, TypeInv', SessionInv', NEW f, Remaining(f), flow' = Outlived(f),
           UNCHANGED <<token, vaultKey, unlocked, server, files>>, strayed => strayed',
           app' = SignedOut,
           ~strayed' =>
               /\ vaultKey = NoKey /\ ~Signing
               /\ f["restore"].at = "off"
               /\ f["login"].at # "off" => page' = "callback"
               /\ page' = "callback" =>
                     \A k \in Kinds \ {"restore", "login"} : f[k].at = "off"
    PROVE  VaultInv'
<1>1. /\ OneByOne' /\ FlowsGood' /\ ~On(flow'["request"])
      /\ \A k \in Kinds : /\ flow'[k].at = f[k].at /\ flow'[k].how = f[k].how
                          /\ f[k].at # "off" => f[k] = flow[k]
    BY OutlivedVault
<1>2. ASSUME ~strayed' PROVE Calm'
    <2>1. Calm
        BY <1>2 DEF VaultInv
    <2>2. ~Signing'
        <3>1. ~Signing
            BY <1>2
        <3>2. \A k \in Kinds :
                  flow'[k].at # "off" =>
                      flow[k].at # "off" /\ flow'[k].how = flow[k].how
            BY <1>1
        <3>3. "register" \in Kinds /\ "verify" \in Kinds /\ "login" \in Kinds
            BY DEF Kinds
        <3>. QED
            BY <3>1, <3>2, <3>3 DEF Signing
    <2>3. page' = "callback" => OnlyLogin'
        BY <1>1, <1>2 DEF OnlyLogin
    <2>4. flow'["restore"].at = "off" /\ (flow'["login"].at # "off" => page' = "callback")
        BY <1>1, <1>2 DEF Kinds
    <2>5. ~unlocked
        BY <1>2, <2>1 DEF Calm, Opened
    <2>6. Starting'
        BY <1>2, <2>2, <2>3, <2>4, <2>5 DEF Starting, Shut, SignedOut
    <2>7. TokenHeld'
        BY <2>1 DEF Calm, TokenHeld, SignedOut, server
    <2>8. Doors'
        BY <1>1, <2>2 DEF Doors, SignedOut
    <2>9. Opened' /\ Readable'
        BY <1>2, <2>1, <2>5
           DEF Calm, Opened, Readable, Shut, Initialised, SignedOut, server
    <2>. QED
        BY <2>6, <2>7, <2>8, <2>9 DEF Calm
<1>. QED
    BY <1>1, <1>2 DEF VaultInv

\* Where a login leads.
LEMMA Lands ==
    ASSUME NEW c, NEW open, Navigates(LoggedIn(c), open)
    PROVE  /\ app'.user = c.owner
           /\ app'.status = (IF c.init THEN "Locked" ELSE "Onboarding")
           /\ page' = (IF c.init THEN "home" ELSE "setup")
    BY DEF Navigates, LoggedIn, Landing, Guarded, Lock

LEMMA LoginVault ==
    ASSUME VaultInv, TypeInv', SessionInv', LoginGranted \/ GoogleGranted
    PROVE  VaultInv'
<1>. DEFINE l == flow["login"]
            f == Ended(flow, "login")
<1>0. l.at = "ask"
    BY DEF LoginGranted, GoogleGranted
<1>1. /\ Remaining(f) /\ f["login"].at = "off"
      /\ \A k \in Kinds \ {"login"} : f[k] = flow[k]
    BY RemainingEnded, EndedFlows DEF VaultInv, Kinds
<1>2. l.user \in Users
    BY <1>0 DEF VaultInv, TypeInv, FlowsTyped, Begun, Kinds, LoginGranted, GoogleGranted
<1>3. PICK c \in Claims(l.user) :
          /\ Enters(c, f)
          /\ \/ Navigates(LoggedIn(c), unlocked)
             \/ /\ l.how \in {"", "avatar"} /\ app' = LoggedIn(c) /\ page' = page
                /\ view' = IF page = "login" THEN "avatar" ELSE view
    BY DEF LoginGranted, GoogleGranted
<1>4. /\ token' = Fresh(f) /\ cookie' = token' /\ flow' = Outlived(f)
      /\ UNCHANGED <<vaultKey, unlocked, vault, files, strayed>>
    BY <1>3 DEF Enters
<1>5. token' # NoToken
    BY <1>4, FreshIsNew DEF Tokens, NoToken
<1>6. l.how \in {"", "avatar", "google"}
    BY DEF LoginGranted, GoogleGranted
<1>7. /\ app'.user = c.owner
      /\ app'.status = (IF c.init THEN "Locked" ELSE "Onboarding")
      /\ \/ page' = (IF c.init THEN "home" ELSE "setup")
         \/ /\ l.how \in {"", "avatar"}
            /\ page' = page /\ (page = "login" => view' = "avatar")
    <2>1. CASE Navigates(LoggedIn(c), unlocked)
        BY <2>1, Lands
    <2>2. CASE /\ l.how \in {"", "avatar"} /\ app' = LoggedIn(c) /\ page' = page
               /\ view' = IF page = "login" THEN "avatar" ELSE view
        BY <2>2 DEF LoggedIn
    <2>. QED
        BY <1>3, <2>1, <2>2
<1>8. /\ c.owner \in {l.user, Nameless}
      /\ c.owner # Nameless => (c.init <=> vault[c.owner] # NoVault)
      /\ c.owner = Nameless => ~c.init
    <2>1. /\ c.owner \in {l.user, Nameless} /\ l.user # Nameless
          /\ c.owner # Nameless => c.owner = l.user /\ c.init = Initialised(l.user)
          /\ c.owner = Nameless => c.init = FALSE
        BY <1>2, ClaimsMade, NothingKept
    <2>2. c.owner # Nameless => c.init = (vault[c.owner] # NoVault)
        BY <2>1, Zenon DEF Initialised
    <2>. QED
        BY <2>1, <2>2, Zenon
<1>. HIDE DEF f
<1>9. ASSUME ~strayed
      PROVE  /\ Shut /\ flow["restore"].at = "off"
             /\ flow["register"].at = "off" /\ flow["verify"].at = "off"
             /\ l.how \in {"", "avatar"} => page \in {"login", "home"}
    <2>1. OneByOne /\ Calm
        BY <1>9 DEF VaultInv
    <2>2. CASE l.how \in {"", "avatar"}
        BY <1>0, <2>1, <2>2 DEF OneByOne, Calm, Starting, Doors, Opened, Signing
    <2>3. CASE l.how = "google"
        BY <1>0, <2>1, <2>3 DEF Calm, Starting, Signing
    <2>. QED
        BY <1>6, <2>2, <2>3
<1>10. ASSUME ~strayed' PROVE Entry(f)
    <2>1. ~strayed /\ vaultKey = NoKey /\ ~unlocked
        BY <1>4, <1>9, <1>10 DEF Shut
    <2>2. /\ f["restore"].at = "off" /\ f["login"].at = "off"
          /\ f["register"].at = "off" /\ f["verify"].at = "off"
        BY <1>1, <1>9, <2>1 DEF Kinds
    <2>3. page' # "callback" /\ (page' = "login" => view' = "avatar")
        BY <1>7, <1>9, <2>1
    <2>4. page' = "setup" => app'.status = "Onboarding"
        BY <1>7, <1>9, <2>1
    <2>. QED
        BY <1>7, <1>8, <2>1, <2>2, <2>3, <2>4 DEF Entry, Initialised, Shut
<1>11. app'.user \in Users \cup {Nameless} /\ (strayed => strayed')
    BY <1>2, <1>4, <1>7, <1>8
<1>. QED
    BY <1>1, <1>4, <1>5, <1>10, <1>11, EnteredVault

\* What a flow leaves when its session is restored, or is not.
LEMMA RestoredVault ==
    ASSUME VaultInv, TypeInv', SessionInv', NEW k \in Kinds, NEW a,
           RestoreSession(k, Ended(flow, k), a), strayed'
    PROVE  VaultInv'
<1>1. Remaining(Ended(flow, k))
    BY RemainingEnded
<1>2. flow' = Outlived(Ended(flow, k))
    BY DEF RestoreSession, Restores, NotRestored
<1>3. OneByOne'
    BY <1>1, <1>2, OutlivedVault
<1>. QED
    BY <1>3 DEF VaultInv

\* u is the user of the cookie; the new token may name nobody.
LEMMA RestoredUser ==
    ASSUME VaultInv, NEW k \in Kinds, NEW a, Restores(k, Ended(flow, k), a),
           NEW u, u = session[flow[k].token].owner
    PROVE  /\ u \in Users /\ a.user \in {u, Nameless}
           /\ a.user # Nameless =>
                 a.status = (IF vault[a.user] # NoVault THEN "Locked" ELSE "Onboarding")
           /\ a.user = Nameless => a.status = "Onboarding"
           /\ \E c : /\ a = LoggedIn(c) /\ a.user = c.owner
                     /\ a.status = (IF c.init THEN "Locked" ELSE "Onboarding")
           /\ flow[k].token # NoToken
           /\ token' # NoToken /\ cookie' = token'
           /\ UNCHANGED <<vaultKey, unlocked, vault, files>>
           /\ strayed => strayed'
           /\ flow[k].stale => strayed'
           /\ flow' = Outlived(Ended(flow, k))
<1>. DEFINE f == Ended(flow, k)
<1>1. flow[k].token # NoToken /\ session[flow[k].token].alive
    BY DEF Restores, Accepts
<1>2. flow[k].token \in Tokens
    BY <1>1, Rows DEF VaultInv
<1>3. u \in Users
    BY <1>1, <1>2 DEF VaultInv, TypeInv, ServerTyped, SessionsTyped
<1>4. PICK c \in Claims(u) : a = LoggedIn(c)
    BY DEF Restores
<1>5. token' = Fresh(f) /\ cookie' = Fresh(f) /\ flow' = Outlived(f)
    BY DEF Restores
<1>6. /\ UNCHANGED <<vaultKey, unlocked, vault, files>>
      /\ strayed' = (strayed \/ flow[k].stale)
    BY DEF Restores
<1>7. a.user = c.owner /\ a.status = (IF c.init THEN "Locked" ELSE "Onboarding")
    BY <1>4 DEF LoggedIn
<1>8. /\ c.owner \in {u, Nameless}
      /\ c.owner # Nameless => (c.init <=> vault[c.owner] # NoVault)
      /\ c.owner = Nameless => ~c.init
    <2>1. /\ c.owner \in {u, Nameless} /\ u # Nameless
          /\ c.owner # Nameless => c.owner = u /\ c.init = Initialised(u)
          /\ c.owner = Nameless => c.init = FALSE
        BY <1>3, ClaimsMade, NothingKept
    <2>2. c.owner # Nameless => c.init = (vault[c.owner] # NoVault)
        BY <2>1, Zenon DEF Initialised
    <2>. QED
        BY <2>1, <2>2, Zenon
<1>. HIDE DEF f
<1>9. token' # NoToken
    BY <1>5, FreshIsNew DEF Tokens, NoToken
<1>10. (strayed => strayed') /\ (flow[k].stale => strayed')
    BY <1>6
<1>. QED
    BY <1>1, <1>3, <1>4, <1>5, <1>6, <1>7, <1>8, <1>9, <1>10 DEF f

LEMMA NotRestoredUser ==
    ASSUME VaultInv, NEW k \in Kinds, NEW a, NotRestored(k, Ended(flow, k), a)
    PROVE  /\ a = SignedOut /\ flow' = Outlived(Ended(flow, k))
           /\ UNCHANGED <<token, vaultKey, unlocked, server, files>>
           /\ strayed => strayed'
           /\ flow[k].stale => strayed'
           /\ ~strayed' => vaultKey = NoKey
    BY DEF NotRestored

LEMMA LandsOut ==
    ASSUME NEW open, Navigates(SignedOut, open)
    PROVE  app' = SignedOut /\ page' = "login"
    BY DEF Navigates, Guarded, Landing, SignedOut

LEMMA StartVault ==
    ASSUME VaultInv, TypeInv', SessionInv', Start
    PROVE  VaultInv'
<1>. DEFINE f == Ended(flow, "restore")
<1>1. PICK a : /\ RestoreSession("restore", f, a)
               /\ IF page = "callback" THEN app' = a /\ UNCHANGED pages
                  ELSE Navigates(a, unlocked)
    BY DEF Start
<1>2. /\ Remaining(f) /\ f["restore"].at = "off" /\ "restore" \in Kinds
      /\ \A k \in Kinds \ {"restore"} : f[k] = flow[k]
    BY RemainingEnded, EndedFlows DEF VaultInv, Kinds
<1>3. ASSUME ~strayed
      PROVE  /\ Shut /\ OnlyLogin /\ ~Signing
             /\ flow["login"].at # "off" => page = "callback"
    BY <1>3 DEF VaultInv, Calm, Starting, Start, Signing
<1>4. ASSUME ~strayed
      PROVE  /\ f["register"].at = "off" /\ f["verify"].at = "off"
             /\ f["login"].at # "off" => f["login"].how \notin {"", "avatar"} /\ page = "callback"
             /\ \A k \in Kinds \ {"restore", "login"} : f[k].at = "off"
    BY <1>2, <1>3, <1>4 DEF Signing, OnlyLogin, Kinds
<1>5. page = "callback" => app' = a /\ page' = page
    BY <1>1 DEF pages
<1>6. CASE Restores("restore", f, a)
    <2>. DEFINE u == session[flow["restore"].token].owner
    <2>1. /\ u \in Users /\ a.user \in {u, Nameless}
          /\ a.user # Nameless =>
                a.status = (IF vault[a.user] # NoVault THEN "Locked" ELSE "Onboarding")
          /\ a.user = Nameless => a.status = "Onboarding"
          /\ token' # NoToken /\ cookie' = token' /\ flow' = Outlived(f)
          /\ UNCHANGED <<vaultKey, unlocked, vault, files>> /\ (strayed => strayed')
        BY <1>2, <1>6, RestoredUser
    <2>. HIDE DEF u
    <2>2. page # "callback" =>
              /\ app'.user = a.user /\ app'.status = a.status
              /\ page' = (IF a.status = "Locked" THEN "home" ELSE "setup")
        <3>1. PICK c : /\ a = LoggedIn(c) /\ a.user = c.owner
                       /\ a.status = (IF c.init THEN "Locked" ELSE "Onboarding")
            BY <1>2, <1>6, RestoredUser
        <3>2. ASSUME page # "callback" PROVE Navigates(LoggedIn(c), unlocked)
            BY <1>1, <3>1, <3>2
        <3>. QED
            BY <3>1, <3>2, Lands
    <2>3. app'.user = a.user /\ app'.status = a.status
        BY <1>5, <2>2
    <2>4. ASSUME ~strayed' PROVE Entry(f)
        <3>1. ~strayed /\ vaultKey = NoKey /\ ~unlocked
            BY <1>3, <2>1, <2>4 DEF Shut
        <3>2. /\ app'.status \in {"Locked", "Onboarding"}
              /\ app'.user # Nameless =>
                    (app'.status = "Onboarding" <=> vault[app'.user] = NoVault)
            BY <2>1, <2>3
        <3>3. page' # "login" /\ (page' = "setup" => app'.status = "Onboarding")
              /\ (page = "callback" <=> page' = "callback")
            BY <1>5, <2>1, <2>2, <2>3
        <3>. QED
            BY <1>2, <1>4, <3>1, <3>2, <3>3 DEF Entry, Shut, Initialised
    <2>5. app'.user \in Users \cup {Nameless} /\ (strayed => strayed')
        BY <2>1, <2>3
    <2>. QED
        BY <1>2, <2>1, <2>4, <2>5, EnteredVault
<1>7. CASE NotRestored("restore", f, a)
    <2>1. /\ a = SignedOut /\ flow' = Outlived(f)
          /\ UNCHANGED <<token, vaultKey, unlocked, server, files>> /\ (strayed => strayed')
        BY <1>2, <1>7, NotRestoredUser
    <2>2. page # "callback" => app' = SignedOut /\ page' = "login"
        BY <1>1, <2>1, LandsOut
    <2>3. app' = SignedOut /\ (page = "callback" <=> page' = "callback")
        BY <1>5, <2>1, <2>2
    <2>4. ~strayed' =>
              /\ vaultKey = NoKey /\ ~Signing
              /\ f["restore"].at = "off"
              /\ f["login"].at # "off" => page' = "callback"
              /\ page' = "callback" =>
                    \A k \in Kinds \ {"restore", "login"} : f[k].at = "off"
        BY <1>2, <1>3, <1>4, <2>1, <2>3 DEF Shut
    <2>. QED
        BY <1>2, <2>1, <2>3, <2>4, GoneVault
<1>. QED
    BY <1>1, <1>6, <1>7 DEF RestoreSession

LEMMA SetupEndsVault ==
    ASSUME VaultInv, TypeInv', SessionInv', SetupEnds
    PROVE  VaultInv'
<1>. DEFINE f == Ended(flow, "setup")
<1>1. PICK a : RestoreSession("setup", f, a) /\ Navigates(Unlock(a), unlocked)
    BY DEF SetupEnds
<1>2. /\ Remaining(f) /\ f["setup"].at = "off" /\ "setup" \in Kinds
      /\ \A k \in Kinds \ {"setup"} : f[k] = flow[k]
    BY RemainingEnded, EndedFlows DEF VaultInv, Kinds
<1>3. CASE strayed'
    BY <1>1, <1>2, <1>3, RestoredVault
<1>4. CASE ~strayed'
    <2>1. /\ ~strayed /\ ~flow["setup"].stale
          /\ vaultKey # NoKey => Restores("setup", f, a)
        BY <1>1, <1>2, <1>4, RestoredUser, NotRestoredUser DEF RestoreSession
    <2>2. Calm /\ On(flow["setup"]) /\ SetupGood(flow["setup"]) /\ flow["setup"].at = "refresh"
        BY <2>1 DEF VaultInv, FlowsGood, On, SetupEnds
    <2>3. /\ Sent(flow["setup"]) /\ app.user \notin {NoOne, Nameless}
          /\ app.status = "Onboarding"
          /\ page = "setup" /\ unlocked
        BY <2>2 DEF SetupGood, Mine
    <2>4. vaultKey # NoKey /\ Initialised(app.user) /\ vaultKey = vault[app.user].key
        BY <2>2, <2>3 DEF Calm, Opened
    <2>. DEFINE u == session[flow["setup"].token].owner
    <2>5. /\ u \in Users /\ a.user \in {u, Nameless}
          /\ flow["setup"].token # NoToken
          /\ token' # NoToken /\ cookie' = token' /\ flow' = Outlived(f)
          /\ UNCHANGED <<vaultKey, unlocked, vault, files>>
        BY <1>2, <2>1, <2>4, RestoredUser
    <2>6. a.user \in {app.user, Nameless}
        BY <2>3, <2>5 DEF Sent
    <2>7. app'.user = a.user /\ app'.status = "Unlocked" /\ page' = "home"
        <3>0. \E c : a = LoggedIn(c)
            BY <1>2, <2>1, <2>4, RestoredUser
        <3>1. Unlock(a).user = a.user /\ Unlock(a).status = "Unlocked"
            BY <3>0 DEF Unlock, LoggedIn
        <3>. QED
            BY <1>1, <2>3, <3>1 DEF Navigates, Guarded, Landing
    <2>8. /\ f["restore"].at = "off" /\ f["login"].at = "off"
          /\ f["register"].at = "off" /\ f["verify"].at = "off"
        <3>1. ~Signing /\ flow["restore"].at = "off"
            BY <2>2, <2>3 DEF Calm, Doors, Starting
        <3>2. flow["login"].at = "off"
            BY <2>2, <2>3, <3>1 DEF Calm, Starting, Signing
        <3>. QED
            BY <1>2, <3>1, <3>2 DEF Signing, Kinds
    <2>9. Entry(f)
        <3>1. app'.user # Nameless =>
                  vault[app'.user] # NoVault /\ vaultKey = vault[app'.user].key
            BY <2>4, <2>6, <2>7 DEF Initialised
        <3>. QED
            BY <2>3, <2>4, <2>7, <2>8, <3>1 DEF Entry, Initialised
    <2>10. app'.user \in Users \cup {Nameless} /\ (strayed => strayed')
        BY <2>1, <2>5, <2>7
    <2>. QED
        BY <1>2, <2>5, <2>9, <2>10, EnteredVault
<1>. QED
    BY <1>3, <1>4

LEMMA ProfileEndsVault ==
    ASSUME VaultInv, TypeInv', SessionInv', ProfileEnds
    PROVE  VaultInv'
<1>. DEFINE p == flow["profile"]
            f == Ended(flow, "profile")
            shown == p.how = "avatar" /\ page = "login"
<1>1. PICK a : /\ RestoreSession("profile", f, a)
               /\ IF shown THEN Navigates(a, unlocked) ELSE app' = a /\ UNCHANGED pages
    BY DEF ProfileEnds
<1>2. /\ Remaining(f) /\ f["profile"].at = "off" /\ "profile" \in Kinds
      /\ \A k \in Kinds \ {"profile"} : f[k] = flow[k]
    BY RemainingEnded, EndedFlows DEF VaultInv, Kinds
<1>3. CASE strayed'
    BY <1>1, <1>2, <1>3, RestoredVault
<1>4. CASE ~strayed'
    <2>1. /\ ~strayed /\ ~p.stale
          /\ NotRestored("profile", f, a) => vaultKey = NoKey
        BY <1>1, <1>2, <1>4, RestoredUser, NotRestoredUser DEF RestoreSession
    <2>2. Calm /\ On(p) /\ ProfileGood(p)
        BY <2>1 DEF VaultInv, FlowsGood, On, ProfileEnds
    <2>3. /\ Sent(p) /\ Behind /\ ~Signing
          /\ app.user = NoOne => p.how = "avatar" /\ page = "login"
          /\ p.how # "avatar" => page # "login"
        BY <2>2 DEF ProfileGood
    <2>4. ~OnlyLogin
        BY <2>2 DEF OnlyLogin, Kinds, On
    <2>5. /\ flow["restore"].at = "off" /\ page # "callback" /\ flow["login"].at = "off"
        BY <2>2, <2>3, <2>4 DEF Calm, Starting, Signing
    <2>6. /\ f["restore"].at = "off" /\ f["login"].at = "off"
          /\ f["register"].at = "off" /\ f["verify"].at = "off"
        BY <1>2, <2>3, <2>5 DEF Signing, Kinds
    <2>7. CASE Restores("profile", f, a)
        <3>. DEFINE u == session[p.token].owner
        <3>1. /\ u \in Users /\ a.user \in {u, Nameless} /\ p.token # NoToken
              /\ a.user # Nameless =>
                    a.status = (IF vault[a.user] # NoVault THEN "Locked" ELSE "Onboarding")
              /\ a.user = Nameless => a.status = "Onboarding"
              /\ token' # NoToken /\ cookie' = token' /\ flow' = Outlived(f)
              /\ UNCHANGED <<vaultKey, unlocked, vault, files>>
            BY <1>2, <2>7, RestoredUser
        <3>2. app.user # NoOne => app.user = u /\ app.user # Nameless
            BY <2>3, <3>1, NothingKept DEF Sent
        <3>. HIDE DEF u
        <3>3. shown => /\ app'.user = a.user /\ app'.status = a.status
                       /\ page' = (IF a.status = "Locked" THEN "home" ELSE "setup")
            <4>1. PICK c : /\ a = LoggedIn(c) /\ a.user = c.owner
                           /\ a.status = (IF c.init THEN "Locked" ELSE "Onboarding")
                BY <1>2, <2>7, RestoredUser
            <4>2. ASSUME shown PROVE Navigates(LoggedIn(c), unlocked)
                BY <1>1, <4>1, <4>2
            <4>. QED
                BY <4>1, <4>2, Lands
        <3>4. ~shown => app' = a /\ page' = page /\ page # "login" /\ app.user # NoOne
            BY <1>1, <2>3 DEF pages
        <3>5. /\ app'.user = a.user /\ app'.status \in {"Locked", "Onboarding"}
              /\ app'.user # Nameless =>
                    (app'.status = "Onboarding" <=> vault[a.user] = NoVault)
            BY <3>1, <3>3, <3>4
        <3>6. page' \notin {"callback", "login"}
            BY <2>5, <3>3, <3>4
        <3>7. /\ unlocked => vaultKey # NoKey
              /\ unlocked /\ a.user # Nameless =>
                    vaultKey = vault[a.user].key /\ vault[a.user] # NoVault
            BY <2>2, <3>1, <3>2 DEF Calm, Opened, Shut, Initialised
        <3>8. page' = "setup" => app'.status = "Onboarding"
            <4>1. CASE shown
                BY <3>1, <3>3, <4>1
            <4>2. CASE ~shown /\ a.user # Nameless
                <5>1. a.user = app.user
                    BY <3>1, <3>2, <3>4, <4>2
                <5>. QED
                    BY <2>2, <2>3, <3>2, <3>4, <3>5, <4>2, <5>1
                       DEF Calm, Doors, Behind, Opened, Initialised
            <4>3. CASE ~shown /\ a.user = Nameless
                BY <3>1, <3>4, <4>3
            <4>. QED
                BY <4>1, <4>2, <4>3
        <3>9. app'.status = "Onboarding" /\ vaultKey # NoKey /\ app'.user # Nameless
                  => page' = "setup"
            <4>1. CASE shown
                BY <3>3, <4>1
            <4>2. CASE ~shown /\ a.user # Nameless
                <5>1. a.user = app.user
                    BY <3>1, <3>2, <3>4, <4>2
                <5>. QED
                    BY <2>2, <2>3, <3>2, <3>4, <3>5, <4>2, <5>1
                       DEF Calm, Behind, Opened, Initialised
            <4>. QED
                BY <3>5, <4>1, <4>2
        <3>10. Entry(f)
            BY <2>6, <3>5, <3>6, <3>7, <3>8, <3>9 DEF Entry, Initialised
        <3>11. app'.user \in Users \cup {Nameless} /\ (strayed => strayed')
            BY <2>1, <3>1, <3>5
        <3>. QED
            BY <1>2, <3>1, <3>10, <3>11, EnteredVault
    <2>8. CASE NotRestored("profile", f, a)
        <3>1. /\ a = SignedOut /\ flow' = Outlived(f)
              /\ UNCHANGED <<token, vaultKey, unlocked, server, files>>
            BY <1>2, <2>8, NotRestoredUser
        <3>2. shown => app' = SignedOut /\ page' = "login"
            BY <1>1, <3>1, LandsOut
        <3>3. app' = SignedOut /\ page' # "callback"
            BY <1>1, <2>5, <3>1, <3>2 DEF pages
        <3>4. strayed => strayed'
            BY <2>1
        <3>5. vaultKey = NoKey
            BY <2>1, <2>8
        <3>. QED
            BY <1>2, <2>3, <2>6, <3>1, <3>3, <3>4, <3>5, GoneVault
    <2>. QED
        BY <1>1, <2>7, <2>8 DEF RestoreSession
<1>. QED
    BY <1>3, <1>4

-----------------------------------------------------------------------------
(* The pages.                                                              *)

LEMMA ReloadsVault ==
    ASSUME VaultInv, TypeInv', SessionInv',
           \/ Refresh \/ GoogleLinks
           \/ \E u \in Users : GoogleReturns(u)
    PROVE  VaultInv'
<1>1. CASE Refresh
    BY <1>1, OffIsOff, ReloadVault DEF Refresh
<1>2. CASE GoogleLinks
    <2>. DEFINE x == [Off EXCEPT !.at = "wait", !.how = "link"]
    <2>1. x.at = "wait" /\ x.how = "link"
        BY DEF Off
    <2>2. Reload("callback", x)
        BY <1>2 DEF GoogleLinks
    <2>. HIDE DEF x
    <2>. QED
        BY <2>1, <2>2, ReloadVault
<1>3. ASSUME NEW u \in Users, GoogleReturns(u) PROVE VaultInv'
    <2>. DEFINE x == [Off EXCEPT !.at = "wait", !.user = u, !.how = "google"]
    <2>1. x.at = "wait" /\ x.how = "google"
        BY DEF Off
    <2>2. Reload("callback", x)
        BY <1>3 DEF GoogleReturns
    <2>. HIDE DEF x
    <2>. QED
        BY <2>1, <2>2, ReloadVault
<1>. QED
    BY <1>1, <1>2, <1>3

\* Whoever is shown is led to the page that his state asks for.
LEMMA NavigatedVault ==
    ASSUME VaultInv, TypeInv', SessionInv', Navigates(app, unlocked),
           UNCHANGED <<token, vaultKey, unlocked, server, files, strayed>>,
           flow' = flow \/ flow' = Ended(flow, "login"),
           ~strayed => /\ app.status # "Loading"
                       /\ page = "callback" => flow'["login"].at = "off"
    PROVE  VaultInv'
<1>1. /\ \A k \in Kinds \ {"login"} : flow'[k] = flow[k]
      /\ flow'["login"].at # "off" => flow'["login"] = flow["login"]
    <2>1. "login" \in Kinds
        BY DEF Kinds
    <2>2. CASE flow' = Ended(flow, "login")
        BY <2>1, <2>2, EndedFlows, OffIsOff DEF VaultInv
    <2>. QED
        BY <2>2
<1>2. OneByOne'
    BY <1>1, NoneBegins DEF VaultInv, OneByOne
<1>3. UNCHANGED <<session, cookie, vault>>
    BY DEF server
<1>4. ASSUME ~strayed'
      PROVE  Calm' /\ FlowsGood'
    <2>1. /\ ~strayed /\ Calm /\ FlowsGood /\ app.status # "Loading"
          /\ page = "callback" => flow'["login"].at = "off"
        BY <1>4 DEF VaultInv
    <2>2. /\ app' = app /\ page' = Landing(app)
          /\ page' = "login" => app.status = "Unauthenticated" /\ app.user = NoOne
          /\ page' = "setup" <=> app.status = "Onboarding"
          /\ page' \in {"login", "setup", "home"}
        <3>1. app.status \in {"Unauthenticated", "Onboarding", "Locked", "Unlocked"}
            BY <2>1 DEF VaultInv, TypeInv, MemoryTyped, AppRecord
        <3>2. app.status = "Unlocked" => unlocked
            BY <2>1 DEF Calm, Opened
        <3>3. app.status = "Locked" => Lock(app) = app
            BY Rows DEF VaultInv, Lock
        <3>4. Guarded(app, unlocked) = app
            BY <3>1, <3>2, <3>3 DEF Guarded, Landing
        <3>5. app.status = "Unauthenticated" => app.user = NoOne
            BY DEF VaultInv, SessionInv, Nobody
        <3>. QED
            BY <3>1, <3>4, <3>5 DEF Navigates, Landing
    <2>3. page' = "login" /\ view' = "avatar" => page = "login" /\ view = "avatar"
        BY DEF Navigates, Form
    <2>4. page = "login" /\ page' = "login" => view' = view
        BY DEF Navigates, Form
    <2>5. Signing' => Signing
        BY <1>1 DEF Signing, Kinds
    <2>6. /\ \A k \in Inner \cup {"restore"} : flow'[k] = flow[k]
          /\ flow'["restore"].at = "off"
        BY <1>1, <2>1 DEF Inner, Kinds, Calm, Starting
    <2>7. Starting'
        BY <1>1, <2>1, <2>2, <2>6 DEF Calm, Starting
    <2>8. TokenHeld'
        BY <1>3, <2>1, <2>2 DEF Calm, TokenHeld
    <2>9. Doors'
        <3>1. Signing' => app.user = NoOne /\ page' \in {"login", "home"}
            BY <2>1, <2>2, <2>5 DEF Calm, Doors, Opened
        <3>2. page' = "login" /\ view' = "avatar" =>
                  ~Signing' /\ ~On(flow'["request"])
            BY <2>1, <2>2, <2>3, <2>5, <2>6 DEF Calm, Doors, Inner
        <3>. QED
            BY <2>2, <3>1, <3>2 DEF Doors
    <2>10. Opened'
        BY <1>3, <2>1, <2>2, <2>6 DEF Calm, Opened, Shut, Initialised, Inner
    <2>11. Readable'
        BY <1>3, <2>1, <2>2 DEF Calm, Readable, Initialised
    <2>12. UnlockGood(flow["unlock"])' /\ ChangeGood(flow["change"])'
        BY <1>3, <2>1, <2>2, <2>6
           DEF FlowsGood, UnlockGood, ChangeGood, Sent, Mine, Initialised, Inner
    <2>13. SetupGood(flow["setup"])' /\ RequestGood(flow["request"])'
        BY <1>3, <2>1, <2>2, <2>6
           DEF FlowsGood, SetupGood, RequestGood, Sent, Mine, Behind, Inner
    <2>14. ProfileGood(flow["profile"])'
        BY <1>3, <2>1, <2>2, <2>4, <2>5, <2>6
           DEF FlowsGood, ProfileGood, Sent, Behind, Inner, Landing
    <2>. QED
        BY <2>7, <2>8, <2>9, <2>10, <2>11, <2>12, <2>13, <2>14 DEF Calm, FlowsGood
<1>. QED
    BY <1>2, <1>4 DEF VaultInv

LEMMA NavigatesVault ==
    ASSUME VaultInv, TypeInv', SessionInv',
           \/ Navigate \/ GoogleFails \/ GoToLogin \/ SkipAvatar \/ DriveLinked
    PROVE  VaultInv'
<1>1. CASE Navigate \/ GoToLogin \/ SkipAvatar
    BY <1>1, NavigatedVault DEF Navigate, GoToLogin, SkipAvatar, AvatarForm, AtLogin
<1>2. "login" \in Kinds
    BY DEF Kinds
<1>3. flow' = Ended(flow, "login") => flow'["login"].at = "off"
    BY <1>2, EndedFlows, OffIsOff DEF VaultInv
<1>4. CASE GoogleFails
    BY <1>3, <1>4, NavigatedVault DEF GoogleFails
<1>5. CASE DriveLinked
    <2>1. ~strayed => app.status # "Loading"
        BY <1>5 DEF VaultInv, Calm, Starting, DriveLinked
    <2>2. CASE Refused("login")
        BY <1>2, <1>5, <2>2, RefusedVault DEF DriveLinked
    <2>3. CASE ~Refused("login")
        <3>1. /\ flow' = Ended(flow, "login") /\ Navigates(app, unlocked)
              /\ UNCHANGED <<token, vaultKey, unlocked, server, files, strayed>>
            BY <1>5, <2>3 DEF DriveLinked
        <3>. QED
            BY <1>3, <2>1, <3>1, NavigatedVault
    <2>. QED
        BY <2>2, <2>3
<1>. QED
    BY <1>1, <1>4, <1>5

LEMMA CallbackVault ==
    ASSUME VaultInv, TypeInv', SessionInv', CallbackStarts
    PROVE  VaultInv'
<1>. DEFINE x == Asking(flow["login"], "ask", token)
<1>1. flow' = [flow EXCEPT !["login"] = x] /\ "login" \in Kinds
    BY DEF CallbackStarts, Asks, Asking, Kinds
<1>2. Whole(flow["login"])
    BY Rows DEF VaultInv, Kinds
<1>3. x.how = flow["login"].how /\ x.at = "ask"
    BY <1>2, AskingCarries
<1>. HIDE DEF x
<1>4. flow'["login"] = x /\ \A k \in Kinds \ {"login"} : flow'[k] = flow[k]
    BY <1>1, Rows DEF VaultInv
<1>5. /\ flow["login"].at = "wait" /\ app.status # "Loading"
      /\ UNCHANGED <<app, token, vaultKey, unlocked, page, view, vault, files, cookie,
                     session, strayed>>
    BY DEF CallbackStarts, memory, pages, server
<1>6. OneByOne'
    <2>1. \A k \in Kinds : flow'[k].at # "off" => flow[k].at # "off"
        BY <1>4, <1>5
    <2>2. \A k \in Kinds \ {"login"} : flow'[k].at # "wait"
        BY <1>4 DEF VaultInv, OneByOne
    <2>. QED
        BY <2>1, <2>2, NoneBegins DEF VaultInv
<1>7. \A k \in Inner \cup {"restore", "register", "verify"} : flow'[k] = flow[k]
    BY <1>4 DEF Inner, Kinds
<1>8. ~strayed' =>
          /\ UnlockGood(flow'["unlock"]) /\ SetupGood(flow'["setup"])
          /\ ChangeGood(flow'["change"]) /\ ProfileGood(flow'["profile"])
          /\ RequestGood(flow'["request"])
    BY <1>5, <1>7 DEF VaultInv, FlowsGood, Inner
<1>. QED
    BY <1>3, <1>4, <1>5, <1>6, <1>7, <1>8, StillVault DEF Inner

LEMMA LogoutVault ==
    ASSUME VaultInv, TypeInv', SessionInv', NEW how \in {"", "all"}, Logout(how)
    PROVE  VaultInv'
<1>1. Remaining(flow)
    BY RemainingEnded DEF Kinds
<1>2. /\ SignsOut(flow, how) /\ UNCHANGED <<vault, files, strayed>>
      /\ page = "home" /\ app.status # "Loading"
    BY DEF Logout, AtHome, server
<1>3. ~strayed => /\ flow["restore"].at = "off"
                  /\ flow["login"].at # "off" => flow["login"].how \in {"", "avatar"}
    BY <1>2 DEF VaultInv, Calm, Starting
<1>. QED
    BY <1>1, <1>2, <1>3, LeavingVault

LEMMA IdleVault ==
    ASSUME VaultInv, TypeInv', SessionInv', UNCHANGED vars
    PROVE  VaultInv'
<1>1. UNCHANGED <<app, token, vaultKey, unlocked, page, view, vault, files, cookie,
                  session, strayed, flow>>
    BY DEF vars, memory, pages, server
<1>2. OneByOne'
    BY <1>1, NoneBegins DEF VaultInv, OneByOne
<1>3. ~strayed' =>
          /\ UnlockGood(flow'["unlock"]) /\ SetupGood(flow'["setup"])
          /\ ChangeGood(flow'["change"]) /\ ProfileGood(flow'["profile"])
          /\ RequestGood(flow'["request"])
    BY <1>1 DEF VaultInv, FlowsGood
<1>. QED
    BY <1>1, <1>2, <1>3, StillVault

-----------------------------------------------------------------------------
(* The forms of the login page.                                            *)

\* Nobody is shown, and no form of an earlier page is on the way.
Outside ==
    /\ app.user = NoOne /\ page \in {"login", "home"} /\ app.status # "Loading"
    /\ ~On(flow["profile"])
    /\ flow["login"].at # "off" => flow["login"].how \in {"", "avatar"}
    /\ page = "login" => view # "avatar"

LEMMA SentOutside ==
    ASSUME VaultInv, ~strayed, Signing \/ (AtLogin /\ view # "avatar")
    PROVE  Outside
<1>1. Calm /\ ProfileGood(flow["profile"])
    BY DEF VaultInv, FlowsGood
<1>2. app.user = NoOne /\ page \in {"login", "home"} /\ app.status # "Loading"
    BY <1>1 DEF Calm, Doors, AtLogin, Starting
<1>3. ~On(flow["profile"])
    BY <1>1, <1>2 DEF ProfileGood, AtLogin
<1>4. flow["login"].at # "off" => flow["login"].how \in {"", "avatar"}
    BY <1>1, <1>2 DEF Calm, Starting
<1>5. page = "login" => view # "avatar"
    BY <1>1 DEF Calm, Doors, AtLogin
<1>. QED
    BY <1>2, <1>3, <1>4, <1>5 DEF Outside

LEMMA FormVault ==
    ASSUME VaultInv, TypeInv', SessionInv', OneByOne',
           UNCHANGED <<token, vaultKey, unlocked, page, vault, files, strayed, cookie>>,
           app' \in {app, Lock(app)},
           \A k \in Inner \cup {"restore"} : flow'[k] = flow[k],
           ~strayed => Outside,
           flow'["login"].at # "off" =>
               flow'["login"].how \in {"", "avatar"} \/ flow'["login"] = flow["login"],
           page = "login" => view' # "avatar" \/ view' = view
    PROVE  VaultInv'
<1>1. SUFFICES ASSUME ~strayed' PROVE Calm' /\ FlowsGood'
    BY DEF VaultInv
<1>2. Calm /\ FlowsGood /\ Outside
    BY <1>1 DEF VaultInv
<1>3. app'.user = NoOne /\ (app'.status = app.status \/ app'.status = "Locked")
    BY <1>2, Rows DEF VaultInv, Lock, Outside
<1>4. /\ app.user = NoOne /\ page \in {"login", "home"} /\ app.status # "Loading"
      /\ page' = page
      /\ page = "login" => view' # "avatar"
    <2>1. page = "login" => view # "avatar"
        BY <1>2 DEF Outside
    <2>. QED
        BY <1>2, <2>1 DEF Outside
<1>5. flow'["restore"].at = "off"
    BY <1>2, <1>4 DEF Calm, Starting
<1>6. Starting'
    BY <1>2, <1>3, <1>4, <1>5 DEF Starting, Outside
<1>7. TokenHeld' /\ Doors'
    BY <1>2, <1>3, <1>4 DEF Calm, TokenHeld, Doors
<1>8. Opened' /\ Readable'
    BY <1>2, <1>3, <1>4 DEF Calm, Opened, Readable, Shut, Initialised
<1>9. /\ ~On(flow'["unlock"]) /\ ~On(flow'["setup"]) /\ ~On(flow'["change"])
      /\ ~On(flow'["profile"])
    BY <1>2, <1>4
       DEF Outside, FlowsGood, UnlockGood, SetupGood, ChangeGood, Mine, Inner
<1>10. FlowsGood'
    BY <1>2, <1>3, <1>4, <1>9
       DEF FlowsGood, UnlockGood, SetupGood, ChangeGood, ProfileGood, RequestGood,
           Sent, Behind, Opened, Calm
<1>. QED
    BY <1>6, <1>7, <1>8, <1>10 DEF Calm

LEMMA FormsVault ==
    ASSUME VaultInv, TypeInv', SessionInv', Separate,
           \/ \E v \in {"login", "register"} : ShowView(v)
           \/ \E u \in Users : DoLogin(u) \/ DoRegister(u) \/ DoVerify(u)
    PROVE  VaultInv'
<1>1. /\ AtLogin /\ view # "avatar"
      /\ UNCHANGED <<app, token, vaultKey, unlocked, page, vault, files, strayed, cookie>>
      /\ view' = view \/ view' # "avatar"
    BY DEF ShowView, DoLogin, DoRegister, DoVerify, memory, pages, server, AtLogin
<1>2. ~strayed => Outside
    BY <1>1, SentOutside
<1>3. CASE \E v \in {"login", "register"} : ShowView(v)
    <2>1. flow' = flow
        BY <1>3 DEF ShowView
    <2>2. OneByOne'
        BY <2>1, NoneBegins DEF VaultInv, OneByOne
    <2>. QED
        BY <1>1, <1>2, <2>1, <2>2, FormVault
<1>4. ASSUME NEW k \in {"login", "register", "verify"}, NEW x, MayBegin(k),
             flow' = [flow EXCEPT ![k] = x], x.at = "ask", x.how \in Hows,
             k = "login" => x.how = ""
      PROVE  VaultInv'
    <2>1. /\ k \in Kinds /\ flow'[k] = x
          /\ \A j \in Kinds \ {k} : flow'[j] = flow[j]
        BY <1>4, Rows DEF VaultInv, Kinds
    <2>2. OneByOne'
        BY <1>4, <2>1, OneBegins DEF VaultInv
    <2>3. /\ \A j \in Inner \cup {"restore"} : flow'[j] = flow[j]
          /\ flow'["login"] = flow["login"] \/ flow'["login"].how = ""
        BY <1>4, <2>1 DEF Inner, Kinds
    <2>. QED
        BY <1>1, <1>2, <2>2, <2>3, FormVault
<1>5. ASSUME NEW u \in Users, DoLogin(u) PROVE VaultInv'
    <2>. DEFINE x == [Off EXCEPT !.at = "ask", !.user = u]
    <2>1. x.at = "ask" /\ x.how = ""
        BY DEF Off
    <2>2. MayBegin("login") /\ flow' = [flow EXCEPT !["login"] = x]
        BY <1>5 DEF DoLogin
    <2>. HIDE DEF x
    <2>. QED
        BY <1>4, <2>1, <2>2 DEF Hows
<1>6. ASSUME NEW u \in Users, DoRegister(u) PROVE VaultInv'
    <2>. DEFINE x == [flow["register"] EXCEPT !.at = "ask"]
    <2>1. flow["register"] \in FlowRecord
        BY DEF VaultInv, TypeInv, FlowsTyped, Kinds
    <2>2. x.at = "ask" /\ x.how \in Hows
        BY <2>1 DEF FlowRecord
    <2>3. MayBegin("register") /\ flow' = [flow EXCEPT !["register"] = x]
        BY <1>6 DEF DoRegister
    <2>. HIDE DEF x
    <2>. QED
        BY <1>4, <2>2, <2>3
<1>7. ASSUME NEW u \in Users, DoVerify(u) PROVE VaultInv'
    <2>. DEFINE x == [Off EXCEPT !.at = "ask", !.user = u,
                                 !.how = IF typed = NoOne THEN "" ELSE "avatar"]
    <2>1. x.at = "ask" /\ x.how \in Hows
        BY DEF Off, Hows
    <2>2. MayBegin("verify") /\ flow' = [flow EXCEPT !["verify"] = x]
        BY <1>7 DEF DoVerify
    <2>. HIDE DEF x
    <2>. QED
        BY <1>4, <2>1, <2>2
<1>. QED
    BY <1>3, <1>5, <1>6, <1>7

LEMMA FormAnswersVault ==
    ASSUME VaultInv, TypeInv', SessionInv',
           LoginUnverified \/ LoginFails \/ Registered \/ Verified
    PROVE  VaultInv'
<1>1. {"login", "register", "verify"} \subseteq Kinds
    BY DEF Kinds
<1>2. /\ Signing
      /\ app' \in {app, Lock(app)}
      /\ UNCHANGED <<token, vaultKey, unlocked, page, vault, files, strayed, cookie>>
    BY DEF LoginUnverified, LoginFails, Registered, Verified, memory, server, Signing
<1>3. ~strayed => Outside
    BY <1>2, SentOutside
<1>4. page = "login" => view' # "avatar" \/ view' = view
    BY DEF LoginUnverified, LoginFails, Registered, Verified
<1>5. ASSUME NEW k \in {"login", "register", "verify"}, flow' = Ended(flow, k)
      PROVE  VaultInv'
    <2>1. flow'[k] = Off /\ \A j \in Kinds \ {k} : flow'[j] = flow[j]
        BY <1>1, <1>5, EndedFlows DEF VaultInv
    <2>2. \A j \in Kinds : flow'[j] = flow[j] \/ flow'[j] = Off
        BY <2>1
    <2>3. OneByOne'
        BY <2>2, OffIsOff, NoneBegins DEF VaultInv, OneByOne
    <2>4. /\ \A j \in Inner \cup {"restore"} : flow'[j] = flow[j]
          /\ flow'["login"].at # "off" => flow'["login"] = flow["login"]
        BY <1>1, <2>1, <2>2, OffIsOff DEF Inner, Kinds
    <2>. QED
        BY <1>2, <1>3, <1>4, <2>3, <2>4, FormVault
<1>6. CASE LoginUnverified \/ LoginFails \/ Registered
    BY <1>5, <1>6 DEF LoginUnverified, LoginFails, Registered
<1>7. CASE Verified
    <2>. DEFINE v == flow["verify"]
                x == [Off EXCEPT !.at = "ask", !.user = v.user, !.how = "avatar"]
                f == Ended(flow, "verify")
    <2>1. CASE flow' = f
        BY <1>5, <2>1
    <2>2. CASE flow' = [f EXCEPT !["login"] = x] /\ flow["login"].at = "off"
        <3>1. x.at = "ask" /\ x.how = "avatar"
            BY DEF Off
        <3>2. /\ f["verify"] = Off /\ \A j \in Kinds \ {"verify"} : f[j] = flow[j]
              /\ f = [j \in Kinds |-> f[j]]
            BY <1>1, EndedFlows DEF VaultInv
        <3>. HIDE DEF x, f
        <3>3. /\ flow'["login"] = x /\ flow'["verify"] = Off
              /\ \A j \in Kinds \ {"login", "verify"} : flow'[j] = flow[j]
            BY <1>1, <2>2, <3>2
        <3>4. v.at # "off"
            BY <1>7 DEF Verified
        <3>5. flow'["register"].at = "off"
            BY <3>3, <3>4 DEF VaultInv, OneByOne, Kinds
        <3>6. OneByOne'
            BY <3>3, <3>5, OffIsOff DEF VaultInv, OneByOne, Kinds
        <3>7. \A j \in Inner \cup {"restore"} : flow'[j] = flow[j]
            BY <3>3 DEF Inner, Kinds
        <3>. QED
            BY <1>2, <1>3, <1>4, <3>1, <3>3, <3>6, <3>7, FormVault
    <2>. QED
        BY <1>7, <2>1, <2>2 DEF Verified
<1>. QED
    BY <1>6, <1>7

-----------------------------------------------------------------------------
(* The vault is the user's, and its files can be read.                     *)

LEMMA VaultBegins == Init => VaultInv
<1>. SUFFICES ASSUME Init PROVE VaultInv
    OBVIOUS
<1>1. TypeInv /\ SessionInv
    BY InitTyped, SessionStart
<1>2. /\ flow["restore"].at = "ask"
      /\ \A k \in Kinds \ {"restore"} : flow[k] = Off
    BY DEF Init, Kinds, Off
<1>3. \A k \in Kinds \ {"restore"} : flow[k].at = "off" /\ ~On(flow[k])
    BY <1>2, OffIsOff
<1>4. OneByOne
    BY <1>2, <1>3 DEF OneByOne, Kinds
<1>5. FlowsGood
    BY <1>3
       DEF FlowsGood, UnlockGood, SetupGood, ChangeGood, ProfileGood, RequestGood, Kinds
<1>6. ~Signing /\ OnlyLogin /\ Shut
    BY <1>3 DEF Init, Signing, OnlyLogin, Shut, Kinds
<1>7. Starting
    BY <1>3, <1>6 DEF Init, Starting, Kinds
<1>8. TokenHeld /\ Doors /\ Opened /\ Readable
    BY <1>3, <1>6
       DEF Init, TokenHeld, Doors, Opened, Readable, Initialised, Shut, Kinds
<1>. QED
    BY <1>1, <1>4, <1>5, <1>7, <1>8 DEF VaultInv, Calm

LEMMA VaultStep ==
    ASSUME Separate PROVE VaultInv /\ [Next]_vars => VaultInv'
<1>. SUFFICES ASSUME VaultInv, [Next]_vars PROVE VaultInv'
    OBVIOUS
<1>0. TypeInv' /\ SessionInv'
    BY TypeStep, SessionStep DEF VaultInv
<1>1. CASE Loads
    BY <1>0, <1>1, ReloadsVault, StartVault, NavigatesVault, CallbackVault DEF Loads
<1>2. CASE Forms
    BY <1>0, <1>2, FormsVault, NavigatesVault DEF Forms
<1>3. CASE Answers
    <2>1. CASE LoginGranted \/ GoogleGranted
        BY <1>0, <2>1, LoginVault
    <2>2. CASE LoginUnverified \/ LoginFails \/ Registered \/ Verified
        BY <1>0, <2>2, FormAnswersVault
    <2>3. CASE LoginDenied
        BY <1>0, <2>3, UnauthorizedVault DEF LoginDenied, Kinds
    <2>4. CASE GoogleFails \/ DriveLinked
        BY <1>0, <2>4, NavigatesVault
    <2>5. CASE VerifyFails
        <3>1. /\ flow' = Ended(flow, "verify")
              /\ UNCHANGED <<app, token, vaultKey, unlocked, page, view, vault, files,
                             cookie, session, strayed>>
            BY <2>5 DEF VerifyFails, Fails, memory, pages, server
        <3>. QED
            BY <1>0, <3>1, EndedVault DEF Kinds
    <2>6. CASE UnlockAsks \/ ChangeAsks
        BY <1>0, <2>6, AsksVault
    <2>7. CASE Verification("unlock", "open") \/ Verification("change", "check")
        BY <1>0, <2>7, VerificationVault
    <2>8. CASE Unlocks
        BY <1>0, <2>8, UnlocksVault
    <2>9. CASE SetupSeals \/ SetupStored \/ SetupEnds
        BY <1>0, <2>9, SealsVault, SetupStoredVault, SetupEndsVault
    <2>10. CASE ChangeChecks \/ ChangeSeals
        BY <1>0, <2>10, ChangeVault
    <2>11. CASE ChangeStored
        BY <1>0, <2>11, StoringVault
    <2>12. ASSUME NEW k \in {"setup", "change"},
                  Posts(k) \/ StoreLost(k) \/ StoreRefused(k)
           PROVE  VaultInv'
        BY <1>0, <2>12, PostsVault, StoringVault
    <2>13. CASE ProfileSaved \/ ProfileEnds
        BY <1>0, <2>13, ProfileSavedVault, ProfileEndsVault
    <2>14. CASE RequestEnds \/ Forbidden \/ LogoutEnds
        BY <1>0, <2>14, EndsVault, ForbiddenVault
    <2>. QED
        BY <1>3, <2>1, <2>2, <2>3, <2>4, <2>5, <2>6, <2>7, <2>8, <2>9, <2>10, <2>11,
           <2>12, <2>13, <2>14 DEF Answers
<1>4. CASE Clicks
    <2>1. CASE \/ \E p \in Phrases : BeginUnlock(p) \/ BeginSetup(p)
               \/ \E p, q \in Phrases : BeginChange(p, q)
               \/ \E how \in {"name", "picture", "avatar"} : BeginProfile(how)
               \/ BeginRequest
        BY <1>0, <2>1, BeginsVault
    <2>2. CASE \E how \in {"", "all"} : Logout(how)
        BY <1>0, <2>2, LogoutVault
    <2>3. CASE LockVault \/ Upload
        BY <1>0, <2>3, LocksVault, UploadVault
    <2>. QED
        BY <1>4, <2>1, <2>2, <2>3 DEF Clicks
<1>5. CASE Expire
    BY <1>0, <1>5, EndsVault
<1>6. CASE UNCHANGED vars
    BY <1>0, <1>6, IdleVault
<1>. QED
    BY <1>1, <1>2, <1>3, <1>4, <1>5, <1>6 DEF Next

LEMMA VaultInvariant ==
    ASSUME Separate PROVE Spec => []VaultInv
<1>1. VaultInv /\ [Next]_vars => VaultInv'
    BY VaultStep
<1>. QED
    BY <1>1, VaultBegins, PTL DEF Spec

\* Unless a flow, or by a failed refresh the vault key, has outlived its session,
\* an unlocked drive is open with the key that is stored for its own user,
\* whatever is sent, refused, repeated or refreshed meanwhile
\* (CryptoService.unlockVault, initializeVault, lockVault; AppStateService).
THEOREM OwnKeyOpens ==
    ASSUME Separate PROVE Spec => []UnlockedWithOwnKey
<1>1. VaultInv => UnlockedWithOwnKey
    BY VaultAnswers
<1>. QED
    BY <1>1, VaultInvariant, PTL

\* Unless a flow, or by a failed refresh the vault key, has outlived its session,
\* the vault of an account opens with its own e-mail, and the key of its files is
\* in it, whatever fails or is repeated while it is set up or its phrase is
\* changed (CryptoService.initializeVault, changeSecurityPhrase).
THEOREM FilesReadable ==
    ASSUME Separate PROVE Spec => []FilesStayReadable
<1>1. VaultInv => FilesStayReadable
    BY VaultAnswers
<1>. QED
    BY <1>1, VaultInvariant, PTL
=============================================================================
