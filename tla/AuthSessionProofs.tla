------------------------- MODULE AuthSessionProofs -------------------------
(***************************************************************************)
(* Proofs, for any wallets and any number of events, of what the shell     *)
(* shows in AuthSession: never another user's account, and the session of  *)
(* the cookie once every answer has arrived.  Both rest on the refreshes   *)
(* that are still valid: at most one, what it may overwrite, and that one  *)
(* with the present cookie is on its way whenever the two differ.          *)
(***************************************************************************)
EXTENDS AuthSession, FiniteSetTheorems, TLAPS

MaybeWallet == Wallets \union {None}

JarType == [session : MaybeUser, nonce : Signers \union {None}]

ShellType == [authed : BOOLEAN, session : MaybeUser, profile : MaybeUser,
              userId : MaybeUser, guard : BOOLEAN, phase : JoinPhases,
              intent : BOOLEAN, tried : MaybeWallet]

RefreshType == [stage : {"session", "me"}, asked : MaybeUser, who : MaybeUser, soft : BOOLEAN]

CheckType == [wallet : MaybeWallet, asked : MaybeUser]

AttemptType == [stage : Stages, wallet : MaybeUser, ok : BOOLEAN]

SheetType == [custom : BOOLEAN, rail : Rails, connecting : MaybeWallet]

SaveType == [stage : {"patch", "session"}, account : Users, data : MaybeUser,
             asked : MaybeUser]

Types ==
    /\ jar \in JarType /\ wallet \in MaybeWallet /\ shell \in ShellType
    /\ refreshes \in SUBSET RefreshType /\ check \in CheckType
    /\ attempts \in [Signers -> AttemptType] /\ saves \in SUBSET SaveType
    /\ sheet \in SheetType /\ leaving \in BOOLEAN /\ account \in MaybeUser
    /\ events \in 0..MaxEvents /\ disturbed \in BOOLEAN
    /\ misfiled \in BOOLEAN /\ dropped \in BOOLEAN /\ stranded \in BOOLEAN

(* One refresh is valid at a time.  The profile that a soft one keeps, and *)
(* the one that the account's answer brings, are those of the session.     *)
RefreshesOK ==
    /\ \A r, q \in refreshes : r = q
    /\ \A r \in refreshes :
          /\ r.soft => shell.authed
          /\ r.stage = "me" => shell.authed /\ r.who = shell.session

(* A saved profile is that of the page's account, unless it was misfiled.  *)
SavesOK ==
    \A p \in saves :
        /\ misfiled \/ p.data \in {None, p.account}
        /\ p.stage = "session" => p.data # None

AuthedOK == shell.authed => shell.session # None

(* Something under way will look at the cookie again.                      *)
Underway == leaving \/ \E s \in Signers : attempts[s].stage = "status"

Shown == IF shell.authed THEN shell.session ELSE None

(* The guard against a cookie that lags behind a sign-out is down when a   *)
(* session stays.                                                          *)
GuardOK == ~disturbed /\ shell.guard /\ jar.session # None => Underway

(* A refresh that reads another cookie, or a shell that shows another      *)
(* session and is not being refreshed, has a successor.                    *)
Follows ==
    ~disturbed =>
        \/ Underway
        \/ /\ \E r \in refreshes : r.stage = "session"
           /\ \A r \in refreshes : r.asked = jar.session
        \/ (\A r \in refreshes : r.stage = "me") /\ jar.session = Shown

Inv ==
    /\ Types /\ RefreshesOK /\ SavesOK /\ AuthedOK /\ ShowsOnlyTheSession
    /\ GuardOK /\ Follows

-----------------------------------------------------------------------------
(* What the shell's updates do to what it shows. *)

SameView(s, q) ==
    /\ s.authed = q.authed /\ s.session = q.session /\ s.profile = q.profile
    /\ s.userId = q.userId /\ s.guard = q.guard

(* A cleared chrome shows nobody.                                          *)
LEMMA ClearOK ==
    ASSUME NEW s \in ShellType
    PROVE  /\ clearProfileChrome(s) \in ShellType
           /\ clearProfileChrome(s).authed = FALSE
           /\ clearProfileChrome(s).guard = s.guard
           /\ clearAuthenticatedChrome(s) \in ShellType
           /\ clearAuthenticatedChrome(s).authed = FALSE
           /\ clearAuthenticatedChrome(s).guard = s.guard
           /\ SignedOut(s) \in ShellType /\ SignedOut(s).authed = FALSE
BY DEF clearProfileChrome, clearAuthenticatedChrome, SignedOut, ShellType, MaybeUser,
       MaybeWallet, JoinPhases

(* A session is shown with its user, and with the given profile.           *)
LEMMA AuthedView ==
    ASSUME NEW s \in ShellType, NEW user \in Users, NEW profile \in MaybeUser
    PROVE  /\ Authed(s, user, profile) \in ShellType
           /\ Authed(s, user, profile).authed = TRUE
           /\ Authed(s, user, profile).session = user
           /\ Authed(s, user, profile).userId = user
           /\ Authed(s, user, profile).profile = profile
           /\ Authed(s, user, profile).guard = s.guard
<1>1. CASE s.authed
  BY <1>1 DEF Authed, ShellType, MaybeUser
<1>2. CASE ~s.authed
  BY <1>2 DEF Authed, ShellType, MaybeUser, JoinPhases
<1>. QED BY <1>1, <1>2

(* The join and its phase are beside what is shown.                        *)
LEMMA JoinView ==
    ASSUME NEW s \in ShellType
    PROVE  /\ EndJoin(s) \in ShellType /\ SameView(EndJoin(s), s)
           /\ \A phase \in JoinPhases :
                 /\ [s EXCEPT !.phase = phase] \in ShellType
                 /\ SameView([s EXCEPT !.phase = phase], s)
                 /\ [s EXCEPT !.intent = FALSE, !.phase = phase] \in ShellType
                 /\ SameView([s EXCEPT !.intent = FALSE, !.phase = phase], s)
           /\ \A w \in MaybeWallet :
                 /\ [s EXCEPT !.phase = "siwe_in_progress", !.tried = w] \in ShellType
                 /\ SameView([s EXCEPT !.phase = "siwe_in_progress", !.tried = w], s)
           /\ [s EXCEPT !.intent = TRUE, !.tried = None] \in ShellType
           /\ SameView([s EXCEPT !.intent = TRUE, !.tried = None], s)
           /\ [s EXCEPT !.phase = "authenticated", !.intent = FALSE, !.tried = None] \in ShellType
           /\ SameView([s EXCEPT !.phase = "authenticated", !.intent = FALSE, !.tried = None], s)
<1>1. EndJoin(s) \in ShellType /\ SameView(EndJoin(s), s)
  BY DEF EndJoin, ShellType, JoinPhases, MaybeWallet, SameView
<1>2. \A phase \in JoinPhases :
         /\ [s EXCEPT !.phase = phase] \in ShellType
         /\ SameView([s EXCEPT !.phase = phase], s)
         /\ [s EXCEPT !.intent = FALSE, !.phase = phase] \in ShellType
         /\ SameView([s EXCEPT !.intent = FALSE, !.phase = phase], s)
  BY DEF ShellType, SameView
<1>3. \A w \in MaybeWallet :
         /\ [s EXCEPT !.phase = "siwe_in_progress", !.tried = w] \in ShellType
         /\ SameView([s EXCEPT !.phase = "siwe_in_progress", !.tried = w], s)
  BY DEF ShellType, SameView, JoinPhases
<1>4. /\ [s EXCEPT !.intent = TRUE, !.tried = None] \in ShellType
      /\ SameView([s EXCEPT !.intent = TRUE, !.tried = None], s)
      /\ [s EXCEPT !.phase = "authenticated", !.intent = FALSE, !.tried = None] \in ShellType
      /\ SameView([s EXCEPT !.phase = "authenticated", !.intent = FALSE, !.tried = None], s)
  BY DEF ShellType, SameView, JoinPhases, MaybeWallet
<1>. QED BY <1>1, <1>2, <1>3, <1>4

(* Hearing of a sign-in takes the guard down.                              *)
LEMMA HeardView ==
    ASSUME NEW s \in ShellType
    PROVE  /\ [s EXCEPT !.guard = FALSE] \in ShellType
           /\ [s EXCEPT !.guard = FALSE].authed = s.authed
           /\ [s EXCEPT !.guard = FALSE].session = s.session
           /\ [s EXCEPT !.guard = FALSE].userId = s.userId
           /\ [s EXCEPT !.guard = FALSE].profile = s.profile
           /\ [s EXCEPT !.guard = FALSE].guard = FALSE
BY DEF ShellType

(* A new refresh reads the cookie it is sent with.                         *)
LEMMA NewRefreshOK ==
    ASSUME NEW asked \in MaybeUser, NEW soft \in BOOLEAN
    PROVE  /\ Refresh(asked, soft) \in RefreshType
           /\ Refresh(asked, soft).stage = "session" /\ Refresh(asked, soft).asked = asked
           /\ Refresh(asked, soft).soft = soft
BY DEF Refresh, RefreshType, MaybeUser

-----------------------------------------------------------------------------
(* Types. *)

(* Every step keeps every variable in its type.                            *)
LEMMA TypesStep == Types /\ [Next]_vars => Types'
<1>. SUFFICES ASSUME Types, [Next]_vars PROVE Types'
  OBVIOUS
<1>. USE AuthAssumption DEF Types
<1>1. jar.session \in MaybeUser /\ jar.nonce \in Signers \union {None}
  BY DEF JarType
<1>2. /\ Refresh(jar.session, FALSE) \in RefreshType
      /\ Refresh(jar.session, TRUE) \in RefreshType
  BY <1>1, NewRefreshOK
<1>3. \A s \in Signers : attempts[s].wallet \in MaybeUser /\ attempts[s].ok \in BOOLEAN
  BY DEF AttemptType
<1>4. NoAttempt \in AttemptType /\ \A w \in MaybeUser : Attempt(w) \in AttemptType
  BY DEF NoAttempt, Attempt, AttemptType, Stages, MaybeUser
<1>5. NoCheck \in CheckType
  BY DEF NoCheck, CheckType, MaybeWallet, MaybeUser
<1>6. "shell" \in Signers /\ "page" \in Signers /\ "sheet" \in Signers
  BY DEF Signers
<1>7. \A w \in MaybeWallet : w \in MaybeUser
  BY DEF MaybeWallet, MaybeUser, Users
<1>8. ASSUME Event \/ Disturbance
      PROVE  events' \in 0..MaxEvents /\ disturbed' \in BOOLEAN
  <2>1. events' \in 0..MaxEvents
    BY <1>8 DEF Event, Disturbance
  <2>2. disturbed' \in BOOLEAN
    BY <1>8 DEF Event, Disturbance
  <2>. QED BY <2>1, <2>2
<1>. USE DEF used, history, Superseded
<1>9. ASSUME NEW w \in MaybeWallet, WalletChanged(w)
      PROVE  wallet' \in MaybeWallet /\ refreshes' \in SUBSET RefreshType /\ check' \in CheckType
  <2>1. wallet' \in MaybeWallet /\ refreshes' \in SUBSET RefreshType
    BY <1>2, <1>9 DEF WalletChanged, refreshChrome
  <2>2. [wallet |-> w, asked |-> jar.session] \in CheckType
    BY <1>1 DEF CheckType
  <2>. QED BY <1>5, <1>9, <2>1, <2>2 DEF WalletChanged
<1>10. ASSUME NEW w \in Wallets, Choose(w) \/ Switch(w)
       PROVE  Types'
  <2>1. CASE Choose(w)
    <3>1. sheet' \in SheetType
      BY <2>1 DEF Choose, SheetType, Rails, MaybeWallet
    <3>. QED BY <1>8, <2>1, <3>1 DEF Choose
  <2>2. CASE Switch(w)
    BY <1>8, <1>9, <2>2 DEF Switch, MaybeWallet
  <2>. QED BY <1>10, <2>1, <2>2
<1>39. /\ \A rail \in Rails : [sheet EXCEPT !.rail = rail] \in SheetType
       /\ Closed \in SheetType
  BY DEF SheetType, Closed, Rails
<1>40. ASSUME NEW w, MayStrand(w)
       PROVE  stranded' \in BOOLEAN /\ misfiled' = misfiled /\ dropped' = dropped
  BY <1>40 DEF MayStrand
<1>41. CASE Connected
  <2>1. sheet' \in SheetType /\ sheet.connecting \in MaybeWallet
    BY <1>41 DEF Connected, SheetType, Rails, MaybeWallet
  <2>. QED BY <1>9, <1>41, <2>1 DEF Connected
<1>42. CASE ConnectFails
  <2>1. sheet' \in SheetType
    BY <1>42 DEF ConnectFails, SheetType, MaybeWallet
  <2>. QED BY <1>40, <1>42, <2>1 DEF ConnectFails
<1>43. CASE CloseModal
  BY <1>39, <1>43, JoinView DEF CloseModal
<1>11. CASE Disconnect
  <2>1. dropped' \in BOOLEAN
    BY <1>11 DEF Disconnect
  <2>. QED BY <1>8, <1>9, <1>11, <2>1 DEF Disconnect, MaybeWallet
<1>12. CASE DismissSheet
  BY <1>12, <1>39, JoinView DEF DismissSheet
<1>13. CASE OpenSheet
  BY <1>13, <1>39 DEF OpenSheet, Rails
<1>14. ASSUME NEW s \in ShellType, NEW w \in MaybeWallet, RunSiwe(s, w)
       PROVE  shell' \in ShellType /\ attempts' \in [Signers -> AttemptType]
  BY <1>4, <1>6, <1>7, <1>14, JoinView DEF RunSiwe
<1>15. CASE Join
  <2>. DEFINE joining == [shell EXCEPT !.intent = TRUE, !.tried = None]
  <2>1. joining \in ShellType
    BY JoinView
  <2>2. [joining EXCEPT !.phase = "opening_wallet"] \in ShellType
    <3>. HIDE DEF joining
    <3>. QED BY <2>1, JoinView DEF JoinPhases
  <2>3. \/ RunSiwe(joining, wallet) /\ UNCHANGED sheet
        \/ /\ shell' = [joining EXCEPT !.phase = "opening_wallet"] /\ sheet' \in SheetType
           /\ UNCHANGED attempts
    BY <1>15, <1>39 DEF Join, Rails
  <2>4. UNCHANGED <<jar, wallet, refreshes, check, saves, leaving, account, history>> /\ Event
    BY <1>15 DEF Join
  <2>. HIDE DEF joining
  <2>. QED BY <1>8, <1>14, <2>1, <2>2, <2>3, <2>4
<1>16. CASE CheckAnswered
  <2>1. check.wallet \in MaybeWallet
    BY DEF CheckType
  <2>2. \/ UNCHANGED <<shell, attempts, refreshes>>
        \/ /\ shell' = [shell EXCEPT !.phase = "authenticated", !.intent = FALSE, !.tried = None]
           /\ refreshChrome(FALSE) /\ UNCHANGED attempts
        \/ RunSiwe(shell, check.wallet) /\ UNCHANGED refreshes
    BY <1>16 DEF CheckAnswered
  <2>3. shell' \in ShellType /\ attempts' \in [Signers -> AttemptType]
        /\ refreshes' \in SUBSET RefreshType
    BY <1>2, <1>14, <2>1, <2>2, JoinView DEF refreshChrome
  <2>. QED BY <1>5, <1>16, <2>3 DEF CheckAnswered
<1>17. CASE PageSignIn
  BY <1>4, <1>6, <1>7, <1>8, <1>17 DEF PageSignIn
<1>18. ASSUME NEW w \in SolanaWallets, SheetSignIn(w)
       PROVE  Types'
  <2>1. w \in MaybeUser
    BY DEF MaybeUser, Users
  <2>2. sheet' \in SheetType
    BY <1>18, <1>39 DEF SheetSignIn, Rails
  <2>. QED BY <1>4, <1>6, <1>8, <1>18, <2>1, <2>2 DEF SheetSignIn
<1>19. ASSUME NEW s \in Signers, NonceAnswered(s)
       PROVE  Types'
  <2>1. [jar EXCEPT !.nonce = s] \in JarType
    BY DEF JarType
  <2>2. [attempts[s] EXCEPT !.stage = "sign"] \in AttemptType
    BY DEF AttemptType, Stages
  <2>. QED BY <1>19, <2>1, <2>2 DEF NonceAnswered
<1>20. ASSUME NEW s \in Signers, Sign(s)
       PROVE  Types'
  <2>1. \A ok \in BOOLEAN : [attempts[s] EXCEPT !.stage = "verify", !.ok = ok] \in AttemptType
    BY DEF AttemptType, Stages
  <2>2. (jar.nonce = s /\ (s = "sheet" \/ wallet = attempts[s].wallet)) \in BOOLEAN
    OBVIOUS
  <2>3. attempts' = [attempts EXCEPT
              ![s] = [attempts[s] EXCEPT !.stage = "verify",
                         !.ok = jar.nonce = s /\ (s = "sheet" \/ wallet = attempts[s].wallet)]]
    BY <1>20 DEF Sign
  <2>4. attempts' \in [Signers -> AttemptType]
    BY <2>1, <2>2, <2>3
  <2>. QED BY <1>20, <2>4 DEF Sign
<1>21. ASSUME NEW s \in Signers, NEW phase \in {"needs_finish", "failed"}, Failed(s, phase)
       PROVE  shell' \in ShellType /\ attempts' \in [Signers -> AttemptType]
  BY <1>4, <1>21, JoinView DEF Failed, JoinPhases
<1>22. [jar EXCEPT !.nonce = None] \in JarType
  BY DEF JarType
<1>23. ASSUME NEW s \in Signers, SignRejected(s) \/ VerifyRefused(s) \/ AttemptFails(s)
       PROVE  Types'
  <2>1. CASE SignRejected(s)
    BY <1>21, <2>1 DEF SignRejected
  <2>2. CASE VerifyRefused(s)
    BY <1>21, <1>22, <2>2 DEF VerifyRefused
  <2>3. CASE AttemptFails(s)
    BY <1>8, <1>21, <1>22, <2>3 DEF AttemptFails
  <2>. QED BY <1>23, <2>1, <2>2, <2>3
<1>24. ASSUME NEW s \in Signers, SiweVerified(s)
       PROVE  Types'
  <2>1. jar' \in JarType
    BY <1>3, <1>24 DEF SiweVerified, Verified, JarType
  <2>2. [attempts[s] EXCEPT !.stage = "status"] \in AttemptType
    BY DEF AttemptType, Stages
  <2>. QED BY <1>24, <2>1, <2>2 DEF SiweVerified
<1>25. ASSUME NEW s \in Signers, SiwsVerified(s)
       PROVE  Types'
  <2>1. jar' \in JarType
    BY <1>3, <1>25 DEF SiwsVerified, Verified, JarType
  <2>2. EndJoin(shell) \in ShellType /\ [EndJoin(shell) EXCEPT !.guard = FALSE] \in ShellType
        /\ [shell EXCEPT !.guard = FALSE] \in ShellType
    BY JoinView, HeardView
  <2>3. Refresh(attempts[s].wallet, FALSE) \in RefreshType
    BY <1>3, NewRefreshOK
  <2>4. sheet' \in SheetType
    BY <1>25, <1>39 DEF SiwsVerified, HostHears
  <2>. QED BY <1>4, <1>25, <2>1, <2>2, <2>3, <2>4 DEF SiwsVerified
<1>26. ASSUME NEW s \in Signers, StatusAnswered(s)
       PROVE  Types'
  <2>1. SignedIn(s) \in ShellType
    <3>. DEFINE heard == [shell EXCEPT !.guard = FALSE]
    <3>1. heard \in ShellType
      BY HeardView
    <3>2. EndJoin(heard) \in ShellType
      BY <3>1, JoinView
    <3>3. [EndJoin(heard) EXCEPT !.phase = "authenticated"] \in ShellType
      <4>. HIDE DEF heard
      <4>. QED BY <3>2, JoinView DEF JoinPhases
    <3>. QED BY <3>1, <3>3 DEF SignedIn
  <2>2. [NoAttempt EXCEPT !.stage = "refresh"] \in AttemptType
    BY DEF NoAttempt, AttemptType, Stages, MaybeUser
  <2>3. sheet' \in SheetType
    BY <1>26, <1>39 DEF StatusAnswered, HostHears
  <2>. QED BY <1>2, <1>4, <1>26, <2>1, <2>2, <2>3 DEF StatusAnswered, refreshChrome
<1>27. CASE SiweReturns
  BY <1>4, <1>6, <1>27 DEF SiweReturns
<1>28. ASSUME NEW r \in refreshes, SessionAnswered(r)
       PROVE  Types'
  <2>1. /\ r \in RefreshType /\ r.asked \in MaybeUser /\ refreshes \ {r} \in SUBSET RefreshType
        /\ shell.profile \in MaybeUser
    BY DEF RefreshType, ShellType
  <2>2. [r EXCEPT !.stage = "me", !.who = r.asked, !.asked = jar.session] \in RefreshType
    BY <1>1, <2>1 DEF RefreshType
  <2>6. misfiled' \in BOOLEAN /\ dropped' \in BOOLEAN /\ stranded' \in BOOLEAN
    BY <1>28, <1>40 DEF SessionAnswered
  <2>3. CASE shell' \in {clearProfileChrome(shell), clearAuthenticatedChrome(shell)}
             /\ refreshes' = refreshes \ {r}
    BY <1>28, <2>1, <2>3, <2>6, ClearOK DEF SessionAnswered
  <2>4. CASE r.asked \in SolanaWallets /\ ~shell.guard
    <3>1. r.asked \in Users
      BY <2>4 DEF Users
    <3>2. Authed(shell, r.asked, r.asked) \in ShellType
      BY <2>1, <3>1, AuthedView
    <3>3. [Authed(shell, r.asked, r.asked) EXCEPT !.phase = "authenticated"] \in ShellType
      BY <3>2, JoinView DEF JoinPhases
    <3>4. \/ shell' \in {clearProfileChrome(shell), clearAuthenticatedChrome(shell)}
             /\ refreshes' = refreshes \ {r}
          \/ shell' = [Authed(shell, r.asked, r.asked) EXCEPT !.phase = "authenticated"]
             /\ refreshes' = refreshes \ {r}
      BY <1>28, <2>4 DEF SessionAnswered, Users
    <3>. QED BY <1>28, <2>1, <2>3, <2>6, <3>3, <3>4 DEF SessionAnswered
  <2>5. CASE r.asked \in Wallets /\ ~shell.guard
    <3>1. r.asked \in Users
      BY <2>5 DEF Users
    <3>2. \A profile \in MaybeUser : Authed(shell, r.asked, profile) \in ShellType
      BY <2>1, <3>1, AuthedView
    <3>3. \E profile \in MaybeUser : shell' = Authed(shell, r.asked, profile)
      BY <1>28, <2>1, <2>5 DEF SessionAnswered, Users
    <3>4. refreshes' = (refreshes \ {r}) \union
             {[r EXCEPT !.stage = "me", !.who = r.asked, !.asked = jar.session]}
      BY <1>28, <2>5 DEF SessionAnswered, Users
    <3>. QED BY <1>28, <2>1, <2>2, <2>6, <3>2, <3>3, <3>4 DEF SessionAnswered
  <2>. QED BY <1>28, <2>3, <2>4, <2>5 DEF SessionAnswered
<1>29. ASSUME NEW r \in refreshes, SessionUnread(r)
       PROVE  Types'
  BY <1>8, <1>29, <1>40, ClearOK DEF SessionUnread
<1>30. ASSUME NEW r \in refreshes, MeAnswered(r)
       PROVE  Types'
  <2>1. [shell EXCEPT !.profile = r.who] \in ShellType
    <3>1. r.who \in MaybeUser
      BY DEF RefreshType
    <3>. QED BY <3>1 DEF ShellType
  <2>. QED BY <1>30, <2>1 DEF MeAnswered
<1>31. ASSUME NotifySignOut
       PROVE  shell' \in ShellType /\ refreshes' \in SUBSET RefreshType /\ saves' \in SUBSET SaveType
  BY <1>31, ClearOK DEF NotifySignOut
<1>32. CASE signOutScoopSession \/ SignOutAnswered \/ SignOutFails
  <2>1. CASE signOutScoopSession
    BY <1>31, <2>1 DEF signOutScoopSession
  <2>2. CASE SignOutAnswered
    <3>1. jar' \in JarType /\ account' \in MaybeUser
      BY <2>2 DEF SignOutAnswered, JarType, MaybeUser
    <3>. QED BY <1>31, <2>2, <3>1 DEF SignOutAnswered
  <2>3. CASE SignOutFails
    BY <1>8, <1>31, <2>3 DEF SignOutFails
  <2>. QED BY <1>32, <2>1, <2>2, <2>3
<1>33. CASE LoadAccount
  BY <1>1, <1>33 DEF LoadAccount
<1>34. CASE SaveProfile
  <2>1. account \in Users
    BY <1>34 DEF SaveProfile, MaybeUser
  <2>2. [stage |-> "patch", account |-> account, data |-> jar.session, asked |-> None] \in SaveType
    BY <1>1, <2>1 DEF SaveType, MaybeUser
  <2>3. misfiled' \in BOOLEAN
    BY <1>34 DEF SaveProfile
  <2>. QED BY <1>8, <1>34, <2>2, <2>3 DEF SaveProfile
<1>35. ASSUME NEW p \in saves, SaveAnswered(p)
       PROVE  Types'
  <2>1. [p EXCEPT !.stage = "session", !.asked = jar.session] \in SaveType
    BY <1>1 DEF SaveType
  <2>2. saves' \in SUBSET SaveType
    BY <1>35, <2>1 DEF SaveAnswered
  <2>. QED BY <1>35, <2>2 DEF SaveAnswered
<1>36. ASSUME NEW p \in saves, ProfileNotified(p)
       PROVE  Types'
  <2>1. p.account \in Users /\ p.data \in MaybeUser
    BY DEF SaveType
  <2>2. shell' \in ShellType /\ refreshes' \in SUBSET RefreshType
    <3>1. CASE UNCHANGED <<shell, refreshes>>
      BY <3>1
    <3>2. CASE shell' = Authed(shell, p.account, p.data) /\ refreshChrome(TRUE)
      <4>1. Authed(shell, p.account, p.data) \in ShellType
        BY <2>1, AuthedView
      <4>. QED BY <1>2, <3>2, <4>1 DEF refreshChrome
    <3>. QED BY <1>36, <3>1, <3>2 DEF ProfileNotified
  <2>. QED BY <1>36, <2>2 DEF ProfileNotified
<1>37. CASE OtherTab
  <2>1. jar' \in JarType
    BY <1>37 DEF OtherTab, JarType
  <2>. QED BY <1>8, <1>37, <2>1 DEF OtherTab
<1>38. CASE UNCHANGED vars
  BY <1>38 DEF vars
<1>. QED
  BY <1>10, <1>11, <1>12, <1>13, <1>15, <1>16, <1>17, <1>18, <1>19, <1>20, <1>23, <1>24,
     <1>25, <1>26, <1>27, <1>28, <1>29, <1>30, <1>32, <1>33, <1>34, <1>35, <1>36, <1>37,
     <1>38, <1>41, <1>42, <1>43 DEF Next, Answer, Progress

-----------------------------------------------------------------------------
(* Steps beside what is shown: no other session, cookie or save.           *)

Beside ==
    /\ shell'.authed = shell.authed /\ shell'.session = shell.session
    /\ shell'.profile = shell.profile /\ shell'.userId = shell.userId
    /\ shell'.guard = shell.guard
    /\ refreshes' = refreshes \/ refreshes' = {Refresh(jar.session, FALSE)}
    /\ saves' = saves /\ misfiled' = misfiled
    /\ ~disturbed' => /\ ~disturbed
                      /\ jar'.session = jar.session /\ leaving' = leaving
                      /\ \A s \in Signers : attempts'[s].stage = "status"
                                              <=> attempts[s].stage = "status"

(* The wallet, the sheet and the attempts up to their verification.        *)
JoinSteps ==
    \/ \E w \in Wallets : Choose(w) \/ Switch(w)
    \/ Connected \/ ConnectFails \/ Disconnect \/ DismissSheet \/ CloseModal
    \/ OpenSheet \/ Join \/ CheckAnswered \/ PageSignIn
    \/ \E w \in SolanaWallets : SheetSignIn(w)
    \/ \E s \in Signers : \/ NonceAnswered(s) \/ Sign(s) \/ SignRejected(s)
                          \/ VerifyRefused(s) \/ AttemptFails(s)
    \/ SiweReturns \/ LoadAccount \/ OtherTab \/ UNCHANGED vars

(* They neither change the session nor what is shown of it.                *)
LEMMA JoinStepsBeside == Types /\ Types' /\ JoinSteps => Beside
<1>. SUFFICES ASSUME Types, Types', JoinSteps PROVE Beside
  OBVIOUS
<1>1. shell \in ShellType /\ jar \in JarType /\ attempts \in [Signers -> AttemptType]
  BY DEF Types
<1>. USE DEF used, history, Superseded
<1>2. ASSUME UNCHANGED <<shell, saves, misfiled, jar, leaving, attempts>>,
             refreshes' = refreshes \/ refreshes' = {Refresh(jar.session, FALSE)},
             ~disturbed' => ~disturbed
      PROVE  Beside
  BY <1>2 DEF Beside
<1>3. Event \/ Disturbance => (~disturbed' => ~disturbed)
  BY DEF Event, Disturbance
<1>4. ASSUME NEW w \in Wallets, Choose(w) \/ Switch(w)
      PROVE  Beside
  BY <1>2, <1>3, <1>4 DEF Choose, Switch, WalletChanged, refreshChrome
<1>21. CASE Connected
  BY <1>2, <1>21 DEF Connected, WalletChanged, refreshChrome
<1>22. CASE ConnectFails
  BY <1>2, <1>22 DEF ConnectFails, MayStrand
<1>23. CASE CloseModal
  <2>1. shell' = shell \/ shell' = EndJoin(shell)
    BY <1>23 DEF CloseModal
  <2>2. SameView(shell', shell)
    <3>1. SameView(EndJoin(shell), shell)
      BY <1>1, JoinView
    <3>2. QED BY SMTT(30), <2>1, <3>1 DEF SameView
  <2>. QED BY <1>23, <2>2 DEF CloseModal, Beside, SameView
<1>5. CASE Disconnect
  BY <1>2, <1>3, <1>5 DEF Disconnect, WalletChanged, refreshChrome
<1>6. CASE OpenSheet \/ LoadAccount
  BY <1>2, <1>6 DEF OpenSheet, LoadAccount
<1>7. CASE UNCHANGED vars
  BY <1>2, <1>7 DEF vars
<1>8. CASE DismissSheet
  <2>1. shell' = shell \/ shell' = EndJoin(shell)
    BY <1>8 DEF DismissSheet
  <2>2. SameView(shell', shell)
    <3>1. SameView(EndJoin(shell), shell)
      BY <1>1, JoinView
    <3>2. QED BY SMTT(30), <2>1, <3>1 DEF SameView
  <2>. QED BY <1>8, <2>2 DEF DismissSheet, Beside, SameView
<1>9. ASSUME NEW s \in ShellType, NEW w \in MaybeWallet, RunSiwe(s, w), SameView(s, shell),
             Idle("shell")
      PROVE  /\ SameView(shell', shell)
             /\ \A q \in Signers : attempts'[q].stage = "status" <=> attempts[q].stage = "status"
  <2>1. SameView(shell', shell)
    BY <1>9, JoinView DEF RunSiwe, SameView
  <2>2. \A q \in Signers : attempts'[q].stage = "status" <=> attempts[q].stage = "status"
    BY <1>1, <1>9 DEF RunSiwe, Attempt, NoAttempt, Idle
  <2>. QED BY <2>1, <2>2
<1>10. CASE Join
  <2>. DEFINE joining == [shell EXCEPT !.intent = TRUE, !.tried = None]
  <2>1. joining \in ShellType /\ SameView(joining, shell)
    BY <1>1, JoinView
  <2>2. SameView([joining EXCEPT !.phase = "opening_wallet"], shell)
    <3>. HIDE DEF joining
    <3>. QED BY <2>1, JoinView DEF JoinPhases, SameView
  <2>3. \/ RunSiwe(joining, wallet)
        \/ shell' = [joining EXCEPT !.phase = "opening_wallet"] /\ UNCHANGED attempts
    BY <1>10 DEF Join
  <2>4. /\ UNCHANGED <<jar, refreshes, saves, leaving, misfiled>> /\ Event /\ Idle("shell")
        /\ wallet \in MaybeWallet
    BY <1>10 DEF Join, Types
  <2>. HIDE DEF joining
  <2>5. /\ SameView(shell', shell)
        /\ \A q \in Signers : attempts'[q].stage = "status" <=> attempts[q].stage = "status"
    BY <1>9, <2>1, <2>2, <2>3, <2>4
  <2>. QED BY <1>3, <2>4, <2>5 DEF Beside, SameView
<1>11. CASE CheckAnswered
  <2>1. check.wallet \in MaybeWallet
    BY DEF CheckType, Types
  <2>2. \/ UNCHANGED <<shell, attempts, refreshes>>
        \/ /\ shell' = [shell EXCEPT !.phase = "authenticated", !.intent = FALSE, !.tried = None]
           /\ refreshChrome(FALSE) /\ UNCHANGED attempts
        \/ RunSiwe(shell, check.wallet) /\ Idle("shell") /\ UNCHANGED refreshes
    BY <1>11 DEF CheckAnswered
  <2>3. UNCHANGED <<jar, saves, leaving, misfiled, disturbed>>
    BY <1>11 DEF CheckAnswered
  <2>4. CASE UNCHANGED <<shell, attempts, refreshes>>
    BY <1>2, <2>3, <2>4
  <2>5. CASE /\ shell' = [shell EXCEPT !.phase = "authenticated", !.intent = FALSE,
                                       !.tried = None]
             /\ refreshChrome(FALSE) /\ UNCHANGED attempts
    <3>1. SameView(shell', shell)
      BY <1>1, <2>5, JoinView
    <3>. QED BY <2>3, <2>5, <3>1 DEF Beside, SameView, refreshChrome
  <2>6. CASE RunSiwe(shell, check.wallet) /\ Idle("shell") /\ UNCHANGED refreshes
    <3>1. SameView(shell, shell)
      BY DEF SameView
    <3>2. /\ SameView(shell', shell)
          /\ \A q \in Signers : attempts'[q].stage = "status" <=> attempts[q].stage = "status"
      BY <1>1, <1>9, <2>1, <2>6, <3>1
    <3>. QED BY <2>3, <2>6, <3>2 DEF Beside, SameView
  <2>. QED BY <2>2, <2>4, <2>5, <2>6
<1>12. ASSUME NEW s \in Signers, NEW w, Idle(s), attempts' = [attempts EXCEPT ![s] = Attempt(w)],
              UNCHANGED <<shell, refreshes, saves, misfiled, jar, leaving>>, Event
       PROVE  Beside
  <2>1. \A q \in Signers : attempts'[q].stage = "status" <=> attempts[q].stage = "status"
    BY <1>1, <1>12 DEF Attempt, NoAttempt, Idle
  <2>. QED BY <1>3, <1>12, <2>1 DEF Beside
<1>13. CASE PageSignIn
  <2>1. "page" \in Signers
    BY DEF Signers
  <2>. QED BY <1>12, <1>13, <2>1 DEF PageSignIn
<1>14. CASE \E w \in SolanaWallets : SheetSignIn(w)
  <2>1. "sheet" \in Signers
    BY DEF Signers
  <2>. QED BY <1>12, <1>14, <2>1 DEF SheetSignIn
<1>15. ASSUME NEW s \in Signers, NonceAnswered(s) \/ Sign(s)
       PROVE  Beside
  <2>1. jar'.session = jar.session
    BY <1>1, <1>15 DEF NonceAnswered, Sign, JarType
  <2>2. \A q \in Signers : attempts'[q].stage = "status" <=> attempts[q].stage = "status"
    BY <1>1, <1>15 DEF NonceAnswered, Sign, AttemptType
  <2>3. UNCHANGED <<shell, refreshes, saves, leaving, used, history>>
    BY <1>15 DEF NonceAnswered, Sign
  <2>. QED BY <2>1, <2>2, <2>3 DEF Beside
<1>16. ASSUME NEW s \in Signers, NEW phase \in JoinPhases, Failed(s, phase)
       PROVE  /\ SameView(shell', shell)
              /\ attempts[s].stage # "status" =>
                   \A q \in Signers :
                      attempts'[q].stage = "status" <=> attempts[q].stage = "status"
  <2>1. SameView(shell', shell)
    BY <1>1, <1>16, JoinView DEF Failed, SameView
  <2>2. attempts[s].stage # "status" =>
          \A q \in Signers : attempts'[q].stage = "status" <=> attempts[q].stage = "status"
    BY <1>1, <1>16 DEF Failed, NoAttempt
  <2>. QED BY <2>1, <2>2
<1>17. [jar EXCEPT !.nonce = None].session = jar.session
  BY <1>1 DEF JarType
<1>18. ASSUME NEW s \in Signers, SignRejected(s) \/ VerifyRefused(s) \/ AttemptFails(s)
       PROVE  Beside
  <2>1. PICK phase \in JoinPhases : Failed(s, phase)
    BY <1>18 DEF SignRejected, VerifyRefused, AttemptFails, JoinPhases
  <2>2. UNCHANGED <<refreshes, saves, leaving, misfiled>>
    BY <1>18 DEF SignRejected, VerifyRefused, AttemptFails
  <2>3. CASE SignRejected(s) \/ VerifyRefused(s)
    <3>1. attempts[s].stage # "status" /\ jar'.session = jar.session /\ disturbed' = disturbed
      BY <1>17, <2>3 DEF SignRejected, VerifyRefused
    <3>. QED BY <1>16, <2>1, <2>2, <3>1 DEF Beside, SameView
  <2>4. CASE AttemptFails(s)
    <3>1. disturbed' = TRUE
      BY <2>4 DEF AttemptFails, Disturbance
    <3>. QED BY <1>16, <2>1, <2>2, <3>1 DEF Beside, SameView
  <2>. QED BY <1>18, <2>3, <2>4
<1>19. CASE SiweReturns
  <2>1. \A q \in Signers : attempts'[q].stage = "status" <=> attempts[q].stage = "status"
    BY <1>1, <1>19 DEF SiweReturns, NoAttempt
  <2>. QED BY <1>19, <2>1 DEF SiweReturns, Beside
<1>20. CASE OtherTab
  BY <1>20 DEF OtherTab, Disturbance, Beside
<1>. QED
  BY <1>4, <1>5, <1>6, <1>7, <1>8, <1>10, <1>11, <1>13, <1>14, <1>15, <1>18, <1>19, <1>20,
     <1>21, <1>22, <1>23 DEF JoinSteps

-----------------------------------------------------------------------------
(* What is shown, and what follows the cookie. *)

ShownOK == RefreshesOK /\ SavesOK /\ AuthedOK /\ ShowsOnlyTheSession

FollowsOK == GuardOK /\ Follows

(* A refresh that only begins keeps both.                                  *)
LEMMA BesideOK ==
    ASSUME Inv, Beside
    PROVE  ShownOK' /\ FollowsOK'
<1>. DEFINE new == Refresh(jar.session, FALSE)
<1>1. /\ new.stage = "session" /\ new.asked = jar.session /\ new.soft = FALSE
  BY DEF Refresh
<1>. HIDE DEF new
<1>2. RefreshesOK'
  <2>1. CASE refreshes' = refreshes
    BY <2>1 DEF Inv, Beside, RefreshesOK
  <2>2. CASE refreshes' = {new}
    BY <1>1, <2>2 DEF RefreshesOK
  <2>. QED BY <2>1, <2>2 DEF Beside, new
<1>3. SavesOK' /\ AuthedOK' /\ ShowsOnlyTheSession'
  BY DEF Inv, Beside, SavesOK, AuthedOK, ShowsOnlyTheSession
<1>4. ~disturbed' => (Underway' <=> Underway)
  BY DEF Beside, Underway
<1>5. GuardOK'
  BY <1>4 DEF Inv, Beside, GuardOK
<1>6. Follows'
  <2>1. CASE refreshes' = refreshes
    BY <1>4, <2>1 DEF Inv, Beside, Follows, Shown
  <2>2. CASE refreshes' = {new}
    BY <1>1, <1>4, <2>2 DEF Inv, Beside, Follows
  <2>. QED BY <2>1, <2>2 DEF Beside, new
<1>. QED BY <1>2, <1>3, <1>5, <1>6 DEF ShownOK, FollowsOK

(* Nothing is shown, nothing is refreshed: after a sign-out, or when there *)
(* is no session.                                                          *)
LEMMA ClearedShown ==
    ASSUME Inv, ~shell'.authed, refreshes' = {}, saves' \subseteq saves, misfiled' = misfiled
    PROVE  ShownOK'
BY DEF Inv, ShownOK, RefreshesOK, SavesOK, AuthedOK, ShowsOnlyTheSession

(* A verified sign-in sets the cookie; the page reads it back.             *)
LEMMA SiweVerifiedOK ==
    ASSUME Inv, NEW s \in Signers, SiweVerified(s)
    PROVE  ShownOK' /\ FollowsOK'
<1>1. ShownOK'
  BY DEF Inv, SiweVerified, ShownOK, RefreshesOK, SavesOK, AuthedOK, ShowsOnlyTheSession, history
<1>2. Underway'
  BY DEF Inv, Types, SiweVerified, Underway, AttemptType
<1>. QED BY <1>1, <1>2 DEF FollowsOK, GuardOK, Follows

(* So does the sheet, which refreshes the shell at once.                   *)
LEMMA SiwsVerifiedOK ==
    ASSUME Inv, NEW s \in Signers, SiwsVerified(s)
    PROVE  ShownOK' /\ FollowsOK'
<1>. DEFINE new == Refresh(attempts[s].wallet, FALSE)
<1>0. new.stage = "session" /\ new.asked = attempts[s].wallet /\ new.soft = FALSE
  BY DEF Refresh
<1>1. /\ refreshes' = {new} /\ saves' = saves /\ misfiled' = misfiled
      /\ jar'.session = attempts[s].wallet
  BY DEF SiwsVerified, Verified, Superseded, history
<1>2. /\ shell'.authed = shell.authed /\ shell'.session = shell.session
      /\ shell'.profile = shell.profile /\ shell'.userId = shell.userId
      /\ shell'.guard = FALSE
  <2>1. shell \in ShellType
    BY DEF Inv, Types
  <2>2. EndJoin(shell) \in ShellType /\ SameView(EndJoin(shell), shell)
    BY <2>1, JoinView
  <2>3. shell' = [EndJoin(shell) EXCEPT !.guard = FALSE] \/ shell' = [shell EXCEPT !.guard = FALSE]
    BY DEF SiwsVerified
  <2>. QED BY <2>1, <2>2, <2>3, HeardView DEF SameView
<1>. HIDE DEF new
<1>3. ShownOK'
  BY <1>0, <1>1, <1>2
     DEF Inv, ShownOK, RefreshesOK, SavesOK, AuthedOK, ShowsOnlyTheSession
<1>4. FollowsOK'
  BY <1>0, <1>1, <1>2 DEF FollowsOK, GuardOK, Follows
<1>. QED BY <1>3, <1>4

(* The sign-in is heard of: the guard is down and a refresh on its way.    *)
LEMMA StatusAnsweredOK ==
    ASSUME Inv, NEW s \in Signers, StatusAnswered(s)
    PROVE  ShownOK' /\ FollowsOK'
<1>. DEFINE new == Refresh(jar.session, FALSE)
<1>0. new.stage = "session" /\ new.asked = jar.session /\ new.soft = FALSE
  BY DEF Refresh
<1>1. /\ refreshes' = {new} /\ saves' = saves /\ misfiled' = misfiled /\ jar' = jar
  BY DEF StatusAnswered, refreshChrome, Superseded, history
<1>2. /\ shell'.authed = shell.authed /\ shell'.session = shell.session
      /\ shell'.profile = shell.profile /\ shell'.userId = shell.userId
      /\ shell'.guard = FALSE
  <2>. DEFINE heard == [shell EXCEPT !.guard = FALSE]
              joined == [EndJoin(heard) EXCEPT !.phase = "authenticated"]
  <2>1. /\ heard \in ShellType
        /\ heard.authed = shell.authed /\ heard.session = shell.session
        /\ heard.profile = shell.profile /\ heard.userId = shell.userId
        /\ heard.guard = FALSE
    BY HeardView DEF Inv, Types
  <2>2. shell' = heard \/ shell' = joined
    BY DEF StatusAnswered, SignedIn
  <2>. HIDE DEF heard
  <2>3. EndJoin(heard) \in ShellType /\ SameView(EndJoin(heard), heard)
    BY <2>1, JoinView
  <2>4. SameView(joined, EndJoin(heard))
    BY <2>3, JoinView DEF JoinPhases
  <2>. HIDE DEF joined
  <2>. QED BY <2>1, <2>2, <2>3, <2>4 DEF SameView
<1>. HIDE DEF new
<1>3. ShownOK'
  BY <1>0, <1>1, <1>2
     DEF Inv, ShownOK, RefreshesOK, SavesOK, AuthedOK, ShowsOnlyTheSession
<1>4. FollowsOK'
  BY <1>0, <1>1, <1>2 DEF FollowsOK, GuardOK, Follows
<1>. QED BY <1>3, <1>4

(* The session's answer is shown, unless a sign-out is under way.          *)
LEMMA SessionAnsweredOK ==
    ASSUME Inv, NEW r \in refreshes, SessionAnswered(r)
    PROVE  ShownOK' /\ FollowsOK'
<1>0. shell \in ShellType
  BY DEF Inv, Types
<1>1. /\ refreshes = {r} /\ refreshes \ {r} = {} /\ r \in RefreshType /\ r.stage = "session"
      /\ shell \in ShellType /\ jar.session \in MaybeUser
  BY DEF Inv, Types, JarType, RefreshesOK, SessionAnswered
<1>2. UNCHANGED <<jar, saves, misfiled, disturbed, leaving, attempts>>
  BY DEF SessionAnswered, MayStrand, used, history
<1>3. Underway' <=> Underway
  BY <1>2 DEF Underway
<1>4. ~disturbed => Underway \/ r.asked = jar.session
  BY <1>1 DEF Inv, Follows
<1>5. CASE r.asked = None \/ shell.guard
  <2>1. /\ shell' = clearProfileChrome(shell) \/ shell' = clearAuthenticatedChrome(shell)
        /\ refreshes' = {}
    BY <1>1, <1>5, AuthAssumption DEF SessionAnswered, Users
  <2>2. ~shell'.authed /\ shell'.guard = shell.guard
    BY <1>1, <2>1, ClearOK
  <2>3. ShownOK'
    BY <1>2, <2>1, <2>2, ClearedShown
  <2>4. GuardOK'
    BY <1>2, <1>3, <2>2 DEF Inv, GuardOK
  <2>5. ~disturbed => Underway \/ jar.session = None
    BY <1>4, <1>5 DEF Inv, GuardOK
  <2>6. Follows'
    BY <1>2, <1>3, <2>1, <2>2, <2>5 DEF Follows, Shown
  <2>. QED BY <2>3, <2>4, <2>6 DEF FollowsOK
<1>6. CASE r.asked # None /\ ~shell.guard
  <2>1. r.asked \in Users /\ r.asked \in MaybeUser
    BY <1>1, <1>6 DEF RefreshType, MaybeUser
  <2>. DEFINE me == [r EXCEPT !.stage = "me", !.who = r.asked, !.asked = jar.session]
  <2>2. /\ me.stage = "me" /\ me.who = r.asked /\ me.soft = r.soft
    BY <1>1 DEF RefreshType
  <2>3. /\ shell'.authed /\ shell'.session = r.asked /\ shell'.userId = r.asked
        /\ ~shell'.guard /\ (misfiled \/ shell'.profile = r.asked)
        /\ refreshes' = {} \/ refreshes' = {me}
    <3>1. CASE r.asked \in SolanaWallets
      <4>. DEFINE base == Authed(shell, r.asked, r.asked)
      <4>1. shell' = [base EXCEPT !.phase = "authenticated"] /\ refreshes' = {}
        BY <1>1, <1>6, <3>1, AuthAssumption DEF SessionAnswered
      <4>2. /\ base \in ShellType /\ base.authed /\ base.session = r.asked
            /\ base.userId = r.asked /\ base.profile = r.asked /\ base.guard = shell.guard
        BY ZenonT(30), <1>0, <2>1, AuthedView
      <4>. HIDE DEF base
      <4>3. SameView(shell', base)
        BY <4>1, <4>2, JoinView DEF JoinPhases
      <4>. QED BY <1>6, <4>1, <4>2, <4>3 DEF SameView
    <3>2. CASE r.asked \in Wallets
      <4>. DEFINE profile == IF r.soft /\ shell.userId \in {None, r.asked} THEN shell.profile
                                                                          ELSE r.asked
      <4>1. shell' = Authed(shell, r.asked, profile) /\ refreshes' = {me}
        BY <1>1, <1>6, <3>2, AuthAssumption DEF SessionAnswered
      <4>2. profile \in MaybeUser
        BY <1>1, <2>1 DEF ShellType
      <4>3. misfiled \/ profile = r.asked
        <5>1. ASSUME r.soft PROVE shell.authed
          BY <5>1 DEF Inv, RefreshesOK
        <5>2. shell.authed => /\ shell.userId # None /\ shell.userId = shell.session
                              /\ misfiled \/ shell.profile = shell.session
          BY DEF Inv, AuthedOK, ShowsOnlyTheSession
        <5>. QED BY <5>1, <5>2
      <4>. HIDE DEF profile
      <4>. DEFINE base == Authed(shell, r.asked, profile)
      <4>4. /\ base.authed /\ base.session = r.asked
            /\ base.userId = r.asked /\ base.profile = profile /\ base.guard = shell.guard
        BY ZenonT(30), <1>0, <2>1, <4>2, AuthedView
      <4>. HIDE DEF base
      <4>5. shell' = base
        BY <4>1 DEF base
      <4>. QED BY <1>6, <4>1, <4>3, <4>4, <4>5
    <3>. QED BY <2>1, <3>1, <3>2 DEF Users
  <2>. HIDE DEF me
  <2>4. ShownOK'
    <3>1. RefreshesOK'
      BY <2>2, <2>3 DEF RefreshesOK
    <3>2. SavesOK' /\ AuthedOK' /\ ShowsOnlyTheSession'
      BY <1>2, <1>6, <2>3 DEF Inv, SavesOK, AuthedOK, ShowsOnlyTheSession
    <3>. QED BY <3>1, <3>2 DEF ShownOK
  <2>5. FollowsOK'
    BY <1>2, <1>3, <1>4, <2>2, <2>3 DEF FollowsOK, GuardOK, Follows, Shown
  <2>. QED BY <2>4, <2>5
<1>. QED BY <1>5, <1>6

(* A session that could not be read is none.                               *)
LEMMA SessionUnreadOK ==
    ASSUME Inv, NEW r \in refreshes, SessionUnread(r)
    PROVE  ShownOK' /\ FollowsOK'
<1>1. ~shell'.authed /\ refreshes' = {} /\ disturbed' = TRUE /\ UNCHANGED <<saves, misfiled>>
  <2>1. shell' = clearProfileChrome(shell) /\ shell \in ShellType
    BY DEF SessionUnread, Inv, Types
  <2>. QED BY <2>1, ClearOK DEF SessionUnread, MayStrand, Disturbance, Inv, RefreshesOK
<1>2. ShownOK'
  BY <1>1, ClearedShown
<1>. QED BY <1>1, <1>2 DEF FollowsOK, GuardOK, Follows

(* The account's answer may only show the profile of the session.          *)
LEMMA MeAnsweredOK ==
    ASSUME Inv, NEW r \in refreshes, MeAnswered(r)
    PROVE  ShownOK' /\ FollowsOK'
<1>1. /\ refreshes = {r} /\ refreshes' = {} /\ r.stage = "me"
      /\ shell.authed /\ r.who = shell.session /\ shell \in ShellType
  BY DEF Inv, Types, RefreshesOK, MeAnswered
<1>2. UNCHANGED <<jar, saves, misfiled, disturbed, leaving, attempts>>
  BY DEF MeAnswered, used, history
<1>3. /\ shell'.authed = shell.authed /\ shell'.session = shell.session
      /\ shell'.userId = shell.userId /\ shell'.guard = shell.guard
      /\ shell'.profile = shell.profile \/ shell'.profile = shell.session
  BY <1>1 DEF MeAnswered, ShellType
<1>4. ShownOK'
  BY <1>1, <1>2, <1>3
     DEF Inv, ShownOK, RefreshesOK, SavesOK, AuthedOK, ShowsOnlyTheSession
<1>5. FollowsOK'
  BY <1>1, <1>2, <1>3 DEF Inv, FollowsOK, GuardOK, Follows, Underway, Shown
<1>. QED BY <1>4, <1>5

(* A sign-out clears the shell at once and again when it is answered.      *)
LEMMA SignOutOK ==
    ASSUME Inv, signOutScoopSession \/ SignOutAnswered \/ SignOutFails
    PROVE  ShownOK' /\ FollowsOK'
<1>1. NotifySignOut /\ misfiled' = misfiled
  BY DEF signOutScoopSession, SignOutAnswered, SignOutFails, history
<1>2. ~shell'.authed /\ refreshes' = {} /\ saves' \subseteq saves
  <2>1. shell \in ShellType
    BY DEF Inv, Types
  <2>. QED BY <1>1, <2>1, ClearOK DEF NotifySignOut, Superseded
<1>3. ShownOK'
  BY <1>1, <1>2, ClearedShown
<1>4. CASE signOutScoopSession
  BY <1>3, <1>4 DEF signOutScoopSession, FollowsOK, GuardOK, Follows, Underway
<1>5. CASE SignOutAnswered
  <2>1. jar'.session = None
    BY <1>5 DEF SignOutAnswered
  <2>. QED BY <1>2, <1>3, <2>1 DEF FollowsOK, GuardOK, Follows, Shown
<1>6. CASE SignOutFails
  BY <1>3, <1>6 DEF SignOutFails, Disturbance, FollowsOK, GuardOK, Follows
<1>. QED BY <1>4, <1>5, <1>6

(* A save carries the profile of the page's account, or is misfiled.       *)
LEMMA SaveOK ==
    ASSUME Inv, SaveProfile \/ \E p \in saves : SaveAnswered(p)
    PROVE  ShownOK' /\ FollowsOK'
<1>1. UNCHANGED <<jar, shell, refreshes, attempts, leaving>> /\ disturbed' = disturbed
  BY DEF SaveProfile, SaveAnswered, Event, used
<1>2. FollowsOK'
  BY <1>1 DEF Inv, FollowsOK, GuardOK, Follows, Underway, Shown
<1>3. misfiled => misfiled'
  BY DEF SaveProfile, SaveAnswered, history
<1>4. RefreshesOK' /\ AuthedOK' /\ ShowsOnlyTheSession'
  BY <1>1, <1>3 DEF Inv, RefreshesOK, AuthedOK, ShowsOnlyTheSession
<1>5. SavesOK'
  <2>1. CASE SaveProfile
    <3>. DEFINE new == [stage |-> "patch", account |-> account, data |-> jar.session,
                        asked |-> None]
    <3>1. saves' = saves \union {new} /\ (misfiled' \/ jar.session \in {None, account})
      BY <2>1 DEF SaveProfile
    <3>. QED BY <1>3, <3>1 DEF Inv, SavesOK
  <2>2. CASE \E p \in saves : SaveAnswered(p)
    <3>1. PICK p \in saves : SaveAnswered(p)
      BY <2>2
    <3>. DEFINE new == [p EXCEPT !.stage = "session", !.asked = jar.session]
    <3>2. /\ saves' \subseteq saves \/ (saves' = (saves \ {p}) \union {new} /\ p.data # None)
          /\ misfiled' = misfiled
      BY <3>1 DEF SaveAnswered, history
    <3>3. new.data = p.data /\ new.account = p.account
      BY DEF Inv, Types, SaveType
    <3>. HIDE DEF new
    <3>. QED BY <3>2, <3>3 DEF Inv, SavesOK
  <2>. QED BY <2>1, <2>2
<1>. QED BY <1>2, <1>4, <1>5 DEF ShownOK

(* A published profile is shown as the session's.                          *)
LEMMA ProfileNotifiedOK ==
    ASSUME Inv, NEW p \in saves, ProfileNotified(p)
    PROVE  ShownOK' /\ FollowsOK'
<1>1. /\ UNCHANGED <<jar, attempts, leaving, misfiled, disturbed>> /\ saves' \subseteq saves
      /\ p.stage = "session"
  BY DEF ProfileNotified, used, history
<1>2. SavesOK'
  BY <1>1 DEF Inv, SavesOK
<1>3. CASE UNCHANGED <<shell, refreshes>>
  <2>1. ShownOK'
    BY <1>1, <1>2, <1>3 DEF Inv, ShownOK, RefreshesOK, AuthedOK, ShowsOnlyTheSession
  <2>. QED BY <1>1, <1>3, <2>1 DEF Inv, FollowsOK, GuardOK, Follows, Underway, Shown
<1>4. CASE ~shell.guard /\ shell' = Authed(shell, p.account, p.data) /\ refreshChrome(TRUE)
  <2>. DEFINE new == Refresh(jar.session, TRUE)
  <2>1. /\ refreshes' = {new} /\ new.stage = "session" /\ new.asked = jar.session
    BY <1>4 DEF refreshChrome, Superseded, Refresh
  <2>0. shell \in ShellType /\ p.account \in Users /\ p.data \in MaybeUser
    BY DEF Inv, Types, SaveType
  <2>2. p.account # None /\ (misfiled \/ p.data = p.account)
    BY <1>1, <2>0, AuthAssumption DEF Inv, SavesOK
  <2>3. /\ shell'.authed = TRUE /\ shell'.session = p.account /\ shell'.userId = p.account
        /\ shell'.profile = p.data /\ shell'.guard = shell.guard
    <3>. DEFINE base == Authed(shell, p.account, p.data)
    <3>1. /\ base.authed = TRUE /\ base.session = p.account /\ base.userId = p.account
          /\ base.profile = p.data /\ base.guard = shell.guard
      BY ZenonT(30), <2>0, AuthedView
    <3>. HIDE DEF base
    <3>2. shell' = base
      BY <1>4 DEF base
    <3>. QED BY <3>1, <3>2
  <2>. HIDE DEF new
  <2>4. ShownOK'
    BY <1>1, <1>2, <1>4, <2>1, <2>2, <2>3
       DEF ShownOK, RefreshesOK, AuthedOK, ShowsOnlyTheSession
  <2>5. FollowsOK'
    BY <1>1, <1>4, <2>1, <2>3 DEF FollowsOK, GuardOK, Follows
  <2>. QED BY <2>4, <2>5
<1>. QED BY <1>3, <1>4 DEF ProfileNotified

-----------------------------------------------------------------------------
(* The theorems. *)

(* The page is loaded: one refresh with the cookie.                        *)
LEMMA InitInv == Init => Inv
<1>. SUFFICES ASSUME Init PROVE Inv
  OBVIOUS
<1>. DEFINE new == Refresh(jar.session, FALSE)
<1>1. jar.session \in MaybeUser /\ jar.nonce = None /\ jar \in JarType
  BY DEF Init, JarType
<1>2. /\ new \in RefreshType /\ new.stage = "session" /\ new.asked = jar.session
      /\ new.soft = FALSE /\ refreshes = {new}
  BY <1>1, NewRefreshOK DEF Init
<1>3. Types
  <2>1. NoAttempt \in AttemptType /\ NoCheck \in CheckType
    BY DEF NoAttempt, AttemptType, Stages, MaybeUser, NoCheck, CheckType, MaybeWallet
  <2>2. shell \in ShellType
    BY DEF Init, ShellType, MaybeUser, MaybeWallet, JoinPhases
  <2>3. refreshes \in SUBSET RefreshType
    BY <1>2
  <2>. HIDE DEF new
  <2>4. attempts \in [Signers -> AttemptType] /\ check \in CheckType
    BY <2>1 DEF Init
  <2>5. wallet \in MaybeWallet /\ account \in MaybeUser /\ events \in 0..MaxEvents
    BY AuthAssumption DEF Init, MaybeWallet, MaybeUser
  <2>6. sheet \in SheetType
    BY DEF Init, SheetType, Rails, MaybeWallet
  <2>. QED BY <1>1, <2>2, <2>3, <2>4, <2>5, <2>6 DEF Init, Types
<1>. HIDE DEF new
<1>4. ~shell.authed /\ ~shell.guard /\ saves = {}
  BY DEF Init
<1>5. RefreshesOK /\ SavesOK /\ AuthedOK /\ ShowsOnlyTheSession
  BY <1>2, <1>4 DEF RefreshesOK, SavesOK, AuthedOK, ShowsOnlyTheSession
<1>6. GuardOK /\ Follows
  BY <1>2, <1>4 DEF GuardOK, Follows
<1>. QED BY <1>3, <1>5, <1>6 DEF Inv

(* The invariant holds in every reachable state, for any wallets and any   *)
(* number of events.                                                       *)
THEOREM Invariance == Spec => []Inv
<1>1. Inv /\ [Next]_vars => Inv'
  <2>. SUFFICES ASSUME Inv, [Next]_vars PROVE Inv'
    OBVIOUS
  <2>1. Types'
    BY TypesStep DEF Inv
  <2>2. ShownOK' /\ FollowsOK'
    <3>1. CASE JoinSteps
      BY <2>1, <3>1, JoinStepsBeside, BesideOK DEF Inv
    <3>2. \/ JoinSteps
          \/ \E s \in Signers : SiweVerified(s) \/ SiwsVerified(s) \/ StatusAnswered(s)
          \/ \E r \in refreshes : SessionAnswered(r) \/ SessionUnread(r) \/ MeAnswered(r)
          \/ signOutScoopSession \/ SignOutAnswered \/ SignOutFails
          \/ SaveProfile \/ \E p \in saves : SaveAnswered(p) \/ ProfileNotified(p)
      BY DEF Next, Answer, Progress, JoinSteps
    <3>. QED
      BY <3>1, <3>2, SiweVerifiedOK, SiwsVerifiedOK, StatusAnsweredOK, SessionAnsweredOK,
         SessionUnreadOK, MeAnsweredOK, SignOutOK, SaveOK, ProfileNotifiedOK
  <2>. QED BY <2>1, <2>2 DEF Inv, ShownOK, FollowsOK
<1>. QED BY InitInv, <1>1, PTL DEF Spec

(* Every variable keeps its type, and one refresh is valid at a time.      *)
THEOREM TypeCorrect == Spec => []TypeOK
<1>1. Inv => TypeOK
  <2>. SUFFICES ASSUME Inv PROVE TypeOK
    OBVIOUS
  <2>1. Cardinality(refreshes) <= 1
    <3>1. refreshes = {} \/ \E r \in refreshes : refreshes = {r}
      BY DEF Inv, RefreshesOK
    <3>. QED BY SMTT(30), <3>1, FS_EmptySet, FS_Singleton
  <2>. QED
    BY <2>1 DEF Inv, Types, TypeOK, JarType, ShellType, RefreshType, CheckType, AttemptType,
                SaveType, SheetType, MaybeWallet
<1>. QED BY <1>1, Invariance, PTL

(* The shell never shows another user's account, nor any after a sign-out, *)
(* in whatever order the answers arrive.                                   *)
THEOREM OnlyTheSession == Spec => []ShowsOnlyTheSession
<1>1. Inv => ShowsOnlyTheSession
  BY DEF Inv
<1>. QED BY <1>1, Invariance, PTL

(* Once everything is answered, the shell shows the session of the cookie. *)
THEOREM FollowsCookie == Spec => []ChromeFollowsCookie
<1>1. Inv => ChromeFollowsCookie
  BY DEF Inv, Follows, Underway, Shown, ChromeFollowsCookie, Quiet, Idle
<1>. QED BY <1>1, Invariance, PTL
=============================================================================
