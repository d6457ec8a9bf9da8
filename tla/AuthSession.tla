---------------------------- MODULE AuthSession ----------------------------
(***************************************************************************)
(* Sign-in in the browser (apps/web): the shell's account button           *)
(* (WalletSlotLive), the other places that sign in and out, and the four   *)
(* routes of /api/auth.  The session is a sealed cookie: the server keeps  *)
(* nothing.  A request carries the cookie of the moment it is sent, and    *)
(* what its response sets or clears counts when the response arrives.      *)
(*                                                                         *)
(* A user is the wallet that signs.  Everything the page awaits is a       *)
(* record or a set of records, and answers arrive in any order.            *)
(***************************************************************************)
EXTENDS Naturals, FiniteSets

CONSTANTS
  Wallets,       \* EVM wallets, each with its user
  SolanaWallets, \* Solana wallets, which sign in through the sheet (SIWS)
  None,
  MaxEvents      \* bound: sign-in attempts, changes of the wallet, profile
                 \* saves, changes by another tab and failed requests together

Users == Wallets \cup SolanaWallets
MaybeUser == Users \cup {None}

ASSUME AuthAssumption ==
  /\ None \notin Users /\ Wallets \cap SolanaWallets = {}
  /\ MaxEvents \in Nat

Signers == {"shell", "page", "sheet"}
Stages == {"idle", "nonce", "sign", "verify", "status", "refresh"}
JoinPhases == {"idle", "opening_wallet", "wallet_connected_pending_siwe",
               "siwe_in_progress", "authenticated", "needs_finish", "failed"}
Rails == {"closed", "eip155", "solana"}
BusyPhases == {"opening_wallet", "wallet_connected_pending_siwe",
               "siwe_in_progress"}

VARIABLES
  jar,        \* cookies: the session's user, and whose nonce it is
  wallet,     \* the connected EVM wallet
  shell,      \* WalletSlotLive: state and refs
  refreshes,  \* its calls of refreshChrome that are still valid
  check,      \* its read of the session before an automatic sign-in
  attempts,   \* requestSiweSession or requestSiwsSession of every place
  saves,      \* profile saves and their notification
  leaving,    \* POST /api/auth/signout is in flight
  sheet,      \* the build's interface (custom: SCOOP's connect sheet, or else
              \* AppKit's modal), whether it is open, the wallet being connected
  account,    \* the user that the account page has loaded
  events,     \* what the bound counts
  disturbed,  \* history: a request failed or another tab changed the cookies,
  misfiled,   \* a save was sent under another user's cookie,
  dropped,    \* a wallet disconnected during a join, and
  stranded    \* a join was left with no wallet and nothing to choose one in

vars == <<jar, wallet, shell, refreshes, check, attempts, saves, leaving,
          sheet, account, events, disturbed, misfiled, dropped, stranded>>

NoCheck == [wallet |-> None, asked |-> None]
NoAttempt == [stage |-> "idle", wallet |-> None, ok |-> FALSE]

TypeOK ==
  /\ jar \in [session : MaybeUser, nonce : Signers \cup {None}]
  /\ wallet \in Wallets \cup {None}
  /\ shell \in [authed : BOOLEAN, session : MaybeUser, profile : MaybeUser,
                userId : MaybeUser, guard : BOOLEAN, phase : JoinPhases,
                intent : BOOLEAN, tried : Wallets \cup {None}]
  /\ refreshes \subseteq [stage : {"session", "me"}, asked : MaybeUser,
                          who : MaybeUser, soft : BOOLEAN]
  /\ Cardinality(refreshes) <= 1
  /\ check \in [wallet : Wallets \cup {None}, asked : MaybeUser]
  /\ attempts \in [Signers -> [stage : Stages, wallet : MaybeUser,
                               ok : BOOLEAN]]
  /\ saves \subseteq [stage : {"patch", "session"}, account : Users,
                      data : MaybeUser, asked : MaybeUser]
  /\ sheet \in [custom : BOOLEAN, rail : Rails, connecting : Wallets \cup {None}]
  /\ leaving \in BOOLEAN /\ account \in MaybeUser
  /\ events \in 0..MaxEvents /\ disturbed \in BOOLEAN
  /\ misfiled \in BOOLEAN /\ dropped \in BOOLEAN /\ stranded \in BOOLEAN

Refresh(asked, soft) ==
  [stage |-> "session", asked |-> asked, who |-> None, soft |-> soft]

Init ==
  /\ jar \in [session : MaybeUser, nonce : {None}]
  /\ wallet \in Wallets \cup {None}
  /\ shell = [authed |-> FALSE, session |-> None, profile |-> None,
              userId |-> None, guard |-> FALSE, phase |-> "idle",
              intent |-> FALSE, tried |-> None]
  /\ refreshes = {Refresh(jar.session, FALSE)}
  /\ check = NoCheck
  /\ attempts = [s \in Signers |-> NoAttempt]
  /\ sheet \in [custom : BOOLEAN, rail : {"closed"}, connecting : {None}]
  /\ saves = {} /\ leaving = FALSE /\ account = None
  /\ events = 0 /\ disturbed = FALSE
  /\ misfiled = FALSE /\ dropped = FALSE /\ stranded = FALSE

Event == events < MaxEvents /\ events' = events + 1 /\ UNCHANGED disturbed
Disturbance == events < MaxEvents /\ events' = events + 1 /\ disturbed' = TRUE

used == <<events, disturbed>>
history == <<misfiled, dropped, stranded>>

\* History: what has just ended could have released a join that waits for a
\* wallet, and it has nothing left to choose one in.
MayStrand(connecting) ==
  /\ stranded' = (stranded \/ (/\ shell.phase = "opening_wallet"
                               /\ sheet.rail = "closed" /\ wallet = None
                               /\ connecting = None))
  /\ UNCHANGED <<misfiled, dropped>>

-----------------------------------------------------------------------------
(* The shell's chrome *)

clearProfileChrome(s) ==
  [s EXCEPT !.authed = FALSE, !.session = None, !.profile = None,
            !.userId = None]

clearAuthenticatedChrome(s) ==
  [clearProfileChrome(s) EXCEPT !.phase = "idle", !.intent = FALSE,
                                !.tried = None]

\* The effect on scoopAuthed ends a join when it becomes true.
Authed(s, user, profile) ==
  LET shown == [s EXCEPT !.authed = TRUE, !.session = user, !.userId = user,
                         !.profile = profile]
  IN  IF s.authed THEN shown
      ELSE [shown EXCEPT !.phase = "authenticated", !.intent = FALSE]

\* A refresh that a later one or a sign-out has overtaken changes nothing when
\* it is answered: refreshGen and authEpoch.
SupersededSlip(rs) == rs
Superseded(rs) == {}

refreshChrome(soft) ==
  refreshes' = Superseded(refreshes) \cup {Refresh(jar.session, soft)}

\* The session's answer.  A sign-out that the cookie still lags behind clears
\* the chrome again.
SessionAnswered(r) ==
  /\ r \in refreshes /\ r.stage = "session"
  /\ \/ /\ r.asked = None
        /\ shell' = clearProfileChrome(shell)
        /\ refreshes' = refreshes \ {r}
        /\ MayStrand(sheet.connecting)
     \/ /\ r.asked # None /\ shell.guard
        /\ shell' = clearAuthenticatedChrome(shell)
        /\ refreshes' = refreshes \ {r}
        /\ UNCHANGED history
     \/ /\ r.asked \in SolanaWallets /\ ~shell.guard
        /\ shell' = [Authed(shell, r.asked, r.asked) EXCEPT
                       !.phase = "authenticated"]
        /\ refreshes' = refreshes \ {r}
        /\ UNCHANGED history
     \/ /\ r.asked \in Wallets /\ ~shell.guard
        /\ LET switched == shell.userId \notin {None, r.asked}
           IN  shell' = Authed(shell, r.asked,
                               IF r.soft /\ ~switched THEN shell.profile
                                                      ELSE r.asked)
        /\ refreshes' = (refreshes \ {r}) \cup
             {[r EXCEPT !.stage = "me", !.who = r.asked, !.asked = jar.session]}
        /\ UNCHANGED history
  /\ UNCHANGED <<jar, wallet, check, attempts, saves, leaving, sheet, account,
                 used>>

\* A failed read of the session is the same as none.
SessionUnread(r) ==
  /\ r \in refreshes /\ r.stage = "session" /\ Disturbance
  /\ shell' = clearProfileChrome(shell)
  /\ refreshes' = refreshes \ {r}
  /\ MayStrand(sheet.connecting)
  /\ UNCHANGED <<jar, wallet, check, attempts, saves, leaving, sheet, account>>

MeAnsweredSlip(r) ==
  /\ r \in refreshes /\ r.stage = "me"
  /\ refreshes' = refreshes \ {r}
  /\ shell' = IF r.asked = None THEN shell ELSE [shell EXCEPT !.profile = r.asked]
  /\ UNCHANGED <<jar, wallet, check, attempts, saves, leaving, sheet, account,
                 used, history>>

\* GET /api/account/me is answered for the cookie it was sent with: the profile
\* of another user than the session's is not shown.
MeAnswered(r) ==
  /\ r \in refreshes /\ r.stage = "me"
  /\ refreshes' = refreshes \ {r}
  /\ shell' = IF r.asked = r.who THEN [shell EXCEPT !.profile = r.who] ELSE shell
  /\ UNCHANGED <<jar, wallet, check, attempts, saves, leaving, sheet, account,
                 used, history>>

-----------------------------------------------------------------------------
(* The wallet and the connect sheet *)

EndJoin(s) == [s EXCEPT !.phase = "idle", !.intent = FALSE, !.tried = None]

Idle(s) == attempts[s].stage = "idle"

\* The effects of a change of the wallet: a refresh, and the read of the session
\* that precedes an automatic sign-in; a read under way is cancelled.
WalletChanged(w) ==
  /\ wallet' = w
  /\ refreshChrome(FALSE)
  /\ check' = IF /\ shell.intent /\ Idle("shell") /\ ~shell.authed
                 /\ w # None /\ w # shell.tried
              THEN [wallet |-> w, asked |-> jar.session]
              ELSE NoCheck

\* A wallet is chosen in the modal, or on the sheet's Ethereum rail while no
\* Solana wallet signs there, and asks its user.
Choose(w) ==
  /\ sheet.rail # "closed" /\ sheet.connecting = None /\ wallet # w /\ Event
  /\ sheet.rail = "solana" => Idle("sheet")
  /\ sheet' = [sheet EXCEPT !.rail = "eip155", !.connecting = w]
  /\ UNCHANGED <<jar, wallet, shell, refreshes, check, attempts, saves, leaving,
                 account, history>>

\* The wallet is attached, and a sheet left meanwhile does not stop it.  The
\* sheet closes as completed, of which the shell resets nothing; one that was
\* opened anew, or connects by email, stays.
Connected ==
  /\ sheet.connecting # None
  /\ \E rail \in {sheet.rail, "closed"} :
       /\ sheet.rail = "solana" => rail = "solana"
       /\ sheet' = [sheet EXCEPT !.rail = rail, !.connecting = None]
  /\ WalletChanged(sheet.connecting)
  /\ UNCHANGED <<jar, shell, attempts, saves, leaving, account, used, history>>

\* The connection is rejected or fails.  A modal that was closed before has had
\* its chance to release the join: modalWasOpenRef is down.
ConnectFails ==
  /\ sheet.connecting # None
  /\ sheet' = [sheet EXCEPT !.connecting = None]
  /\ MayStrand(None)
  /\ UNCHANGED <<jar, wallet, shell, refreshes, check, attempts, saves, leaving,
                 account, used>>

\* The account is changed in the wallet.
Switch(w) ==
  /\ wallet \notin {None, w} /\ Event
  /\ WalletChanged(w)
  /\ UNCHANGED <<jar, shell, attempts, saves, leaving, sheet, account, history>>

Disconnect ==
  /\ wallet # None /\ Event
  /\ WalletChanged(None)
  /\ dropped' = (dropped \/ shell.phase \in BusyPhases)
  /\ UNCHANGED <<jar, shell, attempts, saves, leaving, sheet, account,
                 misfiled, stranded>>

Closed == [sheet EXCEPT !.rail = "closed"]

\* The sheet is dismissed: shouldResetJoinAfterScoopAuthDismiss.
DismissSheetSlip ==
  /\ sheet.custom /\ sheet.rail # "closed" /\ sheet' = Closed
  /\ shell' = IF ~shell.authed /\ shell.phase \in BusyPhases \ {"opening_wallet"}
              THEN EndJoin(shell) ELSE shell
  /\ UNCHANGED <<jar, wallet, refreshes, check, attempts, saves, leaving,
                 account, used, history>>

DismissSheet ==
  /\ sheet.custom /\ sheet.rail # "closed" /\ sheet' = Closed
  /\ shell' = IF ~shell.authed /\ shell.phase \in BusyPhases
              THEN EndJoin(shell) ELSE shell
  /\ UNCHANGED <<jar, wallet, refreshes, check, attempts, saves, leaving,
                 account, used, history>>

\* AppKit's modal is closed: shouldResetJoinAfterModalClose.
CloseModal ==
  /\ ~sheet.custom /\ sheet.rail # "closed" /\ sheet' = Closed
  /\ shell' = IF /\ ~shell.authed /\ wallet = None /\ sheet.connecting = None
                 /\ Idle("shell") /\ shell.phase = "opening_wallet"
              THEN EndJoin(shell) ELSE shell
  /\ UNCHANGED <<jar, wallet, refreshes, check, attempts, saves, leaving,
                 account, used, history>>

\* Another place asks for a wallet: requestScoopConnect.
OpenSheet ==
  /\ sheet.rail = "closed" /\ sheet' = [sheet EXCEPT !.rail = "eip155"]
  /\ events < MaxEvents
  /\ UNCHANGED <<jar, wallet, shell, refreshes, check, attempts, saves, leaving,
                 account, used, history>>

-----------------------------------------------------------------------------
(* Signing in *)

Attempt(w) == [NoAttempt EXCEPT !.stage = "nonce", !.wallet = w]

\* runSiwe of the shell.
RunSiwe(s, w) ==
  /\ attempts' = [attempts EXCEPT !["shell"] = Attempt(w)]
  /\ shell' = [s EXCEPT !.phase = "siwe_in_progress", !.tried = w]

\* onUnsignedClick and beginJoinIntent, or the click that loaded the shell.
Join ==
  /\ ~shell.authed /\ Idle("shell") /\ shell.phase \notin BusyPhases
  /\ sheet.connecting = None /\ Event
  /\ LET joining == [shell EXCEPT !.intent = TRUE, !.tried = None]
     IN  \/ /\ wallet # None
            /\ RunSiwe(joining, wallet)
            /\ UNCHANGED sheet
         \/ /\ wallet = None
            /\ shell' = [joining EXCEPT !.phase = "opening_wallet"]
            /\ sheet' = [sheet EXCEPT !.rail = "eip155"]
            /\ UNCHANGED attempts
  /\ UNCHANGED <<jar, wallet, refreshes, check, saves, leaving, account, history>>

resolveScoopAuthState(session, connected) ==
  CASE session = None      -> "connected_unsigned"
    [] session = connected -> "authenticated_match"
    [] OTHER               -> "wallet_mismatch"

\* The read of the session before an automatic sign-in is answered.
CheckAnswered ==
  /\ check # NoCheck
  /\ check' = NoCheck
  /\ LET state == resolveScoopAuthState(check.asked, check.wallet)
     IN  \/ /\ ~shell.intent
            /\ UNCHANGED <<shell, attempts, refreshes>>
         \/ /\ shell.intent /\ state = "authenticated_match"
            /\ shell' = [shell EXCEPT !.phase = "authenticated",
                                      !.intent = FALSE, !.tried = None]
            /\ refreshChrome(FALSE)
            /\ UNCHANGED attempts
         \/ /\ shell.intent /\ state # "authenticated_match" /\ Idle("shell")
            /\ RunSiwe(shell, check.wallet)
            /\ UNCHANGED refreshes
         \/ /\ shell.intent /\ state # "authenticated_match" /\ ~Idle("shell")
            /\ UNCHANGED <<shell, attempts, refreshes>>
  /\ UNCHANGED <<jar, wallet, saves, leaving, sheet, account, used, history>>

\* The account page, or the page that asks for the wallet's own session.
PageSignIn ==
  /\ Idle("page") /\ wallet # None /\ Event
  /\ attempts' = [attempts EXCEPT !["page"] = Attempt(wallet)]
  /\ UNCHANGED <<jar, wallet, shell, refreshes, check, saves, leaving, sheet,
                 account, history>>

\* A Solana wallet is connected on the sheet's other rail and signs in there.
SheetSignIn(w) ==
  /\ sheet.custom /\ sheet.rail # "closed" /\ Idle("sheet") /\ Event
  /\ sheet' = [sheet EXCEPT !.rail = "solana"]
  /\ attempts' = [attempts EXCEPT !["sheet"] = Attempt(w)]
  /\ UNCHANGED <<jar, wallet, shell, refreshes, check, saves, leaving, account,
                 history>>

\* The nonce's cookie arrives with its answer; one browser keeps one nonce.
NonceAnswered(s) ==
  /\ attempts[s].stage = "nonce"
  /\ jar' = [jar EXCEPT !.nonce = s]
  /\ attempts' = [attempts EXCEPT ![s].stage = "sign"]
  /\ UNCHANGED <<wallet, shell, refreshes, check, saves, leaving, sheet,
                 account, used, history>>

\* The connector signs with the account it has now.  The server compares the
\* nonce of the message with the cookie's, and the signer with the address.
Sign(s) ==
  /\ attempts[s].stage = "sign"
  /\ s # "sheet" => wallet # None
  /\ attempts' = [attempts EXCEPT
       ![s].stage = "verify",
       ![s].ok = jar.nonce = s /\ (s = "sheet" \/ wallet = attempts[s].wallet)]
  /\ UNCHANGED <<jar, wallet, shell, refreshes, check, saves, leaving, sheet,
                 account, used, history>>

\* What runSiwe makes of an attempt that failed, and of one that was cancelled.
Failed(s, phase) ==
  /\ attempts' = [attempts EXCEPT ![s] = NoAttempt]
  /\ shell' = IF s = "shell" THEN [shell EXCEPT !.intent = FALSE, !.phase = phase]
                             ELSE shell

\* The user cancels, or the signer fails.
SignRejected(s) ==
  /\ attempts[s].stage = "sign"
  /\ \E phase \in {"needs_finish", "failed"} : Failed(s, phase)
  /\ UNCHANGED <<jar, wallet, refreshes, check, saves, leaving, sheet, account,
                 used, history>>

\* Both answers of /api/auth/verify clear the nonce, one sets the session.
VerifyRefused(s) ==
  /\ attempts[s].stage = "verify" /\ ~attempts[s].ok
  /\ jar' = [jar EXCEPT !.nonce = None]
  /\ Failed(s, "failed")
  /\ UNCHANGED <<wallet, refreshes, check, saves, leaving, sheet, account, used,
                 history>>

Verified(s) ==
  /\ attempts[s].stage = "verify" /\ attempts[s].ok
  /\ jar' = [session |-> attempts[s].wallet, nonce |-> None]

\* Then requestSiweSession reads the session back, with the cookie just set.
SiweVerified(s) ==
  /\ s # "sheet" /\ Verified(s)
  /\ attempts' = [attempts EXCEPT ![s].stage = "status"]
  /\ UNCHANGED <<wallet, shell, refreshes, check, saves, leaving, sheet,
                 account, used, history>>

\* The host hears of a sign-in and closes the sheet as completed, unless it
\* leads to Solana: a join that waits for a wallet is not released.
HostHears ==
  sheet' = IF sheet.custom /\ sheet.rail = "eip155" THEN Closed ELSE sheet

\* requestSiwsSession takes the answer's word, and notifies.  Then its sheet
\* closes as completed, of which the shell gives up a join that waited for an
\* Ethereum wallet; one opened since has been closed by the host.
SiwsVerified(s) ==
  /\ s = "sheet" /\ Verified(s)
  /\ attempts' = [attempts EXCEPT ![s] = NoAttempt]
  /\ refreshes' = Superseded(refreshes) \cup {Refresh(attempts[s].wallet, FALSE)}
  /\ \/ /\ sheet.rail = "solana" /\ sheet' = Closed
        /\ shell' = [EndJoin(shell) EXCEPT !.guard = FALSE]
     \/ /\ sheet.rail # "solana" /\ HostHears
        /\ shell' = [shell EXCEPT !.guard = FALSE]
  /\ UNCHANGED <<wallet, check, saves, leaving, account, used, history>>

SignedIn(s) ==
  LET heard == [shell EXCEPT !.guard = FALSE]
  IN  IF s = "shell" THEN [EndJoin(heard) EXCEPT !.phase = "authenticated"]
                     ELSE heard

StatusAnsweredSlip(s) ==
  /\ attempts[s].stage = "status"
  /\ shell' = SignedIn(s)
  /\ attempts' = [attempts EXCEPT ![s] = NoAttempt]
  /\ HostHears
  /\ UNCHANGED <<jar, wallet, refreshes, check, saves, leaving, account, used,
                 history>>

\* The session is the one just signed: signin is notified, and the shell
\* refreshes (twice when it is its own attempt, of which the second counts).
StatusAnswered(s) ==
  /\ attempts[s].stage = "status"
  /\ shell' = SignedIn(s)
  /\ attempts' = [attempts EXCEPT
       ![s] = IF s = "shell" THEN [NoAttempt EXCEPT !.stage = "refresh"]
                             ELSE NoAttempt]
  /\ refreshChrome(FALSE)
  /\ HostHears
  /\ UNCHANGED <<jar, wallet, check, saves, leaving, account, used, history>>

\* runSiwe returns after the refresh it awaits.
SiweReturns ==
  /\ attempts["shell"].stage = "refresh"
  /\ attempts' = [attempts EXCEPT !["shell"] = NoAttempt]
  /\ UNCHANGED <<jar, wallet, shell, refreshes, check, saves, leaving, sheet,
                 account, used, history>>

\* A request of an attempt fails, before or after it has reached the server, or
\* the session read back is not the wallet's.
AttemptFails(s) ==
  /\ attempts[s].stage \in {"nonce", "verify", "status"} /\ Disturbance
  /\ \/ UNCHANGED jar
     \/ attempts[s].stage = "verify" /\ jar' = [jar EXCEPT !.nonce = None]
  /\ Failed(s, "failed")
  /\ UNCHANGED <<wallet, refreshes, check, saves, leaving, sheet, account,
                 history>>

-----------------------------------------------------------------------------
(* Signing out, and the account page *)

SignedOut(s) == [clearAuthenticatedChrome(s) EXCEPT !.guard = TRUE]

\* The notification reaches the refreshes and the notified saves under way.
NotifySignOut ==
  /\ shell' = SignedOut(shell)
  /\ refreshes' = Superseded(refreshes)
  /\ saves' = {p \in saves : p.stage = "patch"}

\* The account page loads the account of the cookie, at any time: a change of
\* the wallet or a save starts it.
LoadAccount ==
  /\ account # jar.session
  /\ account' = jar.session
  /\ UNCHANGED <<jar, wallet, shell, refreshes, check, attempts, saves, leaving,
                 sheet, used, history>>

signOutScoopSession ==
  /\ account # None /\ ~leaving
  /\ leaving' = TRUE
  /\ NotifySignOut
  /\ UNCHANGED <<jar, wallet, check, attempts, sheet, account, used, history>>

SignOutAnswered ==
  /\ leaving /\ leaving' = FALSE
  /\ jar' = [session |-> None, nonce |-> None]
  /\ account' = None
  /\ NotifySignOut
  /\ UNCHANGED <<wallet, check, attempts, sheet, used, history>>

SignOutFails ==
  /\ leaving /\ leaving' = FALSE /\ Disturbance
  /\ NotifySignOut
  /\ UNCHANGED <<jar, wallet, check, attempts, sheet, account, history>>

\* PATCH /api/account/profile writes to, and answers for, the cookie's user.
SaveProfile ==
  /\ account # None /\ Event
  /\ saves' = saves \cup {[stage |-> "patch", account |-> account,
                           data |-> jar.session, asked |-> None]}
  /\ misfiled' = (misfiled \/ jar.session \notin {None, account})
  /\ UNCHANGED <<jar, wallet, shell, refreshes, check, attempts, leaving, sheet,
                 account, dropped, stranded>>

\* The page publishes the answer as the profile of the account it shows.
SaveAnswered(p) ==
  /\ p \in saves /\ p.stage = "patch"
  /\ saves' = IF p.data = None \/ shell.guard THEN saves \ {p}
              ELSE (saves \ {p}) \cup
                     {[p EXCEPT !.stage = "session", !.asked = jar.session]}
  /\ UNCHANGED <<jar, wallet, shell, refreshes, check, attempts, leaving, sheet,
                 account, used, history>>

\* The shell shows a published profile while it is the session's user's.
ProfileNotified(p) ==
  /\ p \in saves /\ p.stage = "session"
  /\ saves' = saves \ {p}
  /\ IF shell.guard \/ p.asked # p.account
     THEN UNCHANGED <<shell, refreshes>>
     ELSE shell' = Authed(shell, p.asked, p.data) /\ refreshChrome(TRUE)
  /\ UNCHANGED <<jar, wallet, check, attempts, leaving, sheet, account, used,
                 history>>

\* Another tab shares the cookies and sends no notification.
OtherTab ==
  /\ Disturbance
  /\ \E user \in MaybeUser \ {jar.session} : jar' = [session |-> user, nonce |-> None]
  /\ UNCHANGED <<wallet, shell, refreshes, check, attempts, saves, leaving,
                 sheet, account, history>>

-----------------------------------------------------------------------------
Answer ==
  \/ \E r \in refreshes : SessionAnswered(r) \/ MeAnswered(r)
  \/ CheckAnswered \/ SignOutAnswered \/ SiweReturns
  \/ \E p \in saves : SaveAnswered(p) \/ ProfileNotified(p)

Progress(s) ==
  \/ NonceAnswered(s) \/ Sign(s) \/ SignRejected(s) \/ VerifyRefused(s)
  \/ SiweVerified(s) \/ SiwsVerified(s) \/ StatusAnswered(s)

Next ==
  \/ Answer
  \/ \E s \in Signers : Progress(s) \/ AttemptFails(s)
  \/ \E r \in refreshes : SessionUnread(r)
  \/ \E w \in Wallets : Choose(w) \/ Switch(w)
  \/ Connected \/ ConnectFails \/ Disconnect
  \/ DismissSheet \/ CloseModal \/ OpenSheet
  \/ Join \/ PageSignIn \/ \E w \in SolanaWallets : SheetSignIn(w)
  \/ LoadAccount \/ signOutScoopSession \/ SignOutFails \/ SaveProfile
  \/ OtherTab

\* Requests are answered.  Assumed of the user, not of the code: no prompt of a
\* wallet, to connect or to sign, and no sheet or modal stays open for ever.
\* Nobody has to connect, sign or sign out.
Fairness ==
  /\ WF_vars(Answer)
  /\ \A s \in Signers : WF_vars(Progress(s))
  /\ WF_vars(Connected \/ ConnectFails)
  /\ WF_vars(DismissSheet \/ CloseModal)

Spec == Init /\ [][Next]_vars /\ Fairness

-----------------------------------------------------------------------------
(* Properties *)

\* "Never apply another user's profile into this shell" (WalletSlotLive.tsx:303),
\* nor any after a sign-out, whatever arrives late; a save that the account page
\* sends under the cookie of another user is the one way around it.
ShowsOnlyTheSession ==
  shell.authed => /\ ~shell.guard
                  /\ shell.userId = shell.session
                  /\ misfiled \/ shell.profile = shell.session

Quiet ==
  /\ refreshes = {} /\ check = NoCheck /\ saves = {} /\ ~leaving
  /\ \A s \in Signers : Idle(s)

\* Once everything is answered, the shell shows the session of the cookie, in
\* whatever order sign-ins and sign-outs overlapped: no stale answer has the last
\* word.  Failed requests and other tabs are not covered.
ChromeFollowsCookie ==
  Quiet /\ ~disturbed =>
    jar.session = IF shell.authed THEN shell.session ELSE None

\* The button of a join does not stay disabled ("clear Connecting... back to Join
\* SCOOP", WalletSlotLive.tsx:494 and 530), whether the sheet or the modal is left,
\* the wallet refuses, or another place signs in meanwhile.  Three cases are out:
\* the wallet disconnects during the join; a sign-in elsewhere closes the sheet
\* and the session is gone when the shell looks; the connection fails after the
\* modal that began it was closed.  In these only a new page releases it.
JoinSettles ==
  shell.phase \in BusyPhases ~>
    (shell.phase \notin BusyPhases \/ dropped \/ stranded)

=============================================================================
