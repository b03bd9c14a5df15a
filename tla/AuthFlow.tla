------------------------------ MODULE AuthFlow ------------------------------
(***************************************************************************)
(* Signing in, staying signed in and connecting drives: the three cookies  *)
(* (session.py), the OAuth round trips (auth.py, oauth_state.py, main.py), *)
(* the cached access tokens (token_cache.py, drive_client.py) and the      *)
(* vault that is decrypted with whatever SECRET_KEY the server runs with.  *)
(*                                                                         *)
(* A route is one step: what happens between its calls is VaultStore's     *)
(* business.  Here requests differ in the tokens they find.                *)
(*                                                                         *)
(* Of Google this takes: an OAuth client sees in an account only the files *)
(* and the appDataFolder it made itself (drive.file, drive.appdata); an    *)
(* access token outlives a refresh token that expires; a refresh token     *)
(* works only for the client it was given to.                              *)
(***************************************************************************)
EXTENDS Integers, FiniteSets

CONSTANTS
    Browsers,
    Accounts,   \* Google accounts
    Users,      \* accounts somebody signs in with
    Clients,    \* OAuth clients people bring
    ClientsOf,  \* ClientsOf[a]: the clients account a is ever authorised for
    Mortal,     \* accounts whose refresh tokens may expire
    SecretKeys, \* how many SECRET_KEYs take turns
    MaxRestarts, \* bound: restarts with another one
    MaxDrives,  \* MAX_DRIVES_PER_USER
    MaxDeaths,  \* bound: times tokens expire, all of them one account's
    MaxChunks,  \* bound: chunks listed in a vault
    MaxFaults,  \* bound: failed calls to Google
    NONE

ASSUME UsersAssumption == Users \subseteq Accounts /\ Mortal \subseteq Accounts
ASSUME ClientsOfAssumption == ClientsOf \in [Accounts -> SUBSET Clients]
ASSUME BoundsAssumption ==
    /\ MaxDrives \in Nat \ {0} /\ MaxDeaths \in Nat /\ MaxFaults \in Nat
    /\ MaxChunks \in Nat
    /\ SecretKeys \in Nat \ {0} /\ MaxRestarts \in Nat

VARIABLES
    session,    \* the session cookie of each browser
    remember,   \* the remember cookie
    pending,    \* the pending-setup cookie: the OAuth client in it
    pages,      \* Google consent pages open in the browser's tabs
    gen,        \* how often the refresh tokens of an account have expired
    consented,  \* accounts and clients the primary scopes were granted for
    cache,      \* token_cache._tokens: the live access token of an account
    vault,      \* vault.enc of an account, as one OAuth client sees it
    backups,    \* the vault.enc.backup-... files beside it
    restarts,   \* restarts of the server with another SECRET_KEY
    last,       \* "expired": signed out, and not seen all drives since
    faults

cookies == <<session, remember, pending>>
google == <<gen, consented>>
stored == <<vault, backups>>
vars == <<cookies, pages, google, cache, stored, restarts, last, faults>>

Places == Accounts \X Clients

\* The server's SECRET_KEY.
Key == 0..(SecretKeys - 1)
key == restarts % SecretKeys

\* A refresh token, and what an access token made from it stands for.
Token == [account : Accounts, client : Clients, appdata : BOOLEAN,
          gen : 0..MaxDeaths]
Access == [account : Accounts, client : Clients, appdata : BOOLEAN]

\* A chunk: the drive it is recorded for, and where Drive has put it.
Chunk == [drive : Accounts, home : Places]
Vault == [key : Key, drives : SUBSET Token, files : SUBSET Chunk]

Session == [token : Token, key : Key]
\* Remember cookies of older versions have no refresh token.
Remember == [client : Clients, token : Token \cup {NONE}, key : Key]
Page == [purpose : {"login", "secondary"}, client : Clients]

Init ==
    /\ restarts = 0
    /\ session = [b \in Browsers |-> NONE]
    /\ remember \in [Browsers -> {NONE} \cup
                        {r \in Remember : r.token = NONE /\ r.key = key}]
    /\ pending = [b \in Browsers |-> NONE]
    /\ pages = [b \in Browsers |-> {}]
    /\ gen = [p \in Places |-> 0]
    /\ consented = {}
    /\ cache = [a \in Accounts |-> NONE]
    /\ vault = [p \in Places |-> NONE]
    /\ backups = [p \in Places |-> {}]
    /\ last = [b \in Browsers |-> "ok"]
    /\ faults = 0

\* A call to Google fails.
Fault == faults < MaxFaults /\ faults' = faults + 1

-----------------------------------------------------------------------------
(* Tokens.                                                                 *)

Readable(cookie) == cookie # NONE /\ cookie.key = key

Alive(t) == t.gen = gen[<<t.account, t.client>>]

MadeFrom(t) == [account |-> t.account, client |-> t.client,
                appdata |-> t.appdata]

\* token_cache.get
Cached(a) == cache[a]

\* The access token a DriveClient for t sends: the cached one, else a new one.
Sends(t) == IF Cached(t.account) # NONE THEN Cached(t.account) ELSE MadeFrom(t)

\* A DriveClient with t and the OAuth client c raises RefreshError.
Rejected(t, c) == Cached(t.account) = NONE /\ (~Alive(t) \/ t.client # c)

\* _touch_cache, after calls with each of T, which has one token an account.
Touched(T) ==
    [a \in Accounts |->
        LET mine == {t \in T : t.account = a}
        IN  IF mine = {} THEN cache[a] ELSE Sends(CHOOSE t \in mine : TRUE)]

\* Where a request with t finds appDataFolder, and where it uploads to.
Home(t) == <<Sends(t).account, Sends(t).client>>

\* Slip: without prompt=consent Google gives a refresh token the first time only.
ExchangeFirstTime(d, c, used) == used = c /\ <<d, c>> \notin consented

\* A code that account d has given to client c is good for c only; every page
\* asks for consent anew, so that a refresh token comes with it.
Exchange(d, c, used) == used = c

\* The refresh token of account d for client c.
NewToken(d, c, primary) ==
    [account |-> d, client |-> c, gen |-> gen[<<d, c>>],
     appdata |-> primary \/ <<d, c>> \in consented]

-----------------------------------------------------------------------------
(* The vault.                                                              *)

\* Slip: an account without a refresh token among the drives.
EmptyVaultUnmarked == [key |-> key, drives |-> {NONE}, files |-> {}]

EmptyVault == [key |-> key, drives |-> {}, files |-> {}]

Undecryptable(p) == vault[p] # NONE /\ vault[p].key # key

\* load_vault
Loaded(p) ==
    IF vault[p] = NONE \/ Undecryptable(p) THEN EmptyVault ELSE vault[p]

\* _backup_undecryptable_vault
Kept(p) == IF Undecryptable(p) THEN [backups EXCEPT ![p] = @ \cup {vault[p]}]
           ELSE backups

\* Slip: the text that can not be decrypted is not kept.
BackUpNothing(p) == UNCHANGED <<backups, faults>>

\* Best effort: if the backup fails the route goes on.
BackUp(p) ==
    \/ backups' = Kept(p) /\ UNCHANGED faults
    \/ Undecryptable(p) /\ Fault /\ UNCHANGED backups

\* save_vault, with the SECRET_KEY of now.
Save(p, v) == vault' = [vault EXCEPT ![p] = v]

\* The token can read and write the vault: it is accepted, and was given the
\* scope of appDataFolder.
Opens(t, c) == ~Rejected(t, c) /\ Sends(t).appdata

-----------------------------------------------------------------------------
(* Signing in.                                                             *)

\* _redirect_to_google_login: the pending cookie, and Google's page.
ToGoogle(b, c) ==
    /\ pending' = [pending EXCEPT ![b] = c]
    /\ pages' = [pages EXCEPT ![b] = @ \cup {[purpose |-> "login", client |-> c]}]

StartSetup(b, c) ==
    /\ ToGoogle(b, c)
    /\ UNCHANGED <<session, remember, google, cache, stored, restarts, last, faults>>

SignedIn(b, t) ==
    /\ session' = [session EXCEPT ![b] = [token |-> t, key |-> key]]
    /\ remember' = [remember EXCEPT ![b] =
                        [client |-> t.client, token |-> t, key |-> key]]

\* continue_with_remembered: get_storage_info has answered.
Continue(b) ==
    LET t == remember[b].token IN
    /\ Readable(remember[b])
    /\ t # NONE
    /\ ~Rejected(t, remember[b].client)
    /\ SignedIn(b, t)
    /\ cache' = Touched({t})
    /\ UNCHANGED <<pending, pages, google, stored, restarts, last, faults>>

\* No token, or the call has failed for whatever reason.
ContinueFallsBack(b) ==
    LET r == remember[b] IN
    /\ Readable(r)
    /\ \/ r.token = NONE /\ UNCHANGED faults
       \/ r.token # NONE /\ Rejected(r.token, r.client) /\ UNCHANGED faults
       \/ r.token # NONE /\ Fault
    /\ ToGoogle(b, r.client)
    /\ UNCHANGED <<session, remember, google, cache, stored, restarts, last>>

Logout(b) ==
    /\ session' = [session EXCEPT ![b] = NONE]
    /\ UNCHANGED <<remember, pending, pages, google, cache, stored, restarts, last,
                   faults>>

ForgetDevice(b) ==
    /\ session' = [session EXCEPT ![b] = NONE]
    /\ remember' = [remember EXCEPT ![b] = NONE]
    /\ UNCHANGED <<pending, pages, google, cache, stored, restarts, last, faults>>

Leaves(b, page) == pages' = [pages EXCEPT ![b] = @ \ {page}]

\* oauth_callback: account d has consented.
Callback(b, page, d) ==
    LET c == page.client
        t == NewToken(d, c, TRUE)
        p == Home(t)
    IN  /\ page \in pages[b] /\ page.purpose = "login"
        /\ c \in ClientsOf[d]
        /\ pending[b] # NONE /\ Exchange(d, c, pending[b])
        /\ Leaves(b, page)
        /\ consented' = consented \cup {<<d, c>>}
        /\ Opens(t, c)
        /\ BackUp(p)
        /\ Save(p, Loaded(p))
        /\ cache' = Touched({t})
        /\ SignedIn(b, t)
        /\ pending' = [pending EXCEPT ![b] = NONE]
        /\ UNCHANGED <<gen, restarts, last>>

\* It ends otherwise: the state or the pending cookie is too old or the latter
\* is for another client, the exchange fails; or the tokens are there but the
\* vault can not be opened, or not be saved.
CallbackFails(b, page, d) ==
    LET c == page.client
        t == NewToken(d, c, TRUE)
        p == Home(t)
    IN  /\ page \in pages[b] /\ page.purpose = "login"
        /\ c \in ClientsOf[d]
        /\ Leaves(b, page)
        /\ \/ UNCHANGED <<google, cache, backups, faults>>
           \/ /\ pending[b] # NONE /\ Exchange(d, c, pending[b])
              /\ consented' = consented \cup {<<d, c>>}
              /\ IF Opens(t, c)
                 THEN /\ Fault
                      /\ cache' = Touched({t})
                      /\ backups' \in {backups, Kept(p)}
                 ELSE UNCHANGED <<cache, backups, faults>>
              /\ UNCHANGED gen
        /\ UNCHANGED <<cookies, vault, restarts, last>>

-----------------------------------------------------------------------------
(* What a signed-in user does.                                             *)

\* handle_expired_refresh_token
SignedOut(b) ==
    /\ session' = [session EXCEPT ![b] = NONE]
    /\ remember' = [remember EXCEPT ![b] = NONE]
    /\ last' = [last EXCEPT ![b] = "expired"]

\* A route meets a refresh token Google rejects: the user's own, or that of one
\* of the drives in the vault, some of whose siblings were asked already.
RefreshFails(b) ==
    /\ Readable(session[b])
    /\ LET t == session[b].token
           p == Home(t)
           T == Loaded(p).drives
       IN  \/ /\ Rejected(t, t.client)
              /\ UNCHANGED <<cache, backups, faults>>
           \/ /\ Opens(t, t.client)
              /\ BackUp(p)
              /\ \E x \in T : Rejected(x, t.client)
              /\ \E S \in SUBSET {x \in T : ~Rejected(x, t.client)} :
                    cache' = Touched(S \cup {t})
    /\ SignedOut(b)
    /\ UNCHANGED <<pending, pages, google, vault, restarts>>

\* A route loads the vault, asks the drives D and answers: the pages, the
\* storage overview (all of D), a download.
Visit(b, D) ==
    /\ Readable(session[b])
    /\ LET t == session[b].token
           p == Home(t)
           T == {x \in Loaded(p).drives : x.account \in D}
       IN  /\ Opens(t, t.client)
           /\ BackUp(p)
           /\ \A x \in T : ~Rejected(x, t.client)
           /\ cache' = Touched(T \cup {t})
           /\ last' = IF T = Loaded(p).drives THEN [last EXCEPT ![b] = "ok"]
                      ELSE last
    /\ UNCHANGED <<cookies, pages, google, vault, restarts>>

\* upload_complete: free space of every drive, then the file goes to one.
Upload(b) ==
    /\ Readable(session[b])
    /\ LET t == session[b].token
           p == Home(t)
           v == Loaded(p)
       IN  /\ Cardinality(v.files) < MaxChunks
           /\ Opens(t, t.client)
           /\ BackUp(p)
           /\ \A x \in v.drives : ~Rejected(x, t.client)
           /\ cache' = Touched(v.drives \cup {t})
           /\ \E x \in v.drives \cup {t} :
                 Save(p, [v EXCEPT !.files = @ \cup
                             {[drive |-> x.account, home |-> Home(x)]}])
    /\ UNCHANGED <<cookies, pages, google, restarts, last>>

ConnectDrive(b) ==
    /\ Readable(session[b])
    /\ pages' = [pages EXCEPT ![b] = @ \cup
           {[purpose |-> "secondary", client |-> session[b].token.client]}]
    /\ UNCHANGED <<cookies, google, cache, stored, restarts, last, faults>>

\* oauth_callback_secondary: account d has consented.
CallbackSecondary(b, page, d) ==
    LET t == session[b].token
        p == Home(t)
        v == Loaded(p)
        known == {t.account} \cup {x.account : x \in v.drives}
    IN  /\ page \in pages[b] /\ page.purpose = "secondary"
        /\ page.client \in ClientsOf[d]
        /\ Readable(session[b])
        /\ Exchange(d, page.client, t.client)
        /\ d # t.account
        /\ Opens(t, t.client)
        /\ BackUp(p)
        /\ cache' = Touched({t})
        /\ IF Cardinality(known) >= MaxDrives \/ d \in known
           THEN UNCHANGED vault
           ELSE Save(p, [v EXCEPT !.drives =
                            @ \cup {NewToken(d, t.client, FALSE)}])
        /\ Leaves(b, page)
        /\ UNCHANGED <<cookies, google, restarts, last>>

\* The user gives up, the state is too old, or Google does not answer.
LeavePage(b, page) ==
    /\ page \in pages[b]
    /\ Leaves(b, page)
    /\ UNCHANGED <<cookies, google, cache, stored, restarts, last, faults>>

-----------------------------------------------------------------------------
(* Time, Google, and the operator of the server.                           *)

CookieExpires(b) ==
    /\ \/ session' = [session EXCEPT ![b] = NONE] /\ UNCHANGED <<remember, pending>>
       \/ remember' = [remember EXCEPT ![b] = NONE] /\ UNCHANGED <<session, pending>>
       \/ pending' = [pending EXCEPT ![b] = NONE] /\ UNCHANGED <<session, remember>>
    /\ UNCHANGED <<pages, google, cache, stored, restarts, last, faults>>

\* An access token ages (_EXPIRY_BUFFER), is revoked, or the process restarts.
CacheExpires(a) ==
    /\ cache' = [cache EXCEPT ![a] = NONE]
    /\ UNCHANGED <<cookies, pages, google, stored, restarts, last, faults>>

\* The refresh tokens account a has given to client c expire.
TokensExpire(a, c) ==
    /\ a \in Mortal
    /\ gen[<<a, c>>] < MaxDeaths
    /\ \A p \in Places : gen[p] > 0 => p = <<a, c>>
    /\ gen' = [gen EXCEPT ![<<a, c>>] = @ + 1]
    /\ UNCHANGED <<cookies, pages, consented, cache, stored, restarts, last, faults>>

\* The server is started again with another SECRET_KEY; or one with a key of its
\* own takes over.  What lives only for minutes is over by then.
ChangeKey ==
    /\ restarts < MaxRestarts
    /\ restarts' = restarts + 1
    /\ cache' = [a \in Accounts |-> NONE]
    /\ pending' = [b \in Browsers |-> NONE]
    /\ pages' = [b \in Browsers |-> {}]
    /\ UNCHANGED <<session, remember, google, stored, last, faults>>

-----------------------------------------------------------------------------
SignIn(b) == \E page \in pages[b], d \in Users : Callback(b, page, d)

Next ==
    \/ \E b \in Browsers :
          \/ \E c \in Clients : StartSetup(b, c)
          \/ Continue(b) \/ ContinueFallsBack(b) \/ Logout(b) \/ ForgetDevice(b)
          \/ SignIn(b)
          \/ \E page \in pages[b], d \in Users : CallbackFails(b, page, d)
          \/ RefreshFails(b) \/ \E D \in SUBSET Accounts : Visit(b, D)
          \/ Upload(b) \/ ConnectDrive(b)
          \/ \E page \in pages[b], d \in Accounts : CallbackSecondary(b, page, d)
          \/ \E page \in pages[b] : LeavePage(b, page)
          \/ CookieExpires(b)
    \/ \E a \in Accounts : CacheExpires(a)
    \/ \E a \in Accounts, c \in Clients : TokensExpire(a, c)
    \/ ChangeKey

Spec == Init /\ [][Next]_vars

\* The user comes back: fills in the form and consents, opens the dashboard,
\* which asks for the storage overview by itself.  Access tokens age.
FairSpec ==
    /\ Spec
    /\ \A b \in Browsers :
          /\ WF_vars(\E c \in Clients : StartSetup(b, c))
          /\ SF_vars(SignIn(b))
          /\ WF_vars(RefreshFails(b))
          /\ SF_vars(Visit(b, Accounts))
    /\ \A a \in Accounts : WF_vars(CacheExpires(a))

-----------------------------------------------------------------------------
TypeOK ==
    /\ session \in [Browsers -> Session \cup {NONE}]
    /\ remember \in [Browsers -> Remember \cup {NONE}]
    /\ pending \in [Browsers -> Clients \cup {NONE}]
    /\ pages \in [Browsers -> SUBSET Page]
    /\ gen \in [Places -> 0..MaxDeaths]
    /\ consented \subseteq Places
    /\ cache \in [Accounts -> Access \cup {NONE}]
    /\ \A p \in Places : vault[p] = NONE \/ vault[p] \in Vault
    /\ \A p \in Places : \A v \in backups[p] : v \in Vault
    /\ restarts \in 0..MaxRestarts
    /\ last \in [Browsers -> {"ok", "expired"}]
    /\ faults \in 0..MaxFaults

\* A vault written under another SECRET_KEY is replaced only when a copy of it
\* exists, or when the call that should have made the copy failed.
IndexKept ==
    [][\A p \in Places :
          vault'[p] # vault[p] /\ vault[p] # NONE /\ vault[p].key # key =>
              vault[p] \in backups'[p] \/ faults' > faults]_vars

\* The refresh token of a connected drive has expired.
DriveExpired ==
    \E p \in Places : vault[p] # NONE /\ \E x \in vault[p].drives : ~Alive(x)

\* Whoever is signed out because a token expired sees the dashboard, with all
\* drives, again: signing in once more is enough, if the token was the user's.
SignsInAgain ==
    \A b \in Browsers : last[b] = "expired" ~> (last[b] = "ok" \/ DriveExpired)

-----------------------------------------------------------------------------
(* What the documentation says and the code does not keep.                 *)

\* token_cache.py:3-4: "This is purely a latency optimization".  Whichever tokens
\* are cached, a listed file can be read with the tokens it will be read with: each
\* chunk is on the drive the vault says, where the vault's own OAuth client sees
\* it.  Not so once an account changes to a second client (AnnSwitches).
FilesAreReachable ==
    \A p \in Places : vault[p] # NONE =>
        \A c \in vault[p].files : c.home = <<c.drive, p[2]>>

\* tests/test_onboarding_flow.py:58: "so a stale refresh token can't strand the
\* user on a broken page or keep silently failing on every future request",
\* whichever account's token it is.
NotStranded == \A b \in Browsers : last[b] = "expired" ~> last[b] = "ok"
=============================================================================
