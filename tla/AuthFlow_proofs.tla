--------------------------- MODULE AuthFlow_proofs ---------------------------
(***************************************************************************)
(* For any browsers, accounts, OAuth clients and SECRET_KEYs, whatever     *)
(* cookies, tokens and caches expire and whatever calls fail: every cookie *)
(* and vault is what the code takes it for, and no index is dropped        *)
(* without a copy.                                                         *)
(*                                                                         *)
(* This needs to know of every token in a cookie, in a vault or in the     *)
(* cache whose it is and that its account may have given it.               *)
(***************************************************************************)
EXTENDS AuthFlow, TLAPS

\* A refresh token, or an access token, an account may really have given.
Given(t) == t \in Token /\ t.client \in ClientsOf[t.account]

Filled(x, a) == x \in Access /\ x.account = a /\ x.client \in ClientsOf[a]

CookiesOK ==
    /\ session \in [Browsers -> Session \cup {NONE}]
    /\ remember \in [Browsers -> Remember \cup {NONE}]
    /\ \A b \in Browsers :
          /\ session[b] # NONE => Given(session[b].token)
          /\ remember[b] # NONE /\ remember[b].token # NONE =>
                Given(remember[b].token)

PagesOK ==
    /\ pending \in [Browsers -> Clients \cup {NONE}]
    /\ pages \in [Browsers -> SUBSET Page]

GoogleOK == gen \in [Places -> 0..MaxDeaths] /\ consented \subseteq Places

CacheOK ==
    /\ cache \in [Accounts -> Access \cup {NONE}]
    /\ \A a \in Accounts : cache[a] = NONE \/ Filled(cache[a], a)

VaultsOK ==
    /\ vault \in [Places -> Vault \cup {NONE}]
    /\ \A p \in Places : vault[p] # NONE => \A x \in vault[p].drives : Given(x)

BackupsOK == backups \in [Places -> SUBSET Vault]

OthersOK ==
    /\ restarts \in 0..MaxRestarts
    /\ last \in [Browsers -> {"ok", "expired"}]
    /\ faults \in 0..MaxFaults

IInv ==
    /\ CookiesOK /\ PagesOK /\ GoogleOK /\ CacheOK /\ VaultsOK /\ BackupsOK
    /\ OthersOK

-----------------------------------------------------------------------------
(* Tokens, and the vault they open.                                        *)

LEMMA KeyType ==
    ASSUME OthersOK
    PROVE  key \in Key
<1>1. restarts \in Nat /\ SecretKeys \in Nat \ {0}
    BY BoundsAssumption DEF OthersOK
<1>2. key \in 0..(SecretKeys - 1)
    BY <1>1 DEF key
<1> QED
    BY <1>2 DEF Key

LEMMA NewTokenGiven ==
    ASSUME GoogleOK, NEW d \in Accounts, NEW c \in ClientsOf[d],
           NEW primary \in BOOLEAN
    PROVE  Given(NewToken(d, c, primary))
<1>1. c \in Clients /\ <<d, c>> \in Places
    BY ClientsOfAssumption DEF Places
<1>2. gen[<<d, c>>] \in 0..MaxDeaths
    BY <1>1 DEF GoogleOK
<1>3. (primary \/ <<d, c>> \in consented) \in BOOLEAN
    OBVIOUS
<1> QED
    BY <1>1, <1>2, <1>3 DEF Given, NewToken, Token

LEMMA SendsFilled ==
    ASSUME CacheOK, NEW t, Given(t)
    PROVE  t.account \in Accounts /\ Filled(Sends(t), t.account)
BY DEF CacheOK, Given, Filled, Sends, Cached, MadeFrom, Token, Access

LEMMA HomeIs ==
    ASSUME CacheOK, NEW t, Given(t)
    PROVE  Home(t) \in Places
<1>1. /\ Sends(t).account = t.account /\ t.account \in Accounts
      /\ Sends(t).client \in ClientsOf[t.account]
    BY SendsFilled DEF Filled, Given
<1> QED
    BY <1>1, ClientsOfAssumption DEF Home, Places

LEMMA TouchedFilled ==
    ASSUME CacheOK, NEW T, \A t \in T : Given(t), cache' = Touched(T)
    PROVE  CacheOK'
<1>1. ASSUME NEW a \in Accounts
      PROVE  Touched(T)[a] = NONE \/ Filled(Touched(T)[a], a)
    <2> DEFINE mine == {t \in T : t.account = a}
    <2>1. CASE mine = {}
        BY <2>1 DEF Touched, CacheOK
    <2>2. CASE mine # {}
        <3>1. Touched(T)[a] = Sends(CHOOSE t \in mine : TRUE)
            BY <2>2 DEF Touched
        <3>2. (CHOOSE t \in mine : TRUE) \in mine
            BY <2>2
        <3> QED
            BY <3>1, <3>2, SendsFilled
    <2> QED
        BY <2>1, <2>2
<1>2. cache' = [a \in Accounts |-> Touched(T)[a]]
    BY DEF Touched
<1> HIDE DEF CacheOK
<1>3. \A a \in Accounts : cache'[a] = NONE \/ Filled(cache'[a], a)
    BY <1>1, <1>2
<1>4. cache' \in [Accounts -> Access \cup {NONE}]
    BY <1>1, <1>2 DEF Filled
<1> QED
    BY <1>3, <1>4 DEF CacheOK

LEMMA LoadedGiven ==
    ASSUME VaultsOK, OthersOK, NEW p \in Places
    PROVE  /\ Loaded(p) \in Vault /\ \A x \in Loaded(p).drives : Given(x)
           /\ Loaded(p) = EmptyVault \/ (vault[p] # NONE /\ Loaded(p) = vault[p])
           /\ EmptyVault.drives = {} /\ EmptyVault.files = {}
<1>1. EmptyVault \in Vault /\ EmptyVault.drives = {} /\ EmptyVault.files = {}
    BY KeyType DEF EmptyVault, Vault
<1> QED
    BY <1>1 DEF Loaded, VaultsOK

LEMMA SaveGiven ==
    ASSUME VaultsOK, NEW p \in Places, NEW v \in Vault,
           \A x \in v.drives : Given(x), Save(p, v)
    PROVE  VaultsOK'
<1>1. vault' \in [Places -> Vault \cup {NONE}]
    BY DEF VaultsOK, Save
<1>2. \A q \in Places : vault'[q] = IF q = p THEN v ELSE vault[q]
    BY DEF VaultsOK, Save
<1> QED
    BY <1>1, <1>2 DEF VaultsOK

LEMMA FaultCounted ==
    ASSUME faults \in 0..MaxFaults, Fault
    PROVE  faults' \in 0..MaxFaults /\ faults' > faults
BY BoundsAssumption DEF Fault

LEMMA KeptBackedUp ==
    ASSUME VaultsOK, BackupsOK, NEW p \in Places
    PROVE  /\ Kept(p) \in [Places -> SUBSET Vault]
           /\ Undecryptable(p) => vault[p] \in Kept(p)[p]
<1>1. CASE Undecryptable(p)
    <2>1. vault[p] \in Vault
        BY <1>1 DEF Undecryptable, VaultsOK
    <2>2. backups[p] \cup {vault[p]} \in SUBSET Vault
        BY <2>1 DEF BackupsOK
    <2> QED
        BY <1>1, <2>1, <2>2 DEF Kept, BackupsOK
<1>2. CASE ~Undecryptable(p)
    BY <1>2 DEF Kept, BackupsOK
<1> QED
    BY <1>1, <1>2

\* What can not be decrypted is kept, or a call to Google has failed.
LEMMA BackedUp ==
    ASSUME VaultsOK, BackupsOK, faults \in 0..MaxFaults, NEW p \in Places,
           BackUp(p)
    PROVE  /\ BackupsOK' /\ faults' \in 0..MaxFaults
           /\ Undecryptable(p) => vault[p] \in backups'[p] \/ faults' > faults
<1>1. CASE backups' = Kept(p) /\ UNCHANGED faults
    BY <1>1, KeptBackedUp DEF BackupsOK
<1>2. CASE Fault /\ UNCHANGED backups
    BY <1>2, FaultCounted DEF BackupsOK
<1> QED
    BY <1>1, <1>2 DEF BackUp

LEMMA SignedInGiven ==
    ASSUME CookiesOK, OthersOK, NEW b \in Browsers, NEW t, Given(t),
           SignedIn(b, t)
    PROVE  CookiesOK'
<1> DEFINE s == [token |-> t, key |-> key]
           r == [client |-> t.client, token |-> t, key |-> key]
<1>1. s \in Session /\ r \in Remember /\ s.token = t /\ r.token = t
    BY KeyType DEF Given, Token, Session, Remember
<1>2. session' = [session EXCEPT ![b] = s] /\ remember' = [remember EXCEPT ![b] = r]
    BY DEF SignedIn
<1> HIDE DEF s, r
<1>3. /\ session' \in [Browsers -> Session \cup {NONE}]
      /\ remember' \in [Browsers -> Remember \cup {NONE}]
    BY <1>1, <1>2 DEF CookiesOK
<1>4. \A x \in Browsers : /\ session'[x] = IF x = b THEN s ELSE session[x]
                          /\ remember'[x] = IF x = b THEN r ELSE remember[x]
    BY <1>2 DEF CookiesOK
<1> QED
    BY <1>1, <1>3, <1>4 DEF CookiesOK

\* Who has a session has a token of some account for one of its clients.
LEMMA SessionGiven ==
    ASSUME CookiesOK, CacheOK, NEW b \in Browsers, Readable(session[b])
    PROVE  /\ Given(session[b].token) /\ session[b].token.client \in Clients
           /\ Home(session[b].token) \in Places
BY HomeIs DEF CookiesOK, Readable, Given, Token

-----------------------------------------------------------------------------
(* The routes.                                                             *)

LEMMA InitInv == Init => IInv
<1> SUFFICES ASSUME Init PROVE IInv
    OBVIOUS
<1>1. CookiesOK
    BY DEF Init, CookiesOK
<1>2. PagesOK /\ CacheOK /\ VaultsOK /\ BackupsOK
    BY DEF Init, PagesOK, CacheOK, VaultsOK, BackupsOK
<1>3. GoogleOK /\ OthersOK
    BY BoundsAssumption DEF Init, GoogleOK, OthersOK
<1> QED
    BY <1>1, <1>2, <1>3 DEF IInv

LEMMA ToGoogleKeeps ==
    ASSUME PagesOK, NEW b \in Browsers, NEW c \in Clients, ToGoogle(b, c)
    PROVE  PagesOK'
<1>1. [purpose |-> "login", client |-> c] \in Page
    BY DEF Page
<1> QED
    BY <1>1 DEF PagesOK, ToGoogle

LEMMA LeavesKeeps ==
    ASSUME PagesOK, NEW b \in Browsers, NEW page, Leaves(b, page),
           pending' \in [Browsers -> Clients \cup {NONE}]
    PROVE  PagesOK'
BY DEF PagesOK, Leaves

LEMMA SignedOutKeeps ==
    ASSUME CookiesOK, OthersOK, NEW b \in Browsers, SignedOut(b)
    PROVE  CookiesOK' /\ last' \in [Browsers -> {"ok", "expired"}]
BY DEF CookiesOK, OthersOK, SignedOut

LEMMA StartSetupKeeps ==
    ASSUME IInv, NEW b \in Browsers, NEW c \in Clients, StartSetup(b, c)
    PROVE  IInv'
<1>1. PagesOK'
    BY ToGoogleKeeps DEF StartSetup, IInv
<1> QED
    BY <1>1 DEF StartSetup, IInv, CookiesOK, GoogleOK, CacheOK, VaultsOK,
                BackupsOK, OthersOK, google, stored

LEMMA ContinueKeeps ==
    ASSUME IInv, NEW b \in Browsers, Continue(b)
    PROVE  IInv'
<1> DEFINE t == remember[b].token
<1>1. Given(t)
    BY DEF Continue, Readable, IInv, CookiesOK
<1>2. /\ SignedIn(b, t) /\ cache' = Touched({t})
      /\ UNCHANGED <<pending, pages, google, stored, restarts, last, faults>>
    BY DEF Continue
<1> HIDE DEF t
<1>3. CookiesOK'
    BY <1>1, <1>2, SignedInGiven DEF IInv
<1>4. CacheOK'
    BY <1>1, <1>2, TouchedFilled DEF IInv
<1> QED
    BY <1>2, <1>3, <1>4 DEF IInv, PagesOK, GoogleOK, VaultsOK, BackupsOK,
                            OthersOK, google, stored

LEMMA ContinueFallsBackKeeps ==
    ASSUME IInv, NEW b \in Browsers, ContinueFallsBack(b)
    PROVE  IInv'
<1>1. remember[b].client \in Clients
    BY DEF ContinueFallsBack, Readable, IInv, CookiesOK, Remember
<1>2. PagesOK'
    BY <1>1, ToGoogleKeeps DEF ContinueFallsBack, IInv
<1>3. faults' \in 0..MaxFaults
    BY FaultCounted DEF ContinueFallsBack, IInv, OthersOK
<1> QED
    BY <1>2, <1>3 DEF ContinueFallsBack, IInv, CookiesOK, GoogleOK, CacheOK,
                      VaultsOK, BackupsOK, OthersOK, google, stored

\* Cookies are dropped: by /logout, by /forget-device, or by time.
LEMMA CookiesDropped ==
    ASSUME IInv, NEW b \in Browsers,
           Logout(b) \/ ForgetDevice(b) \/ CookieExpires(b)
    PROVE  IInv'
<1>1. CookiesOK'
    BY DEF Logout, ForgetDevice, CookieExpires, IInv, CookiesOK
<1>2. PagesOK'
    BY DEF Logout, ForgetDevice, CookieExpires, IInv, PagesOK
<1>3. UNCHANGED <<google, cache, stored, restarts, last, faults>>
    BY DEF Logout, ForgetDevice, CookieExpires
<1> QED
    BY <1>1, <1>2, <1>3 DEF IInv, GoogleOK, CacheOK, VaultsOK, BackupsOK,
                            OthersOK, google, stored

LEMMA CallbackKeeps ==
    ASSUME IInv, NEW b \in Browsers, NEW page \in pages[b],
           NEW d \in Accounts, Callback(b, page, d)
    PROVE  IInv'
<1> DEFINE c == page.client
           t == NewToken(d, c, TRUE)
           p == Home(t)
<1>1. /\ c \in ClientsOf[d] /\ Leaves(b, page)
      /\ consented' = consented \cup {<<d, c>>}
      /\ BackUp(p) /\ Save(p, Loaded(p)) /\ cache' = Touched({t})
      /\ SignedIn(b, t) /\ pending' = [pending EXCEPT ![b] = NONE]
      /\ UNCHANGED <<gen, restarts, last>>
    BY DEF Callback
<1>2. Given(t)
    BY <1>1, NewTokenGiven DEF IInv
<1>3. c \in Clients /\ <<d, c>> \in Places
    BY <1>1, ClientsOfAssumption DEF Places
<1> HIDE DEF t
<1>4. p \in Places
    BY <1>2, HomeIs DEF IInv
<1>5. CookiesOK'
    BY <1>1, <1>2, SignedInGiven DEF IInv
<1>6. PagesOK'
    BY <1>1, LeavesKeeps DEF IInv, PagesOK
<1>7. GoogleOK'
    BY <1>1, <1>3 DEF IInv, GoogleOK
<1>8. CacheOK'
    BY <1>1, <1>2, TouchedFilled DEF IInv
<1>9. VaultsOK'
    BY <1>1, <1>4, LoadedGiven, SaveGiven DEF IInv
<1>10. BackupsOK' /\ faults' \in 0..MaxFaults
    BY <1>1, <1>4, BackedUp DEF IInv, OthersOK
<1> QED
    BY <1>1, <1>5, <1>6, <1>7, <1>8, <1>9, <1>10 DEF IInv, OthersOK

LEMMA CallbackFailsKeeps ==
    ASSUME IInv, NEW b \in Browsers, NEW page \in pages[b],
           NEW d \in Accounts, CallbackFails(b, page, d)
    PROVE  IInv'
<1> DEFINE c == page.client
           t == NewToken(d, c, TRUE)
           p == Home(t)
<1>1. /\ c \in ClientsOf[d] /\ Leaves(b, page)
      /\ UNCHANGED <<cookies, vault, restarts, last>>
    BY DEF CallbackFails
<1>2. \/ UNCHANGED <<google, cache, backups, faults>>
      \/ /\ consented' = consented \cup {<<d, c>>} /\ UNCHANGED gen
         /\ \/ UNCHANGED <<cache, backups, faults>>
            \/ /\ Fault /\ cache' = Touched({t})
               /\ backups' \in {backups, Kept(p)}
    BY DEF CallbackFails
<1>3. Given(t)
    BY <1>1, NewTokenGiven DEF IInv
<1>4. c \in Clients /\ <<d, c>> \in Places
    BY <1>1, ClientsOfAssumption DEF Places
<1> HIDE DEF t
<1>5. p \in Places
    BY <1>3, HomeIs DEF IInv
<1> HIDE DEF p
<1>6. PagesOK'
    BY <1>1, LeavesKeeps DEF IInv, PagesOK, cookies
<1>7. GoogleOK'
    BY <1>2, <1>4 DEF IInv, GoogleOK, google
<1>8. CacheOK'
    <2>1. UNCHANGED cache \/ cache' = Touched({t})
        BY <1>2
    <2>2. CASE UNCHANGED cache
        BY <2>2 DEF IInv, CacheOK
    <2> QED
        BY <1>3, <2>1, <2>2, TouchedFilled DEF IInv
<1>9. BackupsOK' /\ faults' \in 0..MaxFaults
    <2>1. Kept(p) \in [Places -> SUBSET Vault]
        BY <1>5, KeptBackedUp DEF IInv
    <2>2. BackupsOK'
        BY <1>2, <2>1 DEF IInv, BackupsOK
    <2>3. faults' \in 0..MaxFaults
        BY <1>2, FaultCounted DEF IInv, OthersOK
    <2> QED
        BY <2>2, <2>3
<1> QED
    BY <1>1, <1>6, <1>7, <1>8, <1>9 DEF IInv, CookiesOK, VaultsOK, OthersOK,
                                        cookies

LEMMA RefreshFailsKeeps ==
    ASSUME IInv, NEW b \in Browsers, RefreshFails(b)
    PROVE  IInv'
<1> DEFINE t == session[b].token
           p == Home(t)
           T == Loaded(p).drives
<1>1. /\ Readable(session[b]) /\ SignedOut(b)
      /\ UNCHANGED <<pending, pages, google, vault, restarts>>
    BY DEF RefreshFails
<1>2. \/ UNCHANGED <<cache, backups, faults>>
      \/ /\ BackUp(p)
         /\ \E S \in SUBSET {x \in T : ~Rejected(x, t.client)} :
               cache' = Touched(S \cup {t})
    BY DEF RefreshFails
<1>3. Given(t) /\ p \in Places
    BY <1>1, SessionGiven DEF IInv
<1> HIDE DEF t, p
<1>4. \A x \in T : Given(x)
    BY <1>3, LoadedGiven DEF IInv
<1> HIDE DEF T
<1>5. CacheOK'
    <2>1. CASE UNCHANGED cache
        BY <2>1 DEF IInv, CacheOK
    <2>2. ASSUME NEW S \in SUBSET T, cache' = Touched(S \cup {t})
          PROVE  CacheOK'
        BY <1>3, <1>4, <2>2, TouchedFilled DEF IInv
    <2> QED
        BY <1>2, <2>1, <2>2
<1>6. BackupsOK' /\ faults' \in 0..MaxFaults
    <2>1. CASE UNCHANGED <<backups, faults>>
        BY <2>1 DEF IInv, BackupsOK, OthersOK
    <2> QED
        BY <1>2, <1>3, <2>1, BackedUp DEF IInv, OthersOK
<1>7. CookiesOK' /\ last' \in [Browsers -> {"ok", "expired"}]
    BY <1>1, SignedOutKeeps DEF IInv
<1> QED
    BY <1>1, <1>5, <1>6, <1>7 DEF IInv, PagesOK, GoogleOK, VaultsOK, OthersOK,
                                  google

LEMMA VisitKeeps ==
    ASSUME IInv, NEW b \in Browsers, NEW D \in SUBSET Accounts, Visit(b, D)
    PROVE  IInv'
<1> DEFINE t == session[b].token
           p == Home(t)
           T == {x \in Loaded(p).drives : x.account \in D}
<1>1. /\ Readable(session[b]) /\ BackUp(p) /\ cache' = Touched(T \cup {t})
      /\ last' \in {last, [last EXCEPT ![b] = "ok"]}
      /\ UNCHANGED <<cookies, pages, google, vault, restarts>>
    BY DEF Visit
<1>2. Given(t) /\ p \in Places
    BY <1>1, SessionGiven DEF IInv
<1> HIDE DEF t, p
<1>3. \A x \in T \cup {t} : Given(x)
    BY <1>2, LoadedGiven DEF IInv
<1> HIDE DEF T
<1>4. CacheOK'
    BY <1>1, <1>3, TouchedFilled DEF IInv
<1>5. BackupsOK' /\ faults' \in 0..MaxFaults
    BY <1>1, <1>2, BackedUp DEF IInv, OthersOK
<1>6. last' \in [Browsers -> {"ok", "expired"}]
    BY <1>1 DEF IInv, OthersOK
<1> QED
    BY <1>1, <1>4, <1>5, <1>6 DEF IInv, CookiesOK, PagesOK, GoogleOK, VaultsOK,
                                  OthersOK, google, cookies

LEMMA UploadKeeps ==
    ASSUME IInv, NEW b \in Browsers, Upload(b)
    PROVE  IInv'
<1> DEFINE t == session[b].token
           p == Home(t)
           v == Loaded(p)
<1>1. PICK x \in v.drives \cup {t} :
          Save(p, [v EXCEPT !.files = @ \cup
                      {[drive |-> x.account, home |-> Home(x)]}])
    BY DEF Upload
<1> DEFINE w == [v EXCEPT !.files = @ \cup
                    {[drive |-> x.account, home |-> Home(x)]}]
<1>2. /\ Readable(session[b]) /\ BackUp(p)
      /\ cache' = Touched(v.drives \cup {t})
      /\ UNCHANGED <<cookies, pages, google, restarts, last>>
    BY DEF Upload
<1>3. Given(t) /\ p \in Places
    BY <1>2, SessionGiven DEF IInv
<1> HIDE DEF t, p
<1>4. v \in Vault /\ \A y \in v.drives : Given(y)
    BY <1>3, LoadedGiven DEF IInv
<1> HIDE DEF v
<1>5. [drive |-> x.account, home |-> Home(x)] \in Chunk
    BY <1>3, <1>4, HomeIs, SendsFilled DEF IInv, Chunk
<1>6. w \in Vault /\ w.drives = v.drives
    BY <1>4, <1>5 DEF Vault
<1>7. VaultsOK'
    BY <1>1, <1>3, <1>4, <1>6, SaveGiven DEF IInv
<1>8. CacheOK'
    BY <1>2, <1>3, <1>4, TouchedFilled DEF IInv
<1>9. BackupsOK' /\ faults' \in 0..MaxFaults
    BY <1>2, <1>3, BackedUp DEF IInv, OthersOK
<1> QED
    BY <1>2, <1>7, <1>8, <1>9 DEF IInv, CookiesOK, PagesOK, GoogleOK, OthersOK,
                                  google, cookies

LEMMA ConnectDriveKeeps ==
    ASSUME IInv, NEW b \in Browsers, ConnectDrive(b)
    PROVE  IInv'
<1>1. [purpose |-> "secondary", client |-> session[b].token.client] \in Page
    BY SessionGiven DEF ConnectDrive, IInv, Page
<1>2. PagesOK'
    BY <1>1 DEF ConnectDrive, IInv, PagesOK, cookies
<1> QED
    BY <1>2 DEF ConnectDrive, IInv, CookiesOK, GoogleOK, CacheOK, VaultsOK,
                BackupsOK, OthersOK, cookies, google, stored

LEMMA CallbackSecondaryKeeps ==
    ASSUME IInv, NEW b \in Browsers, NEW page \in pages[b],
           NEW d \in Accounts, CallbackSecondary(b, page, d)
    PROVE  IInv'
<1> DEFINE t == session[b].token
           p == Home(t)
           v == Loaded(p)
           n == NewToken(d, t.client, FALSE)
           w == [v EXCEPT !.drives = @ \cup {n}]
<1>1. /\ Readable(session[b]) /\ BackUp(p) /\ cache' = Touched({t})
      /\ page.client \in ClientsOf[d] /\ page.client = t.client
      /\ Leaves(b, page) /\ UNCHANGED <<cookies, google, restarts, last>>
      /\ UNCHANGED vault \/ Save(p, w)
    BY DEF CallbackSecondary, Exchange
<1>2. Given(t) /\ p \in Places
    BY <1>1, SessionGiven DEF IInv
<1>3. Given(n)
    BY <1>1, NewTokenGiven DEF IInv
<1> HIDE DEF t, p, n
<1>4. v \in Vault /\ \A y \in v.drives : Given(y)
    BY <1>2, LoadedGiven DEF IInv
<1> HIDE DEF v
<1>5. w \in Vault /\ w.drives = v.drives \cup {n}
    BY <1>3, <1>4 DEF Vault, Given
<1> HIDE DEF w
<1>6. VaultsOK'
    <2>1. CASE UNCHANGED vault
        BY <2>1 DEF IInv, VaultsOK
    <2>2. CASE Save(p, w)
        BY <1>2, <1>3, <1>4, <1>5, <2>2, SaveGiven DEF IInv
    <2> QED
        BY <1>1, <2>1, <2>2
<1>7. CacheOK'
    BY <1>1, <1>2, TouchedFilled DEF IInv
<1>8. BackupsOK' /\ faults' \in 0..MaxFaults
    BY <1>1, <1>2, BackedUp DEF IInv, OthersOK
<1>9. PagesOK'
    BY <1>1, LeavesKeeps DEF IInv, PagesOK, cookies
<1> QED
    BY <1>1, <1>6, <1>7, <1>8, <1>9 DEF IInv, CookiesOK, GoogleOK, OthersOK,
                                        google, cookies

LEMMA LeavePageKeeps ==
    ASSUME IInv, NEW b \in Browsers, NEW page \in pages[b], LeavePage(b, page)
    PROVE  IInv'
<1>1. PagesOK'
    BY LeavesKeeps DEF LeavePage, IInv, PagesOK, cookies
<1> QED
    BY <1>1 DEF LeavePage, IInv, CookiesOK, GoogleOK, CacheOK, VaultsOK,
                BackupsOK, OthersOK, cookies, google, stored

-----------------------------------------------------------------------------
(* Time, Google, and the operator of the server.                           *)

LEMMA CacheExpiresKeeps ==
    ASSUME IInv, NEW a \in Accounts, CacheExpires(a)
    PROVE  IInv'
<1>1. CacheOK'
    BY DEF CacheExpires, IInv, CacheOK
<1> QED
    BY <1>1 DEF CacheExpires, IInv, CookiesOK, PagesOK, GoogleOK, VaultsOK,
                BackupsOK, OthersOK, cookies, google, stored

LEMMA TokensExpireKeeps ==
    ASSUME IInv, NEW a \in Accounts, NEW c \in Clients, TokensExpire(a, c)
    PROVE  IInv'
<1>1. <<a, c>> \in Places
    BY DEF Places
<1>2. gen[<<a, c>>] + 1 \in 0..MaxDeaths
    BY <1>1, BoundsAssumption DEF TokensExpire, IInv, GoogleOK
<1>3. GoogleOK'
    BY <1>2 DEF TokensExpire, IInv, GoogleOK
<1> QED
    BY <1>3 DEF TokensExpire, IInv, CookiesOK, PagesOK, CacheOK, VaultsOK,
                BackupsOK, OthersOK, cookies, stored

LEMMA ChangeKeyKeeps ==
    ASSUME IInv, ChangeKey
    PROVE  IInv'
<1>1. CacheOK' /\ PagesOK'
    BY DEF ChangeKey, IInv, CacheOK, PagesOK
<1>2. restarts' \in 0..MaxRestarts
    BY BoundsAssumption DEF ChangeKey, IInv, OthersOK
<1> QED
    BY <1>1, <1>2 DEF ChangeKey, IInv, CookiesOK, GoogleOK, VaultsOK,
                      BackupsOK, OthersOK, google, stored

LEMMA NextKeeps ==
    ASSUME IInv, [Next]_vars
    PROVE  IInv'
<1>1. ASSUME NEW b \in Browsers, NEW c \in Clients, StartSetup(b, c)
      PROVE  IInv'
    BY <1>1, StartSetupKeeps
<1>2. ASSUME NEW b \in Browsers,
             \/ Continue(b) \/ ContinueFallsBack(b) \/ Logout(b)
             \/ ForgetDevice(b) \/ RefreshFails(b) \/ Upload(b)
             \/ ConnectDrive(b) \/ CookieExpires(b)
      PROVE  IInv'
    BY <1>2, ContinueKeeps, ContinueFallsBackKeeps, CookiesDropped,
       RefreshFailsKeeps, UploadKeeps, ConnectDriveKeeps
<1>3. ASSUME NEW b \in Browsers, NEW page \in pages[b], NEW d \in Users,
             Callback(b, page, d) \/ CallbackFails(b, page, d)
      PROVE  IInv'
    BY <1>3, UsersAssumption, CallbackKeeps, CallbackFailsKeeps
<1>4. ASSUME NEW b \in Browsers, NEW D \in SUBSET Accounts, Visit(b, D)
      PROVE  IInv'
    BY <1>4, VisitKeeps
<1>5. ASSUME NEW b \in Browsers, NEW page \in pages[b], NEW d \in Accounts,
             CallbackSecondary(b, page, d)
      PROVE  IInv'
    BY <1>5, CallbackSecondaryKeeps
<1>6. ASSUME NEW b \in Browsers, NEW page \in pages[b], LeavePage(b, page)
      PROVE  IInv'
    BY <1>6, LeavePageKeeps
<1>7. ASSUME NEW a \in Accounts, CacheExpires(a) PROVE IInv'
    BY <1>7, CacheExpiresKeeps
<1>8. ASSUME NEW a \in Accounts, NEW c \in Clients, TokensExpire(a, c)
      PROVE  IInv'
    BY <1>8, TokensExpireKeeps
<1>9. CASE ChangeKey
    BY <1>9, ChangeKeyKeeps
<1>10. CASE UNCHANGED vars
    BY <1>10 DEF vars, IInv, CookiesOK, PagesOK, GoogleOK, CacheOK, VaultsOK,
                 BackupsOK, OthersOK, cookies, google, stored
<1> QED
    BY <1>1, <1>2, <1>3, <1>4, <1>5, <1>6, <1>7, <1>8, <1>9, <1>10
    DEF Next, SignIn

\* Every cookie, cached token and vault has its shape, and every token in them
\* is one its account may really have given to one of its clients.
THEOREM Invariance == Spec => []IInv
BY InitInv, NextKeeps, PTL DEF Spec

\* Cookies, pages, caches and vaults keep their shape, whoever calls which route
\* in which order: what is decrypted is what the code takes it for.
THEOREM AuthTypeOK == Spec => []TypeOK
<1>1. IInv => TypeOK
    BY DEF IInv, CookiesOK, PagesOK, GoogleOK, CacheOK, VaultsOK, BackupsOK,
           OthersOK, TypeOK
<1> QED
    BY <1>1, Invariance, PTL

-----------------------------------------------------------------------------
(* What a step may never do.                                               *)

\* The three routes that save the vault.
Saves(b) ==
    \/ Upload(b)
    \/ \E page \in pages[b], d \in Accounts :
          Callback(b, page, d) \/ CallbackSecondary(b, page, d)

LEMMA OnlySaves ==
    ASSUME [Next]_vars
    PROVE  UNCHANGED vault \/ \E b \in Browsers : Saves(b)
<1>1. CASE UNCHANGED vars \/ ChangeKey
    BY <1>1 DEF ChangeKey, vars, stored
<1>2. ASSUME NEW a \in Accounts, CacheExpires(a) PROVE UNCHANGED vault
    BY <1>2 DEF CacheExpires, stored
<1>3. ASSUME NEW a \in Accounts, NEW c \in Clients, TokensExpire(a, c)
      PROVE  UNCHANGED vault
    BY <1>3 DEF TokensExpire, stored
<1>4. ASSUME NEW b \in Browsers,
             \/ \E c \in Clients : StartSetup(b, c)
             \/ Continue(b) \/ ContinueFallsBack(b) \/ Logout(b)
             \/ ForgetDevice(b) \/ ConnectDrive(b) \/ CookieExpires(b)
             \/ \E page \in pages[b] : LeavePage(b, page)
      PROVE  UNCHANGED vault
    BY <1>4 DEF StartSetup, Continue, ContinueFallsBack, Logout, ForgetDevice,
                ConnectDrive, CookieExpires, LeavePage, stored
<1>5. ASSUME NEW b \in Browsers, NEW page \in pages[b], NEW d \in Users,
             CallbackFails(b, page, d)
      PROVE  UNCHANGED vault
    BY <1>5 DEF CallbackFails
<1>6. ASSUME NEW b \in Browsers,
             RefreshFails(b) \/ \E D \in SUBSET Accounts : Visit(b, D)
      PROVE  UNCHANGED vault
    BY <1>6 DEF RefreshFails, Visit
<1>7. ASSUME NEW b \in Browsers,
             \/ SignIn(b) \/ Upload(b)
             \/ \E page \in pages[b], d \in Accounts :
                   CallbackSecondary(b, page, d)
      PROVE  Saves(b)
    BY <1>7, UsersAssumption DEF SignIn, Saves
<1> QED
    BY <1>1, <1>2, <1>3, <1>4, <1>5, <1>6, <1>7 DEF Next

KeepsIndex ==
    \A p \in Places :
        vault'[p] # vault[p] /\ vault[p] # NONE /\ vault[p].key # key =>
            vault[p] \in backups'[p] \/ faults' > faults

\* A route that saves the vault has first kept a copy of what it could not read.
LEMMA SavesBackUp ==
    ASSUME IInv, NEW b \in Browsers, Saves(b)
    PROVE  \/ UNCHANGED vault
           \/ \E p \in Places : BackUp(p) /\ \E v : Save(p, v)
<1>1. CASE Upload(b)
    <2>1. Home(session[b].token) \in Places
        BY <1>1, SessionGiven DEF Upload, IInv
    <2> QED
        BY <1>1, <2>1 DEF Upload
<1>2. ASSUME NEW page \in pages[b], NEW d \in Accounts, Callback(b, page, d)
      PROVE  \E p \in Places : BackUp(p) /\ \E v : Save(p, v)
    <2> DEFINE t == NewToken(d, page.client, TRUE)
    <2>1. /\ page.client \in ClientsOf[d] /\ BackUp(Home(t))
          /\ Save(Home(t), Loaded(Home(t)))
        BY <1>2 DEF Callback
    <2>2. Home(t) \in Places
        BY <2>1, NewTokenGiven, HomeIs DEF IInv
    <2> QED
        BY <2>1, <2>2
<1>3. ASSUME NEW page \in pages[b], NEW d \in Accounts,
             CallbackSecondary(b, page, d)
      PROVE  \/ UNCHANGED vault
             \/ \E p \in Places : BackUp(p) /\ \E v : Save(p, v)
    <2> DEFINE p == Home(session[b].token)
    <2>1. p \in Places
        BY <1>3, SessionGiven DEF CallbackSecondary, IInv
    <2>2. BackUp(p) /\ (UNCHANGED vault \/ \E v : Save(p, v))
        BY <1>3 DEF CallbackSecondary
    <2> HIDE DEF p
    <2> QED
        BY <2>1, <2>2
<1> QED
    BY <1>1, <1>2, <1>3 DEF Saves

LEMMA NextKeepsIndex ==
    ASSUME IInv, [Next]_vars
    PROVE  KeepsIndex
<1>1. CASE UNCHANGED vault
    BY <1>1 DEF KeepsIndex
<1>2. ASSUME NEW p \in Places, BackUp(p), NEW v, Save(p, v)
      PROVE  KeepsIndex
    <2>1. \A q \in Places : vault'[q] # vault[q] => q = p
        BY <1>2 DEF IInv, VaultsOK, Save
    <2>2. Undecryptable(p) => vault[p] \in backups'[p] \/ faults' > faults
        BY <1>2, BackedUp DEF IInv, OthersOK
    <2> QED
        BY <2>1, <2>2 DEF KeepsIndex, Undecryptable
<1> QED
    BY <1>1, <1>2, OnlySaves, SavesBackUp

\* A vault written under another SECRET_KEY is replaced by none of the routes
\* before _backup_undecryptable_vault has kept it, or a call to Google failed.
THEOREM IndexIsKept == Spec => IndexKept
<1>1. IInv /\ [Next]_vars => KeepsIndex
    BY NextKeepsIndex
<1> QED
    BY <1>1, Invariance, PTL DEF Spec, IndexKept, KeepsIndex
=============================================================================
