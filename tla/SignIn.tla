------------------------------- MODULE SignIn -------------------------------
(* Signing in: to the server of the sync with a Google account, and to Raindrop, each    *)
(* through the browser and a port of this computer; the session that is kept in a file;  *)
(* the server that hands out credentials for it; and the passes that use them. The app   *)
(* and the command line do this in processes of their own, with one file and one port.   *)
EXTENDS Integers, FiniteSets

CONSTANTS
  Account,      \* Google accounts
  Expected,     \* the one the app is locked to, expected_google_email
  Absent, Torn,   \* nothing; a file that was not written to its end
  Settings,     \* what the server may be given: [env, file, sub, email, secret, good]
  First,        \* those it has at first
  Life,         \* SESSION_TTL_SECONDS, in moments
  Visits,       \* scenarios: sets of what may happen
  MaxTime,      \* bound, of a scenario: moments
  MaxAttempts   \* bound: times that a browser is opened

Process  == {"app", "cli"}
Provider == {"google", "raindrop"}
(* "cli": the command line is used too; "stray": an old tab is answered; "stop": programs   *)
(* stop; "operate": the server stops, starts, and is given other settings; "raindrop".      *)
SignInEvents == {"cli", "stray", "stop", "operate", "raindrop", "wrong"}

(* The settings: those of the Turso database, and of the R2 storage. *)
Turso == {"url", "token"}
R2    == {"account", "access", "secretAccess", "endpoint"}

ASSUME SignInAssumption ==
  /\ Expected \in Account /\ First \in Settings /\ Absent \notin Account /\ Life \in Nat \ {0}
  /\ \A v \in Visits : v \subseteq SignInEvents /\ MaxTime[v] \in Nat /\ MaxAttempts[v] \in Nat

VARIABLES
  visit,     \* what may happen in this behaviour
  now,       \* the moment
  settings,  \* what the operator gives the server
  server,    \* the Config it runs with, or Absent
  changed,   \* when the operator last did something
  file,      \* session.json: Absent, Torn or a session
  token,     \* raindrop/token.json: Absent, Torn or the account it is of
  app,       \* [state, account] of SyncAuthRuntime; state "off": it does not run
  attempt,   \* of a process at a provider: [at, nonce, account, got], see NoAttempt
  tabs,      \* of the browser that were not answered: [to, nonce, by]
  attempts,  \* tabs so far
  cache,     \* TOKEN_CACHE of each process: [of, exp, token]
  using      \* of each process: its pass, [session, with], or Absent; with: its credentials

serverVars == <<settings, server, changed>>
signVars   == <<visit, now, serverVars, file, token, app, attempt, tabs, attempts, cache, using>>

Possible(event) == event \in visit
NoAttempt  == [at |-> "idle", nonce |-> 0, account |-> Absent, got |-> Absent]
Steps      == {"idle", "asked", "waiting", "exchange", "write", "written", "failed"}
-----------------------------------------------------------------------------
(* Config::load: a group is taken from the environment when all of it is there, from its  *)
(* file otherwise; then single values of the environment come first.                      *)
FromEnv(s, group) == \A k \in group : s.env[k] # Absent
Loads(s, group)   == FromEnv(s, group) \/ \A k \in group : s.file[k] # Absent
Loaded(s, k, group) == IF FromEnv(s, group) THEN s.env[k] ELSE s.file[k]

(* Mutant: what the files have comes first. *)
ValueOfFile(s, k, group) == IF s.file[k] # Absent THEN s.file[k] ELSE Loaded(s, k, group)

Value(s, k, group) == IF s.env[k] # Absent THEN s.env[k] ELSE Loaded(s, k, group)

(* The secret of sessions, if none is given, is made of what was loaded. *)
Secret(s) == IF s.secret # Absent THEN <<s.secret>>
             ELSE <<Loaded(s, "token", Turso), Loaded(s, "secretAccess", R2)>>

Config(s) ==
  IF ~Loads(s, Turso) \/ ~Loads(s, R2) \/ {s.sub, s.email} = {Absent} THEN Absent
  ELSE [token |-> Value(s, "token", Turso), url |-> Value(s, "url", Turso),
        access |-> [k \in R2 |-> Value(s, k, R2)], secret |-> Secret(s), allowed |-> {s.sub, s.email}]

(* verify_google_identity, google_callback: a session for an account that is allowed. *)
Answers == server # Absent
Session(account) ==
  [account |-> account, exp |-> now + Life, secret |-> server.secret, made |-> now]
Allowed(account) == account \in server.allowed \ {Absent}

(* require_session: signed by this server, and not too old. *)
RequireSession(session) == Answers /\ session.secret = server.secret /\ session.exp > now

(* session_matches_expected_email *)
IsValid(session) == session.exp > now
Matches(session) == IsValid(session) /\ session.account = Expected
-----------------------------------------------------------------------------
(* The app. *)
Readable(f) == f \notin {Absent, Torn}

(* SyncAuthRuntime::load *)
AuthLoaded ==
  IF Readable(file) /\ Matches(file) THEN [state |-> "SignedIn", account |-> Expected]
  ELSE IF Readable(file) /\ IsValid(file) THEN [state |-> "WrongAccount", account |-> file.account]
  ELSE [state |-> "SignedOut", account |-> Absent]

AppStarts ==
  /\ app.state = "off" /\ app' = AuthLoaded
  /\ UNCHANGED <<visit, now, serverVars, file, token, attempt, tabs, attempts, cache, using>>

(* A program ends, whatever it was doing: its port is free again, its tabs stay. *)
Stops(p) ==
  /\ Possible("stop") /\ (p = "app" => app.state # "off")
  /\ p = "cli" => (using[p] # Absent \/ \E v \in Provider : attempt[p][v] # NoAttempt)
  /\ app' = IF p = "app" THEN [state |-> "off", account |-> Absent] ELSE app
  /\ attempt' = [attempt EXCEPT ![p] = [v \in Provider |-> NoAttempt]]
  /\ cache' = [cache EXCEPT ![p] = {}] /\ using' = [using EXCEPT ![p] = Absent]
  /\ UNCHANGED <<visit, now, serverVars, file, token, tabs, attempts>>
-----------------------------------------------------------------------------
(* An attempt to sign in. *)
At(p, v) == attempt[p][v].at

(* SyncSignInRequested: the button of the sign-in page, which is off while an attempt goes on. *)
SyncSignInRequested ==
  /\ app.state \in {"SignedOut", "WrongAccount"}
  /\ app' = [state |-> "SigningIn", account |-> Absent]
  /\ attempt' = [attempt EXCEPT !["app"]["google"] = [NoAttempt EXCEPT !.at = "asked"]]
  /\ UNCHANGED <<visit, now, serverVars, file, token, tabs, attempts, cache, using>>

(* pdf-folio sync auth *)
CliAuth ==
  /\ Possible("cli") /\ At("cli", "google") = "idle" /\ using["cli"] = Absent
  /\ attempt' = [attempt EXCEPT !["cli"]["google"] = [NoAttempt EXCEPT !.at = "asked"]]
  /\ UNCHANGED <<visit, now, serverVars, file, token, app, tabs, attempts, cache, using>>

(* resolve_access_token: only without a token in the file; previews ask one after another *)
(* or at once: the dialog can be opened again.                                            *)
RaindropAsks(p) ==
  /\ Possible("raindrop") /\ ~Readable(token) /\ At(p, "raindrop") = "idle"
  /\ IF p = "app" THEN app.state = "SignedIn" ELSE Possible("cli")
  /\ attempt' = [attempt EXCEPT ![p]["raindrop"] = [NoAttempt EXCEPT !.at = "asked"]]
  /\ UNCHANGED <<visit, now, serverVars, file, token, app, tabs, attempts, cache, using>>

(* sign_in_with_google, oauth_access_token: the port is taken, then the browser opened. *)
Waits(v) == {p \in Process : At(p, v) = "waiting"}
Listens(p, v) ==
  /\ At(p, v) = "asked"
  /\ IF Waits(v) # {}
     THEN /\ attempt' = [attempt EXCEPT ![p][v].at = "failed"] /\ UNCHANGED <<tabs, attempts>>
     ELSE /\ attempts < MaxAttempts[visit] /\ attempts' = attempts + 1
          /\ attempt' = [attempt EXCEPT ![p][v] = [@ EXCEPT !.at = "waiting", !.nonce = attempts']]
          /\ tabs' = tabs \cup {[to |-> v, nonce |-> attempts', by |-> p]}
  /\ UNCHANGED <<visit, now, serverVars, file, token, app, cache, using>>

(* Mutant: whatever comes to the port is taken for the answer. *)
AcceptedAny(nonce, tab, answer) == answer # Absent

(* wait_for_oauth_code: one request is read; the state must be the one that was sent. *)
Accepted(nonce, tab, answer) == answer # Absent /\ tab.nonce = nonce

(* A tab is answered, with an account or with an error, to whoever has the port. *)
Redirected(tab, answer) ==
  /\ tab \in tabs
  /\ Possible("stray") \/ \E p \in Waits(tab.to) : attempt[p][tab.to].nonce = tab.nonce
  /\ answer \in {Absent, Expected} \/ Possible("wrong")
  /\ tabs' = tabs \ {tab}
  /\ attempt' = [p \in Process |-> [v \in Provider |->
       IF v # tab.to \/ p \notin Waits(v) THEN attempt[p][v]
       ELSE IF Accepted(attempt[p][v].nonce, tab, answer)
       THEN [attempt[p][v] EXCEPT !.at = "exchange", !.account = answer]
       ELSE [attempt[p][v] EXCEPT !.at = "failed"]]]
  /\ UNCHANGED <<visit, now, serverVars, file, token, app, attempts, cache, using>>

(* The code is exchanged; the file is opened. *)
Exchanged(p, v) ==
  /\ At(p, v) = "exchange"
  /\ IF v = "google" /\ ~(Answers /\ Allowed(attempt[p][v].account))
     THEN attempt' = [attempt EXCEPT ![p][v].at = "failed"] /\ UNCHANGED <<file, token>>
     ELSE /\ attempt' = [attempt EXCEPT ![p][v] = [@ EXCEPT !.at = "write",
                           !.got = IF v = "google" THEN Session(attempt[p][v].account) ELSE attempt[p][v].account]]
          /\ file' = IF v = "google" THEN Torn ELSE file
          /\ token' = IF v = "raindrop" THEN Torn ELSE token
  /\ UNCHANGED <<visit, now, serverVars, app, tabs, attempts, cache, using>>

(* save_session, save_cached_access_token *)
Saved(p, v) ==
  /\ At(p, v) = "write"
  /\ file' = IF v = "google" THEN attempt[p][v].got ELSE file
  /\ token' = IF v = "raindrop" THEN attempt[p][v].got ELSE token
  /\ attempt' = [attempt EXCEPT ![p][v].at = "written"]
  /\ UNCHANGED <<visit, now, serverVars, app, tabs, attempts, cache, using>>

(* SyncSignInFinished, apply_signed_in_session; the command line prints it and ends. *)
Finished(p, v) ==
  /\ At(p, v) \in {"written", "failed"}
  /\ LET good == At(p, v) = "written" /\ attempt[p][v].account = Expected
     IN app' = IF p # "app" \/ v # "google" THEN app
               ELSE IF good THEN [state |-> "SignedIn", account |-> Expected]
               ELSE [state |-> "SignedOut", account |-> Absent]
  /\ attempt' = [attempt EXCEPT ![p][v] = NoAttempt]
  /\ UNCHANGED <<visit, now, serverVars, file, token, tabs, attempts, cache, using>>
-----------------------------------------------------------------------------
(* A pass. *)
PassStarts(p) ==
  /\ using[p] = Absent /\ Readable(file)
  /\ IF p = "app" THEN app.state = "SignedIn" ELSE Possible("cli") /\ At(p, "google") = "idle"
  /\ using' = [using EXCEPT ![p] = [session |-> file, with |-> Absent]]
  /\ UNCHANGED <<visit, now, serverVars, file, token, app, attempt, tabs, attempts, cache>>

(* Mutant: one token for an account. *)
KeyOfAccount(session) == [account |-> session.account]

Key(session) == [account |-> session.account, exp |-> session.exp]

(* TursoClient::token *)
Cached(p, session) == {c \in cache[p] : c.of = Key(session) /\ c.exp > now}
TokenTaken(p) ==
  /\ using[p] # Absent /\ using[p].with = Absent
  /\ LET session == using[p].session
         asked   == [of |-> Key(session), exp |-> now + Life, token |-> server.token]
     IN IF Cached(p, session) # {}
        THEN /\ \E c \in Cached(p, session) : using' = [using EXCEPT ![p].with = c.token]
             /\ UNCHANGED cache
        ELSE /\ RequireSession(session)
             /\ using' = [using EXCEPT ![p].with = asked.token]
             /\ cache' = [cache EXCEPT ![p] = {c \in @ : c.of # asked.of} \cup {asked}]
  /\ UNCHANGED <<visit, now, serverVars, file, token, app, attempt, tabs, attempts>>

(* The pass ends: the database takes its credentials, and the server its session when *)
(* PDFs are transferred, or not.                                                      *)
Through(p) == using[p].with = settings.good
PassEnds(p) ==
  /\ using[p] # Absent
  /\ \/ using[p].with # Absent
     \/ Cached(p, using[p].session) = {} /\ ~RequireSession(using[p].session)
  /\ using' = [using EXCEPT ![p] = Absent]
  /\ cache' = IF p = "cli" THEN [cache EXCEPT ![p] = {}] ELSE cache
  /\ UNCHANGED <<visit, now, serverVars, file, token, app, attempt, tabs, attempts>>
-----------------------------------------------------------------------------
Later == now < MaxTime[visit] /\ now' = now + 1
TimePasses ==
  /\ Later
  /\ UNCHANGED <<visit, serverVars, file, token, app, attempt, tabs, attempts, cache, using>>

(* The operator stops the server, starts it, or gives it other settings. *)
Operates ==
  /\ Possible("operate") /\ Later /\ changed' = now'
  /\ \/ server # Absent /\ server' = Absent /\ UNCHANGED settings
     \/ server = Absent /\ server' = Config(settings) /\ server' # Absent /\ UNCHANGED settings
     \/ settings' \in Settings \ {settings} /\ server' = Config(settings')
  /\ UNCHANGED <<visit, file, token, app, attempt, tabs, attempts, cache, using>>

SignInInit ==
  /\ visit \in Visits /\ now = 0 /\ changed = 0
  /\ settings = First /\ server = Config(settings)
  /\ file = Absent /\ token = Absent /\ app = [state |-> "off", account |-> Absent]
  /\ attempt = [p \in Process |-> [v \in Provider |-> NoAttempt]]
  /\ tabs = {} /\ attempts = 0
  /\ cache = [p \in Process |-> {}] /\ using = [p \in Process |-> Absent]

SignInNext ==
  \/ AppStarts \/ SyncSignInRequested \/ CliAuth \/ TimePasses \/ Operates
  \/ \E p \in Process : Stops(p) \/ PassStarts(p) \/ TokenTaken(p) \/ PassEnds(p) \/ RaindropAsks(p)
  \/ \E p \in Process, v \in Provider : Listens(p, v) \/ Exchanged(p, v) \/ Saved(p, v) \/ Finished(p, v)
  \/ \E tab \in tabs, answer \in Account \cup {Absent} : Redirected(tab, answer)

SignInSpec == SignInInit /\ [][SignInNext]_signVars
-----------------------------------------------------------------------------
SignInTypeOK ==
  /\ now \in 0..MaxTime[visit] /\ changed \in 0..now /\ settings \in Settings
  /\ app.state \in {"off", "SignedOut", "SigningIn", "SignedIn", "WrongAccount"}
  /\ app.account \in Account \cup {Absent} /\ token \in Account \cup {Absent, Torn}
  /\ \A p \in Process, v \in Provider : At(p, v) \in Steps
  /\ attempts \in 0..MaxAttempts[visit] /\ \A t \in tabs : t.nonce \in 1..attempts

(* The app is signed in as the account it is locked to, and a process takes the account   *)
(* that was chosen in the tab it opened, whatever tabs of earlier attempts are answered    *)
(* late and whatever the command line does meanwhile: SyncAuthState, wait_for_oauth_code.  *)
LockedToExpected == app.state = "SignedIn" => app.account = Expected
OwnAnswers ==
  [][\A p \in Process, v \in Provider :
       (At(p, v) = "waiting" /\ At(p, v)' = "exchange") =>
         [to |-> v, nonce |-> attempt[p][v].nonce, by |-> p] \in tabs \ tabs']_signVars
SignedInAsMeant == []LockedToExpected /\ OwnAnswers

(* Signing in again helps: a pass with a session that is younger than the last change of   *)
(* the server's settings gets through, whatever tokens the process got before: TOKEN_CACHE *)
(* of TursoClient::token, Config::load. What the environment says comes before the files.  *)
TokenGiven(s) == IF s.env["token"] # Absent THEN s.env["token"] ELSE s.file["token"]
SignInHeals ==
  [][\A p \in Process :
       (/\ PassEnds(p) /\ using[p].session.made > changed /\ using[p].session.exp > now
        /\ TokenGiven(settings) = settings.good) => Through(p)]_signVars
=============================================================================
