----------------------------- MODULE ServicesProofs -----------------------------
(* Proofs about the parts that run beside the screens, for any accounts, settings, documents,  *)
(* folders, scenarios and any length of a run. Signing in: its types; that the app is signed in *)
(* as the account that was meant; and that signing in again helps, whatever tokens a process     *)
(* still has. The session: its types, and that what was on the screen when the app quit comes    *)
(* back. The files: their types, that rows follow the files of watched folders, and that exports *)
(* leave files alone. Each part is proved of its own specification, which every behaviour of      *)
(* Services meets.                                                                                *)
EXTENDS Services, SequenceTheorems, FiniteSetTheorems, TLAPS

(* A behaviour of the parts together is one of each part, which rests while another acts. *)
LEMMA SignsAlone == ServicesSpec => SignInSpec
<1>1. ServicesInit => SignInInit BY DEF ServicesInit
<1>2. [ServicesNext]_serviceVars => [SignInNext]_signVars BY DEF ServicesNext, serviceVars
<1> QED BY <1>1, <1>2, PTL DEF ServicesSpec, SignInSpec

LEMMA RestoresAlone == ServicesSpec => SessionSpec
<1>1. ServicesInit => SessionInit BY DEF ServicesInit
<1>2. [ServicesNext]_serviceVars => [SessionNext]_sessionVars BY DEF ServicesNext, serviceVars
<1> QED BY <1>1, <1>2, PTL DEF ServicesSpec, SessionSpec

LEMMA FilesAlone == ServicesSpec => FilesSpec
<1>1. ServicesInit => FilesInit BY DEF ServicesInit
<1>2. [ServicesNext]_serviceVars => [FilesNext]_fileVars BY DEF ServicesNext, serviceVars
<1> QED BY <1>1, <1>2, PTL DEF ServicesSpec, FilesSpec
-----------------------------------------------------------------------------

Secrets  == {Secret(s) : s \in Settings}
Tokens   == {TokenGiven(s) : s \in Settings}
Sessions == [account : Account, exp : Nat, secret : Secrets, made : Nat]
Keys     == [account : Account, exp : Nat]
Cachings == [of : Keys, exp : Nat, token : Tokens]
PassStates   == [session : Sessions, with : Tokens \cup {Absent}]
Attempts == [at : Steps, nonce : Nat, account : Account \cup {Absent},
             got : Sessions \cup Account \cup {Absent}]
Tabs     == [to : Provider, nonce : Nat, by : Process]
States   == {"off", "SignedOut", "SigningIn", "SignedIn", "WrongAccount"}

(* What every variable is. *)
WorldTyped ==
  /\ visit \in Visits /\ now \in Nat /\ now <= MaxTime[visit] /\ changed \in Nat /\ changed <= now
  /\ settings \in Settings /\ server \in {Absent, Config(settings)}
FilesTyped ==
  /\ file \in Sessions \cup {Absent, Torn} /\ token \in Account \cup {Absent, Torn}
  /\ app \in [state : States, account : Account \cup {Absent}]
PassesTyped ==
  /\ cache \in [Process -> SUBSET Cachings] /\ using \in [Process -> PassStates \cup {Absent}]
AttemptsTyped ==
  /\ attempts \in Nat /\ attempts <= MaxAttempts[visit] /\ tabs \in SUBSET Tabs
  /\ attempt \in [Process -> [Provider -> Attempts]]

(* What an attempt has got so far is what its step says. *)
Got(p) ==
  /\ attempt[p]["google"].at = "write" => attempt[p]["google"].got \in Sessions
  /\ attempt[p]["raindrop"].at = "exchange" => attempt[p]["raindrop"].account \in Account
  /\ attempt[p]["raindrop"].at = "write" => attempt[p]["raindrop"].got \in Account

(* A tab with the nonce that a process waits for is its own. *)
TabsOwned ==
  /\ \A t \in tabs : t.nonce > 0 /\ t.nonce <= attempts
  /\ \A p \in Process, v \in Provider : attempt[p][v].nonce <= attempts
  /\ \A p \in Process, v \in Provider, t \in tabs :
       (attempt[p][v].at = "waiting" /\ t.nonce = attempt[p][v].nonce) => t.by = p /\ t.to = v

(* A session that is younger than the last change of the settings is signed with the secret *)
(* of the server that runs, and a token that was got for such a session is the one given.   *)
Good(session) ==
  /\ session.made <= now /\ session.exp = session.made + Life
  /\ session.made > changed => server # Absent /\ session.secret = server.secret
SessionsGood ==
  /\ Readable(file) => Good(file)
  /\ \A p \in Process : attempt[p]["google"].at = "write" => Good(attempt[p]["google"].got)
  /\ \A p \in Process : using[p] # Absent => Good(using[p].session)
TokensGood ==
  /\ \A p \in Process : \A c \in cache[p] :
       c.of.exp <= now + Life /\ (c.of.exp > changed + Life => c.token = TokenGiven(settings))
  /\ \A p \in Process : (using[p] # Absent /\ using[p].with # Absent /\ using[p].session.made > changed)
       => using[p].with = TokenGiven(settings)

IInv ==
  /\ WorldTyped /\ FilesTyped /\ PassesTyped /\ AttemptsTyped
  /\ (\A p \in Process : Got(p)) /\ TabsOwned /\ SessionsGood /\ TokensGood /\ LockedToExpected
-----------------------------------------------------------------------------
(* What a server gives out is what its settings say. *)
LEMMA ConfigGives ==
  ASSUME NEW s, Config(s) # Absent
  PROVE  Config(s).token = TokenGiven(s) /\ Config(s).secret = Secret(s)
BY DEF Config, Value, Loaded, FromEnv, Turso, TokenGiven

LEMMA ServerGives ==
  ASSUME WorldTyped, server # Absent
  PROVE  /\ server.token = TokenGiven(settings) /\ server.token \in Tokens
         /\ server.secret \in Secrets
BY ConfigGives DEF WorldTyped, Tokens, Secrets

(* One attempt of one process takes a step. *)
LEMMA OneAttempt ==
  ASSUME AttemptsTyped, NEW p \in Process, NEW v \in Provider, NEW a \in Attempts,
         attempt' = [attempt EXCEPT ![p][v] = a]
  PROVE  /\ attempt' \in [Process -> [Provider -> Attempts]]
         /\ \A q \in Process, w \in Provider :
              attempt'[q][w] = IF q = p /\ w = v THEN a ELSE attempt[q][w]
BY DEF AttemptsTyped

(* What stays as it is when the variables it is about do. *)
LEMMA Frames ==
  ASSUME IInv
  PROVE  /\ UNCHANGED <<visit, now, serverVars>> => WorldTyped'
         /\ UNCHANGED <<file, token, app>> => FilesTyped'
         /\ UNCHANGED <<cache, using>> => PassesTyped'
         /\ UNCHANGED <<visit, attempts, tabs, attempt>> =>
              AttemptsTyped' /\ (\A p \in Process : Got(p)') /\ TabsOwned'
         /\ UNCHANGED <<now, serverVars, file, attempt, using>> => SessionsGood'
         /\ UNCHANGED <<now, serverVars, cache, using>> => TokensGood'
         /\ UNCHANGED app => LockedToExpected'
<1>1. UNCHANGED <<visit, now, serverVars>> => WorldTyped'
  BY DEF IInv, WorldTyped, serverVars
<1>2. UNCHANGED <<file, token, app>> => FilesTyped'
  BY DEF IInv, FilesTyped
<1>3. UNCHANGED <<cache, using>> => PassesTyped'
  BY DEF IInv, PassesTyped
<1>4. UNCHANGED <<visit, attempts, tabs, attempt>> =>
        AttemptsTyped' /\ (\A p \in Process : Got(p)') /\ TabsOwned'
  BY DEF IInv, AttemptsTyped, Got, TabsOwned
<1>5. UNCHANGED <<now, serverVars, file, attempt, using>> => SessionsGood'
  BY DEF IInv, SessionsGood, Good, serverVars, Readable
<1>6. UNCHANGED <<now, serverVars, cache, using>> => TokensGood'
  BY DEF IInv, TokensGood, serverVars
<1>7. UNCHANGED app => LockedToExpected'
  BY DEF IInv, LockedToExpected
<1> QED BY <1>1, <1>2, <1>3, <1>4, <1>5, <1>6, <1>7

(* An attempt that goes on, but does not begin to wait, keeps what is known of attempts, *)
(* if what it got is what its step says.                                                  *)
LEMMA AttemptGoesOn ==
  ASSUME IInv, NEW p \in Process, NEW v \in Provider, NEW a \in Attempts,
         attempt' = [attempt EXCEPT ![p][v] = a], UNCHANGED <<visit, attempts, tabs>>,
         a.at # "waiting", a.nonce <= attempts,
         (v = "google" /\ a.at = "write") => a.got \in Sessions,
         (v = "raindrop" /\ a.at = "exchange") => a.account \in Account,
         (v = "raindrop" /\ a.at = "write") => a.got \in Account
  PROVE  AttemptsTyped' /\ (\A q \in Process : Got(q)') /\ TabsOwned'
<1>1. /\ attempt' \in [Process -> [Provider -> Attempts]]
      /\ \A q \in Process, w \in Provider :
           attempt'[q][w] = IF q = p /\ w = v THEN a ELSE attempt[q][w]
  BY OneAttempt DEF IInv
<1>2. AttemptsTyped'
  BY <1>1 DEF IInv, AttemptsTyped
<1>3. \A q \in Process : Got(q)'
  <2>1. "google" \in Provider /\ "raindrop" \in Provider
    BY DEF Provider
  <2> QED BY <1>1, <2>1 DEF IInv, Got
<1>4. TabsOwned'
  BY <1>1 DEF IInv, TabsOwned
<1> QED BY <1>2, <1>3, <1>4

(* ... and what is known of sessions, if those that it got and wrote are good. *)
LEMMA SessionsGoOn ==
  ASSUME IInv, NEW p \in Process, NEW v \in Provider, NEW a \in Attempts,
         attempt' = [attempt EXCEPT ![p][v] = a], UNCHANGED <<now, serverVars, using>>,
         (v = "google" /\ a.at = "write") => Good(a.got),
         file' = file \/ ~Readable(file') \/ Good(file')
  PROVE  SessionsGood'
<1>1. \A q \in Process, w \in Provider :
        attempt'[q][w] = IF q = p /\ w = v THEN a ELSE attempt[q][w]
  BY OneAttempt DEF IInv
<1>2. \A q \in Process : attempt[q]["google"].at = "write" => Good(attempt[q]["google"].got)
  BY DEF IInv, SessionsGood
<1>3. "google" \in Provider
  BY DEF Provider
<1>4. \A q \in Process : (attempt[q]["google"].at = "write" => Good(attempt[q]["google"].got))'
  BY <1>1, <1>2, <1>3 DEF Good, serverVars
<1>5. (Readable(file) => Good(file))'
  BY DEF IInv, SessionsGood, Good, serverVars, Readable
<1>6. \A q \in Process : (using[q] # Absent => Good(using[q].session))'
  BY DEF IInv, SessionsGood, Good, serverVars
<1> QED BY <1>4, <1>5, <1>6 DEF SessionsGood
-----------------------------------------------------------------------------
(* No attempt is the first value of each, and the one an attempt ends with. *)
LEMMA NoAttemptFits ==
  NoAttempt \in Attempts /\ [NoAttempt EXCEPT !.at = "asked"] \in Attempts
BY DEF NoAttempt, Attempts, Steps

LEMMA IInvInit == SignInInit => IInv
<1> SUFFICES ASSUME SignInInit PROVE IInv
  OBVIOUS
<1>1. WorldTyped
  BY SignInAssumption DEF SignInInit, WorldTyped
<1>2. FilesTyped /\ PassesTyped /\ LockedToExpected
  BY DEF SignInInit, FilesTyped, PassesTyped, States, LockedToExpected
<1>3. AttemptsTyped
  BY SignInAssumption, NoAttemptFits DEF SignInInit, AttemptsTyped
<1>4. \A p \in Process, v \in Provider : attempt[p][v].at = "idle" /\ attempt[p][v].nonce = 0
  BY DEF SignInInit, NoAttempt
<1>5. (\A p \in Process : Got(p)) /\ TabsOwned
  BY <1>4 DEF SignInInit, Got, TabsOwned, Provider
<1>6. SessionsGood
  BY <1>4 DEF SignInInit, SessionsGood, Readable, Provider
<1>7. TokensGood
  BY DEF SignInInit, TokensGood
<1> QED BY <1>1, <1>2, <1>3, <1>5, <1>6, <1>7 DEF IInv

(* The app starts: it is signed in only with a session of the account that is expected. *)
LEMMA AppStartsKeeps == IInv /\ AppStarts => IInv'
<1> SUFFICES ASSUME IInv, AppStarts PROVE IInv'
  OBVIOUS
<1>1. AuthLoaded \in [state : States, account : Account \cup {Absent}]
  <2>1. Readable(file) => file.account \in Account
    BY DEF IInv, FilesTyped, Sessions, Readable
  <2> QED BY <2>1, SignInAssumption DEF AuthLoaded, States
<1>2. FilesTyped'
  BY <1>1 DEF AppStarts, IInv, FilesTyped
<1>3. LockedToExpected'
  BY DEF AppStarts, AuthLoaded, LockedToExpected
<1> QED BY <1>2, <1>3, Frames DEF AppStarts, IInv

(* A program stops: none of its attempts goes on. *)
LEMMA StopsKeeps == ASSUME NEW p \in Process, IInv, Stops(p) PROVE IInv'
<1>1. \A q \in Process, w \in Provider :
        attempt'[q][w] = IF q = p THEN NoAttempt ELSE attempt[q][w]
  BY DEF Stops, IInv, AttemptsTyped
<1>2. attempt' \in [Process -> [Provider -> Attempts]]
  BY NoAttemptFits DEF Stops, IInv, AttemptsTyped
<1>3. FilesTyped' /\ LockedToExpected'
  BY DEF Stops, IInv, FilesTyped, LockedToExpected, States
<1>4. PassesTyped' /\ TokensGood'
  <2>1. PassesTyped'
    BY DEF Stops, IInv, PassesTyped
  <2>2. \A q \in Process : (cache'[q] = {} \/ cache'[q] = cache[q])
                           /\ (using'[q] = Absent \/ using'[q] = using[q])
    BY DEF Stops, IInv, PassesTyped
  <2>3. UNCHANGED <<now, serverVars>>
    BY DEF Stops
  <2> QED BY <2>1, <2>2, <2>3 DEF IInv, TokensGood, serverVars
<1>5. AttemptsTyped'
  BY <1>2 DEF Stops, IInv, AttemptsTyped
<1>6. (\A q \in Process : Got(q)') /\ TabsOwned'
  <2>1. NoAttempt.at = "idle" /\ NoAttempt.nonce = 0
    BY DEF NoAttempt
  <2>2. \A q \in Process : Got(q)'
    BY <1>1, <2>1 DEF IInv, Got, Provider
  <2>3. TabsOwned'
    BY <1>1, <2>1 DEF Stops, IInv, TabsOwned, AttemptsTyped
  <2> QED BY <2>2, <2>3
<1>7. SessionsGood'
  <2>1. \A q \in Process : attempt'[q]["google"].at = "write" => attempt'[q]["google"] = attempt[q]["google"]
    BY <1>1 DEF NoAttempt, Provider
  <2>2. \A q \in Process : using'[q] = Absent \/ using'[q] = using[q]
    BY DEF Stops, IInv, PassesTyped
  <2>3. UNCHANGED <<now, serverVars, file>>
    BY DEF Stops
  <2> QED BY <2>1, <2>2, <2>3 DEF IInv, SessionsGood, Good, Readable, serverVars
<1> QED BY <1>3, <1>4, <1>5, <1>6, <1>7, Frames DEF Stops, IInv

(* An attempt is asked for. *)
LEMMA AskKeeps ==
  ASSUME NEW p \in Process, NEW v \in Provider, IInv,
         attempt' = [attempt EXCEPT ![p][v] = [NoAttempt EXCEPT !.at = "asked"]],
         UNCHANGED <<visit, now, serverVars, file, token, tabs, attempts, cache, using>>,
         FilesTyped', LockedToExpected'
  PROVE  IInv'
<1> DEFINE a == [NoAttempt EXCEPT !.at = "asked"]
<1>1. a \in Attempts /\ a.at = "asked" /\ a.nonce <= attempts
  BY NoAttemptFits DEF NoAttempt, IInv, AttemptsTyped
<1>2. AttemptsTyped' /\ (\A q \in Process : Got(q)') /\ TabsOwned'
  BY <1>1, AttemptGoesOn
<1>3. SessionsGood'
  BY <1>1, SessionsGoOn
<1> QED BY <1>2, <1>3, Frames DEF IInv

LEMMA SyncSignInRequestedKeeps == IInv /\ SyncSignInRequested => IInv'
<1> SUFFICES ASSUME IInv, SyncSignInRequested PROVE IInv'
  OBVIOUS
<1>1. FilesTyped' /\ LockedToExpected'
  BY DEF SyncSignInRequested, IInv, FilesTyped, LockedToExpected, States
<1> QED BY <1>1, AskKeeps DEF SyncSignInRequested, Process, Provider

LEMMA CliAuthKeeps == IInv /\ CliAuth => IInv'
<1> SUFFICES ASSUME IInv, CliAuth PROVE IInv'
  OBVIOUS
<1>1. FilesTyped' /\ LockedToExpected'
  BY Frames DEF CliAuth
<1> QED BY <1>1, AskKeeps DEF CliAuth, Process, Provider

LEMMA RaindropAsksKeeps == ASSUME NEW p \in Process, IInv, RaindropAsks(p) PROVE IInv'
<1>1. FilesTyped' /\ LockedToExpected'
  BY Frames DEF RaindropAsks
<1> QED BY <1>1, AskKeeps DEF RaindropAsks, Provider
-----------------------------------------------------------------------------
(* An attempt that fails goes on. *)
LEMMA FailKeeps ==
  ASSUME NEW p \in Process, NEW v \in Provider, IInv,
         attempt' = [attempt EXCEPT ![p][v].at = "failed"],
         UNCHANGED <<visit, now, serverVars, file, token, app, tabs, attempts, cache, using>>
  PROVE  IInv'
<1> DEFINE a == [attempt[p][v] EXCEPT !.at = "failed"]
<1>1. attempt[p][v] \in Attempts /\ attempt' = [attempt EXCEPT ![p][v] = a]
  BY DEF IInv, AttemptsTyped
<1>2. a \in Attempts /\ a.at = "failed" /\ a.nonce = attempt[p][v].nonce
  BY <1>1 DEF Attempts, Steps
<1>3. a.nonce <= attempts
  BY <1>2 DEF IInv, TabsOwned
<1> HIDE DEF a
<1>4. AttemptsTyped' /\ (\A q \in Process : Got(q)') /\ TabsOwned'
  BY <1>1, <1>2, <1>3, AttemptGoesOn
<1>5. SessionsGood'
  BY <1>1, <1>2, SessionsGoOn
<1> QED BY <1>4, <1>5, Frames DEF IInv

(* An attempt opens its tab, with a nonce that no tab had. *)
LEMMA ListensKeeps ==
  ASSUME NEW p \in Process, NEW v \in Provider, IInv, Listens(p, v)
  PROVE  IInv'
<1>1. CASE Waits(v) # {}
  BY <1>1, FailKeeps DEF Listens
<1>2. CASE Waits(v) = {}
  <2> DEFINE a == [attempt[p][v] EXCEPT !.at = "waiting", !.nonce = attempts']
  <2>1. /\ attempt[p][v] \in Attempts /\ attempts' = attempts + 1 /\ attempts \in Nat
        /\ attempts' <= MaxAttempts[visit] /\ attempt' = [attempt EXCEPT ![p][v] = a]
        /\ tabs' = tabs \cup {[to |-> v, nonce |-> attempts', by |-> p]}
    <3>1. attempt[p][v] \in Attempts /\ attempts \in Nat /\ MaxAttempts[visit] \in Nat
      BY SignInAssumption DEF IInv, AttemptsTyped, WorldTyped
    <3>2. attempts < MaxAttempts[visit] /\ attempts' = attempts + 1
      BY <1>2 DEF Listens
    <3>3. /\ attempt' = [attempt EXCEPT ![p][v] = a]
          /\ tabs' = tabs \cup {[to |-> v, nonce |-> attempts', by |-> p]}
      BY <1>2, <3>1 DEF Listens, IInv, AttemptsTyped
    <3> QED BY <3>1, <3>2, <3>3
  <2>2. a \in Attempts /\ a.at = "waiting" /\ a.nonce = attempts + 1
    <3>1. attempt[p][v] \in Attempts /\ attempts' \in Nat
      BY <2>1
    <3>2. a \in Attempts /\ a.at = "waiting" /\ a.nonce = attempts'
      BY <3>1 DEF Attempts, Steps
    <3> HIDE DEF a
    <3> QED BY <2>1, <3>2
  <2> HIDE DEF a
  <2>3. /\ attempt' \in [Process -> [Provider -> Attempts]]
        /\ \A q \in Process, w \in Provider :
             attempt'[q][w] = IF q = p /\ w = v THEN a ELSE attempt[q][w]
    BY <2>1, <2>2, OneAttempt DEF IInv
  <2>4. AttemptsTyped'
    BY <2>1, <2>3 DEF Listens, IInv, AttemptsTyped, Tabs
  <2>5. \A q \in Process : Got(q)'
    BY <2>2, <2>3 DEF IInv, Got, Provider
  <2>6. TabsOwned'
    <3> DEFINE n == [to |-> v, nonce |-> attempts', by |-> p]
    <3>1. n.nonce = attempts + 1 /\ n.by = p /\ n.to = v
      BY <2>1
    <3>2. \A t \in tabs' : t \in tabs \/ t = n
      BY <2>1
    <3> HIDE DEF n
    <3>3. \A t \in tabs : t.nonce \in Nat /\ t.nonce > 0 /\ t.nonce <= attempts
      BY DEF IInv, TabsOwned, AttemptsTyped, Tabs
    <3>4. \A q \in Process, w \in Provider : attempt[q][w].nonce \in Nat /\ attempt[q][w].nonce <= attempts
      BY DEF IInv, TabsOwned, AttemptsTyped, Attempts
    <3>5. \A t \in tabs' : t.nonce > 0 /\ t.nonce <= attempts'
      BY <2>1, <3>1, <3>2, <3>3
    <3>6. \A q \in Process, w \in Provider : attempt'[q][w].nonce <= attempts'
      BY <2>1, <2>2, <2>3, <3>4
    <3>7. ASSUME NEW q \in Process, NEW w \in Provider, NEW t \in tabs',
                 attempt'[q][w].at = "waiting", t.nonce = attempt'[q][w].nonce
          PROVE  t.by = q /\ t.to = w
      <4>1. CASE q = p /\ w = v
        BY <4>1, <3>7, <2>1, <2>2, <2>3, <3>1, <3>2, <3>3
      <4>2. CASE ~(q = p /\ w = v)
        <5>1. attempt'[q][w] = attempt[q][w]
          BY <4>2, <2>3
        <5>2. t \in tabs
          BY <5>1, <3>7, <2>1, <3>1, <3>2, <3>4
        <5> QED BY <5>1, <5>2, <3>7 DEF IInv, TabsOwned
      <4> QED BY <4>1, <4>2
    <3> QED BY <3>5, <3>6, <3>7 DEF TabsOwned
  <2>7. SessionsGood'
    BY <2>1, <2>2, SessionsGoOn DEF Listens
  <2> QED BY <2>4, <2>5, <2>6, <2>7, Frames DEF Listens, IInv
<1> QED BY <1>1, <1>2

(* A tab is answered: whoever waits at the port takes the answer, or fails. *)
LEMMA RedirectedKeeps ==
  ASSUME NEW tab \in tabs, NEW answer \in Account \cup {Absent}, IInv, Redirected(tab, answer)
  PROVE  IInv'
<1> DEFINE taken(q, w) == [attempt[q][w] EXCEPT !.at = "exchange", !.account = answer]
           failed(q, w) == [attempt[q][w] EXCEPT !.at = "failed"]
           next(q, w) == IF w # tab.to \/ q \notin Waits(w) THEN attempt[q][w]
                         ELSE IF Accepted(attempt[q][w].nonce, tab, answer) THEN taken(q, w)
                         ELSE failed(q, w)
<1>1. attempt' = [q \in Process |-> [w \in Provider |-> next(q, w)]]
  BY DEF Redirected
<1>2. ASSUME NEW q \in Process, NEW w \in Provider
      PROVE  /\ next(q, w) \in Attempts /\ next(q, w).nonce = attempt[q][w].nonce
             /\ \/ next(q, w) = attempt[q][w]
                \/ next(q, w).at = "failed"
                \/ next(q, w).at = "exchange" /\ next(q, w).account \in Account
  <2>1. attempt[q][w] \in Attempts
    BY DEF IInv, AttemptsTyped
  <2>2. /\ failed(q, w) \in Attempts /\ failed(q, w).nonce = attempt[q][w].nonce
        /\ failed(q, w).at = "failed"
    BY <2>1 DEF Attempts, Steps
  <2>3. /\ taken(q, w) \in Attempts /\ taken(q, w).nonce = attempt[q][w].nonce
        /\ taken(q, w).at = "exchange" /\ taken(q, w).account = answer
    BY <2>1 DEF Attempts, Steps
  <2>4. \/ next(q, w) = attempt[q][w] \/ next(q, w) = failed(q, w)
        \/ next(q, w) = taken(q, w) /\ answer # Absent
    BY DEF Accepted
  <2> HIDE DEF next, taken, failed
  <2> QED BY <2>1, <2>2, <2>3, <2>4
<1> HIDE DEF next
<1>3. /\ attempt' \in [Process -> [Provider -> Attempts]]
      /\ \A q \in Process, w \in Provider :
        /\ attempt'[q][w].nonce = attempt[q][w].nonce
        /\ \/ attempt'[q][w] = attempt[q][w]
           \/ attempt'[q][w].at = "failed"
           \/ attempt'[q][w].at = "exchange" /\ attempt'[q][w].account \in Account
  BY <1>1, <1>2
<1>4. AttemptsTyped'
  BY <1>3 DEF Redirected, IInv, AttemptsTyped
<1>5. \A q \in Process : Got(q)'
  BY <1>3 DEF IInv, Got, Provider
<1>6. TabsOwned'
  <2>1. tabs' \subseteq tabs /\ attempts' = attempts
    BY DEF Redirected
  <2>2. \A q \in Process, w \in Provider : attempt'[q][w].at = "waiting" => attempt'[q][w] = attempt[q][w]
    BY <1>3
  <2> QED BY <1>3, <2>1, <2>2 DEF IInv, TabsOwned
<1>7. SessionsGood'
  <2>1. \A q \in Process : (attempt'[q]["google"].at = "write") => attempt'[q]["google"] = attempt[q]["google"]
    BY <1>3 DEF Provider
  <2>2. UNCHANGED <<now, serverVars, file, using>>
    BY DEF Redirected
  <2> QED BY <2>1, <2>2 DEF IInv, SessionsGood, Good, Readable, serverVars
<1> QED BY <1>4, <1>5, <1>6, <1>7, Frames DEF Redirected, IInv

(* The session that the server makes is good. *)
LEMMA SessionFits ==
  ASSUME IInv, server # Absent, NEW account \in Account
  PROVE  Session(account) \in Sessions /\ Good(Session(account))
<1>1. server.secret \in Secrets
  BY ServerGives DEF IInv
<1>2. now \in Nat /\ changed \in Nat /\ changed <= now /\ Life \in Nat
  BY SignInAssumption DEF IInv, WorldTyped
<1> QED BY <1>1, <1>2 DEF Session, Sessions, Good

LEMMA ExchangedKeeps ==
  ASSUME NEW p \in Process, NEW v \in Provider, IInv, Exchanged(p, v)
  PROVE  IInv'
<1>1. CASE v = "google" /\ ~(Answers /\ Allowed(attempt[p][v].account))
  BY <1>1, FailKeeps DEF Exchanged
<1>2. CASE ~(v = "google" /\ ~(Answers /\ Allowed(attempt[p][v].account)))
  <2> DEFINE g == IF v = "google" THEN Session(attempt[p][v].account) ELSE attempt[p][v].account
             a == [attempt[p][v] EXCEPT !.at = "write", !.got = g]
  <2>1. /\ attempt[p][v] \in Attempts /\ attempt' = [attempt EXCEPT ![p][v] = a]
        /\ attempt[p][v].nonce <= attempts
    BY <1>2 DEF Exchanged, IInv, AttemptsTyped, TabsOwned
  <2>2. v = "google" => g \in Sessions /\ Good(g)
    <3> SUFFICES ASSUME v = "google" PROVE g \in Sessions /\ Good(g)
      OBVIOUS
    <3>1. server # Absent /\ attempt[p][v].account \in Account
      BY <1>2, <2>1 DEF Answers, Allowed, Attempts
    <3> QED BY <3>1, SessionFits
  <2>3. v = "raindrop" => g \in Account
    BY DEF Exchanged, At, IInv, Got
  <2>4. g \in Sessions \cup Account
    BY <2>2, <2>3 DEF Provider
  <2> HIDE DEF g
  <2>5. a \in Attempts /\ a.at = "write" /\ a.got = g /\ a.nonce = attempt[p][v].nonce
    BY <2>1, <2>4 DEF Attempts, Steps
  <2> HIDE DEF a
  <2>6. AttemptsTyped' /\ (\A q \in Process : Got(q)') /\ TabsOwned'
    BY <2>1, <2>2, <2>3, <2>5, AttemptGoesOn DEF Exchanged
  <2>7. file' = file \/ ~Readable(file')
    BY <1>2 DEF Exchanged, Readable
  <2>8. SessionsGood'
    BY <2>1, <2>2, <2>5, <2>7, SessionsGoOn DEF Exchanged
  <2>9. FilesTyped'
    BY <1>2 DEF Exchanged, IInv, FilesTyped
  <2> QED BY <2>6, <2>8, <2>9, Frames DEF Exchanged, IInv
<1> QED BY <1>1, <1>2

LEMMA SavedKeeps ==
  ASSUME NEW p \in Process, NEW v \in Provider, IInv, Saved(p, v)
  PROVE  IInv'
<1> DEFINE a == [attempt[p][v] EXCEPT !.at = "written"]
<1>1. attempt[p][v] \in Attempts /\ attempt' = [attempt EXCEPT ![p][v] = a]
  BY DEF Saved, IInv, AttemptsTyped
<1>2. a \in Attempts /\ a.at = "written" /\ a.nonce <= attempts
  BY <1>1 DEF Attempts, Steps, IInv, TabsOwned
<1> HIDE DEF a
<1>3. AttemptsTyped' /\ (\A q \in Process : Got(q)') /\ TabsOwned'
  BY <1>1, <1>2, AttemptGoesOn DEF Saved
<1>4. v = "google" => file' \in Sessions /\ Good(file')
  BY DEF Saved, At, IInv, Got, SessionsGood, Good, serverVars
<1>5. file' = file \/ Good(file')
  BY <1>4 DEF Saved
<1>6. SessionsGood'
  <2>1. UNCHANGED <<now, serverVars, using>>
    BY DEF Saved
  <2>2. a.at # "write"
    BY <1>2
  <2> QED BY <1>1, <1>2, <1>5, <2>1, <2>2, SessionsGoOn
<1>7. FilesTyped'
  BY <1>4 DEF Saved, At, IInv, Got, FilesTyped, Provider
<1> QED BY <1>3, <1>6, <1>7, Frames DEF Saved, IInv

LEMMA FinishedKeeps ==
  ASSUME NEW p \in Process, NEW v \in Provider, IInv, Finished(p, v)
  PROVE  IInv'
<1>1. NoAttempt \in Attempts /\ NoAttempt.at = "idle" /\ NoAttempt.nonce <= attempts
  BY NoAttemptFits DEF NoAttempt, IInv, AttemptsTyped
<1>2. AttemptsTyped' /\ (\A q \in Process : Got(q)') /\ TabsOwned'
  BY <1>1, AttemptGoesOn DEF Finished
<1>3. SessionsGood'
  BY <1>1, SessionsGoOn DEF Finished
<1>4. FilesTyped' /\ LockedToExpected'
  BY SignInAssumption DEF Finished, IInv, FilesTyped, States, LockedToExpected
<1> QED BY <1>2, <1>3, <1>4, Frames DEF Finished, IInv
-----------------------------------------------------------------------------
(* A pass takes the session of the file. *)
LEMMA PassStartsKeeps ==
  ASSUME NEW p \in Process, IInv, PassStarts(p)
  PROVE  IInv'
<1>1. file \in Sessions /\ Good(file)
  BY DEF PassStarts, Readable, IInv, FilesTyped, SessionsGood
<1>2. /\ using' \in [Process -> PassStates \cup {Absent}]
      /\ \A q \in Process :
           using'[q] = IF q = p THEN [session |-> file, with |-> Absent] ELSE using[q]
  BY <1>1 DEF PassStarts, IInv, PassesTyped, PassStates
<1>3. PassesTyped'
  BY <1>2 DEF PassStarts, IInv, PassesTyped
<1>4. UNCHANGED <<now, serverVars, file, attempt, cache>>
  BY DEF PassStarts
<1>5. SessionsGood'
  BY <1>1, <1>2, <1>4 DEF IInv, SessionsGood, Good, Readable, serverVars
<1>6. TokensGood'
  BY <1>2, <1>4 DEF IInv, TokensGood, serverVars
<1> QED BY <1>3, <1>5, <1>6, Frames DEF PassStarts, IInv

(* A pass takes a token that it has, or one of the server. *)
LEMMA TokenTakenKeeps ==
  ASSUME NEW p \in Process, IInv, TokenTaken(p)
  PROVE  IInv'
<1> DEFINE session == using[p].session
           given == [of |-> Key(session), exp |-> now + Life, token |-> server.token]
<1>1. /\ using[p] \in PassStates /\ session \in Sessions /\ Good(session)
      /\ cache[p] \subseteq Cachings
  BY DEF TokenTaken, IInv, PassesTyped, SessionsGood, PassStates
<1>2. now \in Nat /\ changed \in Nat /\ changed <= now /\ Life \in Nat
  BY SignInAssumption DEF IInv, WorldTyped
<1>3. Key(session) \in Keys /\ Key(session).exp = session.exp
  BY <1>1 DEF Sessions, Key, Keys
<1>4. UNCHANGED <<visit, now, serverVars, file, token, app, attempt, tabs, attempts>>
  BY DEF TokenTaken
<1>5. ASSUME NEW k \in Tokens,
             session.made > changed => k = TokenGiven(settings),
             using' = [using EXCEPT ![p].with = k]
      PROVE  /\ using' \in [Process -> PassStates \cup {Absent}] /\ SessionsGood'
             /\ \A q \in Process :
                  (using'[q] # Absent /\ using'[q].with # Absent /\ using'[q].session.made > changed)
                    => using'[q].with = TokenGiven(settings)
  <2> DEFINE u == [using[p] EXCEPT !.with = k]
  <2>1. u \in PassStates /\ u.session = session /\ u.with = k
    BY <1>1 DEF PassStates
  <2>2. using' = [using EXCEPT ![p] = u]
    BY <1>5
  <2> HIDE DEF u, session
  <2>3. /\ using' \in [Process -> PassStates \cup {Absent}]
        /\ \A q \in Process : using'[q] = IF q = p THEN u ELSE using[q]
    BY <2>1, <2>2 DEF IInv, PassesTyped
  <2>4. SessionsGood'
    BY <1>1, <1>4, <2>1, <2>3 DEF IInv, SessionsGood, Good, Readable, serverVars
  <2>5. \A q \in Process :
          (using'[q] # Absent /\ using'[q].with # Absent /\ using'[q].session.made > changed)
            => using'[q].with = TokenGiven(settings)
    BY <1>5, <2>1, <2>3 DEF IInv, TokensGood
  <2> QED BY <2>3, <2>4, <2>5
<1>6. CASE Cached(p, session) # {}
  <2>1. PICK c \in Cached(p, session) : using' = [using EXCEPT ![p].with = c.token]
    BY <1>6 DEF TokenTaken
  <2>2. c \in cache[p] /\ c \in Cachings /\ c.of = Key(session)
    BY <1>1 DEF Cached
  <2>3. c.token \in Tokens
    BY <2>2 DEF Cachings
  <2>4. session.made > changed => c.token = TokenGiven(settings)
    <3>1. c.of.exp = session.made + Life /\ session.made \in Nat
      BY <1>1, <1>3, <2>2 DEF Good, Sessions
    <3>2. c.of.exp > changed + Life => c.token = TokenGiven(settings)
      BY <2>2 DEF IInv, TokensGood
    <3> QED BY <1>2, <3>1, <3>2
  <2>5. UNCHANGED cache
    BY <1>6 DEF TokenTaken
  <2>6. PassesTyped' /\ SessionsGood'
    BY <1>5, <2>1, <2>3, <2>4, <2>5 DEF IInv, PassesTyped
  <2>7. TokensGood'
    BY <1>4, <1>5, <2>1, <2>3, <2>4, <2>5 DEF IInv, TokensGood, serverVars
  <2> QED BY <1>4, <2>6, <2>7, Frames DEF IInv
<1>7. CASE Cached(p, session) = {}
  <2>1. /\ RequireSession(session) /\ using' = [using EXCEPT ![p].with = server.token]
        /\ cache' = [cache EXCEPT ![p] = {c \in @ : c.of # given.of} \cup {given}]
    BY <1>7 DEF TokenTaken
  <2>2. server.token \in Tokens /\ server.token = TokenGiven(settings)
    BY <2>1, ServerGives DEF RequireSession, Answers, IInv
  <2>3. /\ given \in Cachings /\ given.of.exp <= now + Life
        /\ given.token = TokenGiven(settings)
    <3>1. session.exp <= now + Life
      BY <1>1, <1>2 DEF Good, Sessions
    <3> QED BY <1>2, <1>3, <2>2, <3>1 DEF Cachings
  <2> HIDE DEF given
  <2>4. /\ cache' \in [Process -> SUBSET Cachings]
        /\ \A q \in Process : \A c \in cache'[q] : c \in cache[q] \/ c = given
    BY <1>1, <2>1, <2>3 DEF IInv, PassesTyped
  <2>5. PassesTyped' /\ SessionsGood'
    BY <1>5, <2>1, <2>2, <2>4 DEF PassesTyped
  <2>6. TokensGood'
    <3>1. \A q \in Process : \A c \in cache'[q] :
            c.of.exp <= now + Life /\ (c.of.exp > changed + Life => c.token = TokenGiven(settings))
      BY <2>3, <2>4 DEF IInv, TokensGood
    <3> QED BY <1>4, <1>5, <2>1, <2>2, <3>1 DEF TokensGood, serverVars
  <2> QED BY <1>4, <2>5, <2>6, Frames DEF IInv
<1> QED BY <1>6, <1>7

LEMMA PassEndsKeeps ==
  ASSUME NEW p \in Process, IInv, PassEnds(p)
  PROVE  IInv'
<1>1. /\ PassesTyped'
      /\ \A q \in Process : (cache'[q] = {} \/ cache'[q] = cache[q])
                            /\ (using'[q] = Absent \/ using'[q] = using[q])
  BY DEF PassEnds, IInv, PassesTyped
<1>2. UNCHANGED <<now, serverVars, file, attempt>>
  BY DEF PassEnds
<1>3. SessionsGood'
  BY <1>1, <1>2 DEF IInv, SessionsGood, Good, Readable, serverVars
<1>4. TokensGood'
  BY <1>1, <1>2 DEF IInv, TokensGood, serverVars
<1> QED BY <1>1, <1>3, <1>4, Frames DEF PassEnds, IInv
-----------------------------------------------------------------------------
(* What is good stays good as time passes. *)
LEMMA LaterKeeps ==
  ASSUME IInv, Later, WorldTyped', UNCHANGED <<visit, file, token, app, attempt, tabs, attempts, cache, using>>,
         UNCHANGED <<settings, server, changed>> \/ changed' = now'
  PROVE  IInv'
<1>1. now \in Nat /\ now' = now + 1 /\ Life \in Nat /\ changed \in Nat /\ changed' \in Nat
  BY SignInAssumption DEF IInv, Later, WorldTyped
<1>2. \A s \in Sessions : Good(s) => Good(s)'
  BY <1>1 DEF Good, Sessions
<1>3. /\ \A q \in Process : attempt[q]["google"].at = "write" => attempt[q]["google"].got \in Sessions
      /\ \A q \in Process : using[q] # Absent => using[q].session \in Sessions
      /\ Readable(file) => file \in Sessions
  BY DEF IInv, Got, PassesTyped, PassStates, FilesTyped, Readable
<1>4. SessionsGood'
  BY <1>2, <1>3 DEF IInv, SessionsGood, Readable
<1>5. TokensGood'
  <2>1. \A q \in Process : \A c \in cache[q] : c.of.exp \in Nat
    BY DEF IInv, PassesTyped, Cachings, Keys
  <2>2. \A q \in Process : \A c \in cache[q] :
          /\ c.of.exp <= now' + Life
          /\ c.of.exp > changed' + Life => c.token = TokenGiven(settings')
    BY <1>1, <2>1 DEF IInv, TokensGood
  <2>3. \A q \in Process : using[q] # Absent => using[q].session.made \in Nat /\ using[q].session.made <= now
    BY <1>3 DEF IInv, SessionsGood, Good, Sessions
  <2>4. \A q \in Process : (using[q] # Absent /\ using[q].with # Absent /\ using[q].session.made > changed')
          => using[q].with = TokenGiven(settings')
    BY <1>1, <2>3 DEF IInv, TokensGood
  <2> QED BY <2>2, <2>4 DEF TokensGood
<1> QED BY <1>4, <1>5, Frames DEF IInv

LEMMA TimePassesKeeps == IInv /\ TimePasses => IInv'
<1> SUFFICES ASSUME IInv, TimePasses PROVE IInv'
  OBVIOUS
<1>1. WorldTyped'
  BY SignInAssumption DEF TimePasses, Later, IInv, WorldTyped, serverVars
<1> QED BY <1>1, LaterKeeps DEF TimePasses, serverVars

LEMMA OperatesKeeps == IInv /\ Operates => IInv'
<1> SUFFICES ASSUME IInv, Operates PROVE IInv'
  OBVIOUS
<1>1. /\ now' \in Nat /\ now' <= MaxTime[visit'] /\ changed' = now' /\ visit' \in Visits
  BY SignInAssumption DEF Operates, Later, IInv, WorldTyped
<1>2. settings' \in Settings /\ server' \in {Absent, Config(settings')}
  BY DEF Operates, IInv, WorldTyped
<1>3. WorldTyped'
  BY <1>1, <1>2 DEF WorldTyped
<1> QED BY <1>1, <1>3, LaterKeeps DEF Operates
-----------------------------------------------------------------------------
LEMMA IInvNext == IInv /\ [SignInNext]_signVars => IInv'
<1> SUFFICES ASSUME IInv, [SignInNext]_signVars PROVE IInv'
  OBVIOUS
<1>1. CASE UNCHANGED signVars
  BY <1>1, Frames DEF IInv, signVars, serverVars
<1>2. CASE AppStarts \/ SyncSignInRequested \/ CliAuth \/ TimePasses \/ Operates
  BY <1>2, AppStartsKeeps, SyncSignInRequestedKeeps, CliAuthKeeps, TimePassesKeeps, OperatesKeeps
<1>3. CASE \E p \in Process : Stops(p) \/ PassStarts(p) \/ TokenTaken(p) \/ PassEnds(p) \/ RaindropAsks(p)
  BY <1>3, StopsKeeps, PassStartsKeeps, TokenTakenKeeps, PassEndsKeeps, RaindropAsksKeeps
<1>4. CASE \E p \in Process, v \in Provider :
             Listens(p, v) \/ Exchanged(p, v) \/ Saved(p, v) \/ Finished(p, v)
  BY <1>4, ListensKeeps, ExchangedKeeps, SavedKeeps, FinishedKeeps
<1>5. CASE \E tab \in tabs, answer \in Account \cup {Absent} : Redirected(tab, answer)
  BY <1>5, RedirectedKeeps
<1> QED BY <1>1, <1>2, <1>3, <1>4, <1>5 DEF SignInNext

LEMMA IInvAlways == SignInSpec => []IInv
BY IInvInit, IInvNext, PTL DEF SignInSpec

(* Every variable has its type, and every moment, attempt and nonce is within its bound. *)
LEMMA SignInTypes == SignInSpec => []SignInTypeOK
<1>1. IInv => SignInTypeOK
  <2> SUFFICES ASSUME IInv PROVE SignInTypeOK
    OBVIOUS
  <2>1. now \in 0..MaxTime[visit] /\ changed \in 0..now /\ settings \in Settings
    BY SignInAssumption DEF IInv, WorldTyped
  <2>2. /\ app.state \in States /\ app.account \in Account \cup {Absent}
        /\ token \in Account \cup {Absent, Torn}
    BY DEF IInv, FilesTyped
  <2>3. \A p \in Process, v \in Provider : At(p, v) \in Steps
    BY DEF IInv, AttemptsTyped, Attempts, At
  <2>4. attempts \in 0..MaxAttempts[visit] /\ \A t \in tabs : t.nonce \in 1..attempts
    <3>1. visit \in Visits /\ attempts \in Nat /\ attempts <= MaxAttempts[visit]
      BY DEF IInv, WorldTyped, AttemptsTyped
    <3>2. \A t \in tabs : t.nonce \in Nat /\ t.nonce > 0 /\ t.nonce <= attempts
      BY DEF IInv, AttemptsTyped, Tabs, TabsOwned
    <3> QED BY <3>1, <3>2, SignInAssumption
  <2> QED BY <2>1, <2>2, <2>3, <2>4 DEF SignInTypeOK, States
<1> QED BY <1>1, IInvAlways, PTL

(* The app is signed in as the account that it is locked to, and a process takes the answer *)
(* of the tab it opened: an answer is accepted only with the nonce that is waited for, and   *)
(* of the tabs that are left only the process's own has it (TabsOwned).                      *)
LEMMA SignedInAsMeantAlone == SignInSpec => SignedInAsMeant
<1> DEFINE Own == \A p \in Process, v \in Provider :
       (At(p, v) = "waiting" /\ At(p, v)' = "exchange") =>
         [to |-> v, nonce |-> attempt[p][v].nonce, by |-> p] \in tabs \ tabs'
<1>1. IInv => LockedToExpected
  BY DEF IInv
<1>2. IInv /\ [SignInNext]_signVars => [Own]_signVars
  <2> SUFFICES ASSUME IInv, SignInNext, NEW p \in Process, NEW v \in Provider,
                      At(p, v) = "waiting", At(p, v)' = "exchange"
               PROVE  [to |-> v, nonce |-> attempt[p][v].nonce, by |-> p] \in tabs \ tabs'
    BY DEF signVars
  <2>1. CASE \E tab \in tabs, answer \in Account \cup {Absent} : Redirected(tab, answer)
    <3>1. PICK tab \in tabs, answer \in Account \cup {Absent} : Redirected(tab, answer)
      BY <2>1
    <3>2. v = tab.to /\ tab.nonce = attempt[p][v].nonce
      BY <3>1 DEF Redirected, Accepted, At, IInv, AttemptsTyped, Attempts
    <3>3. tab.by = p /\ tab \in Tabs
      BY <3>2 DEF IInv, TabsOwned, At, AttemptsTyped
    <3>4. tab = [to |-> v, nonce |-> attempt[p][v].nonce, by |-> p]
      BY <3>2, <3>3 DEF Tabs
    <3> QED BY <3>1, <3>4 DEF Redirected
  <2>2. ASSUME attempt'[p][v] = attempt[p][v] \/ attempt'[p][v].at # "exchange" PROVE FALSE
    BY <2>2 DEF At
  <2>3. CASE AppStarts \/ TimePasses \/ Operates
    BY <2>2, <2>3 DEF AppStarts, TimePasses, Operates
  <2>4. CASE SyncSignInRequested \/ CliAuth
    BY <2>2, <2>4 DEF SyncSignInRequested, CliAuth, NoAttempt, IInv, AttemptsTyped
  <2>5. ASSUME NEW q \in Process,
               Stops(q) \/ PassStarts(q) \/ TokenTaken(q) \/ PassEnds(q) \/ RaindropAsks(q)
        PROVE  FALSE
    BY <2>2, <2>5 DEF Stops, PassStarts, TokenTaken, PassEnds, RaindropAsks, NoAttempt, IInv, AttemptsTyped
  <2>6. ASSUME NEW q \in Process, NEW w \in Provider,
               Listens(q, w) \/ Exchanged(q, w) \/ Saved(q, w) \/ Finished(q, w)
        PROVE  FALSE
    <3>1. attempt[q][w] \in Attempts
      BY DEF IInv, AttemptsTyped
    <3> QED BY <2>2, <2>6, <3>1 DEF Listens, Exchanged, Saved, Finished, NoAttempt, IInv, AttemptsTyped, Attempts
  <2> QED BY <2>1, <2>3, <2>4, <2>5, <2>6 DEF SignInNext
<1>3. SignInSpec => []LockedToExpected
  BY <1>1, IInvAlways, PTL
<1>4. SignInSpec => [][Own]_signVars
  <2> HIDE DEF Own
  <2> QED BY <1>2, IInvAlways, PTL DEF SignInSpec
<1> QED BY <1>3, <1>4 DEF SignedInAsMeant, OwnAnswers

(* Signing in again helps: a pass with a session that is younger than the last change of the *)
(* settings ends only after it had a token, and that token is the one the settings give.     *)
LEMMA SignInHealsAlone == SignInSpec => SignInHeals
<1> DEFINE Heals == \A p \in Process :
       (/\ PassEnds(p) /\ using[p].session.made > changed /\ using[p].session.exp > now
        /\ TokenGiven(settings) = settings.good) => Through(p)
<1>1. IInv => Heals
  <2> SUFFICES ASSUME IInv, NEW p \in Process, PassEnds(p), using[p].session.made > changed,
                      using[p].session.exp > now, TokenGiven(settings) = settings.good
               PROVE  Through(p)
    OBVIOUS
  <2>1. using[p] # Absent /\ Good(using[p].session)
    BY DEF PassEnds, IInv, SessionsGood
  <2>2. RequireSession(using[p].session)
    BY <2>1 DEF Good, RequireSession, Answers
  <2>3. using[p].with # Absent
    BY <2>2 DEF PassEnds
  <2> QED BY <2>1, <2>3 DEF IInv, TokensGood, Through
<1>2. SignInSpec => [][Heals]_signVars
  <2> HIDE DEF Heals
  <2> QED BY <1>1, IInvAlways, PTL DEF SignInSpec
<1> QED BY <1>2 DEF SignInHeals

-----------------------------------------------------------------------------
(* What the last write to session.json leaves, once all that wait are done. *)
Written == IF writes = <<>> THEN saved ELSE writes[Len(writes)].of

(* The session tells what is on the screen. *)
OnScreen(s) ==
  /\ s.mode = screen /\ ValidFolder(s.folder, racks) = rack
  /\ screen = "viewer" => s.path = open.path /\ (~due => s.leaf = open.leaf)
WrittenHeld == (Up /\ Read(Written) /\ (screen = "viewer" => open # Nowhere)) => OnScreen(Written)

(* Folders only go; and as long as a document is to be restored, the viewer stays. *)
RunningHeld == Up =>
  /\ stock.racks \subseteq racks /\ rack \in racks \cup {NoRack}
  /\ pending # Nowhere /\ pending.mode = "viewer" =>
       screen = "viewer" /\ rack = ValidFolder(pending.folder, racks)

(* The session that was shown last is in the file while the app does not run, ... *)
StoppedHeld == ~Up =>
  /\ open = Nowhere /\ pending = Nowhere /\ asked = {} /\ writes = <<>> /\ ~due
  /\ seen # Nowhere =>
       /\ Read(saved) /\ saved.mode = seen.mode /\ stock.racks \subseteq racks
       /\ ValidFolder(saved.folder, racks) = seen.folder
       /\ seen.mode = "viewer" => saved.path = seen.path /\ saved.leaf = seen.leaf

(* ... and is on the screen or about to be, when the user leaves the app alone. *)
RestoringHeld == (Up /\ ~used /\ seen # Nowhere) =>
  /\ screen = seen.mode /\ rack = ValidFolder(seen.folder, racks)
  /\ pending # Nowhere => pending.mode = seen.mode /\ rack = ValidFolder(pending.folder, racks)
  /\ seen.mode = "library" => asked = {}
  /\ seen.mode = "viewer" /\ seen.path # Nowhere =>
       \/ /\ open # Nowhere /\ open.path = seen.path /\ open.leaf = seen.leaf
          /\ pending = Nowhere /\ asked = {}
       \/ /\ open = Nowhere /\ asked = {[path |-> seen.path, row |-> Nowhere]}
          /\ pending # Nowhere /\ pending.path = seen.path /\ pending.leaf = seen.leaf

SessionInv == SessionTypeOK /\ WrittenHeld /\ RunningHeld /\ StoppedHeld /\ RestoringHeld
-----------------------------------------------------------------------------
(* The last of two lists, one after the other. *)
LEMMA LastOfBoth ==
  ASSUME NEW S, NEW a \in Seq(S), NEW b \in Seq(S), b # <<>>
  PROVE  /\ a \o b \in Seq(S) /\ a \o b # <<>> /\ Len(a \o b) = Len(a) + Len(b)
         /\ (a \o b)[Len(a \o b)] = b[Len(b)]
         /\ \A k \in DOMAIN (a \o b) : \/ k \in DOMAIN a /\ (a \o b)[k] = a[k]
                                       \/ \E j \in DOMAIN b : (a \o b)[k] = b[j]
<1>1. /\ a \o b \in Seq(S) /\ Len(a \o b) = Len(a) + Len(b)
      /\ \A i \in 1 .. Len(a) + Len(b) : (a \o b)[i] = IF i <= Len(a) THEN a[i] ELSE b[i - Len(a)]
  BY ConcatProperties
<1>2. Len(a) \in Nat /\ Len(b) \in Nat /\ Len(b) > 0 /\ DOMAIN a = 1 .. Len(a) /\ DOMAIN b = 1 .. Len(b)
  BY EmptySeq, LenProperties
<1>3. DOMAIN (a \o b) = 1 .. Len(a) + Len(b) BY <1>1, LenProperties
<1>4. (a \o b)[Len(a \o b)] = b[Len(b)]
  <2>1. Len(a) + Len(b) \in 1 .. Len(a) + Len(b) /\ ~(Len(a) + Len(b) <= Len(a)) BY <1>2
  <2>2. Len(a) + Len(b) - Len(a) = Len(b) BY <1>2
  <2> QED BY <1>1, <2>1, <2>2
<1>5. ASSUME NEW k \in DOMAIN (a \o b)
      PROVE  \/ k \in DOMAIN a /\ (a \o b)[k] = a[k]
             \/ \E j \in DOMAIN b : (a \o b)[k] = b[j]
  <2>1. k \in 1 .. Len(a) + Len(b) BY <1>3, <1>5
  <2>2. CASE k <= Len(a) BY <1>1, <1>2, <2>1, <2>2
  <2>3. CASE ~(k <= Len(a))
    <3>1. k - Len(a) \in DOMAIN b BY <1>2, <2>1, <2>3
    <3> QED BY <1>1, <2>1, <2>3, <3>1
  <2> QED BY <2>2, <2>3
<1>6. a \o b # <<>> BY <1>1, <1>2
<1> QED BY <1>1, <1>4, <1>5, <1>6

Writes == [of : AppSessions, begun : BOOLEAN]

LEMMA SnapshotTyped ==
  ASSUME NEW scr \in {"library", "viewer"}, NEW doc \in Documents \cup {Nowhere},
         NEW folder \in Rack \cup {NoRack}
  PROVE  /\ SessionOf(scr, doc, folder) \in AppSessions
         /\ SessionOf(scr, doc, folder).mode = scr /\ SessionOf(scr, doc, folder).folder = folder
         /\ doc # Nowhere => /\ SessionOf(scr, doc, folder).path = doc.path
                             /\ SessionOf(scr, doc, folder).leaf = doc.leaf
BY SessionAssumption DEF SessionOf, AppSessions, Documents

(* What is saved is what is to be written last. *)
LEMMA SaveAppends ==
  ASSUME SessionTypeOK, UNCHANGED saved, NEW sessions \in Seq(AppSessions), sessions # <<>>,
         Save(sessions)
  PROVE  /\ writes' \in Seq(Writes) /\ Len(writes') <= MaxWrites
         /\ \A k \in DOMAIN writes' : writes'[k].begun => k = 1 /\ saved' = Garbled
         /\ Written' = sessions[Len(sessions)]
<1> DEFINE new == [k \in DOMAIN sessions |-> [of |-> sessions[k], begun |-> FALSE]]
<1>1. writes \in Seq(Writes) BY DEF SessionTypeOK, Writes
<1>2. DOMAIN sessions = 1 .. Len(sessions) /\ Len(sessions) \in Nat /\ Len(sessions) > 0
  BY EmptySeq, LenProperties
<1>3. \A k \in 1 .. Len(sessions) : [of |-> sessions[k], begun |-> FALSE] \in Writes
  BY <1>2, ElementOfSeq DEF Writes
<1>4. new \in [1 .. Len(sessions) -> Writes] /\ DOMAIN new = 1 .. Len(sessions) BY <1>2, <1>3
<1>5. new \in Seq(Writes) BY <1>2, <1>4, IsASeq
<1>6. Len(new) = Len(sessions) BY <1>2, <1>4, <1>5, LenProperties
<1>7. \A k \in DOMAIN new : new[k].of = sessions[k] /\ ~new[k].begun BY <1>2
<1>8. writes' = writes \o new /\ Len(writes) + Len(sessions) <= MaxWrites BY DEF Save
<1> HIDE DEF new
<1>9. new # <<>> BY <1>2, <1>6
<1>10. new[Len(new)].of = sessions[Len(sessions)] BY <1>2, <1>4, <1>6, <1>7
<1>11. /\ writes' \in Seq(Writes) /\ writes' # <<>> /\ Len(writes') = Len(writes) + Len(new)
       /\ writes'[Len(writes')] = new[Len(new)]
       /\ \A k \in DOMAIN writes' : \/ k \in DOMAIN writes /\ writes'[k] = writes[k]
                                    \/ \E j \in DOMAIN new : writes'[k] = new[j]
  BY <1>1, <1>5, <1>8, <1>9, LastOfBoth
<1>12. \A k \in DOMAIN writes' : writes'[k].begun => k = 1 /\ saved' = Garbled
  BY <1>7, <1>11 DEF SessionTypeOK
<1> QED BY <1>6, <1>8, <1>10, <1>11, <1>12 DEF Written

LEMMA SaveWritten ==
  ASSUME SessionTypeOK, NEW s \in AppSessions, UNCHANGED saved,
         Save(<<s>>) \/ \E r \in AppSessions : Save(<<r, s>>)
  PROVE  /\ writes' \in Seq(Writes) /\ Len(writes') <= MaxWrites /\ Written' = s
         /\ \A k \in DOMAIN writes' : writes'[k].begun => k = 1 /\ saved' = Garbled
<1>1. CASE Save(<<s>>)
  <2>1. <<s>> \in Seq(AppSessions) /\ <<s>> # <<>> /\ <<s>>[Len(<<s>>)] = s OBVIOUS
  <2> QED BY <1>1, <2>1, SaveAppends
<1>2. CASE \E r \in AppSessions : Save(<<r, s>>)
  <2>1. PICK r \in AppSessions : Save(<<r, s>>) BY <1>2
  <2>2. <<r, s>> \in Seq(AppSessions) /\ <<r, s>> # <<>> /\ <<r, s>>[Len(<<r, s>>)] = s OBVIOUS
  <2> QED BY <2>1, <2>2, SaveAppends
<1> QED BY <1>1, <1>2
-----------------------------------------------------------------------------

LEMMA WriteBeginsHeld == ASSUME SessionInv, WriteBegins PROVE SessionInv'
<1>1. writes \in Seq(Writes) /\ writes # <<>> BY DEF WriteBegins, SessionInv, SessionTypeOK, Writes
<1>2. /\ writes' = [writes EXCEPT ![1].begun = TRUE] /\ saved' = Garbled
      /\ UNCHANGED <<day, acts, screen, open, worldVars, pending, asked, due, used, seen>>
  BY DEF WriteBegins
<1>3. 1 \in DOMAIN writes /\ DOMAIN writes = 1 .. Len(writes) /\ Len(writes) \in Nat
  BY <1>1, EmptySeq, LenProperties
<1>4. [writes[1] EXCEPT !.begun = TRUE] \in Writes
  <2>1. writes[1] \in Writes BY <1>1, <1>3, ElementOfSeq
  <2> QED BY <2>1 DEF Writes
<1>5. writes' \in Seq(Writes) /\ Len(writes') = Len(writes)
  BY <1>1, <1>2, <1>3, <1>4, ExceptSeq
<1>6. \A k \in DOMAIN writes : writes'[k].of = writes[k].of /\ (k # 1 => writes'[k] = writes[k])
  <2>1. writes[1] \in Writes BY <1>1, <1>3, ElementOfSeq
  <2>2. writes'[1] = [writes[1] EXCEPT !.begun = TRUE] BY <1>2, <1>3
  <2>3. \A k \in DOMAIN writes : k # 1 => writes'[k] = writes[k] BY <1>2
  <2> QED BY <2>1, <2>2, <2>3 DEF Writes
<1>7. writes' # <<>> /\ DOMAIN writes' = DOMAIN writes BY <1>2, <1>3
<1>8. Written' = Written BY <1>1, <1>3, <1>5, <1>6, <1>7 DEF Written
<1>9. Up /\ SessionTypeOK'
  <2>1. Up BY <1>1 DEF SessionInv, StoppedHeld
  <2>2. \A k \in DOMAIN writes' : writes'[k].begun => k = 1
    BY <1>6, <1>7 DEF SessionInv, SessionTypeOK
  <2> QED BY <1>2, <1>5, <2>1, <2>2 DEF SessionInv, SessionTypeOK, worldVars, Writes
<1> QED BY <1>2, <1>8, <1>9 DEF SessionInv, WrittenHeld, RunningHeld, StoppedHeld, RestoringHeld,
                                OnScreen, worldVars, Up

LEMMA WriteEndsHeld == ASSUME SessionInv, WriteEnds PROVE SessionInv'
<1>1. writes \in Seq(Writes) /\ writes # <<>> BY DEF WriteEnds, SessionInv, SessionTypeOK, Writes
<1>2. /\ writes' = Tail(writes) /\ saved' = Head(writes).of
      /\ UNCHANGED <<day, acts, screen, open, worldVars, pending, asked, due, used, seen>>
  BY DEF WriteEnds
<1>3. 1 \in DOMAIN writes /\ DOMAIN writes = 1 .. Len(writes) /\ Len(writes) \in Nat /\ Head(writes) = writes[1]
  BY <1>1, EmptySeq, LenProperties
<1>4. /\ writes' \in Seq(Writes) /\ Len(writes') = Len(writes) - 1
      /\ \A i \in 1 .. Len(writes') : writes'[i] = writes[i + 1]
  BY <1>1, <1>2, HeadTailProperties
<1>5. DOMAIN writes' = 1 .. Len(writes') BY <1>4, LenProperties
<1>6. saved' \in AppSessions
  <2>1. writes[1] \in Writes BY <1>1, <1>3, ElementOfSeq
  <2> QED BY <1>2, <1>3, <2>1 DEF Writes
<1>7. Written' = Written
  <2>1. CASE Len(writes) = 1
    <3>1. writes' = <<>> BY <1>4, <2>1, EmptySeq
    <3> QED BY <1>1, <1>2, <1>3, <2>1, <3>1 DEF Written
  <2>2. CASE Len(writes) > 1
    <3>1. writes' # <<>> /\ Len(writes') \in 1 .. Len(writes') BY <1>3, <1>4, <2>2
    <3>2. writes'[Len(writes')] = writes[Len(writes)] BY <1>3, <1>4, <3>1
    <3> QED BY <1>1, <3>1, <3>2 DEF Written
  <2>3. Len(writes) >= 1 BY <1>3
  <2> QED BY <1>3, <2>1, <2>2, <2>3
<1>8. \A k \in DOMAIN writes' : ~writes'[k].begun
  <2> SUFFICES ASSUME NEW k \in DOMAIN writes', writes'[k].begun PROVE FALSE OBVIOUS
  <2>1. k + 1 \in DOMAIN writes /\ writes[k + 1].begun /\ k + 1 # 1 BY <1>3, <1>4, <1>5
  <2> QED BY <2>1 DEF SessionInv, SessionTypeOK
<1>9. Up /\ SessionTypeOK'
  <2>1. Up BY <1>1 DEF SessionInv, StoppedHeld
  <2>2. Len(writes') <= MaxWrites BY <1>3, <1>4, SessionAssumption DEF SessionInv, SessionTypeOK
  <2> QED BY <1>2, <1>4, <1>6, <1>8, <2>1, <2>2 DEF SessionInv, SessionTypeOK, worldVars, Writes
<1> QED BY <1>2, <1>7, <1>9 DEF SessionInv, WrittenHeld, RunningHeld, StoppedHeld, RestoringHeld,
                                OnScreen, worldVars, Up

LEMMA SaveSettlesHeld == ASSUME SessionInv, SaveSettles PROVE SessionInv'
<1>1. /\ Save(<<Snapshot>>) /\ due /\ due' = FALSE
      /\ UNCHANGED <<day, acts, screen, open, worldVars, pending, saved, asked, used, seen>>
  BY DEF SaveSettles
<1>2. Up BY <1>1 DEF SessionInv, StoppedHeld
<1>3. /\ Snapshot \in AppSessions /\ Snapshot.mode = screen /\ Snapshot.folder = rack
      /\ open # Nowhere => Snapshot.path = open.path /\ Snapshot.leaf = open.leaf
  BY <1>2, SnapshotTyped DEF SessionInv, SessionTypeOK, Up, Snapshot
<1>4. /\ writes' \in Seq(Writes) /\ Len(writes') <= MaxWrites /\ Written' = Snapshot
      /\ \A k \in DOMAIN writes' : writes'[k].begun => k = 1 /\ saved' = Garbled
  BY <1>1, <1>3, SaveWritten DEF SessionInv
<1>5. SessionTypeOK' BY <1>1, <1>4 DEF SessionInv, SessionTypeOK, worldVars, Writes
<1>6. ValidFolder(rack, racks) = rack BY <1>2 DEF SessionInv, RunningHeld, ValidFolder
<1>7. WrittenHeld' BY <1>1, <1>3, <1>4, <1>6 DEF WrittenHeld, OnScreen, worldVars, Up, ValidFolder
<1> QED BY <1>1, <1>2, <1>5, <1>7 DEF SessionInv, RunningHeld, StoppedHeld, RestoringHeld,
                                      worldVars, Up
-----------------------------------------------------------------------------
(* A folder that is known still is when fewer are known, or is none. *)
LEMMA FolderStands ==
  ASSUME NEW f, NEW known \in SUBSET Rack, NEW fewer \in SUBSET known
  PROVE  /\ ValidFolder(ValidFolder(f, known), fewer) = ValidFolder(f, fewer)
         /\ ValidFolder(f, known) \in known \cup {NoRack}
         /\ ValidFolder(f, known) \in Rack \cup {NoRack}
         /\ f \in known \cup {NoRack} => ValidFolder(f, known) = f
BY SessionAssumption DEF ValidFolder

LEMMA LaunchHeld == ASSUME SessionInv, NEW path \in Path \cup {Nowhere}, Launch(path) PROVE SessionInv'
<1>1. /\ ~Up /\ rowsShown' = stock.rows /\ racks' = stock.racks
      /\ open' = Nowhere /\ due' = FALSE /\ used' = (path # Nowhere)
      /\ UNCHANGED <<day, stock, there, saved, writes, seen>>
  BY DEF Launch, LibraryRead
<1>2. writes = <<>> /\ Written' = saved BY <1>1 DEF SessionInv, StoppedHeld, Written
<1>3. acts' \in 0 .. MaxActs[day]
  BY SessionAssumption DEF Launch, Occurs, SessionInv, SessionTypeOK
<1>4. stock.racks \in SUBSET Rack BY DEF SessionInv, SessionTypeOK
<1>5. CASE path = Nowhere /\ Read(saved)
  <2>1. saved \in AppSessions BY <1>5 DEF Read, SessionInv, SessionTypeOK
  <2>2. /\ pending' = saved /\ pending' # Nowhere
        /\ rack' = ValidFolder(saved.folder, stock.racks) /\ screen' = saved.mode
        /\ asked' = (IF saved.mode # "viewer" THEN {}
                     ELSE {[path |-> p, row |-> Nowhere] : p \in {saved.path} \ {Nowhere}})
    BY <1>5 DEF Launch, Read
  <2>3. rack' \in racks' \cup {NoRack} /\ rack' \in Rack \cup {NoRack} /\ screen' \in {"library", "viewer"}
    BY <1>1, <1>4, <2>1, <2>2, FolderStands DEF AppSessions
  <2>4. asked' \subseteq [path : Path, row : Listable \cup {Nowhere}]
    BY <2>1, <2>2 DEF AppSessions
  <2>5. SessionTypeOK'
    BY <1>1, <1>3, <2>1, <2>2, <2>3, <2>4 DEF SessionInv, SessionTypeOK, AppSessions
  <2>6. WrittenHeld'
    BY <1>1, <1>2, <2>2 DEF WrittenHeld, OnScreen, Up
  <2>7. RunningHeld' BY <1>1, <2>2, <2>3 DEF RunningHeld, Up
  <2>8. StoppedHeld' BY <2>3 DEF StoppedHeld, Up
  <2>9. RestoringHeld'
    <3> SUFFICES ASSUME seen # Nowhere PROVE RestoringHeld' BY <1>1 DEF RestoringHeld
    <3>1. /\ saved.mode = seen.mode /\ stock.racks \subseteq racks
          /\ ValidFolder(saved.folder, racks) = seen.folder
          /\ seen.mode = "viewer" => saved.path = seen.path /\ saved.leaf = seen.leaf
      BY <1>1 DEF SessionInv, StoppedHeld
    <3>2. rack' = ValidFolder(seen.folder, racks')
      BY <1>1, <2>2, <3>1, FolderStands DEF SessionInv, SessionTypeOK
    <3> QED BY <1>1, <2>2, <3>1, <3>2 DEF RestoringHeld
  <2> QED BY <2>5, <2>6, <2>7, <2>8, <2>9 DEF SessionInv
<1>6. CASE ~(path = Nowhere /\ Read(saved))
  <2>1. /\ pending' = Nowhere /\ rack' \in {NoRack} \cup stock.racks
        /\ screen' = (IF path = Nowhere THEN "library" ELSE "viewer")
        /\ asked' = {[path |-> p, row |-> Nowhere] : p \in {path} \ {Nowhere}}
    BY <1>6 DEF Launch
  <2>2. SessionTypeOK'
    <3>1. asked' \subseteq [path : Path, row : Listable \cup {Nowhere}] BY <2>1
    <3>2. rack' \in Rack \cup {NoRack} /\ screen' \in {"off", "library", "viewer"} BY <1>4, <2>1
    <3>3. open' \in Documents \cup {Nowhere} /\ pending' \in AppSessions \cup {Nowhere} BY <1>1, <2>1
    <3> QED BY <1>1, <1>3, <3>1, <3>2, <3>3 DEF SessionInv, SessionTypeOK
  <2>3. WrittenHeld' BY <1>1, <1>2, <1>6, <2>1 DEF WrittenHeld, Up, Read
  <2>4. RunningHeld' BY <1>1, <2>1 DEF RunningHeld, Up
  <2>5. StoppedHeld' BY <2>1 DEF StoppedHeld, Up
  <2>6. RestoringHeld' BY <1>1, <1>6 DEF RestoringHeld, SessionInv, StoppedHeld
  <2> QED BY <2>2, <2>3, <2>4, <2>5, <2>6 DEF SessionInv
<1> QED BY <1>5, <1>6

LEMMA QuitsHeld == ASSUME SessionInv, Quits PROVE SessionInv'
<1>1. /\ Up /\ screen' = "off" /\ open' = Nowhere /\ pending' = Nowhere
      /\ seen' = (IF AllDone /\ Read(saved) /\ (screen = "viewer" => open # Nowhere) THEN Snapshot
                  ELSE Nowhere)
      /\ writes' = <<>> /\ asked' = {} /\ due' = FALSE
      /\ UNCHANGED <<day, worldVars, saved, used>> /\ acts' \in 0 .. MaxActs[day]
  BY SessionAssumption DEF Quits, Occurs, SessionInv, SessionTypeOK
<1>2. /\ Snapshot \in AppSessions /\ Snapshot.mode = screen /\ Snapshot.folder = rack
      /\ open # Nowhere => Snapshot.path = open.path /\ Snapshot.leaf = open.leaf
  BY <1>1, SnapshotTyped DEF SessionInv, SessionTypeOK, Up, Snapshot
<1>3. writes' \in Seq(Writes) /\ Len(writes') <= MaxWrites /\ DOMAIN writes' = {}
  BY <1>1, SessionAssumption
<1>4. SessionTypeOK' BY <1>1, <1>2, <1>3 DEF SessionInv, SessionTypeOK, worldVars, Writes
<1>5. StoppedHeld'
  <2> SUFFICES ASSUME seen' # Nowhere
               PROVE  /\ Read(saved) /\ saved.mode = seen'.mode /\ stock.racks \subseteq racks
                      /\ ValidFolder(saved.folder, racks) = seen'.folder
                      /\ seen'.mode = "viewer" => saved.path = seen'.path /\ saved.leaf = seen'.leaf
    BY <1>1 DEF StoppedHeld, worldVars
  <2>1. AllDone /\ Read(saved) /\ (screen = "viewer" => open # Nowhere) /\ seen' = Snapshot
    BY <1>1
  <2>2. Written = saved /\ ~due BY <2>1 DEF AllDone, Written
  <2> QED BY <1>1, <1>2, <2>1, <2>2 DEF SessionInv, WrittenHeld, OnScreen, RunningHeld
<1> QED BY <1>1, <1>4, <1>5 DEF SessionInv, WrittenHeld, RunningHeld, RestoringHeld, Up
-----------------------------------------------------------------------------
(* The session of what is shown after a step is saved last in it. *)
LEMMA ShownIsSaved ==
  ASSUME SessionInv, UNCHANGED saved, NEW doc \in Documents \cup {Nowhere},
         screen' \in {"library", "viewer"}, open' \in Documents \cup {Nowhere},
         rack' \in Rack \cup {NoRack}, rack' \in racks' \cup {NoRack},
         open' # Nowhere => doc # Nowhere /\ doc.path = open'.path /\ doc.leaf = open'.leaf,
         LET s == SessionOf(screen', doc, rack')
         IN Save(<<s>>) \/ \E r \in AppSessions : Save(<<r, s>>)
  PROVE  /\ WrittenHeld' /\ writes' \in Seq(Writes) /\ Len(writes') <= MaxWrites
         /\ \A k \in DOMAIN writes' : writes'[k].begun => k = 1 /\ saved' = Garbled
<1> DEFINE s == SessionOf(screen', doc, rack')
<1>1. /\ s \in AppSessions /\ s.mode = screen' /\ s.folder = rack'
      /\ doc # Nowhere => s.path = doc.path /\ s.leaf = doc.leaf
  BY SnapshotTyped
<1>2. Save(<<s>>) \/ \E r \in AppSessions : Save(<<r, s>>) OBVIOUS
<1> HIDE DEF s
<1>3. /\ writes' \in Seq(Writes) /\ Len(writes') <= MaxWrites /\ Written' = s
      /\ \A k \in DOMAIN writes' : writes'[k].begun => k = 1 /\ saved' = Garbled
  BY <1>1, <1>2, SaveWritten DEF SessionInv
<1>4. ValidFolder(s.folder, racks') = rack' BY <1>1 DEF ValidFolder
<1>5. WrittenHeld' BY <1>1, <1>3, <1>4 DEF WrittenHeld, OnScreen
<1> QED BY <1>3, <1>5

(* What is shown of a document that is opened: it is restored from the session if that is   *)
(* its session.                                                                             *)
LEMMA OpensShows ==
  ASSUME SessionInv, NEW p \in Path \cup {Nowhere}
  PROVE  /\ Opens(p).doc \in Documents /\ Opens(p).doc.path = p
         /\ \/ /\ Opens(p).screen = "viewer" /\ Opens(p).left = pending
               /\ ~(pending # Nowhere /\ p # Nowhere /\ pending.path = p)
            \/ /\ pending # Nowhere /\ Opens(p).screen = pending.mode /\ Opens(p).left = Nowhere
               /\ Opens(p).doc.leaf = pending.leaf
<1> DEFINE doc == [path |-> p, row |-> Bound(p), leaf |-> 0]
<1>1. pending \in AppSessions \cup {Nowhere} BY DEF SessionInv, SessionTypeOK
<1>2. Bound(p) \in Listable \cup {Nowhere}
  BY <1>1 DEF Bound, RowAt, AppSessions, SessionInv, SessionTypeOK
<1>3. doc \in Documents /\ doc.path = p BY <1>2, SessionAssumption DEF Documents
<1>4. Opens(p) = IF Fits(doc) THEN [doc |-> Restored(doc), screen |-> pending.mode, left |-> Nowhere]
                 ELSE [doc |-> doc, screen |-> "viewer", left |-> pending]
  BY DEF Opens
<1>5. pending # Nowhere /\ p # Nowhere /\ pending.path = p => Fits(doc)
  BY <1>3 DEF Fits, MatchesSession
<1>6. Fits(doc) => /\ pending # Nowhere /\ Restored(doc) \in Documents
                   /\ Restored(doc).path = p /\ Restored(doc).leaf = pending.leaf
  BY <1>1, <1>3 DEF Fits, Restored, Documents, AppSessions
<1> HIDE DEF doc
<1> QED BY <1>3, <1>4, <1>5, <1>6

LEMMA DocumentOpenedHeld ==
  ASSUME SessionInv, NEW t \in asked, DocumentOpened(t) \/ LibraryDocumentOpened(t)
  PROVE  SessionInv'
<1>1. t \in [path : Path, row : Listable \cup {Nowhere}] /\ rowsShown \subseteq Listable
  BY DEF SessionInv, SessionTypeOK
<1>2. PICK p \in Path \cup {Nowhere} :
        /\ t.row = Nowhere => p = t.path /\ open' = Opens(p).doc /\ SaveNow
        /\ t.row # Nowhere => /\ \E leaf \in Leaf : open' = [Opens(p).doc EXCEPT !.row = t.row, !.leaf = leaf]
                              /\ SaveNow \/ Save(<<SessionOf(Opens(p).screen, Opens(p).doc, rack), Snapshot'>>)
        /\ screen' = Opens(p).screen /\ pending' = Opens(p).left /\ asked' = asked \ {t}
        /\ UNCHANGED <<day, acts, worldVars, saved, due, used, seen>>
  <2>1. CASE DocumentOpened(t) BY <1>1, <2>1 DEF DocumentOpened
  <2>2. CASE LibraryDocumentOpened(t)
    <3>1. RowAt(t.row, rowsShown) \in Path \cup {Nowhere} BY <1>1, SessionAssumption DEF RowAt
    <3> QED BY <2>2, <3>1 DEF LibraryDocumentOpened
  <2> QED BY <2>1, <2>2
<1>3. Up BY DEF SessionInv, StoppedHeld
<1>4. pending \in AppSessions \cup {Nowhere} BY DEF SessionInv, SessionTypeOK
<1>5. open' \in Documents /\ open' # Nowhere
  <2>1. open' \in Documents BY <1>1, <1>2, OpensShows DEF Documents
  <2> QED BY <2>1, SessionAssumption
<1>6. screen' \in {"library", "viewer"} /\ pending' \in AppSessions \cup {Nowhere} /\ Up'
  BY <1>2, <1>4, OpensShows DEF AppSessions, Up
<1>7. rack' = rack /\ racks' = racks /\ rack \in Rack \cup {NoRack} /\ rack \in racks \cup {NoRack}
  BY <1>2, <1>3 DEF worldVars, SessionInv, SessionTypeOK, RunningHeld
<1>8. Snapshot' = SessionOf(screen', open', rack') BY DEF Snapshot
<1>9. SessionOf(Opens(p).screen, Opens(p).doc, rack) \in AppSessions
  <2>1. Opens(p).screen \in {"library", "viewer"} BY <1>2, <1>6
  <2> QED BY <1>7, <2>1, OpensShows, SnapshotTyped
<1>10. LET s == SessionOf(screen', open', rack') IN Save(<<s>>) \/ \E r \in AppSessions : Save(<<r, s>>)
  BY <1>2, <1>8, <1>9 DEF SaveNow
<1>11. /\ WrittenHeld' /\ writes' \in Seq(Writes) /\ Len(writes') <= MaxWrites
       /\ \A k \in DOMAIN writes' : writes'[k].begun => k = 1 /\ saved' = Garbled
  BY <1>2, <1>5, <1>6, <1>7, <1>10, ShownIsSaved
<1>12. asked' \subseteq asked /\ asked' \subseteq [path : Path, row : Listable \cup {Nowhere}]
  BY <1>2 DEF SessionInv, SessionTypeOK
<1>13. SessionTypeOK'
  BY <1>2, <1>5, <1>6, <1>11, <1>12 DEF SessionInv, SessionTypeOK, worldVars, Writes
<1>14. RunningHeld'
  BY <1>2, <1>3, <1>4, <1>7, OpensShows DEF SessionInv, RunningHeld, worldVars
<1>15. RestoringHeld'
  <2> SUFFICES ASSUME ~used, seen # Nowhere PROVE RestoringHeld' BY <1>2 DEF RestoringHeld
  <2>1. /\ screen = seen.mode /\ rack = ValidFolder(seen.folder, racks)
        /\ pending # Nowhere => pending.mode = seen.mode /\ rack = ValidFolder(pending.folder, racks)
        /\ seen.mode # "library"
    BY <1>3 DEF SessionInv, RestoringHeld
  <2>2. seen.mode = "viewer" BY <1>3, <2>1 DEF SessionInv, SessionTypeOK, Up
  <2>3. CASE seen.path # Nowhere
    <3>1. /\ asked = {[path |-> seen.path, row |-> Nowhere]}
          /\ pending # Nowhere /\ pending.path = seen.path /\ pending.leaf = seen.leaf
      BY <1>3, <2>2, <2>3 DEF SessionInv, RestoringHeld
    <3>2. t = [path |-> seen.path, row |-> Nowhere] /\ asked' = {} BY <1>2, <3>1
    <3>3. t.row = Nowhere /\ t.path = seen.path BY <3>2
    <3>4. p = seen.path /\ open' = Opens(p).doc BY <1>2, <3>3
    <3>5. screen' = pending.mode /\ pending' = Nowhere /\ open'.leaf = pending.leaf /\ open'.path = p
      BY <1>2, <2>3, <3>1, <3>4, OpensShows
    <3> QED BY <1>2, <1>5, <1>7, <2>1, <3>1, <3>2, <3>4, <3>5 DEF RestoringHeld
  <2>4. CASE seen.path = Nowhere
    <3>1. screen' = seen.mode /\ pending' \in {pending, Nowhere} BY <1>2, <2>1, <2>2, OpensShows
    <3> QED BY <1>2, <1>7, <2>1, <2>2, <2>4, <3>1 DEF RestoringHeld
  <2> QED BY <2>3, <2>4
<1>16. StoppedHeld' BY <1>6 DEF StoppedHeld
<1> QED BY <1>11, <1>13, <1>14, <1>15, <1>16 DEF SessionInv

LEMMA DocumentErrorHeld == ASSUME SessionInv, NEW t \in asked, DocumentError(t) PROVE SessionInv'
<1>1. /\ asked' = asked \ {t} /\ seen' = Nowhere
      /\ UNCHANGED <<day, acts, screen, open, worldVars, pending, saved, writes, due, used>>
  BY DEF DocumentError
<1>2. Up BY DEF SessionInv, StoppedHeld
<1>3. SessionTypeOK' BY <1>1 DEF SessionInv, SessionTypeOK, worldVars
<1>4. Written' = Written BY <1>1 DEF Written
<1> QED BY <1>1, <1>2, <1>3, <1>4 DEF SessionInv, WrittenHeld, OnScreen, RunningHeld, StoppedHeld,
                                      RestoringHeld, worldVars, Up
-----------------------------------------------------------------------------
LEMMA LibraryLoadedHeld == ASSUME SessionInv, LibraryLoaded PROVE SessionInv'
<1>1. Up /\ rowsShown' = stock.rows /\ UNCHANGED <<day, acts, racks, stock, there, saved, due, used, seen>>
  BY DEF LibraryLoaded
<1>2. /\ pending \in AppSessions \cup {Nowhere} /\ open \in Documents \cup {Nowhere}
      /\ stock.rows \subseteq Listable /\ racks \subseteq Rack
      /\ screen \in {"library", "viewer"} /\ rack \in Rack \cup {NoRack}
      /\ stock.racks \subseteq racks /\ rack \in racks \cup {NoRack}
  BY <1>1 DEF SessionInv, SessionTypeOK, RunningHeld, Up
<1>3. /\ Nowhere \notin Documents /\ Nowhere \notin Path BY SessionAssumption
<1>4. ASSUME NEW doc \in Documents \cup {Nowhere}
      PROVE  /\ Binds(doc) \in Documents \cup {Nowhere} /\ (Binds(doc) = Nowhere <=> doc = Nowhere)
             /\ doc # Nowhere => Binds(doc).path = doc.path /\ Binds(doc).leaf = doc.leaf
  BY <1>2, <1>3 DEF Binds, RowAt, Documents
<1>5. CASE pending = Nowhere
  <2>1. open' = Binds(open) /\ UNCHANGED <<screen, rack, pending, writes, asked>>
    BY <1>5 DEF LibraryLoaded
  <2>2. SessionTypeOK' BY <1>1, <1>2, <1>4, <2>1 DEF SessionInv, SessionTypeOK
  <2>3. Written' = Written /\ Up' BY <1>1, <2>1 DEF Written, Up
  <2>4. /\ open' = Nowhere <=> open = Nowhere
        /\ open # Nowhere => open'.path = open.path /\ open'.leaf = open.leaf
    BY <1>2, <1>4, <2>1
  <2>5. WrittenHeld' BY <1>1, <2>1, <2>3, <2>4 DEF SessionInv, WrittenHeld, OnScreen
  <2>6. RestoringHeld' BY <1>1, <1>5, <2>1, <2>4 DEF SessionInv, RestoringHeld
  <2> QED BY <1>1, <1>2, <1>5, <2>1, <2>2, <2>3, <2>5, <2>6 DEF SessionInv, RunningHeld, StoppedHeld
<1>6. CASE pending # Nowhere
  <2> DEFINE doc == IF Hydrates THEN Restored(open) ELSE open
  <2>1. /\ screen' = pending.mode /\ rack' = ValidFolder(pending.folder, racks)
        /\ open' = Binds(doc)
        /\ pending' = IF Remains /\ ~Hydrates THEN pending ELSE Nowhere
        /\ asked' = asked \cup {[path |-> p, row |-> p] : p \in IF Reopens THEN {pending.row} ELSE {}}
        /\ IF Reopens THEN UNCHANGED writes ELSE Save(<<SessionOf(screen', doc, rack')>>)
    BY <1>6 DEF LibraryLoaded
  <2>2. pending \in AppSessions BY <1>2, <1>6
  <2>3. /\ screen' \in {"library", "viewer"} /\ rack' \in Rack \cup {NoRack} /\ rack' \in racks' \cup {NoRack}
        /\ pending' \in AppSessions \cup {Nowhere}
    BY <1>1, <1>2, <2>1, <2>2 DEF AppSessions, ValidFolder
  <2>4. Up' BY <2>3 DEF Up
  <2>5. doc \in Documents \cup {Nowhere} /\ (~Hydrates => doc = open)
    BY <1>2, <2>2 DEF Hydrates, Restored, Documents, AppSessions
  <2> HIDE DEF doc
  <2>6. /\ open' \in Documents \cup {Nowhere} /\ (open' = Nowhere <=> doc = Nowhere)
        /\ doc # Nowhere => open'.path = doc.path /\ open'.leaf = doc.leaf
    BY <1>4, <2>1, <2>5
  <2>7. Reopens => /\ pending.mode = "viewer" /\ pending.path = Nowhere /\ ~Hydrates /\ Remains
                   /\ screen' = screen /\ rack' = rack /\ doc = open /\ pending' = pending
    BY <1>1, <1>6, <2>1, <2>5 DEF Reopens, Hydrates, Remains, SessionInv, RunningHeld
  <2>8. asked \subseteq asked' /\ asked' \subseteq [path : Path, row : Listable \cup {Nowhere}]
        /\ (~Reopens => asked' = asked)
    <3>1. Reopens => pending.row \in Listable BY <1>2 DEF Reopens
    <3>2. asked \subseteq [path : Path, row : Listable \cup {Nowhere}] BY DEF SessionInv, SessionTypeOK
    <3> QED BY <2>1, <3>1, <3>2, SessionAssumption
  <2>9. /\ WrittenHeld' /\ writes' \in Seq(Writes) /\ Len(writes') <= MaxWrites
        /\ \A k \in DOMAIN writes' : writes'[k].begun => k = 1 /\ saved' = Garbled
    <3>1. CASE Reopens
      <4>1. writes' = writes /\ Written' = Written BY <1>1, <2>1, <3>1 DEF Written
      <4> QED BY <1>1, <2>6, <2>7, <3>1, <4>1 DEF SessionInv, SessionTypeOK, WrittenHeld, OnScreen, Writes
    <3>2. CASE ~Reopens
      <4>1. LET s == SessionOf(screen', doc, rack') IN Save(<<s>>) \/ \E r \in AppSessions : Save(<<r, s>>)
        BY <2>1, <3>2
      <4> QED BY <1>1, <2>3, <2>5, <2>6, <4>1, ShownIsSaved
    <3> QED BY <3>1, <3>2
  <2>10. SessionTypeOK' BY <1>1, <1>2, <2>3, <2>6, <2>8, <2>9 DEF SessionInv, SessionTypeOK, Writes
  <2>11. RunningHeld'
    BY <1>1, <1>2, <2>1, <2>2, <2>3 DEF RunningHeld, Remains, Reopens
  <2>12. RestoringHeld'
    <3> SUFFICES ASSUME ~used, seen # Nowhere PROVE RestoringHeld' BY <1>1 DEF RestoringHeld
    <3>1. /\ screen = seen.mode /\ rack = ValidFolder(seen.folder, racks)
          /\ pending.mode = seen.mode /\ rack = ValidFolder(pending.folder, racks)
          /\ seen.mode = "library" => asked = {}
      BY <1>1, <1>6 DEF SessionInv, RestoringHeld
    <3>2. screen' = seen.mode /\ rack' = rack /\ pending' \in {pending, Nowhere} BY <2>1, <3>1
    <3>3. seen.mode = "library" => asked' = {} BY <2>7, <2>8, <3>1
    <3>4. seen.mode = "viewer" /\ seen.path # Nowhere =>
            /\ open' = Nowhere /\ asked' = {[path |-> seen.path, row |-> Nowhere]}
            /\ pending' = pending /\ pending.path = seen.path /\ pending.leaf = seen.leaf
      <4> SUFFICES ASSUME seen.mode = "viewer", seen.path # Nowhere
                   PROVE  /\ open' = Nowhere /\ asked' = {[path |-> seen.path, row |-> Nowhere]}
                          /\ pending' = pending /\ pending.path = seen.path /\ pending.leaf = seen.leaf
        OBVIOUS
      <4>1. /\ open = Nowhere /\ asked = {[path |-> seen.path, row |-> Nowhere]}
            /\ pending.path = seen.path /\ pending.leaf = seen.leaf
        BY <1>1, <1>6 DEF SessionInv, RestoringHeld
      <4>2. ~Reopens /\ ~Hydrates /\ Remains BY <3>1, <4>1 DEF Reopens, Hydrates, Remains
      <4> QED BY <2>1, <2>5, <2>6, <2>8, <4>1, <4>2
    <3> QED BY <1>1, <1>6, <3>1, <3>2, <3>3, <3>4 DEF RestoringHeld
  <2> QED BY <2>4, <2>9, <2>10, <2>11, <2>12 DEF SessionInv, StoppedHeld
<1> QED BY <1>5, <1>6

LEMMA LibraryFoldersLoadedHeld == ASSUME SessionInv, LibraryFoldersLoaded PROVE SessionInv'
<1>1. /\ Up /\ racks' = stock.racks /\ rack' = ValidFolder(rack, stock.racks)
      /\ UNCHANGED <<day, acts, screen, open, rowsShown, stock, there, pending, saved, writes, asked, due, used, seen>>
  BY DEF LibraryFoldersLoaded
<1>2. racks \in SUBSET Rack /\ stock.racks \in SUBSET racks
  BY <1>1 DEF SessionInv, SessionTypeOK, RunningHeld
<1>3. \A f : rack = ValidFolder(f, racks) => rack' = ValidFolder(f, racks') BY <1>1, <1>2, FolderStands
<1>4. rack' \in racks' \cup {NoRack} /\ rack' \in Rack \cup {NoRack}
  BY <1>1, <1>2 DEF ValidFolder
<1>5. SessionTypeOK' BY <1>1, <1>2, <1>4 DEF SessionInv, SessionTypeOK
<1>6. Written' = Written /\ Up' BY <1>1 DEF Written, Up
<1>7. WrittenHeld' BY <1>1, <1>3, <1>6 DEF SessionInv, WrittenHeld, OnScreen
<1>8. RunningHeld' BY <1>1, <1>3, <1>4 DEF SessionInv, RunningHeld
<1>9. RestoringHeld' BY <1>1, <1>3 DEF SessionInv, RestoringHeld
<1> QED BY <1>5, <1>6, <1>7, <1>8, <1>9 DEF SessionInv, StoppedHeld

LEMMA WorldChangesHeld == ASSUME SessionInv, WorldChanges PROVE SessionInv'
<1>1. UNCHANGED <<day, screen, open, rack, rowsShown, racks, pending, saved, writes, asked, due, used, seen>>
  BY DEF WorldChanges
<1>2. acts' \in 0 .. MaxActs[day]
  BY SessionAssumption DEF WorldChanges, Occurs, SessionInv, SessionTypeOK
<1>3. stock' \in [rows : SUBSET Listable, racks : SUBSET Rack] /\ stock'.racks \subseteq stock.racks
  <2>1. stock \in [rows : SUBSET Listable, racks : SUBSET Rack] BY DEF SessionInv, SessionTypeOK
  <2>2. CASE UNCHANGED stock BY <2>1, <2>2
  <2>3. CASE \E p \in Listable : stock' = [stock EXCEPT !.rows = IF p \in @ THEN @ \ {p} ELSE @ \cup {p}]
    BY <2>1, <2>3
  <2>4. CASE \E f \in stock.racks : stock' = [stock EXCEPT !.racks = @ \ {f}] BY <2>1, <2>4
  <2> QED BY <2>2, <2>3, <2>4 DEF WorldChanges
<1>4. there' \subseteq Path BY DEF WorldChanges, SessionInv, SessionTypeOK
<1>5. SessionTypeOK' BY <1>1, <1>2, <1>3, <1>4 DEF SessionInv, SessionTypeOK
<1>6. Written' = Written /\ (Up' <=> Up) BY <1>1 DEF Written, Up
<1>7. WrittenHeld' BY <1>1, <1>6 DEF SessionInv, WrittenHeld, OnScreen
<1>8. RunningHeld' BY <1>1, <1>3, <1>6 DEF SessionInv, RunningHeld
<1>9. StoppedHeld' BY <1>1, <1>3, <1>6 DEF SessionInv, StoppedHeld
<1>10. RestoringHeld' BY <1>1, <1>6 DEF SessionInv, RestoringHeld
<1> QED BY <1>5, <1>7, <1>8, <1>9, <1>10 DEF SessionInv
-----------------------------------------------------------------------------
(* What the user does is marked. *)
LEMMA UserHeld ==
  ASSUME SessionInv, NEW event, User(event), screen' # "off"
  PROVE  Up /\ used' /\ acts' \in 0 .. MaxActs[day] /\ RestoringHeld' /\ StoppedHeld' /\ day \in Days
BY SessionAssumption DEF User, Occurs, SessionInv, SessionTypeOK, RestoringHeld, StoppedHeld, Up

LEMMA AsksHeld == ASSUME SessionInv, Asks PROVE SessionInv'
<1>1. /\ User("read") /\ UNCHANGED <<day, screen, open, worldVars, pending, saved, writes, due, seen>>
  BY DEF Asks
<1>2. screen' # "off" BY <1>1 DEF User, Up
<1>3. Up /\ used' /\ acts' \in 0 .. MaxActs[day] /\ RestoringHeld' /\ StoppedHeld' BY <1>1, <1>2, UserHeld
<1>4. asked' \subseteq [path : Path, row : Listable \cup {Nowhere}]
  BY DEF Asks, OpenTask, SessionInv, SessionTypeOK
<1>5. SessionTypeOK' BY <1>1, <1>3, <1>4 DEF SessionInv, SessionTypeOK, worldVars
<1>6. Written' = Written /\ Up' BY <1>1, <1>2 DEF Written, Up
<1>7. WrittenHeld' BY <1>1, <1>3, <1>6 DEF SessionInv, WrittenHeld, OnScreen, worldVars
<1>8. RunningHeld' BY <1>1, <1>3 DEF SessionInv, RunningHeld, worldVars
<1> QED BY <1>3, <1>5, <1>7, <1>8 DEF SessionInv

LEMMA TurnsPageHeld == ASSUME SessionInv, TurnsPage PROVE SessionInv'
<1>1. /\ screen = "viewer" /\ open # Nowhere /\ User("read") /\ due' = TRUE
      /\ UNCHANGED <<day, screen, worldVars, pending, saved, writes, asked, seen>>
  BY DEF TurnsPage
<1>2. screen' # "off" BY <1>1
<1>3. Up /\ used' /\ acts' \in 0 .. MaxActs[day] /\ RestoringHeld' /\ StoppedHeld' BY <1>1, <1>2, UserHeld
<1>4. open \in Documents BY <1>1 DEF SessionInv, SessionTypeOK
<1>5. open' \in Documents /\ open'.path = open.path
  <2>1. PICK leaf \in Leaf : open' = [open EXCEPT !.leaf = leaf] BY DEF TurnsPage
  <2> QED BY <1>4, <2>1 DEF Documents
<1>6. SessionTypeOK' BY <1>1, <1>3, <1>5 DEF SessionInv, SessionTypeOK, worldVars
<1>7. Written' = Written BY <1>1 DEF Written
<1>8. WrittenHeld' BY <1>1, <1>3, <1>5, <1>7 DEF SessionInv, WrittenHeld, OnScreen, worldVars
<1>9. RunningHeld' BY <1>1, <1>3 DEF SessionInv, RunningHeld, worldVars
<1> QED BY <1>3, <1>6, <1>8, <1>9 DEF SessionInv

(* The steps of the user that save what is shown then. *)
LEMMA UserSavesHeld ==
  ASSUME SessionInv, NEW event, User(event), SaveNow,
         UNCHANGED <<day, open, rowsShown, racks, stock, there, saved, asked, due, seen>>,
         screen' \in {"library", "viewer"}, rack' \in racks \cup {NoRack}, pending' \in {pending, Nowhere},
         pending' = Nowhere \/ screen = "library"
  PROVE  SessionInv'
<1>1. Up /\ used' /\ acts' \in 0 .. MaxActs[day] /\ RestoringHeld' /\ StoppedHeld' BY UserHeld
<1>2. racks \subseteq Rack /\ open \in Documents \cup {Nowhere} /\ pending \in AppSessions \cup {Nowhere}
  BY DEF SessionInv, SessionTypeOK
<1>3. rack' \in Rack \cup {NoRack} BY <1>2
<1>4. open' \in Documents \cup {Nowhere} BY <1>2
<1>5. LET s == SessionOf(screen', open', rack') IN Save(<<s>>) \/ \E r \in AppSessions : Save(<<r, s>>)
  BY DEF SaveNow, Snapshot
<1>6. rack' \in racks' \cup {NoRack} OBVIOUS
<1>7. /\ WrittenHeld' /\ writes' \in Seq(Writes) /\ Len(writes') <= MaxWrites
      /\ \A k \in DOMAIN writes' : writes'[k].begun => k = 1 /\ saved' = Garbled
  BY <1>3, <1>4, <1>5, <1>6, ShownIsSaved
<1>8. SessionTypeOK' BY <1>1, <1>2, <1>3, <1>7 DEF SessionInv, SessionTypeOK, Writes
<1>9. RunningHeld' BY <1>1 DEF SessionInv, RunningHeld
<1> QED BY <1>1, <1>7, <1>8, <1>9 DEF SessionInv

LEMMA UserMovesHeld == ASSUME SessionInv, BackToLibrary \/ BackToViewer \/ FolderSelected PROVE SessionInv'
<1>1. Up BY DEF BackToLibrary, BackToViewer, FolderSelected, User
<1>2. rack \in racks \cup {NoRack} BY <1>1 DEF SessionInv, RunningHeld
<1>3. CASE BackToLibrary
  BY <1>2, <1>3, UserSavesHeld DEF BackToLibrary, Returns, worldVars
<1>4. CASE BackToViewer
  <2>1. screen' \in {"library", "viewer"} BY <1>4 DEF BackToViewer
  <2> QED BY <1>2, <1>4, <2>1, UserSavesHeld DEF BackToViewer, worldVars
<1>5. CASE FolderSelected
  <2>1. rack' \in racks \cup {NoRack} BY <1>5 DEF FolderSelected
  <2> QED BY <1>5, <2>1, UserSavesHeld DEF FolderSelected
<1> QED BY <1>3, <1>4, <1>5
-----------------------------------------------------------------------------
LEMMA SessionStarts == SessionInit => SessionInv
<1> SUFFICES ASSUME SessionInit PROVE SessionInv OBVIOUS
<1>1. writes \in Seq(Writes) /\ Len(writes) <= MaxWrites /\ DOMAIN writes = {}
  BY SessionAssumption DEF SessionInit
<1>2. acts \in 0 .. MaxActs[day] /\ day \in Days BY SessionAssumption DEF SessionInit
<1>3. SessionTypeOK BY <1>1, <1>2 DEF SessionInit, SessionTypeOK, Writes
<1> QED BY <1>3 DEF SessionInit, SessionInv, WrittenHeld, RunningHeld, StoppedHeld, RestoringHeld, Up

LEMMA SessionStandsHeld == ASSUME SessionInv, UNCHANGED sessionVars PROVE SessionInv'
<1>1. SessionTypeOK' BY DEF SessionInv, SessionTypeOK, sessionVars, worldVars
<1>2. Written' = Written /\ (Up' <=> Up) BY DEF Written, Up, sessionVars
<1> QED BY <1>1, <1>2 DEF SessionInv, WrittenHeld, OnScreen, RunningHeld, StoppedHeld, RestoringHeld,
                          sessionVars, worldVars

LEMMA SessionSteps == SessionInv /\ [SessionNext]_sessionVars => SessionInv'
<1> SUFFICES ASSUME SessionInv, [SessionNext]_sessionVars PROVE SessionInv' OBVIOUS
<1>1. CASE WriteBegins BY <1>1, WriteBeginsHeld
<1>2. CASE WriteEnds BY <1>2, WriteEndsHeld
<1>3. CASE SaveSettles BY <1>3, SaveSettlesHeld
<1>4. CASE Quits BY <1>4, QuitsHeld
<1>5. CASE LibraryLoaded BY <1>5, LibraryLoadedHeld
<1>6. CASE LibraryFoldersLoaded BY <1>6, LibraryFoldersLoadedHeld
<1>7. CASE \E p \in Path \cup {Nowhere} : Launch(p) BY <1>7, LaunchHeld
<1>8. CASE \E t \in asked : DocumentOpened(t) \/ LibraryDocumentOpened(t) \/ DocumentError(t)
  BY <1>8, DocumentOpenedHeld, DocumentErrorHeld
<1>9. CASE WorldChanges BY <1>9, WorldChangesHeld
<1>10. CASE Asks BY <1>10, AsksHeld
<1>11. CASE TurnsPage BY <1>11, TurnsPageHeld
<1>12. CASE BackToLibrary \/ BackToViewer \/ FolderSelected BY <1>12, UserMovesHeld
<1>13. CASE UNCHANGED sessionVars BY <1>13, SessionStandsHeld
<1> QED BY <1>1, <1>2, <1>3, <1>4, <1>5, <1>6, <1>7, <1>8, <1>9, <1>10, <1>11, <1>12, <1>13 DEF SessionNext

LEMMA SessionInvHolds == SessionSpec => []SessionInv
BY SessionStarts, SessionSteps, PTL DEF SessionSpec

LEMMA SeenIsShown == SessionInv => SeenAgain
<1> SUFFICES ASSUME SessionInv, AllDone, ~used, seen # Nowhere
             PROVE  /\ screen = seen.mode
                    /\ rack = ValidFolder(seen.folder, racks)
                    /\ (screen = "viewer" /\ seen.path # Nowhere) =>
                         open # Nowhere /\ open.path = seen.path /\ open.leaf = seen.leaf
  BY DEF SeenAgain
<1>1. Up /\ asked = {} BY DEF AllDone
<1> QED BY <1>1 DEF SessionInv, RestoringHeld

(* The library being loaded never shows the viewer, nor does what is not asked for. *)
LEMMA NobodyBounced ==
  ASSUME SessionInv, [SessionNext]_sessionVars, screen = "library", screen' = "viewer"
  PROVE  asked' # asked \/ BackToViewer
<1>1. Up BY DEF Up
<1>2. CASE WriteBegins \/ WriteEnds \/ SaveSettles \/ LibraryFoldersLoaded \/ WorldChanges \/ Asks \/ FolderSelected
  BY <1>2 DEF WriteBegins, WriteEnds, SaveSettles, LibraryFoldersLoaded, WorldChanges, Asks, FolderSelected
<1>3. CASE Quits \/ TurnsPage \/ BackToLibrary
  BY <1>3 DEF Quits, TurnsPage, BackToLibrary
<1>4. CASE LibraryLoaded BY <1>1, <1>4 DEF LibraryLoaded, SessionInv, RunningHeld
<1>5. CASE \E p \in Path \cup {Nowhere} : Launch(p) BY <1>1, <1>5 DEF Launch
<1>6. CASE \E t \in asked : DocumentOpened(t) \/ LibraryDocumentOpened(t) \/ DocumentError(t)
  BY <1>6 DEF DocumentOpened, LibraryDocumentOpened, DocumentError
<1>7. CASE BackToViewer BY <1>7
<1>8. CASE UNCHANGED sessionVars BY <1>8 DEF sessionVars
<1> QED BY <1>2, <1>3, <1>4, <1>5, <1>6, <1>7, <1>8 DEF SessionNext

(* What is kept of the app is what was on the screen: once it is quit with every write done it *)
(* is shown again (SeenAgain), and nobody who goes to the library is taken back (NotBounced).   *)
LEMMA SessionKeptAlone == SessionSpec => SessionKept
<1>1. SessionInv /\ [SessionNext]_sessionVars =>
        [(screen = "library" /\ screen' = "viewer") => asked' # asked \/ BackToViewer]_sessionVars
  BY NobodyBounced
<1> QED BY <1>1, SessionInvHolds, SeenIsShown, PTL DEF SessionSpec, SessionKept, NotBounced
-----------------------------------------------------------------------------
(* The files of PDFs. Lists: what is in them, and that they are lists of it. *)
Ran(s) == {s[i] : i \in DOMAIN s}
IsList(s) == s \in Seq(Ran(s))

(* What every variable is. *)
ErrandTyped == errand \in Errands /\ errands \in 0 .. MaxErrands[errand[2]]
DiskTyped == IsFiniteSet(Files) /\ \A p \in Files : drive[p] \in Holdings
RowsTyped ==
  /\ \A c \in DOMAIN entries : entries[c] = [at |-> entries[c].at, missing |-> entries[c].missing]
  /\ DOMAIN entries \subseteq Holdings /\ IsFiniteSet(DOMAIN entries) /\ reported \subseteq Holdings
  /\ \A c, d \in DOMAIN entries : entries[c].at = entries[d].at => c = d
WatchTyped ==
  /\ watching \subseteq wanted /\ wanted \subseteq RootDir
  /\ IsList(events) /\ \A e \in Ran(events) : e = Created(e.at) \/ e = Removed(e.at)
TaskTyped(t) ==
  /\ t = [kind |-> t.kind, dir |-> t.dir, todo |-> t.todo, id |-> t.id]
  /\ t.kind \in {"created", "removed", "pdf", "relink", "folder"}
  /\ IsList(t.todo) /\ t.id \in Holdings \cup {Blank}
  /\ t.kind = "folder" => t.dir \in wanted
  /\ t.kind # "folder" => t.todo # <<>> /\ Len(t.todo) = 1
  /\ t.kind = "removed" => t.id = Blank
  /\ t.kind = "relink" => t.id \in Holdings
  /\ t.id # Blank => t.todo # <<>>
TasksTyped == IsList(tasks) /\ \A t \in Ran(tasks) : TaskTyped(t)
ExportTyped ==
  /\ DOMAIN export = {"stage", "dialog", "todo", "made", "skipped", "failed", "zip", "before"}
  /\ export.stage \in {"closed", "open", "begin", "copy", "shown"}
  /\ export.stage # "closed" => Dialog \in errand[3] /\ "export" \in errand[2]
  /\ IsList(export.todo) /\ IsList(export.made)
  /\ export.stage \in {"closed", "open", "begin"} => export.made = <<>>
FTyped == ErrandTyped /\ DiskTyped /\ RowsTyped /\ WatchTyped /\ TasksTyped /\ ExportTyped

(* A place is below a directory that is, or will be, watched; it waits to be looked at, as    *)
(* created, as removed, or in the scan of a folder.                                            *)
Beneath(p) == \E r \in wanted : IsBelow(p.dir, r)
Noted(p) == Created(p) \in Ran(events) \/ \E t \in Ran(tasks) : t.kind = "created" /\ Head(t.todo) = p
Going(p) == Removed(p) \in Ran(events) \/ \E t \in Ran(tasks) : t.kind = "removed" /\ Head(t.todo) = p
Scanned(p) == \E t \in Ran(tasks) :
  t.kind = "folder" /\ (p \in Ran(t.todo) \/ (t.todo = <<>> /\ IsBelow(p.dir, t.dir)))
Coming(p) == Noted(p) \/ Scanned(p)
(* The row of a PDF has the path of a file that holds it; a file of it is watched, or will be. *)
RowGood(c) ==
  /\ c \in DOMAIN entries /\ ~entries[c].missing
  /\ entries[c].at \in Files /\ drive[entries[c].at] = c
HeldAt(c, p) == p \in Files /\ drive[p] = c /\ Beneath(p)

(* What FilesKept says of rows and files is said of these errands. *)
Calm == "other" \notin errand[2] /\ ExportsApart

(* Nothing is told but of watched places, a hash read is of what the file holds, a place told *)
(* as removed has no file, the pages of a row are those of its PDF unless an error was shown.    *)
EventsBeneath ==
  /\ watching # wanted => events = <<>>
  /\ \A e \in Ran(events) : Beneath(e.at)
ReadsHold == \A t \in Ran(tasks) : t.id # Blank =>
  Head(t.todo) \in Files /\ drive[Head(t.todo)] = t.id /\ (t.kind = "relink" => t.id \in Book)
GoneNoted == \A p : Going(p) => p \notin Files /\ Beneath(p)
PagesRead ==
  /\ DOMAIN entries \subseteq Book
  /\ \A c \in DOMAIN entries \ reported : c \in DOMAIN pages /\ pages[c] = c
(* A row whose file is not watched has its file; an export leaves watched places alone. *)
RowsAside == \A c \in DOMAIN entries : ~Beneath(entries[c].at) => RowGood(c)
Apart == "export" \in errand[2] =>
  /\ \A c \in DOMAIN entries : Beneath(entries[c].at)
  /\ \A t \in Ran(tasks) : t.kind \notin {"pdf", "relink"} /\ \A p \in Ran(t.todo) : Beneath(p)
  /\ \A x \in Ran(export.todo) : x.book \in Book
(* The heart of it. A watched file has a row, or one of its PDF waits to be looked at; a row   *)
(* not marked missing has its file, or it waits to be told that it has gone or has changed, or   *)
(* another file of its PDF does.                                                                 *)
HeldHasRow == \A c \in Book \ reported : (\E p : HeldAt(c, p)) =>
  RowGood(c) \/ \E q : HeldAt(c, q) /\ Coming(q)
RowHasFile == \A c \in DOMAIN entries \ reported : (~entries[c].missing /\ Beneath(entries[c].at)) =>
  \/ RowGood(c) \/ Going(entries[c].at) \/ (entries[c].at \in Files /\ Noted(entries[c].at))
  \/ \E q : HeldAt(c, q) /\ Noted(q)
Core == EventsBeneath /\ ReadsHold /\ GoneNoted /\ PagesRead /\ RowsAside /\ Apart /\ HeldHasRow /\ RowHasFile

(* Exports: what was written, and what was there before, is there; the archive is a new file. *)
MadeApart == \A i, j \in DOMAIN export.made : export.made[i].to = export.made[j].to =>
  i = j \/ (Dialog.mode # "Zip" /\ ~Left(export.made[i].to))
MadeHeld == Dialog.mode # "Zip" => \A k \in DOMAIN export.made :
  LET m == export.made[k] IN Left(m.to) => m.to \in Files /\ drive[m.to] = m.holds
BeforeHeld == \A p \in DOMAIN export.before : Left(p) => p \in Files /\ drive[p] = export.before[p]
ZipNew == (export.stage = "copy" /\ Dialog.mode = "Zip") =>
  export.zip \notin DOMAIN export.before \/ ~Left(export.zip)
ZipInDest == (export.stage = "copy" /\ Dialog.mode = "Zip") => export.zip.dir = Dialog.dest
ExportKept == (export.stage \in {"begin", "copy", "shown"} /\ Dialog.conflict # "Overwrite") =>
  MadeApart /\ MadeHeld /\ BeforeHeld /\ ZipNew
ExportOK == ZipInDest /\ ExportKept
FilesInv == FTyped /\ (Calm => Core) /\ ExportOK

(* A function with one argument more, and with some taken out. *)
IsMap(f) == f = [x \in DOMAIN f |-> f[x]]

LEMMA PutOver ==
  ASSUME NEW f, NEW x, NEW v
  PROVE  LET g == With(f, x, v) IN
         /\ DOMAIN g = DOMAIN f \cup {x} /\ IsMap(g) /\ g[x] = v
         /\ \A y \in DOMAIN f : y # x => g[y] = f[y]
BY DEF With, IsMap

LEMMA TakenOut ==
  ASSUME NEW f, NEW S
  PROVE  LET g == Without(f, S) IN
         DOMAIN g = DOMAIN f \ S /\ IsMap(g) /\ \A y \in DOMAIN g : g[y] = f[y]
BY DEF Without, Restrict, IsMap

(* Lists that grow, shrink, lose a member and have one replaced. *)
LEMMA ListOf == ASSUME NEW S, NEW s \in Seq(S), DOMAIN s = 1 .. Len(s) PROVE IsList(s)
<1>1. Len(s) \in Nat /\ s = [i \in 1 .. Len(s) |-> s[i]] BY LenProperties
<1>2. \A i \in 1 .. Len(s) : s[i] \in Ran(s) BY DEF Ran
<1> DEFINE n == Len(s)
<1> HIDE DEF n
<1>3. [i \in 1 .. n |-> s[i]] \in Seq(Ran(s)) BY <1>1, <1>2 DEF n
<1> QED BY <1>1, <1>3 DEF IsList, n

LEMMA Appended ==
  ASSUME NEW s, IsList(s), NEW e
  PROVE  /\ IsList(Append(s, e)) /\ Ran(Append(s, e)) = Ran(s) \cup {e}
         /\ Len(s) \in Nat /\ DOMAIN s = 1 .. Len(s)
         /\ DOMAIN Append(s, e) = 1 .. Len(s) + 1 /\ Append(s, e)[Len(s) + 1] = e
         /\ \A i \in DOMAIN s : Append(s, e)[i] = s[i]
<1> DEFINE S == Ran(s) \cup {e}
           a == Append(s, e)
<1>1. s \in Seq(S) /\ e \in S BY SeqMonotonic DEF IsList
<1>2. Len(s) \in Nat /\ DOMAIN s = 1 .. Len(s) BY <1>1, LenProperties
<1>3. /\ a \in Seq(S) /\ Len(a) = Len(s) + 1 /\ a[Len(s) + 1] = e
      /\ \A i \in 1 .. Len(s) : a[i] = s[i]
  BY <1>1, AppendProperties
<1>4. DOMAIN a = 1 .. Len(s) + 1 BY <1>3, LenProperties
<1> HIDE DEF a
<1>5. Ran(a) = S
  <2>1. \A i \in DOMAIN a : a[i] \in S BY <1>2, <1>3, <1>4 DEF Ran
  <2>2. Len(s) + 1 \in DOMAIN a BY <1>2, <1>4
  <2>3. \A i \in DOMAIN s : i \in DOMAIN a BY <1>2, <1>4
  <2> QED BY <1>2, <1>3, <2>1, <2>2, <2>3 DEF Ran
<1>6. IsList(a) BY <1>3, <1>5 DEF IsList
<1> QED BY <1>2, <1>3, <1>4, <1>5, <1>6 DEF a

LEMMA TailTaken ==
  ASSUME NEW s, IsList(s), s # <<>>
  PROVE  /\ IsList(Tail(s)) /\ Head(s) \in Ran(s)
         /\ Ran(Tail(s)) \subseteq Ran(s) /\ Ran(s) = Ran(Tail(s)) \cup {Head(s)}
<1> DEFINE S == Ran(s)
           b == Tail(s)
<1>1. s \in Seq(S) BY DEF IsList
<1>2. Len(s) \in Nat /\ DOMAIN s = 1 .. Len(s) /\ Len(s) # 0 BY <1>1, LenProperties, EmptySeq
<1>3. /\ Head(s) = s[1] /\ b \in Seq(S) /\ Len(b) = Len(s) - 1
      /\ \A i \in 1 .. Len(b) : b[i] = s[i + 1]
  BY <1>1, HeadTailProperties
<1>4. DOMAIN b = 1 .. Len(s) - 1 BY <1>3, LenProperties
<1>5. 1 \in DOMAIN s BY <1>2
<1> HIDE DEF b
<1>6. Ran(b) \subseteq S BY <1>2, <1>3, <1>4 DEF Ran
<1>7. S \subseteq Ran(b) \cup {s[1]}
  <2> SUFFICES ASSUME NEW i \in DOMAIN s, i # 1 PROVE s[i] \in Ran(b) BY DEF Ran
  <2>1. i - 1 \in DOMAIN b /\ (i - 1) + 1 = i BY <1>2, <1>4
  <2>2. b[i - 1] = s[i] BY <1>3, <1>4, <2>1
  <2> QED BY <2>1, <2>2 DEF Ran
<1>8. IsList(b)
  <2>1. Len(b) = Len(s) - 1 /\ b \in Seq(S) BY <1>3
  <2> QED BY <1>4, <2>1, ListOf
<1> QED BY <1>3, <1>5, <1>6, <1>7, <1>8 DEF Ran, b

LEMMA Emptied == IsList(<<>>) /\ Ran(<<>>) = {}
BY EmptySeq DEF IsList, Ran

LEMMA Single == ASSUME NEW e PROVE IsList(<<e>>) /\ Ran(<<e>>) = {e} /\ Head(<<e>>) = e /\ Len(<<e>>) = 1
<1>1. <<e>> \in Seq({e}) /\ DOMAIN <<e>> = 1 .. 1 /\ Len(<<e>>) = 1 OBVIOUS
<1>2. IsList(<<e>>) BY <1>1, ListOf
<1>3. Ran(<<e>>) = {e} BY <1>1 DEF Ran
<1> QED BY <1>1, <1>2, <1>3

LEMMA TookOut ==
  ASSUME NEW s, IsList(s), NEW k \in DOMAIN s
  PROVE  LET r == RemoveAt(s, k) IN
         IsList(r) /\ Ran(r) \subseteq Ran(s) /\ Ran(s) \subseteq Ran(r) \cup {s[k]}
<1> DEFINE S == Ran(s)
           a == SubSeq(s, 1, k - 1)
           b == SubSeq(s, k + 1, Len(s))
           r == RemoveAt(s, k)
<1>1. s \in Seq(S) BY DEF IsList
<1>2. Len(s) \in Nat /\ DOMAIN s = 1 .. Len(s) /\ k \in 1 .. Len(s) BY <1>1, LenProperties
<1>3. \A i \in 1 .. Len(s) : s[i] \in S BY <1>2 DEF Ran
<1>4. /\ a \in Seq(S) /\ Len(a) = k - 1 /\ \A i \in 1 .. k - 1 : a[i] = s[i]
  <2>1. \A i \in 1 .. k - 1 : s[i] \in S BY <1>2, <1>3
  <2>2. a \in Seq(S) /\ Len(a) = (IF 1 <= k - 1 THEN (k - 1) - 1 + 1 ELSE 0)
        /\ \A i \in 1 .. (k - 1) - 1 + 1 : a[i] = s[1 + i - 1]
    BY <1>2, <2>1, SubSeqProperties
  <2> QED BY <1>2, <2>2
<1>5. /\ b \in Seq(S) /\ Len(b) = Len(s) - k /\ \A i \in 1 .. Len(s) - k : b[i] = s[k + i]
  <2>1. \A i \in k + 1 .. Len(s) : s[i] \in S BY <1>2, <1>3
  <2>2. b \in Seq(S) /\ Len(b) = (IF k + 1 <= Len(s) THEN Len(s) - (k + 1) + 1 ELSE 0)
        /\ \A i \in 1 .. Len(s) - (k + 1) + 1 : b[i] = s[(k + 1) + i - 1]
    BY <1>2, <2>1, SubSeqProperties
  <2> QED BY <1>2, <2>2
<1>6. r = a \o b BY DEF RemoveAt
<1> HIDE DEF r
<1>7. /\ r \in Seq(S) /\ Len(r) = Len(a) + Len(b)
      /\ \A i \in 1 .. Len(r) : r[i] = IF i <= Len(a) THEN a[i] ELSE b[i - Len(a)]
  <2> HIDE DEF a, b
  <2>1. /\ a \o b \in Seq(S) /\ Len(a \o b) = Len(a) + Len(b)
        /\ \A i \in 1 .. Len(a) + Len(b) : (a \o b)[i] = IF i <= Len(a) THEN a[i] ELSE b[i - Len(a)]
    BY <1>4, <1>5, ConcatProperties
  <2> QED BY <1>6, <2>1
<1> HIDE DEF a, b
<1>8. DOMAIN r = 1 .. Len(s) - 1 BY <1>2, <1>4, <1>5, <1>7, LenProperties
<1>9. Ran(r) \subseteq S
  <2>1. \A i \in 1 .. Len(r) : r[i] \in S BY <1>7, ElementOfSeq
  <2>2. Len(r) = Len(s) - 1 BY <1>2, <1>4, <1>5, <1>7
  <2> QED BY <1>8, <2>1, <2>2 DEF Ran
<1>10. S \subseteq Ran(r) \cup {s[k]}
  <2> SUFFICES ASSUME NEW i \in DOMAIN s, i # k PROVE s[i] \in Ran(r) BY DEF Ran
  <2>1. CASE i < k
    <3>1. i \in DOMAIN r /\ i <= Len(a) BY <1>2, <1>4, <1>8, <2>1
    <3>2. r[i] = s[i] BY <1>2, <1>4, <1>5, <1>7, <2>1, <3>1
    <3> QED BY <3>1, <3>2 DEF Ran
  <2>2. CASE i > k
    <3>0. i \in 1 .. Len(s) /\ k \in 1 .. Len(s) /\ Len(s) \in Nat /\ Len(a) = k - 1 BY <1>2, <1>4
    <3>1. /\ i - 1 \in DOMAIN r /\ ~(i - 1 <= Len(a)) /\ (i - 1) - Len(a) = i - k
          /\ i - k \in 1 .. Len(s) - k /\ k + (i - k) = i
      <4> DEFINE n == Len(s)
                 m == Len(a)
      <4>1. n \in Nat /\ k \in 1 .. n /\ i \in 1 .. n /\ m = k - 1 /\ DOMAIN r = 1 .. n - 1 BY <1>8, <3>0
      <4> HIDE DEF n, m
      <4>2. i - 1 \in 1 .. n - 1 /\ ~(i - 1 <= m) /\ (i - 1) - m = i - k /\ i - k \in 1 .. n - k /\ k + (i - k) = i
        BY <4>1, <2>2
      <4> QED BY <4>1, <4>2 DEF n, m
    <3>2. r[i - 1] = b[i - k]
      <4>1. Len(r) = Len(s) - 1 BY <3>0, <1>5, <1>7
      <4> QED BY <1>7, <1>8, <3>1, <4>1
    <3>3. r[i - 1] = s[i] BY <1>5, <3>1, <3>2
    <3> QED BY <3>1, <3>3 DEF Ran
  <2> QED BY <1>2, <2>1, <2>2
<1>11. IsList(r)
  <2>1. Len(r) = Len(s) - 1 BY <1>2, <1>4, <1>5, <1>7
  <2> QED BY <1>7, <1>8, <2>1, ListOf
<1> QED BY <1>9, <1>10, <1>11 DEF r

LEMMA PutIn ==
  ASSUME NEW s, IsList(s), NEW k \in DOMAIN s, NEW e
  PROVE  LET r == [s EXCEPT ![k] = e] IN
         /\ IsList(r) /\ Ran(r) \subseteq Ran(s) \cup {e} /\ Ran(s) \subseteq Ran(r) \cup {s[k]}
         /\ e \in Ran(r)
<1> DEFINE r == [s EXCEPT ![k] = e]
<1>1. s \in Seq(Ran(s)) BY DEF IsList
<1>2. Len(s) \in Nat /\ DOMAIN s = 1 .. Len(s) BY <1>1, LenProperties
<1>3. DOMAIN r = DOMAIN s /\ r[k] = e /\ \A i \in DOMAIN s : i # k => r[i] = s[i]
  BY DEF Ran
<1>4. r = [i \in 1 .. Len(s) |-> r[i]] BY <1>2
<1> HIDE DEF r
<1>5. \A i \in 1 .. Len(s) : r[i] \in Ran(r) BY <1>2, <1>3 DEF Ran
<1>6. IsList(r) BY <1>2, <1>4, <1>5, SeqDef DEF IsList
<1>7. Ran(r) \subseteq Ran(s) \cup {e} /\ Ran(s) \subseteq Ran(r) \cup {s[k]} /\ e \in Ran(r)
  BY <1>3 DEF Ran
<1> QED BY <1>6, <1>7 DEF r

LEMMA Joined ==
  ASSUME NEW s, IsList(s), NEW l, IsList(l)
  PROVE  IsList(s \o l) /\ Ran(s \o l) = Ran(s) \cup Ran(l)
<1> DEFINE S == Ran(s) \cup Ran(l)
           m == Len(s)
           n == Len(l)
           a == s \o l
<1>1. s \in Seq(S) /\ l \in Seq(S) BY SeqMonotonic DEF IsList
<1>2. m \in Nat /\ DOMAIN s = 1 .. m /\ n \in Nat /\ DOMAIN l = 1 .. n BY <1>1, LenProperties
<1>3. /\ a \in Seq(S) /\ Len(a) = m + n
      /\ \A i \in 1 .. m + n : a[i] = IF i <= m THEN s[i] ELSE l[i - m]
  BY <1>1, ConcatProperties
<1> HIDE DEF a
<1>4. DOMAIN a = 1 .. m + n BY <1>3, LenProperties
<1> HIDE DEF m, n
<1>5. \A i \in DOMAIN s : i \in DOMAIN a /\ a[i] = s[i] BY <1>2, <1>3, <1>4
<1>6. \A i \in DOMAIN l : m + i \in DOMAIN a /\ a[m + i] = l[i]
  <2> SUFFICES ASSUME NEW i \in DOMAIN l PROVE m + i \in DOMAIN a /\ a[m + i] = l[i] OBVIOUS
  <2>1. m + i \in 1 .. m + n /\ ~(m + i <= m) /\ (m + i) - m = i BY <1>2
  <2> QED BY <1>3, <1>4, <2>1
<1>7. \A i \in DOMAIN a : a[i] \in S
  <2> SUFFICES ASSUME NEW i \in DOMAIN a PROVE a[i] \in S OBVIOUS
  <2>1. CASE i <= m
    <3>1. i \in DOMAIN s BY <1>2, <1>4, <2>1
    <3> QED BY <1>3, <1>4, <2>1, <3>1 DEF Ran
  <2>2. CASE ~(i <= m)
    <3>1. i - m \in DOMAIN l BY <1>2, <1>4, <2>2
    <3> QED BY <1>3, <1>4, <2>2, <3>1 DEF Ran
  <2> QED BY <2>1, <2>2
<1>8. Ran(a) = S BY <1>5, <1>6, <1>7 DEF Ran
<1>9. IsList(a) BY <1>3, <1>8 DEF IsList
<1> QED BY <1>8, <1>9 DEF a

LEMMA ThreeListed == ASSUME NEW a, NEW b, NEW c PROVE IsList(<<a, b, c>>) /\ Ran(<<a, b, c>>) = {a, b, c}
<1>1. <<a, b, c>> \in Seq({a, b, c}) /\ DOMAIN <<a, b, c>> = 1 .. 3 /\ Len(<<a, b, c>>) = 3 OBVIOUS
<1>2. IsList(<<a, b, c>>) BY <1>1, ListOf
<1>3. Ran(<<a, b, c>>) = {a, b, c} BY <1>1 DEF Ran
<1> QED BY <1>2, <1>3

LEMMA TwoListed == ASSUME NEW a, NEW b PROVE IsList(<<a, b>>) /\ Ran(<<a, b>>) = {a, b}
<1>1. <<a, b>> \in Seq({a, b}) /\ DOMAIN <<a, b>> = 1 .. 2 /\ Len(<<a, b>>) = 2 OBVIOUS
<1>2. IsList(<<a, b>>) BY <1>1, ListOf
<1>3. Ran(<<a, b>>) = {a, b} BY <1>1 DEF Ran
<1> QED BY <1>2, <1>3

(* SetToSeq of a finite set is a list of its members. *)
LEMMA SetListed ==
  ASSUME NEW S, IsFiniteSet(S)
  PROVE  IsList(SetToSeq(S)) /\ Ran(SetToSeq(S)) = S /\ (S # {} => SetToSeq(S) # <<>>)
<1> DEFINE n == Cardinality(S)
           q == SetToSeq(S)
<1>1. n \in Nat /\ ExistsBijection(1 .. n, S) BY FS_CardinalityType
<1>2. \E f \in [1 .. n -> S] : IsInjective(f)
  BY <1>1 DEF ExistsBijection, Bijection, Injection
<1>3. q \in [1 .. n -> S] /\ IsInjective(q) BY <1>2 DEF SetToSeq
<1>4. q \in Injection(1 .. n, S) BY <1>3 DEF Injection
<1>5. Cardinality(1 .. n) = n BY <1>1, FS_Interval
<1>6. q \in Surjection(1 .. n, S)
  <2>1. Cardinality(1 .. n) = Cardinality(S) <=> q \in Surjection(1 .. n, S) BY <1>4, FS_Injection
  <2> QED BY <1>5, <2>1
<1>7. q \in Seq(S) BY <1>1, <1>3
<1> HIDE DEF q, n
<1>8. DOMAIN q = 1 .. n BY <1>3
<1>9. \A i \in DOMAIN q : q[i] \in S BY <1>3, <1>8
<1>10. \A e \in S : \E i \in DOMAIN q : q[i] = e BY <1>6, <1>8 DEF Surjection
<1>11. Ran(q) = S BY <1>9, <1>10 DEF Ran
<1>12. IsList(q) BY <1>7, <1>11 DEF IsList
<1>13. S # {} => q # <<>> BY <1>11, Emptied
<1> QED BY <1>11, <1>12, <1>13 DEF q

(* Tasks: what each of them is, and what is left of it. *)
Follow(t) == [kind |-> t.kind, dir |-> t.dir, todo |-> Tail(t.todo), id |-> Blank]

LEMMA TaskIs ==
  ASSUME TasksTyped, NEW k \in DOMAIN tasks
  PROVE  tasks[k] \in Ran(tasks) /\ TaskTyped(tasks[k])
BY DEF TasksTyped, Ran

LEMMA OneLeft ==
  ASSUME NEW s, IsList(s), s # <<>>
  PROVE  /\ Len(s) = 1 => Ran(s) = {Head(s)}
         /\ Ran(s) \subseteq Ran(Tail(s)) \cup {Head(s)} /\ IsList(Tail(s)) /\ Ran(Tail(s)) \subseteq Ran(s)
         /\ Head(s) \in Ran(s)
         /\ Len(s) # 1 => Tail(s) # <<>>
<1>1. s \in Seq(Ran(s)) BY DEF IsList
<1>2. Len(s) \in Nat /\ DOMAIN s = 1 .. Len(s) /\ Len(s) # 0 BY <1>1, LenProperties, EmptySeq
<1>3. Head(s) = s[1] /\ Len(Tail(s)) = Len(s) - 1 /\ Tail(s) \in Seq(Ran(s)) BY <1>1, HeadTailProperties
<1>4. Len(s) = 1 => Ran(s) = {Head(s)} BY <1>2, <1>3 DEF Ran
<1>5. Len(s) # 1 => Tail(s) # <<>>
  <2> SUFFICES ASSUME Tail(s) = <<>> PROVE Len(s) = 1 OBVIOUS
  <2>1. Len(Tail(s)) = 0 BY <1>3, EmptySeq
  <2> QED BY <1>2, <1>3, <2>1
<1> QED BY <1>4, <1>5, TailTaken

LEMMA Fields ==
  ASSUME NEW t, NEW x, NEW y, t = [kind |-> t.kind, dir |-> t.dir, todo |-> t.todo, id |-> t.id]
  PROVE  /\ [t EXCEPT !.id = y] = [kind |-> t.kind, dir |-> t.dir, todo |-> t.todo, id |-> y]
         /\ [t EXCEPT !.todo = x] = [kind |-> t.kind, dir |-> t.dir, todo |-> x, id |-> t.id]
         /\ [[t EXCEPT !.todo = x] EXCEPT !.id = y] = [kind |-> t.kind, dir |-> t.dir, todo |-> x, id |-> y]
<1>1. [t EXCEPT !.todo = x] = [kind |-> t.kind, dir |-> t.dir, todo |-> x, id |-> t.id] OBVIOUS
<1>2. [t EXCEPT !.id = y] = [kind |-> t.kind, dir |-> t.dir, todo |-> t.todo, id |-> y] OBVIOUS
<1>3. [[t EXCEPT !.todo = x] EXCEPT !.id = y] = [kind |-> t.kind, dir |-> t.dir, todo |-> x, id |-> y]
  <2> DEFINE r == [t EXCEPT !.todo = x]
             a == t.kind
             b == t.dir
             d == t.id
  <2>1. r = [kind |-> a, dir |-> b, todo |-> x, id |-> d] BY <1>1
  <2> HIDE DEF r, a, b, d
  <2>2. [r EXCEPT !.id = y] = [kind |-> a, dir |-> b, todo |-> x, id |-> y] BY <2>1
  <2> QED BY <2>2 DEF r, a, b
<1> QED BY <1>1, <1>2, <1>3

(* A task that goes on has its next file before it, or ends after the last. *)
LEMMA GoesOnDoes ==
  ASSUME TasksTyped, NEW k \in DOMAIN tasks, GoesOn(k), tasks[k].todo # <<>>
  PROVE  /\ IsList(tasks') /\ Ran(tasks) \subseteq Ran(tasks') \cup {tasks[k]}
         /\ \/ Ran(tasks') \subseteq Ran(tasks) /\ Len(tasks[k].todo) = 1
            \/ /\ Ran(tasks') \subseteq Ran(tasks) \cup {Follow(tasks[k])} /\ Follow(tasks[k]) \in Ran(tasks')
               /\ Len(tasks[k].todo) # 1 /\ tasks[k].kind = "folder"
<1> DEFINE t == tasks[k]
<1>1. TaskTyped(t) /\ IsList(tasks) BY TaskIs DEF TasksTyped
<1>2. CASE Len(t.todo) = 1
  <2>1. tasks' = RemoveAt(tasks, k) BY <1>2 DEF GoesOn, Drop
  <2> QED BY <1>1, <1>2, <2>1, TookOut
<1>3. CASE Len(t.todo) # 1
  <2>1. tasks' = [tasks EXCEPT ![k] = Follow(t)]
    <3>1. tasks' = [tasks EXCEPT ![k].todo = Tail(@), ![k].id = Blank] BY <1>3 DEF GoesOn
    <3>2. t = [kind |-> t.kind, dir |-> t.dir, todo |-> t.todo, id |-> t.id] BY <1>1 DEF TaskTyped
    <3> HIDE DEF t
    <3>3. [[t EXCEPT !.todo = Tail(@)] EXCEPT !.id = Blank] = Follow(t) BY <3>2, Fields DEF Follow
    <3>4. tasks' = [tasks EXCEPT ![k] = [[t EXCEPT !.todo = Tail(@)] EXCEPT !.id = Blank]] BY <3>1 DEF t
    <3> QED BY <3>3, <3>4 DEF t
  <2>2. t.kind = "folder" BY <1>1, <1>3 DEF TaskTyped
  <2> QED BY <1>1, <1>3, <2>1, <2>2, PutIn
<1> QED BY <1>2, <1>3

LEMMA FollowTyped ==
  ASSUME NEW t, TaskTyped(t), t.todo # <<>>, t.kind = "folder", Len(t.todo) # 1
  PROVE  TaskTyped(Follow(t))
BY OneLeft DEF TaskTyped, Follow

LEMMA GoesOnTyped ==
  ASSUME TasksTyped, NEW k \in DOMAIN tasks, GoesOn(k), tasks[k].todo # <<>>, wanted' = wanted
  PROVE  TasksTyped'
<1>1. TaskTyped(tasks[k]) BY TaskIs
<1>2. \A u \in Ran(tasks') : TaskTyped(u)
  BY <1>1, GoesOnDoes, FollowTyped DEF TasksTyped
<1>3. \A u : TaskTyped(u) => TaskTyped(u)' BY DEF TaskTyped
<1> QED BY <1>2, <1>3, GoesOnDoes DEF TasksTyped

LEMMA DropDoes ==
  ASSUME TasksTyped, NEW k \in DOMAIN tasks, Drop(k)
  PROVE  /\ IsList(tasks') /\ Ran(tasks') \subseteq Ran(tasks)
         /\ Ran(tasks) \subseteq Ran(tasks') \cup {tasks[k]}
BY TookOut DEF Drop, TasksTyped

LEMMA DropTyped ==
  ASSUME TasksTyped, NEW k \in DOMAIN tasks, Drop(k), wanted' = wanted
  PROVE  TasksTyped'
<1>1. \A u : TaskTyped(u) => TaskTyped(u)' BY DEF TaskTyped
<1> QED BY <1>1, DropDoes DEF TasksTyped

LEMMA StartTyped ==
  ASSUME TasksTyped, NEW u, tasks' = Append(tasks, u), wanted \subseteq wanted', TaskTyped(u)'
  PROVE  TasksTyped' /\ Ran(tasks') = Ran(tasks) \cup {u}
<1>1. \A v : TaskTyped(v) => TaskTyped(v)' BY DEF TaskTyped
<1>2. IsList(tasks') /\ Ran(tasks') = Ran(tasks) \cup {u} BY Appended DEF TasksTyped
<1> QED BY <1>1, <1>2 DEF TasksTyped

LEMMA PutTyped ==
  ASSUME TasksTyped, NEW k \in DOMAIN tasks, NEW u, tasks' = [tasks EXCEPT ![k] = u], wanted' = wanted, TaskTyped(u)
  PROVE  /\ TasksTyped' /\ Ran(tasks') \subseteq Ran(tasks) \cup {u} /\ u \in Ran(tasks')
         /\ Ran(tasks) \subseteq Ran(tasks') \cup {tasks[k]}
<1>1. \A v : TaskTyped(v) => TaskTyped(v)' BY DEF TaskTyped
<1>2. /\ IsList(tasks') /\ Ran(tasks') \subseteq Ran(tasks) \cup {u} /\ u \in Ran(tasks')
      /\ Ran(tasks) \subseteq Ran(tasks') \cup {tasks[k]}
  BY PutIn DEF TasksTyped
<1> QED BY <1>1, <1>2 DEF TasksTyped

LEMMA NewTyped ==
  ASSUME NEW kind \in {"created", "removed", "pdf", "relink"}, NEW dir, NEW p, NEW id \in Holdings \cup {Blank},
         kind = "removed" => id = Blank, kind = "relink" => id \in Holdings
  PROVE  TaskTyped([kind |-> kind, dir |-> dir, todo |-> <<p>>, id |-> id])
BY Single DEF TaskTyped

(* The types of what is stored: a file put, removed and moved; what is told; rows and tasks. *)
LEMMA DiskPut ==
  ASSUME DiskTyped, NEW p, NEW v \in Holdings, drive' = With(drive, p, v)
  PROVE  DiskTyped'
<1>1. DOMAIN drive' = Files \cup {p} BY PutOver DEF Files
<1>2. IsFiniteSet(Files \cup {p}) BY FS_AddElement DEF DiskTyped
<1>3. \A q \in DOMAIN drive' : drive'[q] \in Holdings BY DEF With, DiskTyped, Files
<1> QED BY <1>1, <1>2, <1>3 DEF DiskTyped, Files

LEMMA DiskTaken ==
  ASSUME NEW d, IsFiniteSet(DOMAIN d), \A q \in DOMAIN d : d[q] \in Holdings, NEW p
  PROVE  LET e == Without(d, {p}) IN
         IsFiniteSet(DOMAIN e) /\ (\A q \in DOMAIN e : e[q] \in Holdings) /\ DOMAIN e \subseteq DOMAIN d
<1> DEFINE e == Without(d, {p})
<1>1. DOMAIN e = DOMAIN d \ {p} /\ \A q \in DOMAIN e : e[q] = d[q] BY TakenOut
<1>2. IsFiniteSet(DOMAIN d \ {p}) BY FS_Subset
<1> HIDE DEF e
<1>3. \A q \in DOMAIN e : e[q] \in Holdings BY <1>1
<1> QED BY <1>1, <1>2, <1>3 DEF e

LEMMA DiskMoved ==
  ASSUME DiskTyped, NEW p \in Files, NEW q, drive' = With(Without(drive, {p}), q, drive[p])
  PROVE  DiskTyped'
<1> DEFINE e == Without(drive, {p})
<1>1. IsFiniteSet(DOMAIN e) /\ \A r \in DOMAIN e : e[r] \in Holdings BY DiskTaken DEF DiskTyped, Files
<1>2. drive[p] \in Holdings BY DEF DiskTyped
<1>3. drive' = With(e, q, drive[p]) OBVIOUS
<1> HIDE DEF e
<1>4. DOMAIN drive' = DOMAIN e \cup {q} BY <1>3, PutOver
<1>5. IsFiniteSet(DOMAIN e \cup {q}) BY <1>1, FS_AddElement
<1>6. \A r \in DOMAIN drive' : drive'[r] \in Holdings BY <1>1, <1>2, <1>3 DEF With
<1> QED BY <1>4, <1>5, <1>6 DEF DiskTyped, Files

LEMMA Events ==
  ASSUME WatchTyped, UNCHANGED <<wanted, watching>>, NEW list, Tells(list), IsList(list),
         \A e \in Ran(list) : e = Created(e.at) \/ e = Removed(e.at)
  PROVE  WatchTyped' /\ Ran(events') = Ran(events) \cup Ran(list)
<1>1. IsList(events') /\ Ran(events') = Ran(events) \cup Ran(list) BY Joined DEF WatchTyped, Tells
<1> QED BY <1>1 DEF WatchTyped

(* Parts that do not change keep their types. *)
LEMMA FTypedFrame ==
  ASSUME FTyped
  PROVE  /\ UNCHANGED drive => DiskTyped'
         /\ UNCHANGED <<entries, reported>> => RowsTyped'
         /\ UNCHANGED <<wanted, watching, events>> => WatchTyped'
         /\ (UNCHANGED tasks /\ wanted \subseteq wanted') => TasksTyped'
         /\ UNCHANGED <<errand, export>> => ExportTyped'
         /\ UNCHANGED <<errand, errands>> => ErrandTyped'
         /\ (\E e : Happens(e)) /\ UNCHANGED errand => ErrandTyped'
<1>1. UNCHANGED drive => DiskTyped' BY DEF FTyped, DiskTyped, Files
<1>2. UNCHANGED <<entries, reported>> => RowsTyped' BY DEF FTyped, RowsTyped
<1>3. UNCHANGED <<wanted, watching, events>> => WatchTyped' BY DEF FTyped, WatchTyped
<1>4. (UNCHANGED tasks /\ wanted \subseteq wanted') => TasksTyped'
  <2>1. wanted \subseteq wanted' => \A u : TaskTyped(u) => TaskTyped(u)' BY DEF TaskTyped
  <2> QED BY <2>1 DEF FTyped, TasksTyped
<1>5. UNCHANGED <<errand, export>> => ExportTyped' BY DEF FTyped, ExportTyped, Dialog
<1>6. UNCHANGED <<errand, errands>> => ErrandTyped' BY DEF FTyped, ErrandTyped
<1>7. (\E e : Happens(e)) /\ UNCHANGED errand => ErrandTyped'
  <2> SUFFICES ASSUME NEW e, Happens(e), errand' = errand PROVE ErrandTyped' OBVIOUS
  <2>1. MaxErrands[errand[2]] \in Nat /\ errands \in Nat BY FilesAssumption DEF FTyped, ErrandTyped
  <2>2. errands < MaxErrands[errand[2]] /\ errands' = errands + 1 BY DEF Happens
  <2> DEFINE m == MaxErrands[errand[2]]
  <2>3. errands + 1 \in 0 .. m
    <3>1. m \in Nat /\ errands < m BY <2>1, <2>2
    <3> HIDE DEF m
    <3> QED BY <2>1, <3>1
  <2> QED BY <2>2, <2>3 DEF FTyped, ErrandTyped
<1> QED BY <1>1, <1>2, <1>3, <1>4, <1>5, <1>6, <1>7

(* Files change, and the user asks: the types are kept. *)
LEMMA ChangeTyped == ASSUME FTyped, FilesChange PROVE FTyped'
<1> PICK p \in Places : \/ \E c \in Book \cup {Junk} : FileAdded(p, c) \/ FileSaved(p, c)
                       \/ FileRemoved(p) \/ (\E q \in Places : FileRenamed(p, q) \/ FileMovedAcross(p, q))
  BY DEF FilesChange
<1>0. UNCHANGED <<errand, entries, pages, wanted, watching, tasks, reported, export>> BY DEF FilesChange
<1>1. RowsTyped' /\ TasksTyped' /\ ExportTyped' BY <1>0, FTypedFrame
<1>2. ASSUME DiskTyped', WatchTyped', ErrandTyped' PROVE FTyped' BY <1>1, <1>2 DEF FTyped
<1>3. ASSUME NEW q PROVE Created(q).at = q /\ Removed(q).at = q BY DEF Created, Removed
<1>4. DiskTyped /\ WatchTyped BY DEF FTyped
<1>5. CASE \E c \in Book \cup {Junk} : FileAdded(p, c)
  <2> PICK c \in Book \cup {Junk} : FileAdded(p, c) BY <1>5
  <2>1. DiskTyped' BY <1>4, DiskPut DEF FileAdded, Holdings
  <2>2. WatchTyped' BY <1>0, <1>3, <1>4, Events, Single DEF FileAdded
  <2>3. ErrandTyped' BY <1>0, FTypedFrame DEF FileAdded
  <2> QED BY <1>2, <2>1, <2>2, <2>3
<1>6. CASE \E c \in Book \cup {Junk} : FileSaved(p, c)
  <2> PICK c \in Book \cup {Junk} : FileSaved(p, c) BY <1>6
  <2>1. DiskTyped'
    <3>1. drive' = [drive EXCEPT ![p] = c] BY DEF FileSaved
    <3> QED BY <1>4, <3>1 DEF DiskTyped, Files, Holdings
  <2>2. WatchTyped' BY <1>0, <1>3, <1>4, Events, Single DEF FileSaved
  <2>3. ErrandTyped' BY <1>0, FTypedFrame DEF FileSaved
  <2> QED BY <1>2, <2>1, <2>2, <2>3
<1>7. CASE FileRemoved(p)
  <2>1. DiskTyped'
    <3>1. drive' = Without(drive, {p}) BY <1>7 DEF FileRemoved
    <3> QED BY <1>4, <3>1, DiskTaken DEF DiskTyped, Files
  <2>2. WatchTyped' BY <1>0, <1>3, <1>4, <1>7, Events, Single DEF FileRemoved
  <2>3. ErrandTyped' BY <1>0, <1>7, FTypedFrame DEF FileRemoved
  <2> QED BY <1>2, <2>1, <2>2, <2>3
<1>8. CASE \E q \in Places : FileRenamed(p, q)
  <2> PICK q \in Places : FileRenamed(p, q) BY <1>8
  <2>1. DiskTyped' BY <1>4, DiskMoved DEF FileRenamed
  <2>2. WatchTyped'
    <3>1. Tells(<<Created(p), Created(q), Created(p)>>) BY DEF FileRenamed
    <3> QED BY <1>0, <1>3, <1>4, <3>1, Events, ThreeListed
  <2>3. ErrandTyped' BY <1>0, FTypedFrame DEF FileRenamed
  <2> QED BY <1>2, <2>1, <2>2, <2>3
<1>9. CASE \E q \in Places : FileMovedAcross(p, q)
  <2> PICK q \in Places : FileMovedAcross(p, q) BY <1>9
  <2>1. DiskTyped' BY <1>4, DiskMoved DEF FileMovedAcross
  <2>2. WatchTyped'
    <3>1. Tells(<<Created(q), Removed(p)>>) BY DEF FileMovedAcross
    <3> QED BY <1>0, <1>3, <1>4, <3>1, Events, TwoListed
  <2>3. ErrandTyped' BY <1>0, FTypedFrame DEF FileMovedAcross
  <2> QED BY <1>2, <2>1, <2>2, <2>3
<1> QED BY <1>5, <1>6, <1>7, <1>8, <1>9

LEMMA AskedTyped ==
  ASSUME FTyped
  PROVE  /\ \A r \in RootDir : ImportFolderSelected(r) => FTyped'
         /\ WatchStarts => FTyped'
         /\ \A p \in Files : ImportPdfSelected(p) => FTyped'
         /\ \A c \in DOMAIN entries, p \in Files : RelinkFileSelected(c, p) => FTyped'
         /\ LibraryWatchEvent => FTyped'
<1>0. ErrandTyped /\ DiskTyped /\ RowsTyped /\ WatchTyped /\ TasksTyped /\ ExportTyped BY DEF FTyped
<1>1. ASSUME NEW r \in RootDir, ImportFolderSelected(r) PROVE FTyped'
  <2>1. /\ tasks' = Append(tasks, NewTask("folder", r, <<>>)) /\ wanted' = wanted \cup {r}
        /\ UNCHANGED <<errand, drive, entries, pages, watching, events, reported, export>> /\ Happens("folder")
    BY <1>1 DEF ImportFolderSelected
  <2>2. TaskTyped(NewTask("folder", r, <<>>))' BY <2>1, Emptied DEF TaskTyped, NewTask
  <2>3. TasksTyped' BY <1>0, <2>1, <2>2, StartTyped
  <2>4. WatchTyped' BY <1>0, <2>1 DEF WatchTyped
  <2> QED BY <2>1, <2>3, <2>4, FTypedFrame DEF FTyped
<1>2. ASSUME WatchStarts PROVE FTyped'
  <2>1. /\ watching' = wanted /\ events' = <<>>
        /\ UNCHANGED <<errand, drive, entries, pages, wanted, tasks, reported, export, errands>>
    BY <1>2 DEF WatchStarts
  <2>2. WatchTyped' BY <1>0, <2>1, Emptied DEF WatchTyped
  <2> QED BY <2>1, <2>2, FTypedFrame DEF FTyped
<1>3. ASSUME NEW p \in Files, ImportPdfSelected(p) PROVE FTyped'
  <2>1. /\ tasks' = Append(tasks, NewTask("pdf", p.dir, <<p>>)) /\ Happens("pdf")
        /\ UNCHANGED <<errand, drive, entries, pages, wanted, watching, events, reported, export>>
    BY <1>3 DEF ImportPdfSelected
  <2>2. TaskTyped(NewTask("pdf", p.dir, <<p>>)) BY NewTyped DEF NewTask
  <2>3. TaskTyped(NewTask("pdf", p.dir, <<p>>))' BY <2>1, <2>2 DEF TaskTyped
  <2>4. TasksTyped' BY <1>0, <2>1, <2>3, StartTyped
  <2> QED BY <2>1, <2>4, FTypedFrame DEF FTyped
<1>4. ASSUME NEW c \in DOMAIN entries, NEW p \in Files, RelinkFileSelected(c, p) PROVE FTyped'
  <2> DEFINE u == [kind |-> "relink", dir |-> p.dir, todo |-> <<p>>, id |-> c]
  <2>1. /\ tasks' = Append(tasks, [NewTask("relink", p.dir, <<p>>) EXCEPT !.id = c]) /\ Happens("relink")
        /\ UNCHANGED <<errand, drive, entries, pages, wanted, watching, events, reported, export>>
    BY <1>4 DEF RelinkFileSelected
  <2>2. [NewTask("relink", p.dir, <<p>>) EXCEPT !.id = c] = u BY DEF NewTask
  <2>3. c \in Holdings BY <1>0 DEF RowsTyped
  <2>4. TaskTyped(u) BY <2>3, NewTyped
  <2> HIDE DEF u
  <2>5. TaskTyped(u)' BY <2>1, <2>4 DEF TaskTyped
  <2>6. TasksTyped' BY <1>0, <2>1, <2>2, <2>5, StartTyped
  <2> QED BY <2>1, <2>6, FTypedFrame DEF FTyped
<1>5. ASSUME LibraryWatchEvent PROVE FTyped'
  <2> PICK e : e = Head(events) OBVIOUS
  <2> PICK u : u = NewTask(e.kind, <<>>, <<e.at>>) OBVIOUS
  <2>1. /\ events # <<>> /\ events' = Tail(events) /\ tasks' = Append(tasks, u)
        /\ UNCHANGED <<errand, drive, entries, pages, wanted, watching, reported, export, errands>>
    BY <1>5 DEF LibraryWatchEvent
  <2>2. e \in Ran(events) /\ IsList(events') /\ Ran(events') \subseteq Ran(events)
    BY <1>0, <2>1, TailTaken DEF WatchTyped
  <2>3. e.kind \in {"created", "removed"}
    <3>1. e = Created(e.at) \/ e = Removed(e.at) BY <1>0, <2>2 DEF WatchTyped
    <3>2. Created(e.at).kind = "created" /\ Removed(e.at).kind = "removed" BY DEF Created, Removed
    <3> QED BY <3>1, <3>2
  <2>4. TaskTyped(u) BY <2>3, NewTyped DEF NewTask
  <2>5. TaskTyped(u)' BY <2>1, <2>4 DEF TaskTyped
  <2>6. TasksTyped' BY <1>0, <2>1, <2>5, StartTyped
  <2>7. WatchTyped' BY <1>0, <2>1, <2>2 DEF WatchTyped
  <2> QED BY <2>1, <2>6, <2>7, FTypedFrame DEF FTyped
<1> QED BY <1>1, <1>2, <1>3, <1>4, <1>5

(* What the step of a task does, and that the types are kept. A folder is scanned. *)
Scanning(t, files) == [kind |-> t.kind, dir |-> t.dir, todo |-> SetToSeq(files), id |-> t.id]
FoundIn(t) == {p \in Files : IsBelow(p.dir, t.dir)}

LEMMA ScanDoes ==
  ASSUME FTyped, NEW k \in DOMAIN tasks, ScanFolder(k), wanted' = wanted
  PROVE  LET t == tasks[k]
             u == Scanning(t, FoundIn(t))
         IN /\ t.kind = "folder" /\ t.todo = <<>> /\ t.id = Blank /\ t \in Ran(tasks) /\ TaskTyped(t)
            /\ UNCHANGED <<drive, entries, pages, reported>>
            /\ TasksTyped' /\ Ran(tasks) \subseteq Ran(tasks') \cup {t}
            /\ Ran(u.todo) = FoundIn(t)
            /\ \/ FoundIn(t) = {} /\ Ran(tasks') \subseteq Ran(tasks)
               \/ Ran(tasks') \subseteq Ran(tasks) \cup {u} /\ u \in Ran(tasks')
<1> PICK t : t = tasks[k] OBVIOUS
<1> PICK found : found = FoundIn(t) OBVIOUS
<1> PICK u : u = Scanning(t, found) OBVIOUS
<1>0. /\ t.kind = "folder" /\ t.todo = <<>>
      /\ UNCHANGED <<drive, entries, pages, reported>>
      /\ IF found = {} THEN Drop(k) ELSE tasks' = [tasks EXCEPT ![k].todo = SetToSeq(found)]
  BY DEF ScanFolder, FoundIn
<1>1. TasksTyped /\ TaskTyped(t) /\ t \in Ran(tasks) BY TaskIs DEF FTyped
<1>2. t.id = Blank BY <1>0, <1>1 DEF TaskTyped
<1>3. found \subseteq Files /\ IsFiniteSet(found) BY FS_Subset DEF FoundIn, FTyped, DiskTyped
<1>4. IsList(SetToSeq(found)) /\ Ran(SetToSeq(found)) = found BY <1>3, SetListed
<1>5. u.todo = SetToSeq(found) /\ TaskTyped(u)
  BY <1>0, <1>1, <1>2, <1>4 DEF TaskTyped, Scanning
<1>6. CASE found = {} BY <1>0, <1>1, <1>2, <1>4, <1>5, <1>6, DropDoes, DropTyped
<1>7. CASE found # {}
  <2>1. [t EXCEPT !.todo = SetToSeq(found)] = u BY <1>1, Fields DEF TaskTyped, Scanning
  <2>2. tasks' = [tasks EXCEPT ![k] = u] BY <1>0, <1>7, <2>1
  <2> QED BY <1>0, <1>1, <1>2, <1>4, <1>5, <2>2, PutTyped
<1> QED BY <1>6, <1>7

(* A file is read and hashed. *)
Hashed(t, id) == [kind |-> t.kind, dir |-> t.dir, todo |-> t.todo, id |-> id]

LEMMA HashDoes ==
  ASSUME FTyped, NEW k \in DOMAIN tasks, Hash(k), wanted' = wanted
  PROVE  LET t == tasks[k]
             p == Head(t.todo)
             u == Hashed(t, drive[p])
         IN /\ t.kind \in {"created", "pdf", "folder"} /\ t.todo # <<>> /\ t.id = Blank
            /\ t \in Ran(tasks) /\ TaskTyped(t)
            /\ UNCHANGED <<drive, entries, pages>>
            /\ TasksTyped' /\ Ran(tasks) \subseteq Ran(tasks') \cup {t}
            /\ \/ /\ p \in Files /\ reported' = reported
                  /\ Ran(tasks') \subseteq Ran(tasks) \cup {u} /\ u \in Ran(tasks')
               \/ /\ p \notin Files /\ GoesOn(k)
                  /\ reported' = IF t.kind = "created" THEN reported ELSE ShownGone(p)
<1> PICK t : t = tasks[k] OBVIOUS
<1> PICK p : p = Head(t.todo) OBVIOUS
<1> PICK u : u = Hashed(t, drive[p]) OBVIOUS
<1>0. /\ t.kind \in {"created", "pdf", "folder"} /\ t.todo # <<>> /\ t.id = Blank
      /\ UNCHANGED <<drive, entries, pages>>
      /\ IF p \in Files THEN tasks' = [tasks EXCEPT ![k].id = drive[p]] /\ UNCHANGED reported
         ELSE GoesOn(k) /\ reported' = IF t.kind = "created" THEN reported ELSE ShownGone(p)
  BY DEF Hash
<1>1. TasksTyped /\ TaskTyped(t) /\ t \in Ran(tasks) BY TaskIs DEF FTyped
<1>2. CASE p \in Files
  <2>1. drive[p] \in Holdings BY <1>2 DEF FTyped, DiskTyped
  <2>2. [t EXCEPT !.id = drive[p]] = u BY <1>1, Fields DEF TaskTyped, Hashed
  <2>3. tasks' = [tasks EXCEPT ![k] = u] BY <1>0, <1>2, <2>2
  <2>4. TaskTyped(u) BY <1>0, <1>1, <2>1 DEF TaskTyped, Hashed
  <2> QED BY <1>0, <1>1, <1>2, <2>3, <2>4, PutTyped
<1>3. CASE p \notin Files BY <1>0, <1>1, <1>3, GoesOnDoes, GoesOnTyped
<1> QED BY <1>2, <1>3

(* A row is put, over every other with its path (insert_entry). *)
LEMMA ShownTyped ==
  ASSUME RowsTyped, NEW p
  PROVE  ShownGone(p) \subseteq Holdings /\ Shown(p) \subseteq Holdings
BY DEF RowsTyped, ShownGone, Shown, RowsAt, Holdings

LEMMA RowsFrame ==
  ASSUME RowsTyped, UNCHANGED entries, reported' \subseteq Holdings
  PROVE  RowsTyped'
BY DEF RowsTyped

RowIsPut(id, p) ==
  /\ DOMAIN entries' = (DOMAIN entries \ RowsAt(p)) \cup {id} /\ entries'[id] = Row(id, p)
  /\ \A d \in DOMAIN entries' : d # id => entries'[d] = entries[d] /\ entries[d].at # p

LEMMA RowPut ==
  ASSUME RowsTyped, NEW id \in Holdings, NEW p, ~Refused(id, p), entries' = Inserted(id, p)
  PROVE  RowIsPut(id, p) /\ (reported' \subseteq Holdings => RowsTyped')
<1>1. /\ DOMAIN entries' = (DOMAIN entries \ RowsAt(p)) \cup {id} /\ entries'[id] = Row(id, p)
      /\ \A d \in DOMAIN entries' : d # id => entries'[d] = entries[d]
  <2> DEFINE w == Without(entries, RowsAt(p))
  <2>1. DOMAIN w = DOMAIN entries \ RowsAt(p) /\ \A d \in DOMAIN w : w[d] = entries[d] BY TakenOut
  <2>2. entries' = With(w, id, Row(id, p)) BY DEF Inserted
  <2> HIDE DEF w
  <2> QED BY <2>1, <2>2 DEF With
<1>2. \A d \in DOMAIN entries' : d # id => d \in DOMAIN entries /\ entries[d].at # p BY <1>1 DEF RowsAt
<1>3. Row(id, p) = [at |-> p, missing |-> FALSE] BY DEF Row
<1>4. ASSUME reported' \subseteq Holdings PROVE RowsTyped'
  <2>1. \A d \in DOMAIN entries' : entries'[d] = [at |-> entries'[d].at, missing |-> entries'[d].missing]
    BY <1>1, <1>2, <1>3 DEF RowsTyped
  <2>2. \A c, d \in DOMAIN entries' : entries'[c].at = entries'[d].at => c = d
    BY <1>1, <1>2, <1>3 DEF RowsTyped
  <2>3. DOMAIN entries' \subseteq Holdings BY <1>1 DEF RowsTyped
  <2>4. IsFiniteSet(DOMAIN entries')
    <3>1. IsFiniteSet(DOMAIN entries \ RowsAt(p)) BY FS_Subset DEF RowsTyped
    <3>2. IsFiniteSet((DOMAIN entries \ RowsAt(p)) \cup {id}) BY <3>1, FS_AddElement
    <3> QED BY <1>1, <3>2
  <2> QED BY <1>4, <2>1, <2>2, <2>3, <2>4 DEF RowsTyped
<1> QED BY <1>1, <1>2, <1>4 DEF RowIsPut

LEMMA InsertDoes ==
  ASSUME FTyped, NEW k \in DOMAIN tasks, Insert(k), wanted' = wanted
  PROVE  LET t == tasks[k]
             p == Head(t.todo)
             id == t.id
         IN /\ t.kind \in {"created", "pdf", "folder"} /\ t.todo # <<>> /\ id # Blank /\ id \in Holdings
            /\ t \in Ran(tasks) /\ TaskTyped(t)
            /\ UNCHANGED drive /\ TasksTyped' /\ GoesOn(k) /\ RowsTyped'
            /\ \/ /\ p \notin Files \/ drive[p] \notin Book \/ Refused(id, p)
                  /\ UNCHANGED <<entries, pages>>
                  /\ reported' = IF p \in Files THEN Shown(p) ELSE ShownGone(p)
               \/ /\ p \in Files /\ drive[p] \in Book /\ ~Refused(id, p)
                  /\ entries' = Inserted(id, p)
                  /\ \/ pages' = With(pages, id, drive[p]) /\ reported' = reported \ {id}
                     \/ UNCHANGED pages /\ reported' = reported \cup {id}
<1> PICK t : t = tasks[k] OBVIOUS
<1> PICK p : p = Head(t.todo) OBVIOUS
<1> PICK id : id = t.id OBVIOUS
<1>0. /\ t.kind \in {"created", "pdf", "folder"} /\ id # Blank /\ GoesOn(k) /\ UNCHANGED drive
      /\ \/ /\ p \notin Files \/ drive[p] \notin Book \/ Refused(id, p)
            /\ UNCHANGED <<entries, pages>>
            /\ reported' = IF p \in Files THEN Shown(p) ELSE ShownGone(p)
         \/ /\ p \in Files /\ drive[p] \in Book /\ ~Refused(id, p)
            /\ entries' = Inserted(id, p)
            /\ \/ pages' = With(pages, id, drive[p]) /\ reported' = reported \ {id}
               \/ UNCHANGED pages /\ reported' = reported \cup {id}
  BY DEF Insert
<1>1. TasksTyped /\ TaskTyped(t) /\ t \in Ran(tasks) /\ RowsTyped BY TaskIs DEF FTyped
<1>2. t.todo # <<>> /\ id \in Holdings BY <1>0, <1>1 DEF TaskTyped
<1>3. TasksTyped' BY <1>0, <1>1, <1>2, GoesOnTyped
<1>4. RowsTyped'
  <2>1. CASE UNCHANGED <<entries, pages>> /\ reported' = IF p \in Files THEN Shown(p) ELSE ShownGone(p)
    BY <1>1, <2>1, ShownTyped, RowsFrame
  <2>2. CASE ~Refused(id, p) /\ entries' = Inserted(id, p) /\ reported' \in {reported \ {id}, reported \cup {id}}
    <3>1. reported' \subseteq Holdings BY <1>1, <1>2, <2>2 DEF RowsTyped
    <3> QED BY <1>1, <1>2, <2>2, <3>1, RowPut
  <2> QED BY <1>0, <2>1, <2>2
<1> QED BY <1>0, <1>1, <1>2, <1>3, <1>4

(* A row is marked missing, or linked to another file (mark_missing, relink_entry). *)
LEMMA RowMarked ==
  ASSUME NEW r, NEW x, r = [at |-> r.at, missing |-> r.missing]
  PROVE  [r EXCEPT !.missing = x] = [at |-> r.at, missing |-> x]
OBVIOUS

LEMMA SetMissingDoes ==
  ASSUME FTyped, NEW k \in DOMAIN tasks, SetMissing(k), wanted' = wanted
  PROVE  LET t == tasks[k]
             p == Head(t.todo)
         IN /\ t.kind = "removed" /\ t \in Ran(tasks) /\ TaskTyped(t)
            /\ Drop(k) /\ TasksTyped' /\ RowsTyped' /\ UNCHANGED <<drive, pages, reported>>
            /\ DOMAIN entries' = DOMAIN entries
            /\ \A c \in DOMAIN entries : IF entries[c].at = p THEN entries'[c] = [at |-> p, missing |-> TRUE]
                                         ELSE entries'[c] = entries[c]
<1> PICK t : t = tasks[k] OBVIOUS
<1> PICK p : p = Head(t.todo) OBVIOUS
<1>0. /\ t.kind = "removed" /\ Drop(k) /\ UNCHANGED <<drive, pages, reported>>
      /\ entries' = [c \in DOMAIN entries |->
           IF c \in RowsAt(p) THEN [entries[c] EXCEPT !.missing = TRUE] ELSE entries[c]]
  BY DEF SetMissing
<1>1. TasksTyped /\ TaskTyped(t) /\ t \in Ran(tasks) /\ RowsTyped BY TaskIs DEF FTyped
<1>2. TasksTyped' BY <1>0, <1>1, DropTyped
<1>4. DOMAIN entries' = DOMAIN entries
      /\ \A c \in DOMAIN entries : IF entries[c].at = p THEN entries'[c] = [at |-> p, missing |-> TRUE]
                                   ELSE entries'[c] = entries[c]
  <2>1. DOMAIN entries' = DOMAIN entries BY <1>0
  <2>2. ASSUME NEW c \in DOMAIN entries, entries[c].at = p PROVE entries'[c] = [at |-> p, missing |-> TRUE]
    <3>1. entries'[c] = [entries[c] EXCEPT !.missing = TRUE] BY <1>0, <2>2 DEF RowsAt
    <3>2. entries[c] = [at |-> entries[c].at, missing |-> entries[c].missing] BY <1>1 DEF RowsTyped
    <3> QED BY RowMarked, <2>2, <3>1, <3>2
  <2>3. ASSUME NEW c \in DOMAIN entries, entries[c].at # p PROVE entries'[c] = entries[c]
    BY <1>0, <2>3 DEF RowsAt
  <2> QED BY <2>1, <2>2, <2>3
<1>5. \A c \in DOMAIN entries : entries'[c].at = entries[c].at BY <1>4
<1>6. RowsTyped'
  <2>1. \A c \in DOMAIN entries' : entries'[c] = [at |-> entries'[c].at, missing |-> entries'[c].missing]
    BY <1>1, <1>4 DEF RowsTyped
  <2>2. \A c, d \in DOMAIN entries' : entries'[c].at = entries'[d].at => c = d BY <1>1, <1>4, <1>5 DEF RowsTyped
  <2>3. DOMAIN entries' \subseteq Holdings /\ IsFiniteSet(DOMAIN entries') /\ reported' \subseteq Holdings
    BY <1>0, <1>1, <1>4 DEF RowsTyped
  <2> QED BY <2>1, <2>2, <2>3 DEF RowsTyped
<1> QED BY <1>0, <1>1, <1>2, <1>4, <1>6

LEMMA RelinkDoes ==
  ASSUME FTyped, NEW k \in DOMAIN tasks, Relink(k), wanted' = wanted
  PROVE  LET t == tasks[k]
             p == Head(t.todo)
             c == t.id
         IN /\ t.kind = "relink" /\ t \in Ran(tasks) /\ TaskTyped(t)
            /\ Drop(k) /\ TasksTyped' /\ UNCHANGED <<drive, pages>>
            /\ \/ RowsAt(p) \ {c} # {} /\ reported' = reported \cup {c} /\ UNCHANGED entries
               \/ RowsAt(p) \ {c} = {} /\ UNCHANGED <<entries, reported>>
               \/ /\ RowsAt(p) \ {c} = {} /\ UNCHANGED reported /\ c \in DOMAIN entries
                  /\ entries' = [entries EXCEPT ![c] = Row(c, p)]
<1>1. TasksTyped /\ TaskTyped(tasks[k]) /\ tasks[k] \in Ran(tasks) BY TaskIs DEF FTyped
<1>2. TasksTyped' BY <1>1, DropTyped DEF Relink
<1> QED BY <1>1, <1>2 DEF Relink

LEMMA RelinkTyped ==
  ASSUME FTyped, NEW k \in DOMAIN tasks, Relink(k), wanted' = wanted
  PROVE  RowsTyped'
<1> PICK t : t = tasks[k] OBVIOUS
<1> PICK p : p = Head(t.todo) OBVIOUS
<1> PICK c : c = t.id OBVIOUS
<1>1. RowsTyped BY DEF FTyped
<1>2. CASE RowsAt(p) \ {c} # {} /\ reported' = reported \cup {c} /\ UNCHANGED entries
  <2>1. c \in Holdings BY RelinkDoes DEF TaskTyped
  <2>2. reported' \subseteq Holdings BY <1>1, <1>2, <2>1 DEF RowsTyped
  <2> QED BY <1>1, <1>2, <2>2, RowsFrame
<1>3. CASE UNCHANGED <<entries, reported>> BY <1>1, <1>3 DEF RowsTyped
<1>4. CASE /\ RowsAt(p) \ {c} = {} /\ UNCHANGED reported /\ c \in DOMAIN entries
           /\ entries' = [entries EXCEPT ![c] = Row(c, p)]
  <2>1. Row(c, p) = [at |-> p, missing |-> FALSE] BY DEF Row
  <2>2. DOMAIN entries' = DOMAIN entries /\ entries'[c] = Row(c, p)
        /\ \A d \in DOMAIN entries : d # c => entries'[d] = entries[d] /\ entries[d].at # p
    BY <1>4 DEF RowsAt
  <2>3. \A d \in DOMAIN entries' : entries'[d] = [at |-> entries'[d].at, missing |-> entries'[d].missing]
    BY <1>1, <2>1, <2>2 DEF RowsTyped
  <2>4. \A a, b \in DOMAIN entries' : entries'[a].at = entries'[b].at => a = b
    BY <1>1, <2>1, <2>2 DEF RowsTyped
  <2> QED BY <1>1, <1>4, <2>2, <2>3, <2>4 DEF RowsTyped
<1> QED BY <1>2, <1>3, <1>4, RelinkDoes

(* Exports: the parts of one, and what each of its steps does. *)
Parts == {"stage", "dialog", "todo", "made", "skipped", "failed", "zip", "before"}

LEMMA PartsSet ==
  ASSUME NEW e, DOMAIN e = Parts, NEW x, NEW y, NEW z
  PROVE  /\ LET r == [e EXCEPT !.stage = x] IN
              /\ DOMAIN r = Parts /\ r.stage = x /\ r.dialog = e.dialog /\ r.todo = e.todo /\ r.made = e.made
              /\ r.zip = e.zip /\ r.before = e.before
         /\ LET r == [e EXCEPT !.stage = x, !.zip = y] IN
              /\ DOMAIN r = Parts /\ r.stage = x /\ r.dialog = e.dialog /\ r.todo = e.todo /\ r.made = e.made
              /\ r.zip = y /\ r.before = e.before
         /\ LET r == [e EXCEPT !.stage = x, !.dialog = y] IN
              /\ DOMAIN r = Parts /\ r.stage = x /\ r.dialog = y /\ r.todo = e.todo /\ r.made = e.made
              /\ r.zip = e.zip /\ r.before = e.before
         /\ LET r == [e EXCEPT !.stage = x, !.before = y, !.todo = z] IN
              /\ DOMAIN r = Parts /\ r.stage = x /\ r.dialog = e.dialog /\ r.todo = z /\ r.made = e.made
              /\ r.zip = e.zip /\ r.before = y
         /\ LET r == [e EXCEPT !.todo = x, !.skipped = y] IN
              /\ DOMAIN r = Parts /\ r.stage = e.stage /\ r.dialog = e.dialog /\ r.todo = x /\ r.made = e.made
              /\ r.zip = e.zip /\ r.before = e.before
         /\ LET r == [e EXCEPT !.todo = x, !.failed = y] IN
              /\ DOMAIN r = Parts /\ r.stage = e.stage /\ r.dialog = e.dialog /\ r.todo = x /\ r.made = e.made
              /\ r.zip = e.zip /\ r.before = e.before
         /\ LET r == [e EXCEPT !.todo = x, !.made = y] IN
              /\ DOMAIN r = Parts /\ r.stage = e.stage /\ r.dialog = e.dialog /\ r.todo = x /\ r.made = y
              /\ r.zip = e.zip /\ r.before = e.before
BY DEF Parts

Rest == UNCHANGED <<errand, entries, pages, wanted, watching, tasks, reported>>

LEMMA OpenDoes ==
  ASSUME FTyped, OpenExportDialog, UNCHANGED <<errand, wanted, watching>>
  PROVE  /\ Rest /\ UNCHANGED <<drive, events>>
         /\ export'.stage = "open" /\ export'.made = <<>> /\ export'.todo = <<>>
         /\ FTyped'
<1>1. /\ Rest /\ UNCHANGED <<drive, events>> /\ Happens("export") /\ "export" \in errand[2]
      /\ \E d \in errand[3] : export' = [NoExport EXCEPT !.stage = "open", !.dialog = d]
  BY DEF OpenExportDialog, Rest, Happens
<1>2. DOMAIN NoExport = Parts /\ NoExport.made = <<>> /\ NoExport.todo = <<>> BY DEF NoExport, Parts
<1>3. PICK d \in errand[3] : export' = [NoExport EXCEPT !.stage = "open", !.dialog = d] BY <1>1
<1>4. /\ DOMAIN export' = Parts /\ export'.stage = "open" /\ export'.dialog = d /\ export'.made = <<>>
      /\ export'.todo = <<>>
  BY <1>2, <1>3, PartsSet
<1>5. ExportTyped' BY <1>1, <1>4, Emptied DEF ExportTyped, Parts, Dialog, Rest
<1>6. ErrandTyped' BY <1>1, FTypedFrame DEF Rest
<1> QED BY <1>1, <1>4, <1>5, <1>6, FTypedFrame DEF FTyped, Rest

LEMMA Numbers ==
  ASSUME NEW ids, IsList(ids), NEW r, r = [k \in DOMAIN ids |-> r[k]]
  PROVE  IsList(r)
<1>1. PICK n \in Nat : DOMAIN ids = 1 .. n BY LenProperties DEF IsList
<1>2. r = [k \in 1 .. n |-> r[k]] /\ \A k \in 1 .. n : r[k] \in Ran(r) BY <1>1 DEF Ran
<1>3. [k \in 1 .. n |-> r[k]] \in Seq(Ran(r)) BY <1>2
<1> QED BY <1>2, <1>3 DEF IsList

LEMMA StartDoes ==
  ASSUME FTyped, StartExport, UNCHANGED <<errand, wanted, watching>>
  PROVE  /\ Rest /\ UNCHANGED <<drive, events>> /\ export.stage = "open" /\ export'.stage = "begin"
         /\ export'.made = <<>> /\ export'.before = drive
         /\ \A x \in Ran(export'.todo) : x.book \in DOMAIN entries
         /\ FTyped'
<1> DEFINE ids == SetToSeq(Chosen)
           l == [k \in DOMAIN ids |-> [book |-> ids[k], from |-> entries[ids[k]].at]]
<1>0. ExportTyped /\ RowsTyped BY DEF FTyped
<1>1. /\ Rest /\ UNCHANGED <<drive, events, errands>> /\ export.stage = "open"
      /\ export' = [export EXCEPT !.stage = "begin", !.before = drive, !.todo = l]
  BY DEF StartExport, Rest
<1>2. Chosen \subseteq DOMAIN entries BY DEF Chosen
<1>3. IsFiniteSet(Chosen) BY <1>0, <1>2, FS_Subset DEF RowsTyped
<1>4. IsList(ids) /\ Ran(ids) = Chosen BY <1>3, SetListed
<1>5. \A k \in DOMAIN ids : ids[k] \in DOMAIN entries BY <1>2, <1>4 DEF Ran
<1> HIDE DEF ids
<1>6. DOMAIN l = DOMAIN ids /\ (\A k \in DOMAIN l : l[k].book \in DOMAIN entries) /\ l = [k \in DOMAIN ids |-> l[k]]
  BY <1>5
<1> HIDE DEF l
<1>7. IsList(l) BY <1>4, <1>6, Numbers
<1>8. \A x \in Ran(l) : x.book \in DOMAIN entries BY <1>6 DEF Ran
<1>9. /\ DOMAIN export' = Parts /\ export'.stage = "begin" /\ export'.dialog = export.dialog
      /\ export'.todo = l /\ export'.made = export.made /\ export'.before = drive
  <2>1. DOMAIN export = Parts BY <1>0 DEF ExportTyped, Parts
  <2> QED BY <1>1, <2>1, PartsSet
<1>10. export.made = <<>> BY <1>0, <1>1 DEF ExportTyped
<1>11. ExportTyped' BY <1>0, <1>1, <1>7, <1>9, <1>10, Emptied DEF ExportTyped, Parts, Dialog, Rest
<1> QED BY <1>1, <1>8, <1>9, <1>10, <1>11, FTypedFrame DEF FTyped, Rest

(* A target is in its directory, and free unless files are overwritten (target_path). *)
LEMMA TargetIs ==
  ASSUME NEW dir, NEW name, TargetPath(dir, name) \notin {{}, {Blank}}, NEW p \in TargetPath(dir, name)
  PROVE  p.dir = dir /\ (Dialog.conflict # "Overwrite" => p \notin Files)
<1>1. \A n : Spot(dir, n).dir = dir BY DEF Spot
<1>2. CASE Free(Spot(dir, name)) \/ Dialog.conflict = "Overwrite"
  <2>1. p = Spot(dir, name) BY <1>2 DEF TargetPath
  <2> QED BY <1>1, <1>2, <2>1 DEF Free
<1>3. CASE ~(Free(Spot(dir, name)) \/ Dialog.conflict = "Overwrite")
  <2>1. TargetPath(dir, name) =
          {Spot(dir, Append(name, n)) : n \in {m \in Numbered(dir, name) : \A i \in Numbered(dir, name) : m <= i}}
    BY <1>3 DEF TargetPath
  <2>2. PICK n \in Numbered(dir, name) : p = Spot(dir, Append(name, n)) BY <2>1
  <2>3. Free(Spot(dir, Append(name, n))) BY DEF Numbered
  <2> QED BY <1>1, <2>2, <2>3 DEF Free
<1> QED BY <1>2, <1>3

LEMMA BeginsDoes ==
  ASSUME FTyped, ExportBegins, UNCHANGED <<errand, wanted, watching>>
  PROVE  /\ Rest /\ UNCHANGED <<events>> /\ export.stage = "begin" /\ export'.dialog = export.dialog
         /\ export'.made = <<>> /\ Ran(export'.todo) \subseteq Ran(export.todo)
         /\ \/ UNCHANGED drive /\ export'.stage = "open"
            \/ UNCHANGED drive /\ export'.stage = "copy" /\ export'.before = export.before /\ Dialog.mode # "Zip"
            \/ /\ export'.stage = "copy" /\ export'.before = export.before
               /\ drive' = With(drive, export'.zip, Junk) /\ export'.zip.dir = Dialog.dest
               /\ Dialog.conflict # "Overwrite" => export'.zip \notin Files
         /\ FTyped'
<1> DEFINE to == TargetPath(Dialog.dest, ZipName)
<1>0. ExportTyped /\ DiskTyped /\ DOMAIN export = Parts BY DEF FTyped, ExportTyped, Parts
<1>1. /\ Rest /\ UNCHANGED <<events, errands>> /\ export.stage = "begin"
      /\ \/ Dialog.mode # "Zip" /\ export' = [export EXCEPT !.stage = "copy"] /\ UNCHANGED drive
         \/ export' = [NoExport EXCEPT !.stage = "open", !.dialog = Dialog] /\ UNCHANGED drive
         \/ /\ to \notin {{}, {Blank}}
            /\ \E p \in to : export' = [export EXCEPT !.stage = "copy", !.zip = p] /\ drive' = With(drive, p, Junk)
  BY DEF ExportBegins, Rest
<1>2. export.made = <<>> /\ IsList(export.todo) BY <1>0, <1>1 DEF ExportTyped
<1>3. DOMAIN NoExport = Parts /\ NoExport.made = <<>> /\ NoExport.todo = <<>> BY DEF NoExport, Parts
<1>4. Junk \in Holdings BY DEF Holdings
<1>5. ASSUME DOMAIN export' = Parts, export'.stage \in {"open", "copy"}, export'.dialog = export.dialog,
             export'.made = <<>>, export'.todo \in {<<>>, export.todo}, DiskTyped'
      PROVE  FTyped' /\ Ran(export'.todo) \subseteq Ran(export.todo)
  <2>1. ExportTyped'
    BY <1>0, <1>1, <1>2, <1>5, Emptied DEF ExportTyped, Parts, Dialog, Rest
  <2> QED BY <1>1, <1>5, <2>1, Emptied, FTypedFrame DEF FTyped, Rest
<1>6. CASE Dialog.mode # "Zip" /\ export' = [export EXCEPT !.stage = "copy"] /\ UNCHANGED drive
  <2>1. /\ DOMAIN export' = Parts /\ export'.stage = "copy" /\ export'.dialog = export.dialog
        /\ export'.todo = export.todo /\ export'.made = <<>> /\ export'.before = export.before
    BY <1>0, <1>2, <1>6, PartsSet
  <2>2. DiskTyped' BY <1>6, FTypedFrame
  <2> QED BY <1>1, <1>5, <1>6, <2>1, <2>2
<1>7. CASE export' = [NoExport EXCEPT !.stage = "open", !.dialog = Dialog] /\ UNCHANGED drive
  <2>1. /\ DOMAIN export' = Parts /\ export'.stage = "open" /\ export'.dialog = export.dialog
        /\ export'.todo = <<>> /\ export'.made = <<>>
    BY <1>3, <1>7, PartsSet DEF Dialog
  <2>2. DiskTyped' BY <1>7, FTypedFrame
  <2> QED BY <1>1, <1>5, <1>7, <2>1, <2>2
<1>8. CASE /\ to \notin {{}, {Blank}}
           /\ \E p \in to : export' = [export EXCEPT !.stage = "copy", !.zip = p] /\ drive' = With(drive, p, Junk)
  <2> PICK p \in to : export' = [export EXCEPT !.stage = "copy", !.zip = p] /\ drive' = With(drive, p, Junk) BY <1>8
  <2>1. /\ DOMAIN export' = Parts /\ export'.stage = "copy" /\ export'.dialog = export.dialog
        /\ export'.todo = export.todo /\ export'.made = <<>> /\ export'.zip = p /\ export'.before = export.before
    BY <1>0, <1>2, PartsSet
  <2>2. DiskTyped' BY <1>0, <1>4, DiskPut
  <2>3. p.dir = Dialog.dest /\ (Dialog.conflict # "Overwrite" => p \notin Files) BY <1>8, TargetIs
  <2> QED BY <1>1, <1>5, <2>1, <2>2, <2>3
<1> QED BY <1>1, <1>6, <1>7, <1>8

(* A PDF is written to p. *)
MadeOf(p) == [book |-> Entry.book, to |-> p, holds |-> drive[Entry.from]]

LEMMA MadeTyped ==
  ASSUME FTyped, Rest, UNCHANGED errands, export.stage = "copy", export.todo # <<>>, DOMAIN export' = Parts,
         export'.stage = "copy", export'.dialog = export.dialog, export'.todo = Tail(export.todo),
         IsList(export'.made), DiskTyped', WatchTyped'
  PROVE  FTyped' /\ Ran(export'.todo) \subseteq Ran(export.todo)
<1>1. ExportTyped BY DEF FTyped
<1>2. IsList(export'.todo) /\ Ran(export'.todo) \subseteq Ran(export.todo) BY <1>1, TailTaken DEF ExportTyped
<1>3. ExportTyped' BY <1>1, <1>2 DEF ExportTyped, Parts, Dialog, Rest
<1> QED BY <1>2, <1>3, FTypedFrame DEF FTyped, Rest

CopyMade(p) ==
  /\ p.dir = TargetDir(Entry) /\ (Dialog.conflict # "Overwrite" => p \notin Files)
  /\ drive' = With(drive, p, IF p = Entry.from THEN Junk ELSE drive[Entry.from])
  /\ Entry.from \in Files
  /\ IF Watched(p) THEN Tells(<<Created(p)>>) ELSE UNCHANGED events
  /\ export'.made = Append(export.made, MadeOf(p))

LEMMA CopyDoes ==
  ASSUME FTyped, CopyFile, UNCHANGED <<errand, wanted, watching>>
  PROVE  /\ Rest /\ export.stage = "copy" /\ export.todo # <<>> /\ Dialog.mode # "Zip"
         /\ export'.stage = "copy" /\ export'.dialog = export.dialog /\ export'.before = export.before
         /\ Ran(export'.todo) \subseteq Ran(export.todo)
         /\ \/ UNCHANGED <<drive, events>> /\ export'.made = export.made
            \/ \E p : CopyMade(p)
         /\ FTyped'
<1> DEFINE to == TargetPath(TargetDir(Entry), FileName(Entry))
<1>0. ExportTyped /\ DiskTyped /\ WatchTyped /\ DOMAIN export = Parts /\ IsList(export.made)
  BY DEF FTyped, ExportTyped, Parts
<1>1. /\ Rest /\ UNCHANGED errands /\ export.stage = "copy" /\ export.todo # <<>> /\ Dialog.mode # "Zip"
      /\ \/ /\ \/ export' = [export EXCEPT !.todo = Tail(@), !.skipped = @ \cup {Entry.book}]
               \/ export' = [export EXCEPT !.todo = Tail(@), !.failed = @ \cup {Entry.book}]
            /\ UNCHANGED <<drive, events>>
         \/ /\ to \notin {{}, {Blank}} /\ Entry.from \in Files
            /\ \E p \in to :
                 /\ drive' = With(drive, p, IF p = Entry.from THEN Junk ELSE drive[Entry.from])
                 /\ IF Watched(p) THEN Tells(<<Created(p)>>) ELSE UNCHANGED events
                 /\ export' = [export EXCEPT !.todo = Tail(@), !.made = Append(@, MadeOf(p))]
  BY DEF CopyFile, Fails, Rest, MadeOf
<1>2. CASE /\ \/ export' = [export EXCEPT !.todo = Tail(@), !.skipped = @ \cup {Entry.book}]
              \/ export' = [export EXCEPT !.todo = Tail(@), !.failed = @ \cup {Entry.book}]
           /\ UNCHANGED <<drive, events>>
  <2>1. /\ DOMAIN export' = Parts /\ export'.stage = export.stage /\ export'.dialog = export.dialog
        /\ export'.todo = Tail(export.todo) /\ export'.made = export.made /\ export'.before = export.before
    <3>1. CASE export' = [export EXCEPT !.todo = Tail(@), !.skipped = @ \cup {Entry.book}] BY <1>0, <3>1, PartsSet
    <3>2. CASE export' = [export EXCEPT !.todo = Tail(@), !.failed = @ \cup {Entry.book}] BY <1>0, <3>2, PartsSet
    <3> QED BY <1>2, <3>1, <3>2
  <2>2. DiskTyped' /\ WatchTyped' BY <1>1, <1>2, FTypedFrame DEF Rest
  <2>3. FTyped' /\ Ran(export'.todo) \subseteq Ran(export.todo) BY <1>0, <1>1, <2>1, <2>2, MadeTyped
  <2> QED BY <1>1, <1>2, <2>1, <2>3
<1>3. CASE /\ to \notin {{}, {Blank}} /\ Entry.from \in Files
           /\ \E p \in to :
                 /\ drive' = With(drive, p, IF p = Entry.from THEN Junk ELSE drive[Entry.from])
                 /\ IF Watched(p) THEN Tells(<<Created(p)>>) ELSE UNCHANGED events
                 /\ export' = [export EXCEPT !.todo = Tail(@), !.made = Append(@, MadeOf(p))]
  <2> PICK p \in to :
                 /\ drive' = With(drive, p, IF p = Entry.from THEN Junk ELSE drive[Entry.from])
                 /\ IF Watched(p) THEN Tells(<<Created(p)>>) ELSE UNCHANGED events
                 /\ export' = [export EXCEPT !.todo = Tail(@), !.made = Append(@, MadeOf(p))]
    BY <1>3
  <2>1. /\ DOMAIN export' = Parts /\ export'.stage = export.stage /\ export'.dialog = export.dialog
        /\ export'.todo = Tail(export.todo) /\ export'.made = Append(export.made, MadeOf(p))
        /\ export'.before = export.before
    BY <1>0, PartsSet
  <2>2. DiskTyped'
    <3>1. (IF p = Entry.from THEN Junk ELSE drive[Entry.from]) \in Holdings BY <1>0, <1>3 DEF DiskTyped, Holdings
    <3> QED BY <1>0, <3>1, DiskPut
  <2>3. WatchTyped'
    <3>1. CASE Watched(p)
      <4>1. Tells(<<Created(p)>>) /\ Created(p).at = p BY <3>1 DEF Created
      <4> QED BY <1>0, <1>1, <4>1, Events, Single DEF Rest
    <3>2. CASE ~Watched(p) BY <1>1, <3>2, FTypedFrame DEF Rest
    <3> QED BY <3>1, <3>2
  <2>4. IsList(export'.made) BY <1>0, <2>1, Appended
  <2>5. FTyped' /\ Ran(export'.todo) \subseteq Ran(export.todo) BY <1>0, <1>1, <2>1, <2>2, <2>3, <2>4, MadeTyped
  <2>6. p.dir = TargetDir(Entry) /\ (Dialog.conflict # "Overwrite" => p \notin Files) BY <1>3, TargetIs
  <2>7. CopyMade(p) BY <1>3, <2>1, <2>6 DEF CopyMade
  <2> QED BY <1>1, <2>1, <2>5, <2>7
<1> QED BY <1>1, <1>2, <1>3

LEMMA ZipDoes ==
  ASSUME FTyped, ZipFile, UNCHANGED <<errand, wanted, watching>>
  PROVE  /\ Rest /\ export.stage = "copy" /\ export.todo # <<>> /\ Dialog.mode = "Zip" /\ UNCHANGED <<drive, events>>
         /\ export'.stage = "copy" /\ export'.dialog = export.dialog /\ export'.before = export.before
         /\ Ran(export'.todo) \subseteq Ran(export.todo) /\ export'.zip = export.zip
         /\ \/ export'.made = export.made
            \/ \E p : p \notin Taken /\ export'.made = Append(export.made, MadeOf(p))
         /\ FTyped'
<1> DEFINE names == Member(Shelves(Entry), FileName(Entry))
<1>0. ExportTyped /\ DiskTyped /\ WatchTyped /\ DOMAIN export = Parts /\ IsList(export.made)
  BY DEF FTyped, ExportTyped, Parts
<1>1. /\ Rest /\ UNCHANGED errands /\ export.stage = "copy" /\ export.todo # <<>> /\ Dialog.mode = "Zip"
      /\ UNCHANGED <<drive, events>>
      /\ \/ export' = [export EXCEPT !.todo = Tail(@), !.failed = @ \cup {Entry.book}]
         \/ \E p \in names : export' = [export EXCEPT !.todo = Tail(@), !.made = Append(@, MadeOf(p))]
  BY DEF ZipFile, Fails, Rest, MadeOf
<1>2. DiskTyped' /\ WatchTyped' BY <1>1, FTypedFrame DEF Rest
<1>3. CASE export' = [export EXCEPT !.todo = Tail(@), !.failed = @ \cup {Entry.book}]
  <2>1. /\ DOMAIN export' = Parts /\ export'.stage = export.stage /\ export'.dialog = export.dialog
        /\ export'.todo = Tail(export.todo) /\ export'.made = export.made /\ export'.before = export.before
        /\ export'.zip = export.zip
    BY <1>0, <1>3, PartsSet
  <2>2. FTyped' /\ Ran(export'.todo) \subseteq Ran(export.todo) BY <1>0, <1>1, <1>2, <2>1, MadeTyped
  <2> QED BY <1>1, <2>1, <2>2
<1>4. CASE \E p \in names : export' = [export EXCEPT !.todo = Tail(@), !.made = Append(@, MadeOf(p))]
  <2> PICK p \in names : export' = [export EXCEPT !.todo = Tail(@), !.made = Append(@, MadeOf(p))] BY <1>4
  <2>1. /\ DOMAIN export' = Parts /\ export'.stage = export.stage /\ export'.dialog = export.dialog
        /\ export'.todo = Tail(export.todo) /\ export'.made = Append(export.made, MadeOf(p))
        /\ export'.before = export.before /\ export'.zip = export.zip
    BY <1>0, PartsSet
  <2>2. IsList(export'.made) BY <1>0, <2>1, Appended
  <2>3. FTyped' /\ Ran(export'.todo) \subseteq Ran(export.todo) BY <1>0, <1>1, <1>2, <2>1, <2>2, MadeTyped
  <2>4. p \notin Taken BY DEF Member
  <2> QED BY <1>1, <2>1, <2>3, <2>4
<1> QED BY <1>1, <1>3, <1>4

LEMMA FinishedDoes ==
  ASSUME FTyped, ExportFinished, UNCHANGED <<errand, wanted, watching>>
  PROVE  /\ Rest /\ UNCHANGED events /\ export.stage = "copy" /\ export'.stage = "shown"
         /\ export'.dialog = export.dialog /\ export'.before = export.before /\ export'.made = export.made
         /\ export'.todo = export.todo
         /\ \/ Dialog.mode = "Zip" /\ drive' = With(drive, export.zip, Archive)
            \/ Dialog.mode # "Zip" /\ drive' = With(drive, SheetAt, Sheet)
            \/ Dialog.mode # "Zip" /\ drive' = drive
         /\ FTyped'
<1>0. ExportTyped /\ DiskTyped /\ DOMAIN export = Parts BY DEF FTyped, ExportTyped, Parts
<1>1. /\ Rest /\ UNCHANGED <<events, errands>> /\ export.stage = "copy" /\ export' = [export EXCEPT !.stage = "shown"]
      /\ \/ Dialog.mode = "Zip" /\ drive' = With(drive, export.zip, Archive)
         \/ Dialog.mode # "Zip" /\ drive' = With(drive, SheetAt, Sheet)
         \/ Dialog.mode # "Zip" /\ drive' = drive
  BY DEF ExportFinished, Rest
<1>2. /\ DOMAIN export' = Parts /\ export'.stage = "shown" /\ export'.dialog = export.dialog
      /\ export'.todo = export.todo /\ export'.made = export.made /\ export'.before = export.before
  BY <1>0, <1>1, PartsSet
<1>3. DiskTyped'
  <2>1. Archive \in Holdings /\ Sheet \in Holdings BY DEF Holdings
  <2> QED BY <1>0, <1>1, <2>1, DiskPut, FTypedFrame
<1>4. ExportTyped' BY <1>0, <1>1, <1>2 DEF ExportTyped, Parts, Dialog, Rest
<1> QED BY <1>1, <1>2, <1>3, <1>4, FTypedFrame DEF FTyped, Rest

LEMMA CloseDoes ==
  ASSUME FTyped, CloseExportDialog, UNCHANGED <<errand, wanted, watching>>
  PROVE  Rest /\ UNCHANGED <<drive, events>> /\ export'.stage = "closed" /\ export'.todo = <<>> /\ FTyped'
<1>1. Rest /\ UNCHANGED <<drive, events, errands>> /\ export' = NoExport BY DEF CloseExportDialog, Rest
<1>2. DOMAIN NoExport = Parts /\ NoExport.stage = "closed" /\ NoExport.todo = <<>> /\ NoExport.made = <<>>
  BY DEF NoExport, Parts
<1>3. ExportTyped' BY <1>1, <1>2, Emptied DEF ExportTyped, Parts, Dialog
<1> QED BY <1>1, <1>2, <1>3, FTypedFrame DEF FTyped, Rest

(* Every step keeps the types, and they hold at first. *)
LEMMA TaskStepTyped == ASSUME FTyped, TaskGoesOn PROVE FTyped'
<1>0. /\ UNCHANGED <<errand, wanted, watching, events, export, errands>>
      /\ \E k \in DOMAIN tasks : ScanFolder(k) \/ Hash(k) \/ Insert(k) \/ SetMissing(k) \/ Relink(k)
  BY DEF TaskGoesOn
<1> PICK k \in DOMAIN tasks : ScanFolder(k) \/ Hash(k) \/ Insert(k) \/ SetMissing(k) \/ Relink(k) BY <1>0
<1>1. WatchTyped' /\ ExportTyped' /\ ErrandTyped' BY <1>0, FTypedFrame
<1>2. ASSUME UNCHANGED drive, RowsTyped', TasksTyped' PROVE FTyped'
  BY <1>1, <1>2, FTypedFrame DEF FTyped
<1>3. CASE ScanFolder(k)
  <2>1. UNCHANGED <<drive, entries, reported>> /\ TasksTyped' BY <1>0, <1>3, ScanDoes
  <2> QED BY <1>2, <2>1, FTypedFrame
<1>4. CASE Hash(k)
  <2>1. /\ UNCHANGED <<drive, entries>> /\ TasksTyped'
        /\ \/ reported' = reported
           \/ \E p : reported' = ShownGone(p)
    BY <1>0, <1>4, HashDoes
  <2>2. RowsTyped /\ reported \subseteq Holdings BY DEF FTyped, RowsTyped
  <2>3. RowsTyped' BY <2>1, <2>2, RowsFrame, ShownTyped
  <2> QED BY <1>2, <2>1, <2>3
<1>5. CASE Insert(k) BY <1>0, <1>2, <1>5, InsertDoes
<1>6. CASE SetMissing(k) BY <1>0, <1>2, <1>6, SetMissingDoes
<1>7. CASE Relink(k) BY <1>0, <1>2, <1>7, RelinkDoes, RelinkTyped
<1> QED BY <1>3, <1>4, <1>5, <1>6, <1>7

LEMMA FTypedStep == FTyped /\ [FilesNext]_fileVars => FTyped'
<1> SUFFICES ASSUME FTyped, [FilesNext]_fileVars PROVE FTyped' OBVIOUS
<1>1. CASE FilesChange BY <1>1, ChangeTyped
<1>2. CASE WatchStarts BY <1>2, AskedTyped
<1>3. CASE LibraryWatchEvent BY <1>3, AskedTyped
<1>4. CASE TaskGoesOn BY <1>4, TaskStepTyped
<1>5. CASE Exports
  <2>1. UNCHANGED <<errand, wanted, watching>>
        /\ \/ OpenExportDialog \/ StartExport \/ ExportBegins \/ CopyFile
           \/ ZipFile \/ ExportFinished \/ CloseExportDialog
    BY <1>5 DEF Exports
  <2> QED BY <2>1, OpenDoes, StartDoes, BeginsDoes, CopyDoes, ZipDoes, FinishedDoes, CloseDoes
<1>6. CASE \E r \in RootDir : ImportFolderSelected(r) BY <1>6, AskedTyped
<1>7. CASE \E p \in Files : ImportPdfSelected(p) \/ \E c \in DOMAIN entries : RelinkFileSelected(c, p)
  BY <1>7, AskedTyped
<1>8. CASE UNCHANGED fileVars
  BY <1>8, FTypedFrame DEF fileVars, FTyped
<1> QED BY <1>1, <1>2, <1>3, <1>4, <1>5, <1>6, <1>7, <1>8 DEF FilesNext

LEMMA FTypedInit == FilesInit => FTyped
<1> SUFFICES ASSUME FilesInit PROVE FTyped OBVIOUS
<1>1. errand \in Errands /\ drive = Starts[errand[1]] /\ errands = 0 BY DEF FilesInit
<1>2. MaxErrands[errand[2]] \in Nat BY <1>1, FilesAssumption
<1>3. ErrandTyped BY <1>1, <1>2 DEF ErrandTyped
<1>4. DiskTyped
  <2>1. errand[1] \in DOMAIN Starts BY <1>1, FilesAssumption
  <2>2. IsFiniteSet(DOMAIN drive) /\ drive \in [DOMAIN drive -> Book \cup {Junk}] BY <1>1, <2>1, FilesAssumption
  <2> QED BY <2>2 DEF DiskTyped, Files, Holdings
<1>5. /\ entries = <<>> /\ reported = {} /\ wanted = {} /\ watching = {}
      /\ events = <<>> /\ tasks = <<>> /\ export = NoExport
  BY DEF FilesInit
<1>6. RowsTyped
  <2>1. DOMAIN entries = {} BY <1>5
  <2> QED BY <1>5, <2>1, FS_EmptySet DEF RowsTyped
<1>7. WatchTyped /\ TasksTyped BY <1>5, Emptied DEF WatchTyped, TasksTyped
<1>8. ExportTyped BY <1>5, Emptied DEF ExportTyped, NoExport
<1> QED BY <1>3, <1>4, <1>6, <1>7, <1>8 DEF FTyped

(* A file is left alone while it is read and while a change of it waits. *)
LEMMA NotBusy ==
  ASSUME FTyped, NEW x, ~Busy(x)
  PROVE  /\ ~Noted(x) /\ ~Going(x) /\ \A e \in Ran(events) : e.at # x
         /\ \A t \in Ran(tasks) : t.id # Blank => Head(t.todo) # x
<1>1. \A e \in Ran(events) : e.at # x BY DEF Busy, Ran
<1>2. \A t \in Ran(tasks) : Reads(t) => Head(t.todo) # x BY DEF Busy, Ran
<1>3. \A t \in Ran(tasks) : TaskTyped(t) BY DEF FTyped, TasksTyped
<1>4. \A t \in Ran(tasks) : t.id # Blank => Reads(t) BY <1>3 DEF TaskTyped, Reads
<1>5. \A t \in Ran(tasks) : t.kind # "folder" => Reads(t) BY <1>3 DEF TaskTyped, Reads
<1>6. Created(x).at = x /\ Removed(x).at = x BY DEF Created, Removed
<1>7. ~Noted(x) BY <1>1, <1>2, <1>5, <1>6 DEF Noted
<1>8. ~Going(x) BY <1>1, <1>2, <1>5, <1>6 DEF Going
<1> QED BY <1>1, <1>2, <1>4, <1>7, <1>8

(* Files at watched places change, of which a handler is told. *)
Touches(X) ==
  /\ \A x \in X : Watched(x) /\ ~Busy(x)
  /\ \A p : p \notin X => (p \in Files <=> p \in Files') /\ (p \in Files => drive'[p] = drive[p])
Tellings(X) ==
  /\ Ran(events) \subseteq Ran(events')
  /\ \A e \in Ran(events') : e \in Ran(events) \/ e.at \in X
  /\ \A x : Removed(x) \in Ran(events') => Removed(x) \in Ran(events) \/ (x \in X /\ x \notin Files')
  /\ \A x \in X : x \in Files' => Created(x) \in Ran(events')
Spares(X) == \A x \in X : x \in Files =>
  \/ \E y \in X : y \in Files' /\ drive'[y] = drive[x]
  \/ /\ \A q \in Files : q \in X \/ drive[q] # drive[x] \/ ~Watched(q)
     /\ x \notin Files' => Removed(x) \in Ran(events')

(* So files may change: of each a handler is told, that will look at it. *)
LEMMA TouchCore ==
  ASSUME FTyped, Core, NEW X,
         UNCHANGED <<errand, entries, pages, wanted, watching, tasks, reported, export>>, watching = wanted,
         Touches(X), Tellings(X), Spares(X)
  PROVE  Core'
<1> USE DEF Touches, Tellings, Spares
<1>1. \A p : Beneath(p)' <=> Beneath(p) BY DEF Beneath
<1>2. \A p : Watched(p) <=> Beneath(p) BY DEF Watched, Beneath
<1>3. \A p : Noted(p) => Noted(p)' BY DEF Noted
<1>4. \A p : Scanned(p) => Scanned(p)' BY DEF Scanned
<1>5. \A p : Going(p) => Going(p)' BY DEF Going
<1>6. \A x \in X : x \in Files' => Noted(x)' BY DEF Noted
<1>7. \A x \in X : Beneath(x) /\ ~Noted(x) /\ ~Going(x) BY <1>2, NotBusy
<1>8. \A p, c : (p \notin X /\ HeldAt(c, p)) => HeldAt(c, p)' BY <1>1 DEF HeldAt
<1>9. \A p, c : (p \notin X /\ HeldAt(c, p)') => HeldAt(c, p) BY <1>1 DEF HeldAt
<1>10. \A c : (RowGood(c) /\ entries[c].at \notin X) => RowGood(c)' BY DEF RowGood
<1>11. EventsBeneath' BY <1>1, <1>7 DEF Core, EventsBeneath
<1>12. ReadsHold'
  <2> SUFFICES ASSUME NEW t \in Ran(tasks), t.id # Blank
               PROVE  Head(t.todo) \in Files' /\ drive'[Head(t.todo)] = t.id /\ (t.kind = "relink" => t.id \in Book)
    BY DEF ReadsHold
  <2>1. Head(t.todo) \notin X BY NotBusy
  <2> QED BY <2>1 DEF Core, ReadsHold
<1>13. GoneNoted'
  <2> SUFFICES ASSUME NEW p, Going(p)' PROVE p \notin Files' /\ Beneath(p)' BY DEF GoneNoted
  <2>1. CASE Going(p)
    <3>1. p \notin X BY <1>7, <2>1
    <3> QED BY <1>1, <2>1, <3>1 DEF Core, GoneNoted
  <2>2. CASE ~Going(p)
    <3>1. p \in X /\ p \notin Files' BY <2>2 DEF Going
    <3> QED BY <1>1, <1>7, <3>1
  <2> QED BY <2>1, <2>2
<1>14. PagesRead' BY DEF Core, PagesRead
<1>15. RowsAside'
  <2> SUFFICES ASSUME NEW c \in DOMAIN entries, ~Beneath(entries[c].at)' PROVE RowGood(c)' BY DEF RowsAside
  <2>1. ~Beneath(entries[c].at) BY <1>1
  <2>2. entries[c].at \notin X BY <1>7, <2>1
  <2> QED BY <1>10, <2>1, <2>2 DEF Core, RowsAside
<1>16. Apart' BY <1>1 DEF Core, Apart
<1>17. ASSUME NEW c, NEW x \in X, x \in Files, drive[x] = c, NEW p, HeldAt(c, p)'
       PROVE  \E q : HeldAt(c, q)' /\ Noted(q)'
  <2>1. CASE p \in X
    <3>1. Noted(p)' BY <1>6, <1>17, <2>1 DEF HeldAt
    <3> QED BY <1>17, <3>1
  <2>2. CASE p \notin X
    <3>1. HeldAt(c, p) BY <1>9, <1>17, <2>2
    <3>2. PICK y \in X : y \in Files' /\ drive'[y] = c BY <1>2, <1>17, <2>2, <3>1 DEF HeldAt
    <3>3. HeldAt(c, y)' /\ Noted(y)' BY <1>1, <1>6, <1>7, <3>2 DEF HeldAt
    <3> QED BY <3>3
  <2> QED BY <2>1, <2>2
<1>18. HeldHasRow'
  <2> SUFFICES ASSUME NEW c \in Book \ reported, NEW p, HeldAt(c, p)'
               PROVE  RowGood(c)' \/ \E q : HeldAt(c, q)' /\ Coming(q)'
    BY DEF HeldHasRow
  <2>0. \A q : Noted(q)' => Coming(q)' BY DEF Coming
  <2>1. CASE \E x \in X : x \in Files /\ drive[x] = c BY <1>17, <2>0, <2>1
  <2>2. CASE \A x \in X : ~(x \in Files /\ drive[x] = c)
    <3>1. CASE p \in X
      <4>1. Noted(p)' BY <1>6, <3>1 DEF HeldAt
      <4> QED BY <2>0, <4>1
    <3>2. CASE p \notin X
      <4>1. HeldAt(c, p) BY <1>9, <3>2
      <4>2. RowGood(c) \/ \E q : HeldAt(c, q) /\ Coming(q) BY <4>1 DEF Core, HeldHasRow
      <4>3. CASE RowGood(c)
        <5>1. entries[c].at \notin X BY <2>2, <4>3 DEF RowGood
        <5> QED BY <1>10, <4>3, <5>1
      <4>4. CASE \E q : HeldAt(c, q) /\ Coming(q)
        <5> PICK q : HeldAt(c, q) /\ Coming(q) BY <4>4
        <5>1. q \notin X BY <2>2 DEF HeldAt
        <5>2. HeldAt(c, q)' BY <1>8, <5>1
        <5>3. Coming(q)' BY <1>3, <1>4 DEF Coming
        <5> QED BY <5>2, <5>3
      <4> QED BY <4>2, <4>3, <4>4
    <3> QED BY <3>1, <3>2
  <2> QED BY <2>1, <2>2
<1>19. RowHasFile'
  <2> SUFFICES ASSUME NEW c \in DOMAIN entries \ reported, ~entries[c].missing, Beneath(entries[c].at)'
               PROVE  \/ RowGood(c)' \/ Going(entries[c].at)' \/ (entries[c].at \in Files' /\ Noted(entries[c].at)')
                      \/ \E q : HeldAt(c, q)' /\ Noted(q)'
    BY DEF RowHasFile
  <2> PICK a : a = entries[c].at OBVIOUS
  <2>1. RowGood(c) \/ Going(a) \/ (a \in Files /\ Noted(a)) \/ \E q : HeldAt(c, q) /\ Noted(q)
    BY <1>1 DEF Core, RowHasFile
  <2>2. CASE Going(a) BY <1>5, <2>2
  <2>3. CASE a \in Files /\ Noted(a)
    <3>1. a \notin X BY <1>7, <2>3
    <3> QED BY <1>3, <2>3, <3>1
  <2>4. CASE \E q : HeldAt(c, q) /\ Noted(q)
    <3> PICK q : HeldAt(c, q) /\ Noted(q) BY <2>4
    <3>1. q \notin X BY <1>7
    <3> QED BY <1>3, <1>8, <3>1
  <2>5. CASE RowGood(c)
    <3>1. a \in Files /\ drive[a] = c BY <2>5 DEF RowGood
    <3>2. CASE a \notin X BY <1>10, <2>5, <3>2
    <3>3. CASE a \in X /\ a \in Files' BY <1>6, <3>3
    <3>4. CASE a \in X /\ a \notin Files'
      <4>1. CASE Removed(a) \in Ran(events') BY <4>1 DEF Going
      <4>2. CASE Removed(a) \notin Ran(events')
        <5>1. PICK y \in X : y \in Files' /\ drive'[y] = c BY <3>1, <3>4, <4>2
        <5>2. HeldAt(c, y)' /\ Noted(y)' BY <1>1, <1>6, <1>7, <5>1 DEF HeldAt
        <5> QED BY <5>2
      <4> QED BY <4>1, <4>2
    <3> QED BY <3>2, <3>3, <3>4
  <2> QED BY <2>1, <2>2, <2>3, <2>4, <2>5
<1> QED BY <1>11, <1>12, <1>13, <1>14, <1>15, <1>16, <1>18, <1>19 DEF Core

(* Every change of files is of this kind. *)
LEMMA ChangeTouches ==
  ASSUME FTyped, FilesChange
  PROVE  watching = wanted /\ \E X : Touches(X) /\ Tellings(X) /\ Spares(X)
<1> PICK p \in Places : \/ \E c \in Book \cup {Junk} : FileAdded(p, c) \/ FileSaved(p, c)
                       \/ FileRemoved(p) \/ (\E q \in Places : FileRenamed(p, q) \/ FileMovedAcross(p, q))
  BY DEF FilesChange
<1>0. UNCHANGED <<errand, entries, pages, wanted, watching, tasks, reported, export>> BY DEF FilesChange
<1>1. WatchTyped BY DEF FTyped
<1>2. \A x : /\ Created(x).at = x /\ Removed(x).at = x
             /\ \A y : Removed(x) # Created(y) /\ (Removed(x) = Removed(y) => x = y)
  BY DEF Created, Removed
<1>3. CASE \E c \in Book \cup {Junk} : FileAdded(p, c)
  <2> PICK c \in Book \cup {Junk} : FileAdded(p, c) BY <1>3
  <2>1. /\ Watched(p) /\ ~Busy(p) /\ watching = wanted /\ p \notin Files
        /\ drive' = With(drive, p, c) /\ Tells(<<Created(p)>>)
    BY DEF FileAdded, Touchable
  <2>2. Ran(events') = Ran(events) \cup {Created(p)} BY <1>0, <1>1, <1>2, <2>1, Events, Single
  <2>3. \A q : q \notin {p} => (q \in Files <=> q \in Files') /\ (q \in Files => drive'[q] = drive[q])
    BY <2>1 DEF With, Files
  <2>4. p \in Files' BY <2>1 DEF With, Files
  <2>5. Touches({p}) BY <2>1, <2>3 DEF Touches
  <2>6. Tellings({p}) BY <1>2, <2>2, <2>4 DEF Tellings
  <2>7. Spares({p}) BY <2>1, <2>4 DEF Spares
  <2> QED BY <2>1, <2>5, <2>6, <2>7
<1>4. CASE \E c \in Book \cup {Junk} : FileSaved(p, c)
  <2> PICK c \in Book \cup {Junk} : FileSaved(p, c) BY <1>4
  <2>1. /\ Watched(p) /\ ~Busy(p) /\ watching = wanted /\ p \in Files
        /\ \A q \in Files : q \in {p} \/ drive[q] # drive[p] \/ ~Watched(q)
        /\ drive' = [drive EXCEPT ![p] = c] /\ Tells(<<Created(p)>>)
    BY DEF FileSaved, Touchable, Dispensable
  <2>2. Ran(events') = Ran(events) \cup {Created(p)} BY <1>0, <1>1, <1>2, <2>1, Events, Single
  <2>3. \A q : q \notin {p} => (q \in Files <=> q \in Files') /\ (q \in Files => drive'[q] = drive[q])
    BY <2>1 DEF Files
  <2>4. p \in Files' BY <2>1 DEF Files
  <2>5. Touches({p}) BY <2>1, <2>3 DEF Touches
  <2>6. Tellings({p}) BY <1>2, <2>2, <2>4 DEF Tellings
  <2>7. Spares({p}) BY <2>1, <2>4 DEF Spares
  <2> QED BY <2>1, <2>5, <2>6, <2>7
<1>5. CASE FileRemoved(p)
  <2>1. /\ Watched(p) /\ ~Busy(p) /\ watching = wanted /\ p \in Files
        /\ \A q \in Files : q \in {p} \/ drive[q] # drive[p] \/ ~Watched(q)
        /\ drive' = Without(drive, {p}) /\ Tells(<<Removed(p)>>)
    BY <1>5 DEF FileRemoved, Touchable, Dispensable
  <2>2. Ran(events') = Ran(events) \cup {Removed(p)} BY <1>0, <1>1, <1>2, <2>1, Events, Single
  <2>3. DOMAIN drive' = DOMAIN drive \ {p} /\ \A y \in DOMAIN drive' : drive'[y] = drive[y] BY <2>1, TakenOut
  <2>4. \A q : q \notin {p} => (q \in Files <=> q \in Files') /\ (q \in Files => drive'[q] = drive[q])
    BY <2>3 DEF Files
  <2>5. p \notin Files' BY <2>3 DEF Files
  <2>6. Touches({p}) BY <2>1, <2>4 DEF Touches
  <2>7. Tellings({p}) BY <1>2, <2>2, <2>5 DEF Tellings
  <2>8. Spares({p}) BY <2>1, <2>2, <2>5 DEF Spares
  <2> QED BY <2>1, <2>6, <2>7, <2>8
<1>6. ASSUME NEW q, p # q, p \in Files, drive' = With(Without(drive, {p}), q, drive[p])
      PROVE  /\ p \notin Files' /\ q \in Files' /\ drive'[q] = drive[p]
             /\ \A r : r \notin {p, q} => (r \in Files <=> r \in Files') /\ (r \in Files => drive'[r] = drive[r])
  <2> DEFINE e == Without(drive, {p})
  <2>1. DOMAIN e = Files \ {p} /\ \A r \in DOMAIN e : e[r] = drive[r] BY TakenOut DEF Files
  <2>2. drive' = With(e, q, drive[p]) BY <1>6
  <2> HIDE DEF e
  <2>3. DOMAIN drive' = (Files \ {p}) \cup {q} BY <2>1, <2>2, PutOver
  <2>4. drive'[q] = drive[p] /\ \A r \in DOMAIN e : r # q => drive'[r] = drive[r] BY <2>1, <2>2 DEF With
  <2> QED BY <1>6, <2>1, <2>3, <2>4 DEF Files
<1>7. CASE \E q \in Places : FileRenamed(p, q)
  <2> PICK q \in Places : FileRenamed(p, q) BY <1>7
  <2>1. /\ Watched(p) /\ ~Busy(p) /\ watching = wanted /\ p \in Files /\ Watched(q) /\ ~Busy(q) /\ p # q
        /\ q \in Files => \A r \in Files : r \in {p, q} \/ drive[r] # drive[q] \/ ~Watched(r)
        /\ drive' = With(Without(drive, {p}), q, drive[p]) /\ Tells(<<Created(p), Created(q), Created(p)>>)
    BY DEF FileRenamed, Touchable, Dispensable
  <2>2. Ran(events') = Ran(events) \cup {Created(p), Created(q)} BY <1>0, <1>1, <1>2, <2>1, Events, ThreeListed
  <2>3. /\ p \notin Files' /\ q \in Files' /\ drive'[q] = drive[p]
        /\ \A r : r \notin {p, q} => (r \in Files <=> r \in Files') /\ (r \in Files => drive'[r] = drive[r])
    BY <1>6, <2>1
  <2>4. Touches({p, q}) BY <2>1, <2>3 DEF Touches
  <2>5. Tellings({p, q}) BY <1>2, <2>2, <2>3 DEF Tellings
  <2>6. Spares({p, q}) BY <2>1, <2>2, <2>3 DEF Spares
  <2> QED BY <2>1, <2>4, <2>5, <2>6
<1>8. CASE \E q \in Places : FileMovedAcross(p, q)
  <2> PICK q \in Places : FileMovedAcross(p, q) BY <1>8
  <2>1. /\ Watched(p) /\ ~Busy(p) /\ watching = wanted /\ p \in Files /\ Watched(q) /\ ~Busy(q) /\ p # q
        /\ q \notin Files
        /\ drive' = With(Without(drive, {p}), q, drive[p]) /\ Tells(<<Created(q), Removed(p)>>)
    BY DEF FileMovedAcross, Touchable
  <2>2. Ran(events') = Ran(events) \cup {Created(q), Removed(p)} BY <1>0, <1>1, <1>2, <2>1, Events, TwoListed
  <2>3. /\ p \notin Files' /\ q \in Files' /\ drive'[q] = drive[p]
        /\ \A r : r \notin {p, q} => (r \in Files <=> r \in Files') /\ (r \in Files => drive'[r] = drive[r])
    BY <1>6, <2>1
  <2>4. Touches({p, q}) BY <2>1, <2>3 DEF Touches
  <2>5. Tellings({p, q}) BY <1>2, <2>2, <2>3 DEF Tellings
  <2>6. Spares({p, q}) BY <2>1, <2>2, <2>3 DEF Spares
  <2> QED BY <2>1, <2>4, <2>5, <2>6
<1> QED BY <1>3, <1>4, <1>5, <1>7, <1>8

LEMMA ChangeCore == ASSUME FTyped, Core, FilesChange PROVE Core'
<1>1. UNCHANGED <<errand, entries, pages, wanted, watching, tasks, reported, export>> BY DEF FilesChange
<1>2. watching = wanted /\ \E X : Touches(X) /\ Tellings(X) /\ Spares(X) BY ChangeTouches
<1> QED BY <1>1, <1>2, TouchCore

(* Tasks come, go on and end: no place that waits is forgotten, or an error is shown. *)
GoingKept == \A p : Going(p) <=> Going(p)'
NotedKept == \A q \in Files : Noted(q) =>
  Noted(q)' \/ (drive[q] \notin Book \ reported' /\ RowsAt(q) \subseteq reported')
ScannedKept == \A q \in Files : Scanned(q) => Coming(q)' \/ drive[q] \notin Book \ reported'

LEMMA TasksCore ==
  ASSUME Core, UNCHANGED <<errand, drive, entries, pages, wanted>>, reported \subseteq reported',
         EventsBeneath', ReadsHold', Apart', GoingKept, NotedKept, ScannedKept
  PROVE  Core'
<1>1. \A p : Beneath(p)' <=> Beneath(p) BY DEF Beneath
<1>2. \A c : RowGood(c) <=> RowGood(c)' BY DEF RowGood, Files
<1>3. \A c, p : HeldAt(c, p) <=> HeldAt(c, p)' BY <1>1 DEF HeldAt, Files
<1>4. GoneNoted' BY <1>1 DEF Core, GoneNoted, GoingKept, Files
<1>5. PagesRead' BY DEF Core, PagesRead
<1>6. RowsAside' BY <1>1, <1>2 DEF Core, RowsAside
<1>7. HeldHasRow'
  <2> SUFFICES ASSUME NEW c \in Book \ reported', NEW p, HeldAt(c, p)'
               PROVE  RowGood(c)' \/ \E q : HeldAt(c, q)' /\ Coming(q)'
    BY DEF HeldHasRow
  <2>1. c \in Book \ reported /\ HeldAt(c, p) BY <1>3
  <2>2. RowGood(c) \/ \E q : HeldAt(c, q) /\ Coming(q) BY <2>1 DEF Core, HeldHasRow
  <2>3. CASE RowGood(c) BY <1>2, <2>3
  <2>4. CASE \E q : HeldAt(c, q) /\ Coming(q)
    <3> PICK q : HeldAt(c, q) /\ Coming(q) BY <2>4
    <3>1. q \in Files /\ drive[q] = c /\ HeldAt(c, q)' BY <1>3 DEF HeldAt
    <3>2. CASE Noted(q)
      <4>1. Noted(q)' BY <3>1, <3>2 DEF NotedKept
      <4> QED BY <3>1, <4>1 DEF Coming
    <3>3. CASE Scanned(q) BY <3>1, <3>3 DEF ScannedKept
    <3> QED BY <3>2, <3>3 DEF Coming
  <2> QED BY <2>2, <2>3, <2>4
<1>8. RowHasFile'
  <2> SUFFICES ASSUME NEW c \in DOMAIN entries \ reported', ~entries[c].missing, Beneath(entries[c].at)'
               PROVE  \/ RowGood(c)' \/ Going(entries[c].at)' \/ (entries[c].at \in Files' /\ Noted(entries[c].at)')
                      \/ \E q : HeldAt(c, q)' /\ Noted(q)'
    BY DEF RowHasFile
  <2> PICK a : a = entries[c].at OBVIOUS
  <2>1. RowGood(c) \/ Going(a) \/ (a \in Files /\ Noted(a)) \/ \E q : HeldAt(c, q) /\ Noted(q)
    BY <1>1 DEF Core, RowHasFile
  <2>2. CASE RowGood(c) BY <1>2, <2>2
  <2>3. CASE Going(a) BY <2>3 DEF GoingKept
  <2>4. CASE a \in Files /\ Noted(a)
    <3>1. c \in RowsAt(a) BY DEF RowsAt
    <3>2. Noted(a)' BY <2>4, <3>1 DEF NotedKept
    <3> QED BY <2>4, <3>2 DEF Files
  <2>5. CASE \E q : HeldAt(c, q) /\ Noted(q)
    <3> PICK q : HeldAt(c, q) /\ Noted(q) BY <2>5
    <3>1. q \in Files /\ drive[q] = c BY DEF HeldAt
    <3>2. c \in Book \ reported' BY DEF Core, PagesRead
    <3>3. Noted(q)' BY <3>1, <3>2 DEF NotedKept
    <3> QED BY <1>3, <3>3
  <2> QED BY <2>1, <2>2, <2>3, <2>4, <2>5
<1> QED BY <1>4, <1>5, <1>6, <1>7, <1>8 DEF Core

(* What is told of places stays as it is when events and tasks do, or only other tasks come. *)
LEMMA MoreTasks ==
  ASSUME NEW u, Ran(tasks') = Ran(tasks) \cup {u}, UNCHANGED <<events>>, u.kind # "removed"
  PROVE  GoingKept /\ NotedKept /\ ScannedKept
<1>1. GoingKept BY DEF GoingKept, Going
<1>2. NotedKept BY DEF NotedKept, Noted
<1>3. ScannedKept BY DEF ScannedKept, Scanned, Coming
<1> QED BY <1>1, <1>2, <1>3

(* A folder is imported and watched, a PDF is, and the watcher tells of a file. *)
LEMMA FolderCore ==
  ASSUME FTyped, Core, NEW r \in RootDir, ImportFolderSelected(r)
  PROVE  Core'
<1> DEFINE u == NewTask("folder", r, <<>>)
<1>1. /\ events = <<>> /\ tasks' = Append(tasks, u) /\ wanted' = wanted \cup {r}
      /\ UNCHANGED <<errand, drive, entries, pages, watching, events, reported, export>>
  BY DEF ImportFolderSelected
<1>2. u.kind = "folder" /\ u.todo = <<>> /\ u.id = Blank /\ u.dir = r BY DEF NewTask
<1> HIDE DEF u
<1>3. Ran(tasks') = Ran(tasks) \cup {u} BY <1>1, Appended DEF FTyped, TasksTyped
<1>4. \A p : (Beneath(p) => Beneath(p)') /\ (Beneath(p)' => Beneath(p) \/ IsBelow(p.dir, r)) BY <1>1 DEF Beneath
<1>5. GoingKept /\ NotedKept /\ ScannedKept BY <1>1, <1>2, <1>3, MoreTasks
<1>6. \A c : RowGood(c) <=> RowGood(c)' BY <1>1 DEF RowGood, Files
<1>7. \A q : Noted(q) => Noted(q)' BY <1>1, <1>3 DEF Noted
<1>8. \A q : Coming(q) => Coming(q)' BY <1>1, <1>3, <1>7 DEF Coming, Scanned
<1>9. EventsBeneath' BY <1>1, Emptied DEF EventsBeneath
<1>10. ReadsHold' BY <1>1, <1>2, <1>3 DEF Core, ReadsHold, Files
<1>11. GoneNoted' BY <1>1, <1>4, <1>5 DEF Core, GoneNoted, GoingKept, Files
<1>12. PagesRead' BY <1>1 DEF Core, PagesRead
<1>13. RowsAside' BY <1>1, <1>4, <1>6 DEF Core, RowsAside
<1>14. Apart' BY <1>1, <1>2, <1>3, <1>4, Emptied DEF Core, Apart
<1>15. HeldHasRow'
  <2> SUFFICES ASSUME NEW c \in Book \ reported', NEW p, HeldAt(c, p)'
               PROVE  RowGood(c)' \/ \E q : HeldAt(c, q)' /\ Coming(q)'
    BY DEF HeldHasRow
  <2>1. CASE IsBelow(p.dir, r)
    <3>1. Coming(p)' BY <1>2, <1>3, <2>1 DEF Coming, Scanned
    <3> QED BY <3>1
  <2>2. CASE ~IsBelow(p.dir, r)
    <3>1. HeldAt(c, p) BY <1>1, <1>4, <2>2 DEF HeldAt, Files
    <3>2. RowGood(c) \/ \E q : HeldAt(c, q) /\ Coming(q) BY <1>1, <3>1 DEF Core, HeldHasRow
    <3>3. \A q : HeldAt(c, q) => HeldAt(c, q)' BY <1>1, <1>4 DEF HeldAt, Files
    <3> QED BY <1>6, <1>8, <3>2, <3>3
  <2> QED BY <2>1, <2>2
<1>16. RowHasFile'
  <2> SUFFICES ASSUME NEW c \in DOMAIN entries \ reported, ~entries[c].missing, Beneath(entries[c].at)'
               PROVE  \/ RowGood(c)' \/ Going(entries[c].at)' \/ (entries[c].at \in Files' /\ Noted(entries[c].at)')
                      \/ \E q : HeldAt(c, q)' /\ Noted(q)'
    BY <1>1 DEF RowHasFile
  <2> PICK a : a = entries[c].at OBVIOUS
  <2>1. CASE ~Beneath(a)
    <3>1. RowGood(c) BY <2>1 DEF Core, RowsAside
    <3> QED BY <1>6, <3>1
  <2>2. CASE Beneath(a)
    <3>1. RowGood(c) \/ Going(a) \/ (a \in Files /\ Noted(a)) \/ \E q : HeldAt(c, q) /\ Noted(q)
      BY <2>2 DEF Core, RowHasFile
    <3>2. \A q : HeldAt(c, q) => HeldAt(c, q)' BY <1>1, <1>4 DEF HeldAt, Files
    <3>3. Going(a) => Going(a)' BY <1>5 DEF GoingKept
    <3>4. a \in Files => a \in Files' BY <1>1 DEF Files
    <3> QED BY <1>1, <1>6, <1>7, <3>1, <3>2, <3>3, <3>4
  <2> QED BY <2>1, <2>2
<1> QED BY <1>9, <1>10, <1>11, <1>12, <1>13, <1>14, <1>15, <1>16 DEF Core

LEMMA WatchCore ==
  ASSUME FTyped, Core, WatchStarts
  PROVE  Core'
<1>1. /\ watching # wanted /\ watching' = wanted /\ events' = <<>>
      /\ UNCHANGED <<errand, drive, entries, pages, wanted, tasks, reported, export>>
  BY DEF WatchStarts
<1>2. events' = events BY <1>1 DEF Core, EventsBeneath
<1>3. GoingKept /\ NotedKept /\ ScannedKept
  BY <1>1, <1>2 DEF GoingKept, NotedKept, ScannedKept, Going, Noted, Scanned, Coming
<1>4. EventsBeneath' BY <1>1, Emptied DEF EventsBeneath
<1>5. ReadsHold' BY <1>1 DEF Core, ReadsHold, Files
<1>6. Apart' BY <1>1 DEF Core, Apart, Beneath
<1> QED BY <1>1, <1>3, <1>4, <1>5, <1>6, TasksCore

LEMMA PdfCore ==
  ASSUME FTyped, Calm, Core, NEW p \in Files, ImportPdfSelected(p)
  PROVE  Core'
<1> PICK u : u = NewTask("pdf", p.dir, <<p>>) OBVIOUS
<1>1. /\ "pdf" \in errand[2] /\ tasks' = Append(tasks, u)
      /\ UNCHANGED <<errand, drive, entries, pages, wanted, watching, events, reported, export>>
  BY DEF ImportPdfSelected, Happens
<1>2. u.kind = "pdf" /\ u.id = Blank BY DEF NewTask
<1>3. Ran(tasks') = Ran(tasks) \cup {u} BY <1>1, Appended DEF FTyped, TasksTyped
<1>4. "export" \notin errand[2] BY <1>1 DEF Calm, ExportsApart
<1>5. GoingKept /\ NotedKept /\ ScannedKept BY <1>1, <1>2, <1>3, MoreTasks
<1>6. EventsBeneath' BY <1>1 DEF Core, EventsBeneath, Beneath
<1>7. ReadsHold' BY <1>1, <1>2, <1>3 DEF Core, ReadsHold, Files
<1>8. Apart' BY <1>1, <1>4 DEF Apart
<1> QED BY <1>1, <1>5, <1>6, <1>7, <1>8, TasksCore

LEMMA ChosenCore ==
  ASSUME FTyped, Calm, Core, NEW p \in Files, NEW c \in DOMAIN entries, RelinkFileSelected(c, p)
  PROVE  Core'
<1> PICK u : u = [NewTask("relink", p.dir, <<p>>) EXCEPT !.id = c] OBVIOUS
<1>1. /\ "relink" \in errand[2] /\ tasks' = Append(tasks, u) /\ drive[p] = c
      /\ UNCHANGED <<errand, drive, entries, pages, wanted, watching, events, reported, export>>
  BY DEF RelinkFileSelected, Happens, Calm
<1>2. u.kind = "relink" /\ u.id = c /\ u.todo = <<p>> BY DEF NewTask
<1>3. Ran(tasks') = Ran(tasks) \cup {u} BY <1>1, Appended DEF FTyped, TasksTyped
<1>4. "export" \notin errand[2] BY <1>1 DEF Calm, ExportsApart
<1>5. GoingKept /\ NotedKept /\ ScannedKept BY <1>1, <1>2, <1>3, MoreTasks
<1>6. EventsBeneath' BY <1>1 DEF Core, EventsBeneath, Beneath
<1>7. ReadsHold'
  <2>1. Head(u.todo) = p /\ c \in Book BY <1>2, Single DEF Core, PagesRead
  <2> QED BY <1>1, <1>2, <1>3, <2>1 DEF Core, ReadsHold, Files
<1>8. Apart' BY <1>1, <1>4 DEF Apart
<1> QED BY <1>1, <1>5, <1>6, <1>7, <1>8, TasksCore

LEMMA EventCore ==
  ASSUME FTyped, Core, LibraryWatchEvent
  PROVE  Core'
<1> PICK e : e = Head(events) OBVIOUS
<1> PICK u : u = NewTask(e.kind, <<>>, <<e.at>>) OBVIOUS
<1>1. /\ events # <<>> /\ events' = Tail(events) /\ tasks' = Append(tasks, u)
      /\ UNCHANGED <<errand, drive, entries, pages, wanted, watching, reported, export>>
  BY DEF LibraryWatchEvent
<1>2. e \in Ran(events) /\ Ran(events) = Ran(events') \cup {e} BY <1>1, TailTaken DEF FTyped, WatchTyped
<1>3. Ran(tasks') = Ran(tasks) \cup {u} BY <1>1, Appended DEF FTyped, TasksTyped
<1>4. u.kind = e.kind /\ u.todo = <<e.at>> /\ u.id = Blank /\ Head(u.todo) = e.at /\ Ran(u.todo) = {e.at}
  BY Single DEF NewTask
<1>5. e = Created(e.at) \/ e = Removed(e.at) BY <1>2 DEF FTyped, WatchTyped
<1>6. /\ e = Created(e.at) => u.kind = "created"
      /\ e = Removed(e.at) => u.kind = "removed"
  <2>1. Created(e.at).kind = "created" /\ Removed(e.at).kind = "removed" BY DEF Created, Removed
  <2> QED BY <1>4, <2>1
<1>7. \A p : /\ e = Created(p) => u.kind = "created" /\ Head(u.todo) = p
             /\ e = Removed(p) => u.kind = "removed" /\ Head(u.todo) = p
  BY <1>4, <1>6 DEF Created, Removed
<1>8. \A p : Noted(p) => Noted(p)' BY <1>2, <1>3, <1>7 DEF Noted
<1>9. \A p : Going(p) <=> Going(p)'
  <2>1. \A p : Going(p) => Going(p)' BY <1>2, <1>3, <1>7 DEF Going
  <2>2. ASSUME NEW p, Going(p)' PROVE Going(p)
    <3>1. CASE Removed(p) \in Ran(events') BY <1>2, <3>1 DEF Going
    <3>2. CASE \E t \in Ran(tasks) : t.kind = "removed" /\ Head(t.todo) = p BY <3>2 DEF Going
    <3>3. CASE u.kind = "removed" /\ Head(u.todo) = p
      <4>1. e = Removed(p) BY <1>4, <1>5, <1>6, <3>3
      <4> QED BY <1>2, <4>1 DEF Going
    <3> QED BY <1>3, <2>2, <3>1, <3>2, <3>3 DEF Going
  <2> QED BY <2>1, <2>2
<1>10. \A p : Scanned(p) => Scanned(p)' BY <1>3 DEF Scanned
<1>11. GoingKept /\ NotedKept /\ ScannedKept
  BY <1>8, <1>9, <1>10 DEF GoingKept, NotedKept, ScannedKept, Coming
<1>12. Beneath(e.at) BY <1>2 DEF Core, EventsBeneath
<1>13. EventsBeneath'
  <2>1. watching = wanted BY <1>1 DEF Core, EventsBeneath
  <2> QED BY <1>1, <1>2, <2>1 DEF Core, EventsBeneath, Beneath
<1>14. ReadsHold' BY <1>1, <1>3, <1>4 DEF Core, ReadsHold, Files
<1>15. Apart'
  <2>1. u.kind \notin {"pdf", "relink"} /\ \A p \in Ran(u.todo) : Beneath(p) BY <1>4, <1>5, <1>6, <1>12
  <2> QED BY <1>1, <1>3, <2>1 DEF Core, Apart, Beneath
<1> QED BY <1>1, <1>11, <1>13, <1>14, <1>15, TasksCore

(* A task goes on to its next file. *)
LEMMA GoesOnTells ==
  ASSUME FTyped, Core, NEW k \in DOMAIN tasks, GoesOn(k), tasks[k].todo # <<>>, tasks[k].kind # "removed",
         UNCHANGED <<errand, drive, wanted, watching, events, export>>
  PROVE  /\ GoingKept /\ EventsBeneath' /\ ReadsHold'
         /\ "export" \in errand[2] =>
              \A u \in Ran(tasks') : u.kind \notin {"pdf", "relink"} /\ \A p \in Ran(u.todo) : Beneath(p)
         /\ \A q : q # Head(tasks[k].todo) => (Noted(q) => Noted(q)') /\ (Scanned(q) => Scanned(q)')
<1> PICK t : t = tasks[k] OBVIOUS
<1> PICK f : f = Follow(t) OBVIOUS
<1>0. TasksTyped /\ TaskTyped(t) /\ t \in Ran(tasks) BY TaskIs DEF FTyped
<1>1. /\ Ran(tasks) \subseteq Ran(tasks') \cup {t}
      /\ \/ Ran(tasks') \subseteq Ran(tasks) /\ Len(t.todo) = 1
         \/ /\ Ran(tasks') \subseteq Ran(tasks) \cup {f} /\ f \in Ran(tasks')
            /\ Len(t.todo) # 1 /\ t.kind = "folder"
  BY <1>0, GoesOnDoes
<1>2. f.kind = t.kind /\ f.todo = Tail(t.todo) /\ f.id = Blank BY DEF Follow
<1>3. /\ Len(t.todo) = 1 => Ran(t.todo) = {Head(t.todo)}
      /\ Ran(t.todo) \subseteq Ran(f.todo) \cup {Head(t.todo)} /\ Ran(f.todo) \subseteq Ran(t.todo)
  BY <1>0, <1>2, OneLeft DEF TaskTyped
<1>4. Ran(tasks') \subseteq Ran(tasks) \cup {f} BY <1>1
<1>5. GoingKept
  <2>1. ASSUME NEW p, NEW u \in Ran(tasks'), u.kind = "removed", Head(u.todo) = p PROVE u \in Ran(tasks)
    BY <1>1, <1>2, <2>1
  <2>2. ASSUME NEW u \in Ran(tasks), u.kind = "removed" PROVE u \in Ran(tasks') BY <1>1, <2>2
  <2> QED BY <2>1, <2>2 DEF GoingKept, Going
<1>6. EventsBeneath' BY DEF Core, EventsBeneath, Beneath
<1>7. ReadsHold' BY <1>2, <1>4 DEF Core, ReadsHold, Files
<1>8. ASSUME "export" \in errand[2]
      PROVE  \A u \in Ran(tasks') : u.kind \notin {"pdf", "relink"} /\ \A p \in Ran(u.todo) : Beneath(p)
  <2>1. \A u \in Ran(tasks) : u.kind \notin {"pdf", "relink"} /\ \A p \in Ran(u.todo) : Beneath(p)
    BY <1>8 DEF Core, Apart
  <2>2. f.kind \notin {"pdf", "relink"} /\ \A p \in Ran(f.todo) : Beneath(p) BY <1>0, <1>2, <1>3, <2>1
  <2> QED BY <1>4, <2>1, <2>2
<1>9. ASSUME NEW q, q # Head(t.todo), Noted(q) PROVE Noted(q)'
  <2>1. ASSUME NEW u \in Ran(tasks), u.kind = "created", Head(u.todo) = q PROVE u \in Ran(tasks')
    BY <1>1, <1>9, <2>1
  <2> QED BY <1>9, <2>1 DEF Noted
<1>10. ASSUME NEW q, q # Head(t.todo), Scanned(q) PROVE Scanned(q)'
  <2> PICK u \in Ran(tasks) : u.kind = "folder" /\ (q \in Ran(u.todo) \/ (u.todo = <<>> /\ IsBelow(q.dir, u.dir)))
    BY <1>10 DEF Scanned
  <2>1. CASE u # t
    <3>1. u \in Ran(tasks') BY <1>1, <2>1
    <3> QED BY <3>1 DEF Scanned
  <2>2. CASE u = t
    <3>1. q \in Ran(t.todo) BY <2>2
    <3>2. f \in Ran(tasks') /\ f.kind = "folder" /\ q \in Ran(f.todo) BY <1>1, <1>2, <1>3, <1>10, <3>1
    <3> QED BY <3>2 DEF Scanned
  <2> QED BY <2>1, <2>2
<1> QED BY <1>5, <1>6, <1>7, <1>8, <1>9, <1>10

LEMMA ScanCore ==
  ASSUME FTyped, Core, NEW k \in DOMAIN tasks, ScanFolder(k), UNCHANGED <<errand, wanted, watching, events, export>>
  PROVE  Core'
<1> PICK t : t = tasks[k] OBVIOUS
<1> PICK u : u = Scanning(t, FoundIn(t)) OBVIOUS
<1>1. /\ t.kind = "folder" /\ t.todo = <<>> /\ t.id = Blank /\ t \in Ran(tasks) /\ TaskTyped(t)
      /\ UNCHANGED <<drive, entries, pages, reported>>
      /\ Ran(tasks) \subseteq Ran(tasks') \cup {t}
      /\ Ran(u.todo) = FoundIn(t)
      /\ \/ FoundIn(t) = {} /\ Ran(tasks') \subseteq Ran(tasks)
         \/ Ran(tasks') \subseteq Ran(tasks) \cup {u} /\ u \in Ran(tasks')
  BY ScanDoes
<1>2. u.kind = "folder" /\ u.id = Blank BY <1>1 DEF Scanning
<1>3. Ran(tasks') \subseteq Ran(tasks) \cup {u} BY <1>1
<1>4. \A p \in FoundIn(t) : Beneath(p) BY <1>1 DEF TaskTyped, FoundIn, Beneath
<1>5. GoingKept
  <2>1. \A w : w.kind = "removed" => (w \in Ran(tasks) <=> w \in Ran(tasks')) BY <1>1, <1>2, <1>3
  <2> QED BY <2>1 DEF GoingKept, Going
<1>6. NotedKept
  <2>1. \A w \in Ran(tasks) : w.kind = "created" => w \in Ran(tasks') BY <1>1
  <2> QED BY <2>1 DEF NotedKept, Noted
<1>7. ScannedKept
  <2> SUFFICES ASSUME NEW q \in Files, Scanned(q) PROVE Scanned(q)' BY DEF ScannedKept, Coming
  <2> PICK w \in Ran(tasks) : w.kind = "folder" /\ (q \in Ran(w.todo) \/ (w.todo = <<>> /\ IsBelow(q.dir, w.dir)))
    BY DEF Scanned
  <2>1. CASE w # t
    <3>1. w \in Ran(tasks') BY <1>1, <2>1
    <3> QED BY <3>1 DEF Scanned
  <2>2. CASE w = t
    <3>1. q \in FoundIn(t) BY <1>1, <2>2, Emptied DEF FoundIn
    <3>2. u \in Ran(tasks') /\ q \in Ran(u.todo) BY <1>1, <3>1
    <3> QED BY <1>2, <3>2 DEF Scanned
  <2> QED BY <2>1, <2>2
<1>8. EventsBeneath' BY DEF Core, EventsBeneath, Beneath
<1>9. ReadsHold' BY <1>1, <1>2, <1>3 DEF Core, ReadsHold, Files
<1>10. Apart'
  <2>1. u.kind \notin {"pdf", "relink"} /\ \A p \in Ran(u.todo) : Beneath(p) BY <1>1, <1>2, <1>4
  <2> QED BY <1>1, <1>3, <2>1 DEF Core, Apart, Beneath
<1> QED BY <1>1, <1>5, <1>6, <1>7, <1>8, <1>9, <1>10, TasksCore

LEMMA HashCore ==
  ASSUME FTyped, Core, NEW k \in DOMAIN tasks, Hash(k), UNCHANGED <<errand, wanted, watching, events, export>>
  PROVE  Core'
<1> PICK t : t = tasks[k] OBVIOUS
<1> PICK p : p = Head(t.todo) OBVIOUS
<1> PICK u : u = Hashed(t, drive[p]) OBVIOUS
<1>1. /\ t.kind \in {"created", "pdf", "folder"} /\ t.todo # <<>> /\ t.id = Blank
      /\ t \in Ran(tasks) /\ TaskTyped(t)
      /\ UNCHANGED <<drive, entries, pages>>
      /\ Ran(tasks) \subseteq Ran(tasks') \cup {t}
      /\ \/ /\ p \in Files /\ reported' = reported
            /\ Ran(tasks') \subseteq Ran(tasks) \cup {u} /\ u \in Ran(tasks')
         \/ /\ p \notin Files /\ GoesOn(k)
            /\ reported' = IF t.kind = "created" THEN reported ELSE ShownGone(p)
  BY HashDoes
<1>2. u.kind = t.kind /\ u.todo = t.todo /\ u.id = drive[p] /\ u.dir = t.dir BY DEF Hashed
<1>3. CASE /\ p \in Files /\ reported' = reported
           /\ Ran(tasks') \subseteq Ran(tasks) \cup {u} /\ u \in Ran(tasks')
  <2>1. GoingKept
    <3>1. \A w : w.kind = "removed" => (w \in Ran(tasks) <=> w \in Ran(tasks')) BY <1>1, <1>2, <1>3
    <3> QED BY <3>1 DEF GoingKept, Going
  <2>2. NotedKept
    <3> SUFFICES ASSUME NEW q \in Files, Noted(q) PROVE Noted(q)' BY DEF NotedKept
    <3>1. CASE Created(q) \in Ran(events) BY <3>1 DEF Noted
    <3>2. CASE \E w \in Ran(tasks) : w.kind = "created" /\ Head(w.todo) = q
      BY <1>1, <1>2, <1>3, <3>2 DEF Noted
    <3> QED BY <3>1, <3>2 DEF Noted
  <2>3. ScannedKept
    <3> SUFFICES ASSUME NEW q \in Files, Scanned(q) PROVE Scanned(q)' BY DEF ScannedKept, Coming
    <3> PICK w \in Ran(tasks) : w.kind = "folder" /\ (q \in Ran(w.todo) \/ (w.todo = <<>> /\ IsBelow(q.dir, w.dir)))
      BY DEF Scanned
    <3>1. CASE w # t
      <4>1. w \in Ran(tasks') BY <1>1, <3>1
      <4> QED BY <4>1 DEF Scanned
    <3>2. CASE w = t BY <1>2, <1>3, <3>2 DEF Scanned
    <3> QED BY <3>1, <3>2
  <2>4. EventsBeneath' BY DEF Core, EventsBeneath, Beneath
  <2>5. ReadsHold'
    <3>1. u.kind # "relink" /\ Head(u.todo) = p BY <1>1, <1>2
    <3> QED BY <1>1, <1>2, <1>3, <3>1 DEF Core, ReadsHold, Files
  <2>6. Apart'
    <3>1. ("export" \in errand[2]) => (u.kind \notin {"pdf", "relink"} /\ \A q \in Ran(u.todo) : Beneath(q))
      BY <1>1, <1>2 DEF Core, Apart
    <3> QED BY <1>1, <1>3, <3>1 DEF Core, Apart, Beneath
  <2> QED BY <1>1, <1>3, <2>1, <2>2, <2>3, <2>4, <2>5, <2>6, TasksCore
<1>4. CASE /\ p \notin Files /\ GoesOn(k)
           /\ reported' = IF t.kind = "created" THEN reported ELSE ShownGone(p)
  <2>1. /\ GoingKept /\ EventsBeneath' /\ ReadsHold' /\ Apart'
        /\ \A q : q # p => (Noted(q) => Noted(q)') /\ (Scanned(q) => Scanned(q)')
    BY <1>1, <1>4, GoesOnTells DEF Core, Apart, Beneath
  <2>2. NotedKept BY <1>4, <2>1 DEF NotedKept
  <2>3. ScannedKept BY <1>4, <2>1 DEF ScannedKept, Coming
  <2>4. reported \subseteq reported' BY <1>4 DEF ShownGone
  <2> QED BY <1>1, <2>1, <2>2, <2>3, <2>4, TasksCore
<1> QED BY <1>1, <1>3, <1>4

(* A row is written for a PDF, with the path of a file that holds it. *)
LEMMA RowCore ==
  ASSUME Core, UNCHANGED <<errand, drive, wanted>>, NEW c \in Book, NEW p \in Files, drive[p] = c,
         c \in DOMAIN entries', entries'[c] = [at |-> p, missing |-> FALSE],
         \A d \in DOMAIN entries' : d # c => d \in DOMAIN entries /\ entries'[d] = entries[d] /\ entries[d].at # p,
         \A d \in DOMAIN entries : d \notin DOMAIN entries' => entries[d].at = p,
         reported \subseteq reported' \cup {c},
         PagesRead', EventsBeneath', ReadsHold', Apart', GoingKept,
         \A q \in Files : q # p => (Noted(q) => Noted(q)') /\ (Scanned(q) => Scanned(q)')
  PROVE  Core'
<1>1. \A q : Beneath(q)' <=> Beneath(q) BY DEF Beneath
<1>2. \A d, q : HeldAt(d, q) <=> HeldAt(d, q)' BY <1>1 DEF HeldAt, Files
<1>3. RowGood(c)'
  <2>1. entries'[c].at = p /\ ~entries'[c].missing OBVIOUS
  <2> QED BY <2>1 DEF RowGood, Files
<1>4. ASSUME NEW d, d # c, RowGood(d) PROVE RowGood(d)'
  <2>1. d \in DOMAIN entries /\ entries[d].at \in Files /\ drive[entries[d].at] = d BY <1>4 DEF RowGood
  <2>2. entries[d].at # p BY <1>4, <2>1
  <2>3. d \in DOMAIN entries' /\ entries'[d] = entries[d] BY <1>4, <2>1, <2>2
  <2> QED BY <1>4, <2>3 DEF RowGood, Files
<1>5. GoneNoted' BY <1>1 DEF Core, GoneNoted, GoingKept, Files
<1>6. RowsAside'
  <2> SUFFICES ASSUME NEW d \in DOMAIN entries', d # c, ~Beneath(entries[d].at)' PROVE RowGood(d)'
    BY <1>3 DEF RowsAside
  <2>1. d \in DOMAIN entries /\ entries'[d] = entries[d] OBVIOUS
  <2>2. ~Beneath(entries[d].at) BY <1>1, <2>1
  <2> QED BY <1>4, <2>1, <2>2 DEF Core, RowsAside
<1>7. HeldHasRow'
  <2> SUFFICES ASSUME NEW d \in Book \ reported', d # c, NEW x, HeldAt(d, x)'
               PROVE  RowGood(d)' \/ \E q : HeldAt(d, q)' /\ Coming(q)'
    BY <1>3 DEF HeldHasRow
  <2>1. d \in Book \ reported /\ HeldAt(d, x) BY <1>2
  <2>2. RowGood(d) \/ \E q : HeldAt(d, q) /\ Coming(q) BY <2>1 DEF Core, HeldHasRow
  <2>3. CASE \E q : HeldAt(d, q) /\ Coming(q)
    <3> PICK q : HeldAt(d, q) /\ Coming(q) BY <2>3
    <3>1. q \in Files /\ q # p BY DEF HeldAt
    <3>2. Coming(q)' BY <3>1 DEF Coming
    <3> QED BY <1>2, <3>2
  <2> QED BY <1>4, <2>2, <2>3
<1>8. RowHasFile'
  <2> SUFFICES ASSUME NEW d \in DOMAIN entries' \ reported', d # c, ~entries'[d].missing, Beneath(entries[d].at)'
               PROVE  \/ RowGood(d)' \/ Going(entries[d].at)' \/ (entries'[d].at \in Files' /\ Noted(entries[d].at)')
                      \/ \E q : HeldAt(d, q)' /\ Noted(q)'
    BY <1>3 DEF RowHasFile
  <2> PICK a : a = entries[d].at OBVIOUS
  <2>0. d \in DOMAIN entries \ reported /\ entries'[d] = entries[d] /\ a # p /\ entries'[d].at = a OBVIOUS
  <2>1. Beneath(a) BY <1>1, <2>0
  <2>2. RowGood(d) \/ Going(a) \/ (a \in Files /\ Noted(a)) \/ \E q : HeldAt(d, q) /\ Noted(q)
    BY <2>0, <2>1 DEF Core, RowHasFile
  <2>3. CASE RowGood(d) BY <1>4, <2>3
  <2>4. CASE Going(a)
    <3>1. Going(a)' BY <2>4 DEF GoingKept
    <3> QED BY <2>0, <3>1
  <2>5. CASE a \in Files /\ Noted(a)
    <3>1. Noted(a)' /\ a \in Files' BY <2>0, <2>5 DEF Files
    <3> QED BY <2>0, <3>1
  <2>6. CASE \E q : HeldAt(d, q) /\ Noted(q)
    <3> PICK q : HeldAt(d, q) /\ Noted(q) BY <2>6
    <3>1. q \in Files /\ q # p BY DEF HeldAt
    <3> QED BY <1>2, <3>1
  <2> QED BY <2>2, <2>3, <2>4, <2>5, <2>6
<1> QED BY <1>5, <1>6, <1>7, <1>8 DEF Core

LEMMA InsertCore ==
  ASSUME FTyped, Core, NEW k \in DOMAIN tasks, Insert(k), UNCHANGED <<errand, wanted, watching, events, export>>
  PROVE  Core'
<1> PICK t : t = tasks[k] OBVIOUS
<1> PICK p : p = Head(t.todo) OBVIOUS
<1> PICK id : id = t.id OBVIOUS
<1>1. /\ t.kind \in {"created", "pdf", "folder"} /\ t.todo # <<>> /\ id # Blank /\ id \in Holdings
      /\ t \in Ran(tasks) /\ TaskTyped(t)
      /\ UNCHANGED drive /\ GoesOn(k)
      /\ \/ /\ p \notin Files \/ drive[p] \notin Book \/ Refused(id, p)
            /\ UNCHANGED <<entries, pages>>
            /\ reported' = IF p \in Files THEN Shown(p) ELSE ShownGone(p)
         \/ /\ p \in Files /\ drive[p] \in Book /\ ~Refused(id, p)
            /\ entries' = Inserted(id, p)
            /\ \/ pages' = With(pages, id, drive[p]) /\ reported' = reported \ {id}
               \/ UNCHANGED pages /\ reported' = reported \cup {id}
  BY InsertDoes
<1>2. p \in Files /\ drive[p] = id BY <1>1 DEF Core, ReadsHold
<1>3. CASE /\ UNCHANGED <<entries, pages>>
           /\ reported' = IF p \in Files THEN Shown(p) ELSE ShownGone(p)
  <2>1. /\ GoingKept /\ EventsBeneath' /\ ReadsHold' /\ Apart'
        /\ \A q : q # p => (Noted(q) => Noted(q)') /\ (Scanned(q) => Scanned(q)')
    BY <1>1, <1>3, GoesOnTells DEF Core, Apart, Beneath
  <2>2. reported' = reported \cup (({drive[p]} \cap Book) \cup RowsAt(p)) BY <1>2, <1>3 DEF Shown
  <2>3. drive[p] \notin Book \ reported' /\ RowsAt(p) \subseteq reported' BY <2>2
  <2>4. NotedKept BY <2>1, <2>3 DEF NotedKept
  <2>5. ScannedKept BY <2>1, <2>3 DEF ScannedKept, Coming
  <2>6. reported \subseteq reported' BY <2>2
  <2> QED BY <1>1, <1>3, <2>1, <2>4, <2>5, <2>6, TasksCore
<1>4. CASE /\ p \in Files /\ drive[p] \in Book /\ ~Refused(id, p)
           /\ entries' = Inserted(id, p)
           /\ \/ pages' = With(pages, id, drive[p]) /\ reported' = reported \ {id}
              \/ UNCHANGED pages /\ reported' = reported \cup {id}
  <2>0. RowsTyped BY DEF FTyped
  <2>1. /\ DOMAIN entries' = (DOMAIN entries \ RowsAt(p)) \cup {id} /\ entries'[id] = [at |-> p, missing |-> FALSE]
        /\ \A d \in DOMAIN entries' : d # id => entries'[d] = entries[d] /\ entries[d].at # p
    <3>1. id \in Holdings /\ ~Refused(id, p) /\ entries' = Inserted(id, p) BY <1>1, <1>4
    <3>2. RowIsPut(id, p) BY <2>0, <3>1, RowPut
    <3> QED BY <3>2 DEF Row, RowIsPut
  <2>2. /\ GoingKept /\ EventsBeneath' /\ ReadsHold'
        /\ \A q : q # p => (Noted(q) => Noted(q)') /\ (Scanned(q) => Scanned(q)')
    BY <1>1, GoesOnTells
  <2>3. Apart'
    <3> SUFFICES ASSUME "export" \in errand[2]
                 PROVE  /\ \A d \in DOMAIN entries' : Beneath(entries'[d].at)
                        /\ \A u \in Ran(tasks') : u.kind \notin {"pdf", "relink"} /\ \A q \in Ran(u.todo) : Beneath(q)
                        /\ \A x \in Ran(export.todo) : x.book \in Book
      BY DEF Apart, Beneath
    <3>1. \A u \in Ran(tasks') : u.kind \notin {"pdf", "relink"} /\ \A q \in Ran(u.todo) : Beneath(q)
      BY <1>1, GoesOnTells
    <3>2. Beneath(p)
      <4>1. p \in Ran(t.todo) BY <1>1, OneLeft DEF TaskTyped
      <4> QED BY <1>1, <4>1 DEF Core, Apart
    <3> QED BY <2>1, <3>1, <3>2 DEF Core, Apart
  <2>4. id \in Book BY <1>2, <1>4
  <2>5. PagesRead'
    <3>1. DOMAIN entries' \subseteq Book BY <2>1, <2>4 DEF Core, PagesRead
    <3>2. ASSUME NEW d \in DOMAIN entries' \ reported' PROVE d \in DOMAIN pages' /\ pages'[d] = d
      <4>1. CASE d = id
        <5>1. pages' = With(pages, id, id) BY <1>2, <1>4, <3>2, <4>1
        <5> QED BY <4>1, <5>1 DEF With
      <4>2. CASE d # id
        <5>1. d \in DOMAIN entries \ reported BY <1>4, <2>1, <3>2, <4>2
        <5>2. d \in DOMAIN pages /\ pages[d] = d BY <5>1 DEF Core, PagesRead
        <5> QED BY <1>4, <4>2, <5>2 DEF With
      <4> QED BY <4>1, <4>2
    <3> QED BY <3>1, <3>2 DEF PagesRead
  <2>6. \A d \in DOMAIN entries' : d # id => d \in DOMAIN entries BY <2>1
  <2>7. \A d \in DOMAIN entries : d \notin DOMAIN entries' => entries[d].at = p BY <2>1 DEF RowsAt
  <2>8. reported \subseteq reported' \cup {id} BY <1>4
  <2> QED BY <1>1, <1>2, <2>1, <2>2, <2>3, <2>4, <2>5, <2>6, <2>7, <2>8, RowCore
<1> QED BY <1>1, <1>3, <1>4

(* A file that has gone is marked missing; a PDF is linked to a file. *)
LEMMA MissingCore ==
  ASSUME FTyped, Core, NEW k \in DOMAIN tasks, SetMissing(k), UNCHANGED <<errand, wanted, watching, events, export>>
  PROVE  Core'
<1> PICK t : t = tasks[k] OBVIOUS
<1> PICK p : p = Head(t.todo) OBVIOUS
<1>1. /\ t.kind = "removed" /\ t \in Ran(tasks) /\ TaskTyped(t) /\ Drop(k)
      /\ UNCHANGED <<drive, pages, reported>> /\ DOMAIN entries' = DOMAIN entries
      /\ \A c \in DOMAIN entries : IF entries[c].at = p THEN entries'[c] = [at |-> p, missing |-> TRUE]
                                   ELSE entries'[c] = entries[c]
  BY SetMissingDoes
<1>2. Ran(tasks') \subseteq Ran(tasks) /\ Ran(tasks) \subseteq Ran(tasks') \cup {t} BY <1>1, DropDoes DEF FTyped
<1>3. p \notin Files /\ Beneath(p)
  <2>1. Going(p) BY <1>1 DEF Going
  <2> QED BY <2>1 DEF Core, GoneNoted
<1>4. \A c \in DOMAIN entries : entries'[c].at = entries[c].at BY <1>1
<1>5. \A c \in DOMAIN entries : entries[c].at # p => entries'[c] = entries[c] BY <1>1
<1>6. \A c \in DOMAIN entries : entries[c].at = p => entries'[c].missing BY <1>1
<1>7. \A q : Beneath(q)' <=> Beneath(q) BY DEF Beneath
<1>8. \A c, q : HeldAt(c, q) <=> HeldAt(c, q)' BY <1>1, <1>7 DEF HeldAt, Files
<1>9. \A c : RowGood(c) => RowGood(c)' BY <1>1, <1>3, <1>5 DEF RowGood, Files
<1>10. \A q : Noted(q) => Noted(q)' BY <1>1, <1>2 DEF Noted
<1>11. \A q : Scanned(q) => Scanned(q)' BY <1>1, <1>2 DEF Scanned
<1>12. \A q : /\ Going(q)' => Going(q)
              /\ q # p /\ Going(q) => Going(q)'
  <2>1. \A q : Going(q)' => Going(q) BY <1>2 DEF Going
  <2>2. ASSUME NEW q, q # p, Going(q) PROVE Going(q)' BY <1>2, <2>2 DEF Going
  <2> QED BY <2>1, <2>2
<1>13. EventsBeneath' BY DEF Core, EventsBeneath, Beneath
<1>14. ReadsHold' BY <1>1, <1>2 DEF Core, ReadsHold, Files
<1>15. GoneNoted' BY <1>1, <1>7, <1>12 DEF Core, GoneNoted, Files
<1>16. PagesRead' BY <1>1 DEF Core, PagesRead
<1>17. RowsAside'
  <2> SUFFICES ASSUME NEW c \in DOMAIN entries, ~Beneath(entries'[c].at) PROVE RowGood(c)'
    BY <1>1, <1>7 DEF RowsAside
  <2>1. ~Beneath(entries[c].at) BY <1>4
  <2> QED BY <1>9, <2>1 DEF Core, RowsAside
<1>18. Apart' BY <1>1, <1>2, <1>4 DEF Core, Apart, Beneath
<1>19. HeldHasRow' BY <1>1, <1>8, <1>9, <1>10, <1>11 DEF Core, HeldHasRow, Coming
<1>20. RowHasFile'
  <2> SUFFICES ASSUME NEW c \in DOMAIN entries \ reported, ~entries'[c].missing, Beneath(entries'[c].at)
               PROVE  \/ RowGood(c)' \/ Going(entries[c].at)' \/ (entries'[c].at \in Files' /\ Noted(entries[c].at)')
                      \/ \E q : HeldAt(c, q)' /\ Noted(q)'
    BY <1>1, <1>7 DEF RowHasFile
  <2> PICK a : a = entries[c].at OBVIOUS
  <2>1. a # p /\ entries'[c] = entries[c] /\ entries'[c].at = a BY <1>5, <1>6
  <2>2. RowGood(c) \/ Going(a) \/ (a \in Files /\ Noted(a)) \/ \E q : HeldAt(c, q) /\ Noted(q)
    BY <2>1 DEF Core, RowHasFile
  <2>3. CASE Going(a)
    <3>1. Going(a)' BY <1>12, <2>1, <2>3
    <3> QED BY <2>1, <3>1
  <2>4. CASE a \in Files /\ Noted(a)
    <3>1. Noted(a)' /\ a \in Files' BY <1>1, <1>10, <2>4 DEF Files
    <3> QED BY <2>1, <3>1
  <2> QED BY <1>8, <1>9, <1>10, <2>2, <2>3, <2>4
<1> QED BY <1>13, <1>14, <1>15, <1>16, <1>17, <1>18, <1>19, <1>20 DEF Core

LEMMA RelinkCore ==
  ASSUME FTyped, Core, NEW k \in DOMAIN tasks, Relink(k), UNCHANGED <<errand, wanted, watching, events, export>>
  PROVE  Core'
<1> PICK t : t = tasks[k] OBVIOUS
<1> PICK p : p = Head(t.todo) OBVIOUS
<1> PICK c : c = t.id OBVIOUS
<1>1. /\ t.kind = "relink" /\ t \in Ran(tasks) /\ TaskTyped(t) /\ Drop(k) /\ UNCHANGED <<drive, pages>>
      /\ \/ RowsAt(p) \ {c} # {} /\ reported' = reported \cup {c} /\ UNCHANGED entries
         \/ RowsAt(p) \ {c} = {} /\ UNCHANGED <<entries, reported>>
         \/ /\ RowsAt(p) \ {c} = {} /\ UNCHANGED reported /\ c \in DOMAIN entries
            /\ entries' = [entries EXCEPT ![c] = Row(c, p)]
  BY RelinkDoes
<1>2. Ran(tasks') \subseteq Ran(tasks) /\ Ran(tasks) \subseteq Ran(tasks') \cup {t} BY <1>1, DropDoes DEF FTyped
<1>3. c # Blank
  <2>1. Blank \notin Holdings BY FilesAssumption DEF Holdings
  <2> QED BY <1>1, <2>1 DEF TaskTyped
<1>4. p \in Files /\ drive[p] = c /\ c \in Book BY <1>1, <1>3 DEF Core, ReadsHold
<1>5. \A q : Noted(q) => Noted(q)' BY <1>1, <1>2 DEF Noted
<1>6. \A q : Scanned(q) => Scanned(q)' BY <1>1, <1>2 DEF Scanned
<1>7. GoingKept
  <2>1. \A w : w.kind = "removed" => (w \in Ran(tasks) <=> w \in Ran(tasks')) BY <1>1, <1>2
  <2> QED BY <2>1 DEF GoingKept, Going
<1>8. NotedKept /\ ScannedKept BY <1>5, <1>6 DEF NotedKept, ScannedKept, Coming
<1>9. EventsBeneath' BY DEF Core, EventsBeneath, Beneath
<1>10. ReadsHold' BY <1>1, <1>2 DEF Core, ReadsHold, Files
<1>11. "export" \notin errand[2] BY <1>1 DEF Core, Apart
<1>12. Apart' BY <1>11 DEF Apart
<1>13. CASE reported \subseteq reported' /\ UNCHANGED entries
  BY <1>1, <1>7, <1>8, <1>9, <1>10, <1>12, <1>13, TasksCore
<1>14. CASE /\ RowsAt(p) \ {c} = {} /\ UNCHANGED reported /\ c \in DOMAIN entries
            /\ entries' = [entries EXCEPT ![c] = Row(c, p)]
  <2>1. DOMAIN entries' = DOMAIN entries /\ entries'[c] = [at |-> p, missing |-> FALSE]
        /\ \A d \in DOMAIN entries : d # c => entries'[d] = entries[d] /\ entries[d].at # p
    BY <1>14 DEF Row, RowsAt
  <2>2. PagesRead' BY <1>1, <1>14, <2>1 DEF Core, PagesRead
  <2> QED BY <1>1, <1>4, <1>5, <1>6, <1>7, <1>9, <1>10, <1>12, <1>14, <2>1, <2>2, RowCore
<1> QED BY <1>1, <1>13, <1>14

(* An export writes where nothing is watched. *)
LEMMA AsideCore ==
  ASSUME FTyped, Core, "export" \in errand[2], Rest, UNCHANGED events,
         \A p : Beneath(p) => (p \in Files <=> p \in Files') /\ (p \in Files => drive'[p] = drive[p]),
         \A x \in Ran(export'.todo) : x.book \in Book
  PROVE  Core'
<1> USE DEF Rest
<1>0. /\ \A c \in DOMAIN entries : Beneath(entries[c].at)
      /\ \A t \in Ran(tasks) : t.kind \notin {"pdf", "relink"} /\ \A p \in Ran(t.todo) : Beneath(p)
  BY DEF Core, Apart
<1>1. \A q : Beneath(q)' <=> Beneath(q) BY DEF Beneath
<1>2. \A c, q : HeldAt(c, q) <=> HeldAt(c, q)' BY <1>1 DEF HeldAt
<1>3. \A c : RowGood(c) => RowGood(c)' BY <1>0 DEF RowGood
<1>4. \A q : (Noted(q) <=> Noted(q)') /\ (Going(q) <=> Going(q)') /\ (Scanned(q) <=> Scanned(q)')
  BY DEF Noted, Going, Scanned
<1>5. EventsBeneath' BY <1>1 DEF Core, EventsBeneath
<1>6. ReadsHold'
  <2> SUFFICES ASSUME NEW t \in Ran(tasks), t.id # Blank
               PROVE  Head(t.todo) \in Files' /\ drive'[Head(t.todo)] = t.id /\ (t.kind = "relink" => t.id \in Book)
    BY DEF ReadsHold
  <2>1. t.todo # <<>> /\ IsList(t.todo) BY DEF FTyped, TasksTyped, TaskTyped
  <2>2. Beneath(Head(t.todo)) BY <1>0, <2>1, OneLeft
  <2> QED BY <2>2 DEF Core, ReadsHold
<1>7. GoneNoted' BY <1>1, <1>4 DEF Core, GoneNoted
<1>8. PagesRead' BY DEF Core, PagesRead
<1>9. RowsAside' BY <1>0, <1>1 DEF RowsAside
<1>10. Apart' BY <1>0, <1>1 DEF Apart
<1>11. HeldHasRow' BY <1>2, <1>3, <1>4 DEF Core, HeldHasRow, Coming
<1>12. RowHasFile'
  <2> SUFFICES ASSUME NEW c \in DOMAIN entries \ reported, ~entries[c].missing
               PROVE  \/ RowGood(c)' \/ Going(entries[c].at)' \/ (entries[c].at \in Files' /\ Noted(entries[c].at)')
                      \/ \E q : HeldAt(c, q)' /\ Noted(q)'
    BY DEF RowHasFile
  <2> PICK a : a = entries[c].at OBVIOUS
  <2>1. Beneath(a) BY <1>0
  <2>2. RowGood(c) \/ Going(a) \/ (a \in Files /\ Noted(a)) \/ \E q : HeldAt(c, q) /\ Noted(q)
    BY <2>1 DEF Core, RowHasFile
  <2>3. a \in Files => a \in Files' BY <2>1
  <2> QED BY <1>2, <1>3, <1>4, <2>2, <2>3
<1> QED BY <1>5, <1>6, <1>7, <1>8, <1>9, <1>10, <1>11, <1>12 DEF Core

LEMMA DestAside ==
  ASSUME FTyped, Calm, export.stage # "closed", NEW p, p.dir \in ExportDirs(Dialog)
  PROVE  ~Beneath(p)
<1>1. "export" \in errand[2] /\ Dialog \in errand[3] /\ wanted \subseteq RootDir
  BY DEF FTyped, ExportTyped, WatchTyped
<1>2. \A r \in wanted : ~IsBelow(p.dir, r) BY <1>1 DEF Calm, ExportsApart
<1> QED BY <1>2 DEF Beneath

LEMMA ExportsCore ==
  ASSUME FTyped, Calm, Core, ZipInDest, Exports
  PROVE  Core'
<1>0. /\ UNCHANGED <<errand, wanted, watching>>
      /\ OpenExportDialog \/ StartExport \/ ExportBegins \/ CopyFile \/ ZipFile \/ ExportFinished \/ CloseExportDialog
  BY DEF Exports
<1>1. DOMAIN entries \subseteq Book BY DEF Core, PagesRead
<1>2. "export" \in errand[2] => \A x \in Ran(export.todo) : x.book \in Book BY DEF Core, Apart
<1>3. export.stage # "closed" => "export" \in errand[2] BY DEF FTyped, ExportTyped
<1>4. ASSUME NEW p, NEW v, drive' = With(drive, p, v), ~Beneath(p)
      PROVE  \A q : Beneath(q) => (q \in Files <=> q \in Files') /\ (q \in Files => drive'[q] = drive[q])
  BY <1>4 DEF With, Files
<1>5. ASSUME UNCHANGED drive
      PROVE  \A q : Beneath(q) => (q \in Files <=> q \in Files') /\ (q \in Files => drive'[q] = drive[q])
  BY <1>5 DEF Files
<1>6. CASE OpenExportDialog
  <2>1. "export" \in errand[2] BY <1>6 DEF OpenExportDialog, Happens
  <2>2. Rest /\ UNCHANGED <<drive, events>> /\ export'.todo = <<>> BY <1>0, <1>6, OpenDoes
  <2> QED BY <1>5, <2>1, <2>2, Emptied, AsideCore
<1>7. CASE StartExport
  <2>1. /\ Rest /\ UNCHANGED <<drive, events>> /\ export.stage = "open"
        /\ \A x \in Ran(export'.todo) : x.book \in DOMAIN entries
    BY <1>0, <1>7, StartDoes
  <2>2. "export" \in errand[2] BY <1>3, <2>1
  <2> QED BY <1>1, <1>5, <2>1, <2>2, AsideCore
<1>8. CASE ExportBegins
  <2>1. /\ Rest /\ UNCHANGED events /\ export.stage = "begin" /\ Ran(export'.todo) \subseteq Ran(export.todo)
        /\ \/ UNCHANGED drive
           \/ drive' = With(drive, export'.zip, Junk) /\ export'.zip.dir = Dialog.dest
    BY <1>0, <1>8, BeginsDoes
  <2>2. "export" \in errand[2] BY <1>3, <2>1
  <2>3. \A q : Beneath(q) => (q \in Files <=> q \in Files') /\ (q \in Files => drive'[q] = drive[q])
    <3>1. CASE UNCHANGED drive BY <1>5, <3>1
    <3>2. CASE drive' = With(drive, export'.zip, Junk) /\ export'.zip.dir = Dialog.dest
      <4> PICK z : z = export'.zip OBVIOUS
      <4>1. z.dir \in ExportDirs(Dialog) BY <3>2 DEF ExportDirs
      <4>2. ~Beneath(z) BY <2>1, <4>1, DestAside
      <4> QED BY <1>4, <3>2, <4>2
    <3> QED BY <2>1, <3>1, <3>2
  <2> QED BY <1>2, <2>1, <2>2, <2>3, AsideCore
<1>9. CASE CopyFile
  <2>1. /\ Rest /\ export.stage = "copy" /\ export.todo # <<>> /\ Ran(export'.todo) \subseteq Ran(export.todo)
        /\ UNCHANGED <<drive, events>> \/ \E p : CopyMade(p)
    BY <1>0, <1>9, CopyDoes
  <2>2. "export" \in errand[2] BY <1>3, <2>1
  <2>3. CASE UNCHANGED <<drive, events>> BY <1>2, <1>5, <2>1, <2>2, <2>3, AsideCore
  <2>4. CASE \E p : CopyMade(p)
    <3> PICK p : CopyMade(p) BY <2>4
    <3>0. /\ p.dir = TargetDir(Entry)
          /\ drive' = With(drive, p, IF p = Entry.from THEN Junk ELSE drive[Entry.from])
          /\ IF Watched(p) THEN Tells(<<Created(p)>>) ELSE UNCHANGED events
      BY DEF CopyMade
    <3>1. Entry.book \in Book
      <4>1. Entry \in Ran(export.todo) BY <2>1, TailTaken DEF FTyped, ExportTyped, Entry
      <4> QED BY <1>2, <2>2, <4>1
    <3>2. p.dir \in ExportDirs(Dialog) BY <3>0, <3>1 DEF TargetDir, Shelves, ExportDirs
    <3>3. ~Beneath(p) BY <2>1, <3>2, DestAside
    <3>4. ~Watched(p)
      <4>1. watching \subseteq wanted BY DEF FTyped, WatchTyped
      <4> QED BY <3>3, <4>1 DEF Watched, Beneath
    <3>5. UNCHANGED events BY <3>0, <3>4
    <3> QED BY <1>2, <1>4, <2>1, <2>2, <3>0, <3>3, <3>5, AsideCore
  <2> QED BY <2>1, <2>3, <2>4
<1>10. CASE ZipFile
  <2>1. /\ Rest /\ UNCHANGED <<drive, events>> /\ export.stage = "copy" /\ Ran(export'.todo) \subseteq Ran(export.todo)
    BY <1>0, <1>10, ZipDoes
  <2>2. "export" \in errand[2] BY <1>3, <2>1
  <2> QED BY <1>2, <1>5, <2>1, <2>2, AsideCore
<1>11. CASE ExportFinished
  <2>1. /\ Rest /\ UNCHANGED events /\ export.stage = "copy" /\ export'.todo = export.todo
        /\ \/ Dialog.mode = "Zip" /\ drive' = With(drive, export.zip, Archive)
           \/ drive' = With(drive, SheetAt, Sheet)
           \/ drive' = drive
    BY <1>0, <1>11, FinishedDoes
  <2>2. "export" \in errand[2] BY <1>3, <2>1
  <2>3. \A q : Beneath(q) => (q \in Files <=> q \in Files') /\ (q \in Files => drive'[q] = drive[q])
    <3>1. CASE drive' = drive BY <1>5, <3>1
    <3>2. CASE Dialog.mode = "Zip" /\ drive' = With(drive, export.zip, Archive)
      <4>1. export.zip.dir \in ExportDirs(Dialog) BY <2>1, <3>2 DEF ExportDirs, ZipInDest
      <4>2. ~Beneath(export.zip) BY <2>1, <4>1, DestAside
      <4> QED BY <1>4, <3>2, <4>2
    <3>3. CASE drive' = With(drive, SheetAt, Sheet)
      <4>1. SheetAt.dir \in ExportDirs(Dialog) BY DEF ExportDirs, SheetAt, Spot
      <4>2. ~Beneath(SheetAt) BY <2>1, <4>1, DestAside
      <4> QED BY <1>4, <3>3, <4>2
    <3> QED BY <2>1, <3>1, <3>2, <3>3
  <2> QED BY <1>2, <2>1, <2>2, <2>3, AsideCore
<1>12. CASE CloseExportDialog
  <2>1. Rest /\ UNCHANGED <<drive, events>> /\ export'.todo = <<>> BY <1>0, <1>12, CloseDoes
  <2>2. export.stage \in {"open", "shown"} BY <1>12 DEF CloseExportDialog
  <2>3. "export" \in errand[2] BY <1>3, <2>2
  <2> QED BY <1>5, <2>1, <2>3, Emptied, AsideCore
<1> QED BY <1>0, <1>6, <1>7, <1>8, <1>9, <1>10, <1>11, <1>12

(* Every step keeps what is said of rows and files. *)
LEMMA CoreStep == FTyped /\ ZipInDest /\ (Calm => Core) /\ [FilesNext]_fileVars => (Calm => Core)'
<1> SUFFICES ASSUME FTyped, ZipInDest, Calm => Core, [FilesNext]_fileVars, Calm' PROVE Core' OBVIOUS
<1>0. UNCHANGED errand
  BY DEF FilesNext, fileVars, FilesChange, WatchStarts, LibraryWatchEvent, TaskGoesOn, Exports,
         ImportFolderSelected, ImportPdfSelected, RelinkFileSelected
<1>1. Calm BY <1>0 DEF Calm, ExportsApart
<1>2. Core BY <1>1
<1>3. CASE FilesChange BY <1>2, <1>3, ChangeCore
<1>4. CASE WatchStarts BY <1>2, <1>4, WatchCore
<1>5. CASE LibraryWatchEvent BY <1>2, <1>5, EventCore
<1>6. CASE TaskGoesOn
  <2>1. /\ UNCHANGED <<errand, wanted, watching, events, export>>
        /\ \E k \in DOMAIN tasks : ScanFolder(k) \/ Hash(k) \/ Insert(k) \/ SetMissing(k) \/ Relink(k)
    BY <1>6 DEF TaskGoesOn
  <2> QED BY <1>2, <2>1, ScanCore, HashCore, InsertCore, MissingCore, RelinkCore
<1>7. CASE Exports BY <1>1, <1>2, <1>7, ExportsCore
<1>8. CASE \E r \in RootDir : ImportFolderSelected(r) BY <1>2, <1>8, FolderCore
<1>9. CASE \E p \in Files : ImportPdfSelected(p) BY <1>1, <1>2, <1>9, PdfCore
<1>10. CASE \E p \in Files, c \in DOMAIN entries : RelinkFileSelected(c, p) BY <1>1, <1>2, <1>10, ChosenCore
<1>11. CASE UNCHANGED fileVars
  <2>1. UNCHANGED <<errand, drive, entries, pages, wanted, watching, events, tasks, reported, export>>
    BY <1>11 DEF fileVars
  <2>2. GoingKept /\ NotedKept /\ ScannedKept
    BY <2>1 DEF GoingKept, NotedKept, ScannedKept, Going, Noted, Scanned, Coming
  <2>3. EventsBeneath' /\ ReadsHold' /\ Apart'
    BY <1>2, <2>1 DEF Core, EventsBeneath, ReadsHold, Apart, Beneath, Files
  <2> QED BY <1>2, <2>1, <2>2, <2>3, TasksCore
<1> QED BY <1>3, <1>4, <1>5, <1>6, <1>7, <1>8, <1>9, <1>10, <1>11 DEF FilesNext

(* What happens elsewhere. *)
LEMMA ElsewhereKept ==
  ASSUME ExportOK, UNCHANGED export, \A p : Watched(p) => Watched(p)',
         \A p : (~Watched(p)' /\ p \in Files) => p \in Files' /\ drive'[p] = drive[p]
  PROVE  ExportOK'
<1>1. UNCHANGED Dialog /\ UNCHANGED SheetAt BY DEF Dialog, SheetAt
<1>2. \A p : Left(p)' => Left(p) /\ ~Watched(p)' BY <1>1 DEF Left
<1>3. ZipInDest' BY <1>1 DEF ExportOK, ZipInDest
<1>4. MadeApart => MadeApart' BY <1>1, <1>2 DEF MadeApart
<1>5. MadeHeld => MadeHeld' BY <1>1, <1>2 DEF MadeHeld
<1>6. BeforeHeld => BeforeHeld' BY <1>1, <1>2 DEF BeforeHeld
<1>7. ZipNew => ZipNew' BY <1>1, <1>2 DEF ZipNew
<1>8. ExportKept' BY <1>1, <1>4, <1>5, <1>6, <1>7 DEF ExportOK, ExportKept
<1> QED BY <1>3, <1>8 DEF ExportOK

LEMMA QuietKept ==
  ASSUME FTyped, ExportOK, UNCHANGED <<export, drive>>, watching \subseteq watching'
  PROVE  ExportOK'
<1>1. \A p : Watched(p) => Watched(p)' BY DEF Watched
<1>2. \A p : (~Watched(p)' /\ p \in Files) => p \in Files' /\ drive'[p] = drive[p] BY DEF Files
<1> QED BY <1>1, <1>2, ElsewhereKept

LEMMA ChangeKept ==
  ASSUME FTyped, ExportOK, FilesChange
  PROVE  ExportOK'
<1>1. UNCHANGED <<watching, export>> BY DEF FilesChange
<1>2. \A p : Watched(p) <=> Watched(p)' BY <1>1 DEF Watched
<1>3. PICK X : Touches(X) BY ChangeTouches
<1>4. \A p : (~Watched(p)' /\ p \in Files) => p \in Files' /\ drive'[p] = drive[p] BY <1>2, <1>3 DEF Touches
<1> QED BY <1>1, <1>2, <1>4, ElsewhereKept

LEMMA ExportsKept ==
  ASSUME FTyped, ExportOK, Exports
  PROVE  ExportOK'
<1>0. /\ UNCHANGED <<errand, wanted, watching>>
      /\ OpenExportDialog \/ StartExport \/ ExportBegins \/ CopyFile \/ ZipFile \/ ExportFinished \/ CloseExportDialog
  BY DEF Exports
<1>1. \A p : Watched(p) <=> Watched(p)' BY <1>0 DEF Watched
<1>2. ASSUME export'.dialog = export.dialog
      PROVE  UNCHANGED Dialog /\ \A p : Left(p) <=> Left(p)'
  <2>1. UNCHANGED Dialog BY <1>2 DEF Dialog
  <2>2. UNCHANGED SheetAt BY <2>1 DEF SheetAt
  <2> QED BY <1>1, <2>1, <2>2 DEF Left
<1>3. ASSUME export'.stage \in {"open", "closed"} PROVE ExportOK'
  BY <1>3 DEF ExportOK, ZipInDest, ExportKept
<1>4. CASE OpenExportDialog BY <1>0, <1>3, <1>4, OpenDoes
<1>5. CASE CloseExportDialog BY <1>0, <1>3, <1>5, CloseDoes
<1>6. ASSUME export'.made = <<>> PROVE MadeApart' /\ MadeHeld'
  <2>1. DOMAIN export'.made = {} BY <1>6
  <2> QED BY <2>1 DEF MadeApart, MadeHeld
<1>7. CASE StartExport
  <2>1. UNCHANGED drive /\ export'.stage = "begin" /\ export'.made = <<>> /\ export'.before = drive
    BY <1>0, <1>7, StartDoes
  <2>2. BeforeHeld' BY <2>1 DEF BeforeHeld, Files
  <2>3. ZipNew' /\ ZipInDest' BY <2>1 DEF ZipNew, ZipInDest
  <2> QED BY <1>6, <2>1, <2>2, <2>3 DEF ExportOK, ExportKept
<1>8. CASE ExportBegins
  <2>1. /\ export.stage = "begin" /\ export'.dialog = export.dialog /\ export'.made = <<>>
        /\ \/ export'.stage = "open"
           \/ UNCHANGED drive /\ export'.stage = "copy" /\ export'.before = export.before /\ Dialog.mode # "Zip"
           \/ /\ export'.stage = "copy" /\ export'.before = export.before
              /\ drive' = With(drive, export'.zip, Junk) /\ export'.zip.dir = Dialog.dest
              /\ Dialog.conflict # "Overwrite" => export'.zip \notin Files
    BY <1>0, <1>8, BeginsDoes
  <2>2. UNCHANGED Dialog /\ \A p : Left(p) <=> Left(p)' BY <1>2, <2>1
  <2>3. CASE export'.stage = "open" BY <1>3, <2>3
  <2>4. CASE UNCHANGED drive /\ export'.stage = "copy" /\ export'.before = export.before /\ Dialog.mode # "Zip"
    <3>1. BeforeHeld => BeforeHeld' BY <2>2, <2>4 DEF BeforeHeld, Files
    <3>2. ZipNew' /\ ZipInDest' BY <2>2, <2>4 DEF ZipNew, ZipInDest
    <3> QED BY <1>6, <2>1, <2>2, <3>1, <3>2 DEF ExportOK, ExportKept
  <2>5. CASE /\ export'.stage = "copy" /\ export'.before = export.before
             /\ drive' = With(drive, export'.zip, Junk) /\ export'.zip.dir = Dialog.dest
             /\ Dialog.conflict # "Overwrite" => export'.zip \notin Files
    <3> PICK z : z = export'.zip OBVIOUS
    <3>1. ZipInDest' BY <2>2, <2>5 DEF ZipInDest
    <3>2. ASSUME BeforeHeld, z \notin Files PROVE BeforeHeld' /\ ZipNew'
      <4>1. \A p : p \in Files => p \in Files' /\ drive'[p] = drive[p] BY <2>5, <3>2 DEF With, Files
      <4>2. BeforeHeld' BY <2>2, <2>5, <3>2, <4>1 DEF BeforeHeld
      <4>3. ZipNew' BY <2>2, <2>5, <3>2 DEF BeforeHeld, ZipNew
      <4> QED BY <4>2, <4>3
    <3>3. Dialog.conflict # "Overwrite" => BeforeHeld /\ z \notin Files
      BY <2>1, <2>5 DEF ExportOK, ExportKept
    <3> QED BY <1>6, <2>1, <2>2, <3>1, <3>2, <3>3 DEF ExportOK, ExportKept
  <2> QED BY <2>1, <2>3, <2>4, <2>5
<1>9. ASSUME NEW p, export.stage = "copy", export'.stage = "copy", export'.dialog = export.dialog,
             export'.made = Append(export.made, MadeOf(p)), Dialog.conflict # "Overwrite",
             \A i \in DOMAIN export.made : export.made[i].to = p => Dialog.mode # "Zip" /\ ~Left(p)
      PROVE  MadeApart'
  <2> PICK m : m = export.made OBVIOUS
  <2> PICK n : n = export'.made OBVIOUS
  <2>0. UNCHANGED Dialog /\ \A q : Left(q) <=> Left(q)' BY <1>2, <1>9
  <2>1. /\ Len(m) \in Nat /\ DOMAIN m = 1 .. Len(m)
        /\ DOMAIN n = 1 .. Len(m) + 1 /\ n[Len(m) + 1] = MadeOf(p)
        /\ \A i \in DOMAIN m : n[i] = m[i]
    BY <1>9, Appended DEF FTyped, ExportTyped
  <2>2. MadeOf(p).to = p BY DEF MadeOf
  <2>3. MadeApart BY <1>9 DEF ExportOK, ExportKept
  <2>4. \A i \in DOMAIN n : i \in DOMAIN m \/ i = Len(m) + 1 BY <2>1
  <2> SUFFICES ASSUME NEW i \in DOMAIN n, NEW j \in DOMAIN n, n[i].to = n[j].to, i # j
               PROVE  Dialog.mode # "Zip" /\ ~Left(n[i].to)
    BY <2>0 DEF MadeApart
  <2>5. CASE i \in DOMAIN m /\ j \in DOMAIN m BY <2>1, <2>3, <2>5 DEF MadeApart
  <2>6. CASE i \in DOMAIN m /\ j = Len(m) + 1
    <3>1. n[i] = m[i] /\ n[j].to = p BY <2>1, <2>2, <2>6
    <3> QED BY <1>9, <2>6, <3>1
  <2>7. CASE j \in DOMAIN m /\ i = Len(m) + 1
    <3>1. n[j] = m[j] /\ n[i].to = p BY <2>1, <2>2, <2>7
    <3> QED BY <1>9, <2>7, <3>1
  <2> QED BY <2>4, <2>5, <2>6, <2>7
<1>10. CASE CopyFile
  <2>1. /\ Rest /\ export.stage = "copy" /\ export.todo # <<>> /\ Dialog.mode # "Zip"
        /\ export'.stage = "copy" /\ export'.dialog = export.dialog /\ export'.before = export.before
        /\ Ran(export'.todo) \subseteq Ran(export.todo)
        /\ \/ UNCHANGED <<drive, events>> /\ export'.made = export.made
           \/ \E p : CopyMade(p)
        /\ FTyped'
    BY <1>0, <1>10, CopyDoes, Zenon
  <2>2. UNCHANGED Dialog /\ \A p : Left(p) <=> Left(p)' BY <1>2, <2>1
  <2>3. ZipInDest' /\ ZipNew' BY <2>1, <2>2 DEF ZipInDest, ZipNew
  <2> SUFFICES ASSUME Dialog.conflict # "Overwrite" PROVE MadeApart' /\ MadeHeld' /\ BeforeHeld'
    BY <2>2, <2>3 DEF ExportOK, ExportKept
  <2>4. MadeApart /\ MadeHeld /\ BeforeHeld BY <2>1 DEF ExportOK, ExportKept
  <2>5. CASE UNCHANGED <<drive, events>> /\ export'.made = export.made
    <3>1. MadeApart' BY <2>2, <2>4, <2>5 DEF MadeApart
    <3>2. MadeHeld' BY <2>2, <2>4, <2>5 DEF MadeHeld, Files
    <3>3. BeforeHeld' BY <2>1, <2>2, <2>4, <2>5 DEF BeforeHeld, Files
    <3> QED BY <3>1, <3>2, <3>3
  <2>6. CASE \E p : CopyMade(p)
    <3> PICK p : CopyMade(p) BY <2>6
    <3>0. /\ (Dialog.conflict # "Overwrite" => p \notin Files)
          /\ drive' = With(drive, p, IF p = Entry.from THEN Junk ELSE drive[Entry.from])
          /\ Entry.from \in Files
          /\ export'.made = Append(export.made, MadeOf(p))
      BY DEF CopyMade
    <3>1. p \notin Files /\ p # Entry.from BY <3>0
    <3>2. \A q : q \in Files => q \in Files' /\ drive'[q] = drive[q] BY <3>0, <3>1 DEF With, Files
    <3>3. p \in Files' /\ drive'[p] = drive[Entry.from] BY <3>0, <3>1 DEF With, Files
    <3>4. BeforeHeld' BY <2>1, <2>2, <2>4, <3>2 DEF BeforeHeld
    <3>5. \A i \in DOMAIN export.made : export.made[i].to = p => Dialog.mode # "Zip" /\ ~Left(p)
      BY <2>1, <2>4, <3>1 DEF MadeHeld
    <3>6. MadeApart' BY <3>0, <1>9, <2>1, <3>5
    <3>7. MadeHeld'
      <4> PICK m : m = export.made OBVIOUS
      <4> PICK n : n = export'.made OBVIOUS
      <4>1. /\ Len(m) \in Nat /\ DOMAIN m = 1 .. Len(m)
            /\ DOMAIN n = 1 .. Len(m) + 1 /\ n[Len(m) + 1] = MadeOf(p)
            /\ \A i \in DOMAIN m : n[i] = m[i]
        BY <3>0, Appended DEF FTyped, ExportTyped
      <4>2. MadeOf(p).to = p /\ MadeOf(p).holds = drive[Entry.from] BY DEF MadeOf
      <4> SUFFICES ASSUME NEW i \in DOMAIN n, Left(n[i].to)
                   PROVE  n[i].to \in Files' /\ drive'[n[i].to] = n[i].holds
        BY <2>2 DEF MadeHeld
      <4>3. CASE i \in DOMAIN m
        <5>1. n[i] = m[i] /\ Left(m[i].to) BY <4>1, <4>3
        <5>2. m[i].to \in Files /\ drive[m[i].to] = m[i].holds BY <2>1, <2>4, <4>3, <5>1 DEF MadeHeld
        <5> QED BY <3>2, <5>1, <5>2
      <4>4. CASE i = Len(m) + 1 BY <3>3, <4>1, <4>2, <4>4
      <4> QED BY <4>1, <4>3, <4>4
    <3> QED BY <3>4, <3>6, <3>7
  <2> QED BY <2>1, <2>5, <2>6
<1>11. CASE ZipFile
  <2>1. /\ export.stage = "copy" /\ Dialog.mode = "Zip" /\ UNCHANGED drive
        /\ export'.stage = "copy" /\ export'.dialog = export.dialog /\ export'.before = export.before
        /\ export'.zip = export.zip
        /\ \/ export'.made = export.made
           \/ \E p : p \notin Taken /\ export'.made = Append(export.made, MadeOf(p))
    BY <1>0, <1>11, ZipDoes
  <2>2. UNCHANGED Dialog /\ \A p : Left(p) <=> Left(p)' BY <1>2, <2>1
  <2>3. ZipInDest' BY <2>1, <2>2 DEF ExportOK, ZipInDest
  <2> SUFFICES ASSUME Dialog.conflict # "Overwrite" PROVE MadeApart' /\ MadeHeld' /\ BeforeHeld' /\ ZipNew'
    BY <2>2, <2>3 DEF ExportOK, ExportKept
  <2>4. MadeApart /\ BeforeHeld /\ ZipNew BY <2>1 DEF ExportOK, ExportKept
  <2>5. MadeHeld' BY <2>1, <2>2 DEF MadeHeld
  <2>6. BeforeHeld' BY <2>1, <2>2, <2>4 DEF BeforeHeld, Files
  <2>7. ZipNew' BY <2>1, <2>2, <2>4 DEF ZipNew
  <2>8. MadeApart'
    <3>1. CASE export'.made = export.made BY <2>2, <2>4, <3>1 DEF MadeApart
    <3>2. CASE \E p : p \notin Taken /\ export'.made = Append(export.made, MadeOf(p))
      <4> PICK p : p \notin Taken /\ export'.made = Append(export.made, MadeOf(p)) BY <3>2
      <4>1. \A i \in DOMAIN export.made : export.made[i].to # p BY DEF Taken
      <4> QED BY <1>9, <2>1, <4>1
    <3> QED BY <2>1, <3>1, <3>2
  <2> QED BY <2>5, <2>6, <2>7, <2>8
<1>12. CASE ExportFinished
  <2>1. /\ export.stage = "copy" /\ export'.stage = "shown"
        /\ export'.dialog = export.dialog /\ export'.before = export.before /\ export'.made = export.made
        /\ \/ Dialog.mode = "Zip" /\ drive' = With(drive, export.zip, Archive)
           \/ Dialog.mode # "Zip" /\ drive' = With(drive, SheetAt, Sheet)
           \/ Dialog.mode # "Zip" /\ drive' = drive
    BY <1>0, <1>12, FinishedDoes
  <2>2. UNCHANGED Dialog /\ \A p : Left(p) <=> Left(p)' BY <1>2, <2>1
  <2>3. ZipInDest' /\ ZipNew' BY <2>1 DEF ZipInDest, ZipNew
  <2> SUFFICES ASSUME Dialog.conflict # "Overwrite" PROVE MadeApart' /\ MadeHeld' /\ BeforeHeld'
    BY <2>2, <2>3 DEF ExportOK, ExportKept
  <2>4. MadeApart /\ MadeHeld /\ BeforeHeld /\ ZipNew BY <2>1 DEF ExportOK, ExportKept
  <2>5. MadeApart' BY <2>1, <2>2, <2>4 DEF MadeApart
  <2>6. CASE Dialog.mode = "Zip" /\ drive' = With(drive, export.zip, Archive)
    <3>1. MadeHeld' BY <2>2, <2>6 DEF MadeHeld
    <3>2. \A q : (q \in Files /\ q # export.zip) => q \in Files' /\ drive'[q] = drive[q] BY <2>6 DEF With, Files
    <3>3. BeforeHeld' BY <2>1, <2>2, <2>4, <2>6, <3>2 DEF BeforeHeld, ZipNew
    <3> QED BY <2>5, <3>1, <3>3
  <2>7. CASE Dialog.mode # "Zip" /\ drive' \in {drive, With(drive, SheetAt, Sheet)}
    <3>1. \A q : (q \in Files /\ Left(q)) => q \in Files' /\ drive'[q] = drive[q]
      <4>1. CASE drive' = drive BY <4>1 DEF Files
      <4>2. CASE drive' = With(drive, SheetAt, Sheet) BY <4>2 DEF With, Files, Left
      <4> QED BY <2>7, <4>1, <4>2
    <3>2. MadeHeld' BY <2>1, <2>2, <2>4, <2>7, <3>1 DEF MadeHeld
    <3>3. BeforeHeld' BY <2>1, <2>2, <2>4, <3>1 DEF BeforeHeld
    <3> QED BY <2>5, <3>2, <3>3
  <2> QED BY <2>1, <2>6, <2>7
<1> QED BY <1>0, <1>4, <1>5, <1>7, <1>8, <1>10, <1>11, <1>12

(* Every step keeps what is said of exports. *)
LEMMA ExportStep == FTyped /\ ExportOK /\ [FilesNext]_fileVars => ExportOK'
<1> SUFFICES ASSUME FTyped, ExportOK, [FilesNext]_fileVars PROVE ExportOK' OBVIOUS
<1>0. watching \subseteq wanted BY DEF FTyped, WatchTyped
<1>1. CASE FilesChange BY <1>1, ChangeKept
<1>2. CASE Exports BY <1>2, ExportsKept
<1>3. CASE WatchStarts
  <2>1. UNCHANGED <<export, drive>> /\ watching' = wanted BY <1>3 DEF WatchStarts
  <2> QED BY <1>0, <2>1, QuietKept
<1>4. CASE LibraryWatchEvent
  <2>1. UNCHANGED <<export, drive, watching>> BY <1>4 DEF LibraryWatchEvent
  <2> QED BY <2>1, QuietKept
<1>5. CASE TaskGoesOn
  <2>1. UNCHANGED <<export, watching, wanted>>
        /\ \E k \in DOMAIN tasks : ScanFolder(k) \/ Hash(k) \/ Insert(k) \/ SetMissing(k) \/ Relink(k)
    BY <1>5 DEF TaskGoesOn
  <2>2. UNCHANGED drive BY <2>1 DEF ScanFolder, Hash, Insert, SetMissing, Relink
  <2> QED BY <2>1, <2>2, QuietKept
<1>6. CASE \E r \in RootDir : ImportFolderSelected(r)
  <2>1. UNCHANGED <<export, drive, watching>> BY <1>6 DEF ImportFolderSelected
  <2> QED BY <2>1, QuietKept
<1>7. CASE \E p \in Files : ImportPdfSelected(p) \/ \E c \in DOMAIN entries : RelinkFileSelected(c, p)
  <2>1. UNCHANGED <<export, drive, watching>> BY <1>7 DEF ImportPdfSelected, RelinkFileSelected
  <2> QED BY <2>1, QuietKept
<1>8. CASE UNCHANGED fileVars
  <2>1. UNCHANGED <<export, drive, watching>> BY <1>8 DEF fileVars
  <2> QED BY <2>1, QuietKept
<1> QED BY <1>1, <1>2, <1>3, <1>4, <1>5, <1>6, <1>7, <1>8 DEF FilesNext

(* The invariant of the files, which is inductive, and says what FilesKept does. *)
LEMMA FilesInvInit == FilesInit => FilesInv
<1> SUFFICES ASSUME FilesInit PROVE FilesInv OBVIOUS
<1>1. FTyped BY FTypedInit
<1>2. entries = <<>> /\ wanted = {} /\ watching = {} /\ events = <<>> /\ tasks = <<>> /\ export = NoExport
  BY DEF FilesInit
<1>3. DOMAIN entries = {} /\ export.stage = "closed" /\ export.todo = <<>> BY <1>2 DEF NoExport
<1>4. Ran(events) = {} /\ Ran(tasks) = {} /\ Ran(export.todo) = {} BY <1>2, <1>3, Emptied
<1>5. \A p : ~Beneath(p) /\ ~Noted(p) /\ ~Going(p) BY <1>2, <1>4 DEF Beneath, Noted, Going
<1>6. Core
  <2>1. EventsBeneath BY <1>2, <1>4 DEF EventsBeneath
  <2>2. ReadsHold BY <1>4 DEF ReadsHold
  <2>3. GoneNoted BY <1>5 DEF GoneNoted
  <2>4. PagesRead /\ RowsAside /\ RowHasFile BY <1>3 DEF PagesRead, RowsAside, RowHasFile
  <2>5. Apart BY <1>3, <1>4 DEF Apart
  <2>6. HeldHasRow BY <1>5 DEF HeldHasRow, HeldAt
  <2> QED BY <2>1, <2>2, <2>3, <2>4, <2>5, <2>6 DEF Core
<1>7. ExportOK BY <1>3 DEF ExportOK, ZipInDest, ExportKept
<1> QED BY <1>1, <1>6, <1>7 DEF FilesInv

LEMMA FilesInvStep == FilesInv /\ [FilesNext]_fileVars => FilesInv'
BY FTypedStep, CoreStep, ExportStep DEF FilesInv, ExportOK

LEMMA FilesInvMeans == FilesInv => FilesTypeOK /\ FilesKept
<1> SUFFICES ASSUME FilesInv PROVE FilesTypeOK /\ FilesKept OBVIOUS
<1>1. FilesTypeOK
  BY DEF FilesInv, FTyped, ErrandTyped, DiskTyped, RowsTyped, WatchTyped, FilesTypeOK
<1>2. WatchSettles
  <2> SUFFICES ASSUME Settled, Calm, NEW c \in Book \ reported
               PROVE  IF \E p \in Files : drive[p] = c /\ Watched(p) THEN Found(c)
                      ELSE c \in DOMAIN entries /\ Watched(entries[c].at) => entries[c].missing
    BY DEF WatchSettles, Calm
  <2>1. events = <<>> /\ tasks = <<>> /\ watching = wanted BY DEF Settled
  <2>2. Ran(events) = {} /\ Ran(tasks) = {} BY <2>1, Emptied
  <2>3. \A p : ~Noted(p) /\ ~Going(p) /\ ~Coming(p) BY <2>2 DEF Noted, Going, Coming, Scanned
  <2>4. \A p : Watched(p) <=> Beneath(p) BY <2>1 DEF Watched, Beneath
  <2>5. Core BY DEF FilesInv
  <2>6. CASE \E p \in Files : drive[p] = c /\ Watched(p)
    <3>1. \E p : HeldAt(c, p) BY <2>4, <2>6 DEF HeldAt
    <3>2. RowGood(c) BY <2>3, <2>5, <3>1 DEF Core, HeldHasRow
    <3>3. c \in DOMAIN pages /\ pages[c] = c BY <2>5, <3>2 DEF Core, PagesRead, RowGood
    <3>4. Found(c) BY <3>2, <3>3 DEF Found, RowGood
    <3> QED BY <2>6, <3>4
  <2>7. CASE ~\E p \in Files : drive[p] = c /\ Watched(p)
    <3> SUFFICES ASSUME c \in DOMAIN entries, Watched(entries[c].at), ~entries[c].missing PROVE FALSE
      BY <2>7
    <3>1. Beneath(entries[c].at) BY <2>4
    <3>2. RowGood(c) BY <2>3, <2>5, <3>1 DEF Core, RowHasFile
    <3> QED BY <2>7, <3>2 DEF RowGood
  <2> QED BY <2>6, <2>7
<1>3. ExportFaithful
  BY DEF FilesInv, ExportOK, ExportKept, MadeApart, MadeHeld, BeforeHeld, ExportFaithful
<1> QED BY <1>1, <1>2, <1>3 DEF FilesKept

LEMMA FilesHold == FilesSpec => [](FilesTypeOK /\ FilesKept)
<1>1. FilesInit => FilesInv BY FilesInvInit
<1>2. FilesInv /\ [FilesNext]_fileVars => FilesInv' BY FilesInvStep
<1>3. FilesInv => FilesTypeOK /\ FilesKept BY FilesInvMeans
<1> QED BY <1>1, <1>2, <1>3, PTL DEF FilesSpec
-----------------------------------------------------------------------------
(* The variables of signing in, of the session and of the files have their types: every moment, *)
(* attempt and nonce is within its bound, the session in the file is one, none at all, or        *)
(* garbled, no more writes of it wait than the app can have begun, and no two rows of the        *)
(* library have one path.                                                                        *)
THEOREM ServicesTyped == ServicesSpec => [](SignInTypeOK /\ SessionTypeOK /\ FilesTypeOK)
<1>1. SessionInv => SessionTypeOK BY DEF SessionInv
<1> QED BY <1>1, SignsAlone, RestoresAlone, FilesAlone, SignInTypes, SessionInvHolds, FilesHold, PTL

(* The app is signed in only as the account it is locked to, and a process takes only the answer *)
(* of a tab that it opened itself (handle_sign_in_finished, validate_callback).                   *)
THEOREM SignedInAsMeantHolds == ServicesSpec => SignedInAsMeant
BY SignsAlone, SignedInAsMeantAlone

(* Signing in again helps: a pass with a session younger than the last change of the settings of *)
(* the server gets through, whatever tokens were cached before.                                   *)
THEOREM SignInHealsHolds == ServicesSpec => SignInHeals
BY SignsAlone, SignInHealsAlone

(* What was on the screen when the app quit, its writes done, is on the screen again once it is   *)
(* started and has loaded what it asked for; and nobody who goes to the library is taken back.    *)
THEOREM SessionKeptHolds == ServicesSpec => SessionKept
BY RestoresAlone, SessionKeptAlone

(* When what the watcher told is handled, a PDF in a watched folder has a row with the path of a  *)
(* file that holds it, and one that has gone is marked missing; and an export that does not        *)
(* overwrite leaves alone what there was and writes each PDF of its own.                           *)
THEOREM FilesKeptHolds == ServicesSpec => []FilesKept
BY FilesAlone, FilesHold, PTL
=============================================================================
