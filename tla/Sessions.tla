------------------------------ MODULE Sessions -------------------------------
(* One browser's session: the rotation of its refresh token on the server     *)
(* (backend/src/auth/auth.service.ts) and the two HTTP clients of a page,     *)
(* services/http.ts and lib/api.ts, that ask for it when a request is refused.*)
(* The account is signed in on another device as well: its token is the       *)
(* first one.  An access token is named after the refresh token minted with   *)
(* it.                                                                        *)
EXTENDS Integers, Sequences

CONSTANTS
  Client,       \* of {"http", "api"}: what pages send their requests through
  Request,      \* requests the page makes
  MaxVisits,    \* bound on page loads and sign-ins
  MaxLost       \* bound on refreshes that are lost

ASSUME SessionsAssumption ==
  Client \subseteq {"http", "api"} /\ MaxVisits \in Nat /\ MaxLost \in Nat

VARIABLES
  tokens,       \* refresh_tokens, in order of creation
  jar,          \* the token in the browser's cookie
  access,       \* the access token in lib/token-store.ts
  expired,      \* access tokens up to this one have expired
  signedIn,     \* useAuthStore's isAuthenticated
  flight,       \* the refresh each client has in flight
  leaving,      \* the cookie a sign-out in flight carries
  req,          \* the page's requests
  visits, lost,
  crossed       \* something else of the browser's crossed a refresh

sessionVars == <<tokens, jar, access, expired, signedIn, flight, leaving, req,
                 visits, lost, crossed>>
serverVars  == <<jar, access, expired, signedIn, leaving, req, visits,
                 lost, crossed>>

None  == 0
Other == 1      \* the other device's token
Refresher == Client \cup {"mount"}
Landed   == [step |-> "none", token |-> None]
Sent(c, bearer, retried) ==
  [step |-> "sent", client |-> c, bearer |-> bearer, retried |-> retried]
Unsent == Sent("http", None, FALSE)

SessionsTypeOK ==
  /\ tokens \in Seq({"ACTIVE", "REVOKED", "LAPSED"}) /\ Len(tokens) >= 1
  /\ jar \in 0 .. Len(tokens) /\ leaving \in 0 .. Len(tokens)
  /\ access \in 0 .. Len(tokens) /\ expired \in 0 .. Len(tokens)
  /\ signedIn \in BOOLEAN
  /\ flight \in [Refresher ->
                   [step : {"none", "find", "alarm", "revoke", "mint",
                            "answer", "refused"},
                    token : 0 .. Len(tokens)]]
  /\ req \in [Request ->
                [step : {"idle", "sent", "waiting", "done", "failed"},
                 client : Client \cup {"http"}, bearer : 0 .. Len(tokens),
                 retried : BOOLEAN]]
  /\ visits \in 0 .. MaxVisits /\ lost \in 0 .. MaxLost /\ crossed \in BOOLEAN

(* A visitor who comes back: the cookie is there, the access token may be.    *)
SessionsInit ==
  /\ tokens = <<"ACTIVE", "ACTIVE">>
  /\ jar = 2 /\ leaving = None
  /\ access \in {None, 2} /\ expired \in {1, 2}
  /\ signedIn = (access # None)
  /\ flight = [c \in Refresher |-> Landed]
  /\ req = [r \in Request |-> [Unsent EXCEPT !.step = "idle"]]
  /\ visits = 0 /\ lost = 0 /\ crossed = FALSE

InFlight == {c \in Refresher : flight[c] # Landed}
Takeoff(c) == [flight EXCEPT ![c] = [step |-> "find", token |-> jar]]
Quiet == InFlight = {} /\ leaving = None

(* A page load, sign-in or sign-out with a refresh or sign-out in the air, or *)
(* a refresh with a sign-out in the air.                                      *)
Crosses == crossed' = (crossed \/ ~Quiet)

------------------------------------------------------------------------------
(* The page.  A request carries the access token of the moment it is sent.    *)
Ask(r, c) ==
  /\ req[r].step = "idle"
  /\ req' = [req EXCEPT ![r] = Sent(c, access, FALSE)]
  /\ UNCHANGED <<tokens, jar, access, expired, signedIn, flight, leaving,
                 visits, lost, crossed>>

(* jwt.strategy.ts: the signature and the expiry, nothing in the database.    *)
Valid(bearer) == bearer > expired

Answered(r) ==
  /\ req[r].step = "sent" /\ Valid(req[r].bearer)
  /\ req' = [req EXCEPT ![r].step = "done"]
  /\ UNCHANGED <<tokens, jar, access, expired, signedIn, flight, leaving,
                 visits, lost, crossed>>

(* A 401 is retried once, after a refresh the client's other requests share.  *)
(* http.ts does not refresh for a request that carried no token.              *)
Retries(q) == ~q.retried /\ (q.client = "http" => q.bearer # None)
Refused401(r) ==
  LET q == req[r] IN
  /\ q.step = "sent" /\ ~Valid(q.bearer)
  /\ req' = [req EXCEPT ![r].step = IF Retries(q) THEN "waiting" ELSE "failed"]
  /\ flight' = IF Retries(q) /\ flight[q.client] = Landed
               THEN Takeoff(q.client) ELSE flight
  /\ crossed' = (crossed \/ (Retries(q) /\ leaving # None))
  /\ UNCHANGED <<tokens, jar, access, expired, signedIn, leaving, visits, lost>>

(* A page load without an access token: useAuthStore.loadUser.                *)
Mount ==
  /\ access = None /\ flight["mount"] = Landed /\ visits < MaxVisits
  /\ Crosses
  /\ visits' = visits + 1
  /\ flight' = Takeoff("mount")
  /\ UNCHANGED <<tokens, jar, access, expired, signedIn, leaving, req, lost>>

------------------------------------------------------------------------------
(* AuthService.refresh: four statements, no transaction.                      *)
FoundAs(status) ==
  CASE status = "REVOKED" -> "alarm"
    [] status = "LAPSED"  -> "refused"
    [] status = "ACTIVE"  -> "revoke"

Find(c) ==
  LET token == flight[c].token IN
  /\ flight[c].step = "find"
  /\ flight' = [flight EXCEPT ![c].step =
                  IF token = None THEN "refused" ELSE FoundAs(tokens[token])]
  /\ UNCHANGED <<tokens, serverVars>>

(* Reuse of a revoked token: every token of the user is revoked.              *)
Alarm(c) ==
  /\ flight[c].step = "alarm"
  /\ tokens' = [t \in DOMAIN tokens |-> "REVOKED"]
  /\ flight' = [flight EXCEPT ![c].step = "refused"]
  /\ UNCHANGED serverVars

Revoke(c) ==
  /\ flight[c].step = "revoke"
  /\ tokens' = [tokens EXCEPT ![flight[c].token] = "REVOKED"]
  /\ flight' = [flight EXCEPT ![c].step = "mint"]
  /\ UNCHANGED serverVars

Mint(c) ==
  /\ flight[c].step = "mint"
  /\ tokens' = Append(tokens, "ACTIVE")
  /\ flight' = [flight EXCEPT ![c] =
                  [step |-> "answer", token |-> Len(tokens) + 1]]
  /\ UNCHANGED serverVars

------------------------------------------------------------------------------
(* What the client makes of the answer.                                       *)
WaitingOn(c) == {r \in Request : req[r].step = "waiting" /\ req[r].client = c}

KeepsOldCookie(token) == jar
SetRefreshCookie(token) == token

Refreshed(c) ==
  LET new == flight[c].token IN
  /\ flight[c].step = "answer"
  /\ jar' = SetRefreshCookie(new)
  /\ access' = new
  /\ signedIn' = (signedIn \/ c = "mount")
  /\ req' = [r \in Request |-> IF r \in WaitingOn(c) THEN Sent(c, new, TRUE)
                                                     ELSE req[r]]
  /\ flight' = [flight EXCEPT ![c] = Landed]
  /\ UNCHANGED <<tokens, expired, leaving, visits, lost, crossed>>

(* http.ts clears the session, api.ts only the token, loadUser neither.       *)
NobodyIsTold(c) == {}
Told(c) == WaitingOn(c)
SignsOut(c) ==
  /\ access' = IF c = "mount" THEN access ELSE None
  /\ signedIn' = CASE c = "http"  -> FALSE
                   [] c = "api"   -> signedIn
                   [] c = "mount" -> access # None
  /\ req' = [r \in Request |->
               IF r \in Told(c) THEN [req[r] EXCEPT !.step = "failed"]
                                ELSE req[r]]
  /\ flight' = [flight EXCEPT ![c] = Landed]

RefreshFailed(c) ==
  /\ flight[c].step = "refused"
  /\ SignsOut(c)
  /\ UNCHANGED <<tokens, jar, expired, leaving, visits, lost, crossed>>

(* The process restarts, or the answer is lost, whatever was done by then.    *)
Lose(c) ==
  /\ flight[c] # Landed /\ lost < MaxLost
  /\ lost' = lost + 1
  /\ SignsOut(c)
  /\ UNCHANGED <<tokens, jar, expired, leaving, visits, crossed>>

------------------------------------------------------------------------------
(* Signing in and out.  The sign-out is sent and not waited for; its answer   *)
(* clears the cookie and, once more, the token.                               *)
Login ==
  /\ ~signedIn /\ visits < MaxVisits
  /\ Crosses
  /\ visits' = visits + 1
  /\ tokens' = Append(tokens, "ACTIVE")
  /\ jar' = Len(tokens) + 1 /\ access' = Len(tokens) + 1 /\ signedIn' = TRUE
  /\ UNCHANGED <<expired, flight, leaving, req, lost>>

Logout ==
  /\ signedIn /\ leaving = None /\ jar # None
  /\ Crosses
  /\ leaving' = jar
  /\ access' = None /\ signedIn' = FALSE
  /\ UNCHANGED <<tokens, jar, expired, flight, req, visits, lost>>

LoggedOut ==
  /\ leaving # None
  /\ tokens' = [tokens EXCEPT ![leaving] = "REVOKED"]
  /\ jar' = None /\ access' = None /\ leaving' = None
  /\ UNCHANGED <<expired, signedIn, flight, req, visits, lost, crossed>>

(* Fifteen minutes pass; seven days pass.                                     *)
Expire ==
  /\ access > expired
  /\ expired' = access
  /\ UNCHANGED <<tokens, jar, access, signedIn, flight, leaving, req, visits,
                 lost, crossed>>
Lapse ==
  /\ Quiet /\ jar # None /\ tokens[jar] = "ACTIVE"
  /\ tokens' = [tokens EXCEPT ![jar] = "LAPSED"]
  /\ expired' = Len(tokens)
  /\ UNCHANGED <<jar, access, signedIn, flight, leaving, req, visits,
                 lost, crossed>>

------------------------------------------------------------------------------
Progress(c) ==
  \/ Find(c) \/ Alarm(c) \/ Revoke(c) \/ Mint(c)
  \/ Refreshed(c) \/ RefreshFailed(c)
Settle(r) == Answered(r) \/ Refused401(r)

SessionsNext ==
  \/ \E r \in Request : Settle(r) \/ \E c \in Client : Ask(r, c)
  \/ \E c \in Refresher : Progress(c) \/ Lose(c)
  \/ Mount \/ Login \/ Logout \/ LoggedOut \/ Expire \/ Lapse

(* Every fetch comes back or fails, and every handler runs to its end.        *)
SessionsFairness ==
  /\ \A r \in Request : WF_sessionVars(Settle(r))
  /\ \A c \in Refresher : WF_sessionVars(Progress(c))
SessionsSpec == SessionsInit /\ [][SessionsNext]_sessionVars /\ SessionsFairness

------------------------------------------------------------------------------
(* Properties.                                                                *)

(* Nobody stole anything here, so the reuse alarm of auth.service.ts must not *)
(* sign the other device out: a page's own refreshes, however its requests    *)
(* interleave, never present a token that was rotated away.                   *)
Clean == lost = 0 /\ ~crossed
NoFalseAlarm == Clean => tokens[Other] # "REVOKED"

(* A browser that believes it is signed in and has nothing in the air holds a *)
(* cookie the next refresh can rotate, or that simply grew too old.           *)
SessionHeld ==
  Clean /\ Quiet /\ signedIn =>
    jar # None /\ tokens[jar] # "REVOKED"

(* A request that was sent is answered or refused in the end, also when the   *)
(* refresh it waits for fails, or never comes back.                           *)
RequestsEnd ==
  \A r \in Request :
    req[r].step = "sent" ~> req[r].step \in {"done", "failed"}
=============================================================================
