------------------------------ MODULE WebSession ---------------------------
(* The session of the web app: the two cookies of the browser, the Next.js *)
(* proxy every page and RPC request passes (src/web/src/proxy.ts,          *)
(* lib/server-jwt.ts), the server actions that sign in and out             *)
(* (actions/auth.ts) and the auth service's refresh rotation.  A token     *)
(* pair is named by its session and generation.  Requests overlap, run in  *)
(* any process of the web server, and their answers set the cookies in the *)
(* order in which they reach the browser.                                  *)
EXTENDS Naturals

CONSTANTS Requests,  \* requests under way at once: 1..n
          Processes,   \* processes of the web server
          MaxSid,    \* bound: sign-ins
          MaxGen,    \* bound: generation a session may reach
          MaxLost,   \* bound: refresh calls lost on the network
          None

VARIABLES jar,       \* the refresh cookie: a pair, or None
          due,       \* the access cookie is missing or has expired
          request,   \* each request: where it is, the cookies it carries, its answer
          shared,    \* refreshRequests of each process, by token
          keys,      \* the processes whose jwksCache holds the key
          row,       \* auth service: generation and state of each session
          replaced,  \* auth service: pairs whose replacement is cached, or is
                     \* about to be, by the process that rotated them
          lost,      \* history: calls lost
          excuse     \* history: something else happened that may end a session

webVars == <<jar, due, request, shared, keys, row, replaced, lost, excuse>>
server == <<row, replaced>>
process == <<shared, keys>>

Sids == 1..MaxSid
Pair == [sid : Sids, gen : 1..MaxGen]
Successor(tok) == [tok EXCEPT !.gen = @ + 1]
NoAnswer == [kind |-> "none", tok |-> None]
NoRequest == [pc |-> "idle", at |-> None, tok |-> None, due |-> FALSE, ans |-> NoAnswer]
NoCalls == [tok \in Pair |-> "none"]

WebInit ==
  /\ jar \in {None, [sid |-> 1, gen |-> 1]} /\ due = (jar = None)
  /\ request = [r \in Requests |-> NoRequest]
  /\ shared = [w \in Processes |-> NoCalls] /\ keys = {}
  /\ row = [s \in Sids |-> [gen |-> 1, state |-> IF s = 1 /\ jar # None THEN "live" ELSE "none"]]
  /\ replaced = {} /\ lost = 0 /\ excuse = (jar = None)

Answered(r, kind, tok) ==
  [request[r] EXCEPT !.pc = "answered", !.ans = [kind |-> kind, tok |-> tok]]

(* ---- the auth service ---------------------------------------------------- *)

Current(tok) == row[tok.sid].state = "live" /\ row[tok.sid].gen = tok.gen
Grants(tok) == tok \in replaced \/ Current(tok)

(* RefreshToken, served where the caches are in step with the row: the      *)
(* cached replacement first; then a token of another generation ends the    *)
(* session as stolen, the current one is rotated.                           *)
RefreshToken(tok) ==
  IF tok \in replaced \/ row[tok.sid].state # "live" THEN UNCHANGED server
  ELSE IF Current(tok)
       THEN /\ tok.gen < MaxGen
            /\ row' = [row EXCEPT ![tok.sid].gen = @ + 1]
            /\ replaced' = replaced \cup {tok}
       ELSE /\ row' = [row EXCEPT ![tok.sid].state = "stolen"]
            /\ UNCHANGED replaced

(* The generations a session cache of the service may hold: sign-in, every  *)
(* rotation and ValidateToken put the one they know of there.               *)
Held(s) == 1..row[s].gen

(* RefreshToken, served where they are not.  The compare-and-set that moves *)
(* the row comes before the replacement is cached, and both caches are of   *)
(* one process: a call served in between, or by another process, finds no   *)
(* pair for a token the row has left behind, or a cached generation that is *)
(* not the row's.  It is judged a replay, or its own compare-and-set loses. *)
RefreshOutOfStep(tok) ==
  /\ row[tok.sid].state = "live"
  /\ \/ /\ \E gen \in Held(tok.sid) :
             gen # tok.gen /\ (gen # row[tok.sid].gen \/ tok \in replaced)
        /\ row' = [row EXCEPT ![tok.sid].state = "stolen"]
        /\ UNCHANGED replaced
     \/ row[tok.sid].gen # tok.gen /\ UNCHANGED server
  /\ excuse' = TRUE

(* ---- the proxy ----------------------------------------------------------- *)

(* Requests are alike: the next one is the first that is idle.             *)
Fresh(r) == request[r].pc = "idle" /\ \A q \in Requests : q < r => request[q].pc # "idle"

(* A page, its data and its RPCs are requests of their own, sent with the  *)
(* cookies of the moment to any process.                                   *)
Navigate(r) ==
  /\ Fresh(r)
  /\ \E w \in Processes :
       request' = [request EXCEPT ![r] = [pc |-> "arrived", at |-> w, tok |-> jar,
                                          due |-> due, ans |-> NoAnswer]]
  /\ UNCHANGED <<jar, due, process, server, lost, excuse>>

(* redirectToLogin: the answer deletes both cookies.                       *)
RedirectToLogin(r) == request' = [request EXCEPT ![r] = Answered(r, "clear", None)]

(* refreshTokens: join the call of this process for this token, or make it. *)
RefreshTokens(w, tok) ==
  shared' = [shared EXCEPT ![w][tok] = IF @ = "none" THEN "called" ELSE @]

(* The token is valid: a fresh access cookie passes, another is refreshed. *)
Admit(r) ==
  IF ~request[r].due
  THEN /\ request' = [request EXCEPT ![r] = Answered(r, "pass", None)]
       /\ UNCHANGED shared
  ELSE /\ request' = [request EXCEPT ![r].pc = "joined"]
       /\ RefreshTokens(request[r].at, request[r].tok)

(* resolveRefreshTokenJwk: a key the process holds serves, fetched again    *)
(* when it is an hour old and kept when that fails; without one the token  *)
(* is taken for invalid unless the fetch succeeds.                         *)
Validate(r, fetched) ==
  LET w == request[r].at
  IN /\ request[r].pc = "arrived"
     /\ \/ /\ request[r].tok = None
           /\ RedirectToLogin(r) /\ UNCHANGED <<process, excuse>>
        \/ /\ request[r].tok # None /\ (w \in keys \/ fetched)
           /\ Admit(r) /\ keys' = keys \cup {w} /\ UNCHANGED excuse
        \/ /\ request[r].tok # None /\ w \notin keys /\ ~fetched
           /\ RedirectToLogin(r) /\ excuse' = TRUE /\ UNCHANGED process
  /\ UNCHANGED <<jar, due, server, lost>>

(* A shared call is served, or lost before or after the service saw it.    *)
ServeShared(w, tok, arrives) ==
  /\ shared[w][tok] = "called"
  /\ RefreshToken(tok)
  /\ shared' = [shared EXCEPT ![w][tok] = IF arrives /\ Grants(tok) THEN "pair" ELSE "failed"]
  /\ lost' = IF arrives THEN lost ELSE lost + 1
  /\ lost' <= MaxLost
  /\ UNCHANGED <<jar, due, request, keys, excuse>>

ServeSharedOutOfStep(w, tok) ==
  /\ shared[w][tok] = "called"
  /\ RefreshOutOfStep(tok)
  /\ shared' = [shared EXCEPT ![w][tok] = "failed"]
  /\ UNCHANGED <<jar, due, request, keys, lost>>

LoseShared(w, tok) ==
  /\ shared[w][tok] = "called" /\ lost < MaxLost /\ lost' = lost + 1
  /\ shared' = [shared EXCEPT ![w][tok] = "failed"]
  /\ UNCHANGED <<jar, due, request, keys, server, excuse>>

Waits(r, w, tok) == request[r].pc = "joined" /\ request[r].at = w /\ request[r].tok = tok

\* Mutant: a failed refresh is not tried again.
SharedSettlesOnce(w, tok) ==
  /\ shared[w][tok] \in {"pair", "failed"}
  /\ shared' = [shared EXCEPT ![w][tok] = "none"]
  /\ request' = [r \in Requests |->
       IF Waits(r, w, tok)
       THEN IF shared[w][tok] = "pair" THEN Answered(r, "set", Successor(tok))
                                       ELSE Answered(r, "clear", None)
       ELSE request[r]]
  /\ UNCHANGED <<jar, due, keys, server, lost, excuse>>

(* The shared call settles: every request that awaits it answers with the  *)
(* new cookies, or tries once more on its own.                             *)
SharedSettles(w, tok) ==
  /\ shared[w][tok] \in {"pair", "failed"}
  /\ shared' = [shared EXCEPT ![w][tok] = "none"]
  /\ request' = [r \in Requests |->
       IF ~Waits(r, w, tok) THEN request[r]
       ELSE IF shared[w][tok] = "pair" THEN Answered(r, "set", Successor(tok))
       ELSE [request[r] EXCEPT !.pc = "retrying"]]
  /\ UNCHANGED <<jar, due, keys, server, lost, excuse>>

(* The direct retry of one request: a second failure redirects to sign-in. *)
Retry(r, arrives) ==
  /\ request[r].pc = "retrying"
  /\ RefreshToken(request[r].tok)
  /\ IF arrives /\ Grants(request[r].tok)
     THEN request' = [request EXCEPT ![r] = Answered(r, "set", Successor(request[r].tok))]
     ELSE RedirectToLogin(r)
  /\ lost' = IF arrives THEN lost ELSE lost + 1
  /\ lost' <= MaxLost
  /\ UNCHANGED <<jar, due, process, excuse>>

RetryOutOfStep(r) ==
  /\ request[r].pc = "retrying"
  /\ RefreshOutOfStep(request[r].tok)
  /\ RedirectToLogin(r)
  /\ UNCHANGED <<jar, due, process, lost>>

(* An answer reaches the browser and its Set-Cookie headers apply, whatever *)
(* the cookies are by then.                                                *)
Deliver(r) ==
  /\ request[r].pc = "answered"
  /\ LET ans == request[r].ans
     IN \/ ans.kind = "pass" /\ UNCHANGED <<jar, due>>
        \/ ans.kind = "clear" /\ jar' = None /\ due' = TRUE
        \/ ans.kind = "set" /\ jar' = ans.tok /\ due' = FALSE
  /\ request' = [request EXCEPT ![r] = NoRequest]
  /\ UNCHANGED <<process, server, lost, excuse>>

(* ---- server actions ------------------------------------------------------ *)

(* loginAction and registerAction: a session of its own, whose cookies the *)
(* answer sets.  The sign-up form does not await it: the page it pushes is *)
(* a Navigate that may overlap.                                            *)
BeginSession(r, s) ==
  /\ Fresh(r)
  /\ row[s].state = "none" /\ \A t \in Sids : t < s => row[t].state # "none"
  /\ row' = [row EXCEPT ![s] = [gen |-> 1, state |-> "live"]]
  /\ request' = [request EXCEPT ![r] = Answered(r, "set", [sid |-> s, gen |-> 1])]
  /\ UNCHANGED <<jar, due, process, replaced, lost, excuse>>

SubmitSignIn(r, s) == BeginSession(r, s)
SubmitSignUp(r, s) == BeginSession(r, s)

(* logoutAction: the service is told, at best; both cookies are deleted.    *)
SignOut(r, reached) ==
  /\ Fresh(r) /\ jar # None
  /\ IF reached /\ row[jar.sid].state = "live"
     THEN /\ row' = [row EXCEPT ![jar.sid].state = "gone"]
          /\ replaced' = replaced \ {jar}
     ELSE UNCHANGED server
  /\ request' = [request EXCEPT ![r] = Answered(r, "clear", None)]
  /\ excuse' = TRUE
  /\ UNCHANGED <<jar, due, process, lost>>

(* ---- the environment ----------------------------------------------------- *)

(* The access cookie reaches its fifteen minutes.                          *)
AccessAges ==
  /\ ~due /\ due' = TRUE
  /\ UNCHANGED <<jar, request, process, server, lost, excuse>>

(* JWKS_RETENTION_MS passes in a process without a fetch: its key is pruned. *)
KeyPruned(w) ==
  /\ w \in keys /\ keys' = keys \ {w}
  /\ UNCHANGED <<jar, due, request, shared, server, lost, excuse>>

Holds(p) == jar = p \/ \E r \in Requests : p \in {request[r].tok, request[r].ans.tok}

(* RotatedTokenTTL ends for a replaced pair, the earlier one first.        *)
ReplacedExpires(p) ==
  /\ p \in replaced /\ \A q \in replaced : q.sid = p.sid => p.gen <= q.gen
  /\ replaced' = replaced \ {p}
  /\ excuse' = (excuse \/ Holds(p))
  /\ UNCHANGED <<jar, due, request, process, row, lost>>

(* A process restarts: its maps are gone and its requests fail.            *)
Reload(w) ==
  /\ shared' = [shared EXCEPT ![w] = NoCalls]
  /\ keys' = keys \ {w}
  /\ request' = [r \in Requests |-> IF request[r].at = w THEN NoRequest ELSE request[r]]
  /\ UNCHANGED <<jar, due, server, lost, excuse>>

WebNext ==
  \/ \E r \in Requests :
       \/ Navigate(r) \/ Deliver(r) \/ RetryOutOfStep(r)
       \/ \E b \in BOOLEAN : Validate(r, b) \/ Retry(r, b) \/ SignOut(r, b)
       \/ \E s \in Sids : SubmitSignIn(r, s) \/ SubmitSignUp(r, s)
  \/ \E w \in Processes, tok \in Pair :
       \/ LoseShared(w, tok) \/ SharedSettles(w, tok) \/ ServeSharedOutOfStep(w, tok)
       \/ \E b \in BOOLEAN : ServeShared(w, tok, b)
  \/ AccessAges
  \/ \E w \in Processes : KeyPruned(w) \/ Reload(w)
  \/ \E p \in Pair : ReplacedExpires(p)

WebSpec == WebInit /\ [][WebNext]_webVars

(* Overlapping refreshes in several processes, answers in any order, a     *)
(* restart and one lost call do not end a session: the browser keeps the   *)
(* cookie of a live session, unless the user signed out, a process had no  *)
(* key, a replacement expired before its request, or the service judged a  *)
(* token by caches that were out of step with its row (excuse).            *)
OneFailureIsSurvived ==
  lost <= 1 /\ ~excuse => jar # None /\ row[jar.sid].state = "live"
=============================================================================
