---------------------------- MODULE NativeSession ----------------------------
(***************************************************************************)
(* The session of the native app (src/native/src/auth, lib/rpc.ts and the  *)
(* auth hooks and screens) against the auth service's refresh rotation.    *)
(*                                                                         *)
(* A token pair is named by its session and generation.  The access token  *)
(* is a module variable (memory); the refresh token lives in the keychain, *)
(* whose operations are asynchronous, may be rejected, and are served in   *)
(* the order of the calls (ops).  refreshAccessToken is single-flight:     *)
(* everybody who needs a token waits for the one rotation under way (rot). *)
(*                                                                         *)
(* The auth service runs as any number of processes, each with its own     *)
(* caches of sessions and of replacement pairs in front of the row.        *)
(***************************************************************************)
EXTENDS Naturals, Sequences

CONSTANTS Requests,  \* authenticated calls that may be under way at once
          MaxSid,    \* bound: sign-ins (each makes one server session)
          MaxGen,    \* bound: generation a session may reach
          MaxKills,  \* bound: times the app is killed
          None

ASSUME BoundsAssumption == /\ MaxSid \in Nat \ {0}
                           /\ MaxGen \in Nat \ {0}
                           /\ MaxKills \in Nat
ASSUME NoneAssumption == None \notin [sid : Nat, gen : Nat]

VARIABLES
  status,    \* the session store: loading, signedIn, signedOut
  memory,    \* accessToken: the pair it belongs to, or None
  due,       \* accessTokenExpiresAt, less the skew, has passed
  keychain,  \* the stored refresh token, or None
  ops,       \* keychain operations called and not yet done
  rot,       \* inFlightRefresh: where it is, the token presented, the answer
  request,   \* each authenticated call
  boot,      \* bootstrapSession
  login,     \* each sign-in or registration, by the session it makes
  logout,    \* the sign-out, and the refresh token it read
  row,       \* auth service: generation and state of each session
  replaced,  \* auth service: generations whose replacement pair is cached,
             \* by the process that rotated them
  lost,      \* history: sessions with a rotation this device never stored
  misled,     \* history: sessions the service killed on the word of a cached
             \* generation that the row had left behind
  unsaved,   \* history: the pair whose write the keychain rejected last
  kills      \* bound counter

vars == <<status, memory, due, keychain, ops, rot, request, boot,
          login, logout, row, replaced, lost, misled, unsaved, kills>>
server == <<row, replaced, misled>>

Sids == 1..MaxSid
Pair == [sid : Sids, gen : 1..MaxGen]
Answers == {"none", "pair", "refused", "vacated", "network"}
Flows == {"rot", "boot", "logout", "login"}

TypeOK ==
  /\ status \in {"loading", "signedIn", "signedOut"}
  /\ memory \in Pair \cup {None}
  /\ due \in BOOLEAN
  /\ keychain \in Pair \cup {None}
  /\ ops \in Seq([by : Flows, kind : {"get", "set"}, val : Pair \cup {None}])
  /\ rot \in [pc : {"idle", "reading", "calling", "storing", "clearing"},
              tok : Pair \cup {None}, ans : Answers]
  /\ request \in [Requests -> [pc : {"idle", "token", "sent", "repair", "resent"},
                               tok : Pair \cup {None}]]
  /\ boot \in {"reading", "awaiting", "done"}
  /\ login \in [Sids -> {"unused", "calling", "storing", "done"}]
  /\ logout \in [pc : {"idle", "reading", "calling", "clearing"}, tok : Pair \cup {None}]
  /\ row \in [Sids -> [gen : 0..MaxGen, state : {"none", "live", "gone", "stolen", "revoked"}]]
  /\ replaced \subseteq Pair
  /\ lost \subseteq Sids
  /\ misled \subseteq Sids
  /\ unsaved \in Pair \cup {None}
  /\ kills \in 0..MaxKills

NoRotation == [pc |-> "idle", tok |-> None, ans |-> "none"]
NoRequest == [pc |-> "idle", tok |-> None]
NoLogout == [pc |-> "idle", tok |-> None]
Op(by, kind, val) == [by |-> by, kind |-> kind, val |-> val]

Init ==
  /\ status = "loading" /\ boot = "reading"
  /\ memory = None /\ due = FALSE
  /\ keychain = None
  /\ ops = <<Op("boot", "get", None)>>
  /\ rot = NoRotation
  /\ request = [r \in Requests |-> NoRequest]
  /\ login = [s \in Sids |-> "unused"]
  /\ logout = NoLogout
  /\ row = [s \in Sids |-> [gen |-> 0, state |-> "none"]]
  /\ replaced = {} /\ lost = {} /\ misled = {} /\ unsaved = None /\ kills = 0

-----------------------------------------------------------------------------
\* Token manager

\* setTokens: the access token is readable at once, the refresh token goes to
\* the keychain by an operation the caller awaits.
SetTokens(by, pair) ==
  /\ memory' = pair /\ due' = FALSE
  /\ ops' = Append(ops, Op(by, "set", pair))

\* clearTokens.
ClearTokens(by) ==
  /\ memory' = None /\ due' = FALSE
  /\ ops' = Append(ops, Op(by, "set", None))

\* Mutant: refreshAccessToken without the shared promise.
EnsureOwnRotation ==
  /\ rot' = [NoRotation EXCEPT !.pc = "reading"]
  /\ ops' = Append(ops, Op("rot", "get", None))

\* refreshAccessToken: join the rotation under way or start one.
EnsureRotation ==
  IF rot.pc = "idle"
  THEN /\ rot' = [NoRotation EXCEPT !.pc = "reading"]
       /\ ops' = Append(ops, Op("rot", "get", None))
  ELSE UNCHANGED <<rot, ops>>

Fresh == memory # None /\ ~due

Waiting(r) == request[r].pc \in {"token", "repair"}

\* The rotation settles with a pair (resolved) or None (rejected): everybody
\* who awaits it goes on in the same turn.
ReleaseRequests(pair) ==
  request' = [r \in Requests |->
    IF ~Waiting(r) THEN request[r]
    ELSE IF pair = None THEN NoRequest
    ELSE [pc |-> IF request[r].pc = "token" THEN "sent" ELSE "resent", tok |-> pair]]

\* bootstrapSession after its await: a network failure is not a sign-out.
BootSettles(outcome, otherwise) ==
  IF boot # "awaiting" THEN boot' = boot /\ status' = otherwise
  ELSE /\ boot' = "done"
       /\ status' = IF outcome \in {"ok", "network"} THEN "signedIn" ELSE "signedOut"

\* rotateRefreshToken, the stored token just read.
RotateRead(tok) ==
  IF tok = None
  THEN /\ rot' = NoRotation
       /\ ReleaseRequests(None)
       /\ BootSettles("network", "signedOut")
  ELSE /\ rot' = [pc |-> "calling", tok |-> tok, ans |-> "none"]
       /\ UNCHANGED <<request, boot, status>>

\* The keychain serves its oldest operation and the flow that awaits it goes on.
KeychainDone ==
  /\ ops # <<>>
  /\ LET op == Head(ops)
         read == keychain
     IN /\ ops' = Tail(ops)
        /\ keychain' = IF op.kind = "set" THEN op.val ELSE keychain
        /\ unsaved' = IF op.kind = "set" THEN None ELSE unsaved
        /\ CASE op.by = "rot" /\ rot.pc = "reading" ->
                  RotateRead(read) /\ UNCHANGED <<login, logout>>
             [] op.by = "rot" /\ rot.pc = "storing" ->
                  /\ rot' = NoRotation
                  /\ ReleaseRequests(op.val)
                  /\ BootSettles("ok", status)
                  /\ UNCHANGED <<login, logout>>
             [] op.by = "rot" /\ rot.pc = "clearing" ->
                  /\ rot' = NoRotation
                  /\ ReleaseRequests(None)
                  /\ BootSettles("failed", "signedOut")
                  /\ UNCHANGED <<login, logout>>
             [] op.by = "logout" /\ logout.pc = "reading" ->
                  /\ logout' = [pc |-> "calling", tok |-> read]
                  /\ UNCHANGED <<rot, request, boot, status, login>>
             [] op.by = "logout" /\ logout.pc = "clearing" ->
                  /\ logout' = NoLogout /\ status' = "signedOut"
                  /\ UNCHANGED <<rot, request, boot, login>>
             [] op.by = "login" ->
                  /\ login' = [login EXCEPT ![op.val.sid] = "done"]
                  /\ status' = "signedIn"
                  /\ UNCHANGED <<rot, request, boot, logout>>
             [] OTHER -> UNCHANGED <<rot, request, boot, status, login, logout>>
  /\ UNCHANGED <<memory, due, server, lost, kills>>

\* The keychain rejects its oldest operation: nothing is stored, and the flow
\* that awaits it is rejected too.  What setTokens and clearTokens did to the
\* memory before the await stays.
KeychainRejects ==
  /\ ops # <<>>
  /\ LET op == Head(ops)
     IN /\ ops' = Tail(ops)
        /\ unsaved' = IF op.kind = "set" THEN op.val ELSE unsaved
        /\ CASE op.by = "rot" ->
                  /\ lost' = IF rot.pc = "storing" THEN lost \cup {rot.tok.sid} ELSE lost
                  /\ rot' = NoRotation
                  /\ ReleaseRequests(None)
                  /\ BootSettles("network", status)
                  /\ UNCHANGED <<login, logout>>
             [] op.by = "logout" ->
                  /\ logout' = NoLogout
                  /\ UNCHANGED <<rot, request, boot, status, login, lost>>
             [] op.by = "login" ->
                  /\ login' = [login EXCEPT ![op.val.sid] = "done"]
                  /\ UNCHANGED <<rot, request, boot, status, logout, lost>>
             [] op.by = "boot" ->
                  /\ boot' = "done" /\ status' = "signedOut"
                  /\ UNCHANGED <<rot, request, login, logout, lost>>
  /\ UNCHANGED <<memory, due, keychain, server, kills>>

\* bootstrapSession, the stored token just read.  (Its own read heads ops.)
BootRead ==
  /\ boot = "reading" /\ ops # <<>> /\ Head(ops).by = "boot"
  /\ IF keychain = None
     THEN /\ boot' = "done" /\ status' = "signedOut"
          /\ ops' = Tail(ops) /\ UNCHANGED rot
     ELSE /\ boot' = "awaiting" /\ UNCHANGED status
          /\ rot' = [NoRotation EXCEPT !.pc = "reading"]
          /\ ops' = Append(Tail(ops), Op("rot", "get", None))
  /\ UNCHANGED <<memory, due, keychain, request, login, logout, server, lost, unsaved, kills>>

\* authService.RefreshToken, one rotation at the service.
Successor(pair) == [pair EXCEPT !.gen = @ + 1]

\* The row is there; it may have expired or be of an earlier global version.
Standing(s) == row[s].state \in {"live", "revoked"}

\* The generations a process may find in its session cache: sign-in, every
\* rotation and ValidateToken put the one they know of there, and another
\* process's rotation does not take it out.
Held(s) == 1..row[s].gen

\* The replay check, against a generation of the cache or of the row.
Replay(tok, gen) == tok.gen # gen

\* handleTheftDetected deletes the row.
KillSession(tok, gen) ==
  IF Standing(tok.sid)
  THEN /\ row' = [row EXCEPT ![tok.sid].state = "stolen"]
       /\ misled' = IF gen = row[tok.sid].gen THEN misled ELSE misled \cup {tok.sid}
       /\ UNCHANGED replaced
  ELSE UNCHANGED server

\* The compare-and-set moves the row on from the token's generation; the pair
\* is kept for requests with the same token.
Rotate(tok) ==
  /\ row' = [row EXCEPT ![tok.sid].gen = @ + 1]
  /\ replaced' = replaced \cup {tok}
  /\ UNCHANGED misled

ServeRefresh ==
  /\ rot.pc = "calling" /\ rot.ans = "none"
  /\ LET t == rot.tok
         s == rot.tok.sid
         Answer(a) == rot' = [rot EXCEPT !.ans = a]
     IN \/ /\ t \in replaced                                    \* the kept pair
           /\ Answer("pair") /\ UNCHANGED server
        \/ /\ row[s].state = "revoked"
           /\ Answer("refused") /\ UNCHANGED server
        \/ \E gen \in Held(s) : /\ Replay(t, gen)               \* a cached session
                                /\ KillSession(t, gen) /\ Answer("vacated")
        \/ /\ Standing(s) /\ Replay(t, row[s].gen)                   \* the row
           /\ KillSession(t, row[s].gen) /\ Answer("vacated")
        \/ /\ Standing(s) /\ ~Replay(t, row[s].gen) /\ t.gen < MaxGen
           /\ Rotate(t) /\ Answer("pair")
        \/ /\ ~Standing(s) \/ t.gen # row[s].gen                     \* the set loses
           /\ Answer("vacated") /\ UNCHANGED server
  /\ UNCHANGED <<status, memory, due, keychain, ops, request, boot, login, logout, lost,
                 unsaved, kills>>

\* The call fails on the network, before or after the service saw it.
RefreshLost ==
  /\ rot.pc = "calling" /\ rot.ans # "network"
  /\ rot' = [rot EXCEPT !.ans = "network"]
  /\ lost' = IF rot.ans = "pair" THEN lost \cup {rot.tok.sid} ELSE lost
  /\ UNCHANGED <<status, memory, due, keychain, ops, request, boot, login, logout, server, unsaved,
                 kills>>

\* Mutant: the access token is handed out and the rotated pair is not stored.
RotateAnsweredUnstored ==
  /\ rot.pc = "calling" /\ rot.ans = "pair"
  /\ memory' = Successor(rot.tok) /\ due' = FALSE
  /\ rot' = NoRotation
  /\ ReleaseRequests(Successor(rot.tok))
  /\ BootSettles("ok", status)
  /\ UNCHANGED <<keychain, ops, login, logout, server, lost, unsaved, kills>>

\* rotateRefreshToken, the answer: a pair is stored, a definitive rejection
\* clears the tokens, anything else leaves the session alone.
RotateAnswered ==
  /\ rot.pc = "calling" /\ rot.ans # "none"
  /\ \/ /\ rot.ans = "pair"
        /\ SetTokens("rot", Successor(rot.tok))
        /\ rot' = [rot EXCEPT !.pc = "storing"]
        /\ UNCHANGED <<request, boot, status>>
     \/ /\ rot.ans = "refused"
        /\ ClearTokens("rot")
        /\ rot' = [rot EXCEPT !.pc = "clearing"]
        /\ UNCHANGED <<request, boot, status>>
     \/ /\ rot.ans \in {"vacated", "network"}
        /\ rot' = NoRotation
        /\ ReleaseRequests(None)
        /\ BootSettles(rot.ans, status)
        /\ UNCHANGED <<memory, due, ops>>
  /\ UNCHANGED <<keychain, login, logout, server, lost, unsaved, kills>>

-----------------------------------------------------------------------------
\* Authenticated calls: the transport's interceptor

\* A screen of the signed-in stack issues a call; getValidAccessToken.
StartRequest(r) ==
  /\ status = "signedIn" /\ request[r].pc = "idle"
  /\ IF Fresh
     THEN /\ request' = [request EXCEPT ![r] = [pc |-> "sent", tok |-> memory]]
          /\ UNCHANGED <<rot, ops>>
     ELSE /\ request' = [request EXCEPT ![r] = [pc |-> "token", tok |-> None]]
          /\ EnsureRotation
  /\ UNCHANGED <<status, memory, due, keychain, boot, login, logout, server, lost, unsaved, kills>>

\* A service refuses the bearer: it has expired (the client gave up on it
\* earlier, or has replaced it), or the auth service compares its generation
\* with the one it has cached or reads (GetCurrentUser).
Refusable(tok) == \/ tok = memory => due
                  \/ row[tok.sid].state # "live"
                  \/ \E gen \in Held(tok.sid) : Replay(tok, gen)

\* One repair: rotate and send the same call again.
RequestRefused(r) ==
  /\ request[r].pc = "sent" /\ Refusable(request[r].tok)
  /\ request' = [request EXCEPT ![r] = [pc |-> "repair", tok |-> None]]
  /\ EnsureRotation
  /\ UNCHANGED <<status, memory, due, keychain, boot, login, logout, server, lost, unsaved, kills>>

\* Served, failed for another reason, or refused again after the repair.
RequestSettles(r) ==
  /\ request[r].pc \in {"sent", "resent"}
  /\ request' = [request EXCEPT ![r] = NoRequest]
  /\ UNCHANGED <<status, memory, due, keychain, ops, rot, boot, login, logout, server, lost, unsaved, kills>>

\* The app comes back to the foreground: getValidAccessToken in the background.
Foreground ==
  /\ ~Fresh /\ status = "signedIn"
  /\ rot.pc = "idle"
  /\ EnsureRotation
  /\ UNCHANGED <<status, memory, due, keychain, request, boot, login, logout, server, lost, unsaved, kills>>

-----------------------------------------------------------------------------
\* Sign-in and sign-out

\* The stack of screens the session allows.
AuthStack == status = "signedOut"
TabStack == status = "signedIn"

\* A form passes its validation and its mutation starts.  The button is
\* disabled while the mutation of its own form is pending; the keyboard's
\* submit and the other form are not.
Begin(s) ==
  /\ login[s] = "unused" /\ (s > 1 => login[s - 1] # "unused")
  /\ login' = [login EXCEPT ![s] = "calling"]
  /\ UNCHANGED <<status, memory, due, keychain, ops, rot, request, boot, logout, server, lost, unsaved, kills>>

SubmitLogin(s) == AuthStack /\ Begin(s)
SubmitRegister(s) == AuthStack /\ Begin(s)

\* The service creates the session and answers; setTokens.
LoginAnswered(s) ==
  /\ login[s] = "calling"
  /\ row' = [row EXCEPT ![s] = [gen |-> 1, state |-> "live"]]
  /\ SetTokens("login", [sid |-> s, gen |-> 1])
  /\ login' = [login EXCEPT ![s] = "storing"]
  /\ UNCHANGED <<status, keychain, rot, request, boot, logout, replaced, misled, lost,
                 unsaved, kills>>

LoginFails(s) ==
  /\ login[s] = "calling"
  /\ login' = [login EXCEPT ![s] = "done"]
  /\ UNCHANGED <<status, memory, due, keychain, ops, rot, request, boot, logout, server, lost, unsaved, kills>>

StartLogout ==
  /\ TabStack /\ logout.pc = "idle"
  /\ logout' = [NoLogout EXCEPT !.pc = "reading"]
  /\ ops' = Append(ops, Op("logout", "get", None))
  /\ UNCHANGED <<status, memory, due, keychain, rot, request, boot, login, server, lost, unsaved, kills>>

\* The service deletes the session, and the replacement pair of the token's
\* generation if this process keeps it; the call is best-effort.  Then
\* clearTokens.
LogoutCalled(reached) ==
  /\ logout.pc = "calling"
  /\ IF reached /\ logout.tok # None /\ row[logout.tok.sid].state = "live"
     THEN /\ row' = [row EXCEPT ![logout.tok.sid].state = "gone"]
          /\ replaced' \in {replaced, replaced \ {logout.tok}}
          /\ UNCHANGED misled
     ELSE UNCHANGED server
  /\ ClearTokens("logout")
  /\ logout' = [logout EXCEPT !.pc = "clearing"]
  /\ UNCHANGED <<status, keychain, rot, request, boot, login, lost, unsaved, kills>>

-----------------------------------------------------------------------------
\* The environment

\* Time passes for the access token in memory.
AccessTokenAges ==
  /\ memory # None /\ ~due
  /\ due' = TRUE
  /\ UNCHANGED <<status, memory, keychain, ops, rot, request, boot, login, logout, server, lost, unsaved, kills>>

\* RotatedTokenTTL ends for one generation.
ReplacedExpires(p) ==
  /\ p \in replaced
  /\ replaced' = replaced \ {p}
  /\ UNCHANGED <<status, memory, due, keychain, ops, rot, request, boot, login, logout, row, misled,
                 lost, unsaved, kills>>

\* The refresh token expires or every device is logged out elsewhere; or
\* another device of the user ends this session.
SessionEnds(s, how) ==
  /\ row[s].state = "live"
  /\ row' = [row EXCEPT ![s].state = how]
  /\ UNCHANGED <<status, memory, due, keychain, ops, rot, request, boot, login, logout,
                 replaced, misled, lost, unsaved, kills>>

\* The process dies and is launched again: the module variables are gone, the
\* keychain stays, and an answer or a write that was on its way is lost.
Kill ==
  /\ kills < MaxKills /\ kills' = kills + 1
  /\ lost' = lost \cup {s \in Sids : rot.pc \in {"calling", "storing"} /\ rot.tok.sid = s}
  /\ status' = "loading" /\ boot' = "reading"
  /\ memory' = None /\ due' = FALSE /\ ops' = <<Op("boot", "get", None)>>
  /\ rot' = NoRotation /\ request' = [r \in Requests |-> NoRequest]
  /\ login' = [s \in Sids |-> IF login[s] = "unused" THEN "unused" ELSE "done"]
  /\ logout' = NoLogout /\ unsaved' = None
  /\ UNCHANGED <<keychain, server>>

-----------------------------------------------------------------------------
Step(r) == StartRequest(r) \/ RequestRefused(r) \/ RequestSettles(r)

Next ==
  \/ (KeychainDone /\ Head(ops).by # "boot") \/ BootRead \/ KeychainRejects
  \/ ServeRefresh \/ RefreshLost \/ RotateAnswered
  \/ \E r \in Requests : Step(r)
  \/ Foreground
  \/ \E s \in Sids : SubmitLogin(s) \/ SubmitRegister(s) \/ LoginAnswered(s) \/ LoginFails(s)
  \/ StartLogout \/ \E reached \in BOOLEAN : LogoutCalled(reached)
  \/ AccessTokenAges \/ \E p \in Pair : ReplacedExpires(p)
  \/ \E s \in Sids, how \in {"gone", "revoked"} : SessionEnds(s, how)
  \/ Kill

Spec == Init /\ [][Next]_vars

-----------------------------------------------------------------------------
\* Single-flight rotation and the stored pair keep a device from being taken
\* for a thief: the service kills a session for a replay only when a rotation
\* it performed never reached this device's keychain, or when the process that
\* served the call judged it by a cached generation the row had left behind.
KilledOnlyAfterLoss == \A s \in Sids : row[s].state = "stolen" => s \in lost \cup misled

\* The last write the keychain was asked for.
LastWrite(i) == /\ ops[i].kind = "set"
                /\ \A j \in 1..Len(ops) : j > i => ops[j].kind = "get"

\* setTokens and clearTokens of a sign-in, a rotation and a sign-out that
\* overlap never mix two pairs: the access token in memory and the refresh
\* token that the keychain ends up with are of one session and one generation,
\* unless the keychain rejected the write of the very pair in memory.
MemoryIsWhatLands ==
  memory # None =>
    \/ /\ \A j \in 1..Len(ops) : ops[j].kind = "get"
       /\ memory \in {keychain, unsaved}
    \/ \E i \in 1..Len(ops) : LastWrite(i) /\ ops[i].val = memory
=============================================================================
