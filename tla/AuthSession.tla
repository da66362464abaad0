----------------------------- MODULE AuthSession -----------------------------
(***************************************************************************)
(* Login sessions as the web front end of one browser profile sees them:   *)
(* tabs that keep a session in memory, the refresh-token cookie and the    *)
(* refresh lock they share, the channel they tell each other of logins and *)
(* sign-outs on, and the server that rotates the token.                    *)
(*                                                                         *)
(* A request carries the cookie of the moment it is sent; the browser      *)
(* applies the Set-Cookie of an answer when it arrives, whether or not the *)
(* page still wants the answer.  Requests and answers can be lost.         *)
(*                                                                         *)
(* A refresh token is its session and its age: 0 the current token, 1 the  *)
(* one before, 2 any older one; a rotation ages every token of the session *)
(* wherever it is.  Instead of authEpoch a refresh carries the flag `old', *)
(* set whenever the epoch is advanced under it.                            *)
(***************************************************************************)
EXTENDS Naturals, Sequences, FiniteSets

CONSTANTS
    Tabs,         \* tabs of the browser
    Sids,         \* identifiers of login sessions
    None,         \* no tab, no session
    Incidents,    \* which of these may happen: "lose" a message, "reload" a page,
                  \* a "presence" connection, an API request "denied", a "sign-out",
                  \* a session revoked "elsewhere", the end of a "grace" window
    MaxIncidents  \* how many of them, together

ASSUME NoneAssumption == None \notin Tabs \cup Sids
ASSUME BoundsAssumption == MaxIncidents \in Nat

VARIABLES
    mem,        \* auth.session.sid of each tab
    boot,       \* bootstrapState of each tab; idle and checking are one
    rf,         \* refreshPromise of each tab
    api,        \* an API request that was answered 401
    signing,    \* progress of executeLogout
    leaving,    \* the tab is about to load another page
    http,       \* the exchange of each tab and kind of request
    chan,       \* events of the other tabs, not yet delivered
    cookie, lock,              \* the browser's
    status, fresh,             \* the server's sessions; grace window open
    late,                      \* refresh requests of pages that are gone
    count,                     \* incidents so far
    reason, lossy, gone, wiped   \* history, see the properties

tabVars  == <<mem, boot, rf, api, signing, leaving>>
srvVars  == <<status, fresh, late, reason>>
histVars == <<lossy, gone, wiped>>
vars == <<tabVars, http, chan, cookie, lock, srvVars, count, histVars>>

Incident(kind) ==
    kind \in Incidents /\ count < MaxIncidents /\ count' = count + 1

Kinds == {"refresh", "login", "logout", "presence"}

NoToken == [sid |-> None, age |-> 0]
Current(s) == [sid |-> s, age |-> 0]

Idle == [st |-> "idle"]
Request(tok, exp) == [st |-> "request", tok |-> tok, exp |-> exp]
\* An answer, what it does to the cookie, and the token it sets or rejects.
Reply(res, set, tok) ==
    [st |-> "reply", res |-> res, set |-> set, tok |-> tok]

NoRefresh == [st |-> "none", old |-> FALSE, retry |-> TRUE]
Queued == [NoRefresh EXCEPT !.st = "queued"]

-----------------------------------------------------------------------------
(* The server.                                                             *)

Active(s) == s # None /\ status[s] = "active"

\* Mutant: only the current token is accepted.
RecognisedCurrent(tok) == tok.age = 0

\* The digests the session row knows: the current one and, in the grace
\* window, the one before.
Recognised(tok) == tok.age = 0 \/ (tok.age = 1 /\ fresh[tok.sid])

\* A known previous token after its grace window.
Reused(tok) == tok.age = 1 /\ ~fresh[tok.sid]

Older(tok, s) ==
    IF tok.sid = s /\ tok.age < 2 THEN [tok EXCEPT !.age = @ + 1] ELSE tok

OlderExchange(x, s) ==
    IF x.st = "idle" THEN x ELSE [x EXCEPT !.tok = Older(@, s)]

\* RefreshLoginSession's answer.
RefreshResult(tok, exp) ==
    IF tok = NoToken THEN Reply("denied", "clear", NoToken)
    ELSE IF exp \notin {None, tok.sid} THEN Reply("mismatch", "keep", tok)
    ELSE IF ~Active(tok.sid) THEN Reply("denied", "clear", tok)
    ELSE IF Recognised(tok) THEN Reply("ok", "set", Current(tok.sid))
    ELSE Reply("denied", "clear", tok)

\* RotateUserSessionRefresh, for a request that passed the checks.
Rotates(tok, exp) ==
    /\ tok # NoToken /\ exp \in {None, tok.sid} /\ Active(tok.sid) /\ tok.age = 0

Revokes(tok, exp) ==
    /\ tok # NoToken /\ exp \in {None, tok.sid} /\ Active(tok.sid) /\ Reused(tok)

RotateUserSessionRefresh(tok, exp) ==
    /\ fresh' = IF Rotates(tok, exp) THEN [fresh EXCEPT ![tok.sid] = TRUE] ELSE fresh
    /\ status' = IF Revokes(tok, exp)
                 THEN [status EXCEPT ![tok.sid] = "revoked"] ELSE status
    /\ reason' = IF Revokes(tok, exp)
                 THEN [reason EXCEPT ![tok.sid] = "refresh_reuse"] ELSE reason

Aged(tok, exp) ==
    IF Rotates(tok, exp)
    THEN [u \in Tabs |-> [k \in Kinds |-> OlderExchange(http[u][k], tok.sid)]]
    ELSE http

AgedCookie(tok, exp) == IF Rotates(tok, exp) THEN Older(cookie, tok.sid) ELSE cookie
AgedLate(reqs, tok, exp) ==
    IF Rotates(tok, exp) THEN {OlderExchange(x, tok.sid) : x \in reqs} ELSE reqs

RefreshAuth(t) ==
    LET x == http[t]["refresh"]
    IN  /\ x.st = "request"
        /\ RotateUserSessionRefresh(x.tok, x.exp)
        /\ http' = [Aged(x.tok, x.exp) EXCEPT
                      ![t]["refresh"] = RefreshResult(x.tok, x.exp)]
        /\ cookie' = AgedCookie(x.tok, x.exp)
        /\ late' = AgedLate(late, x.tok, x.exp)
        /\ UNCHANGED <<tabVars, chan, lock, count, histVars>>

\* The server handles a request whose page is gone: nobody gets the answer.
RefreshAuthLate(x) ==
    /\ x \in late
    /\ RotateUserSessionRefresh(x.tok, x.exp)
    /\ http' = Aged(x.tok, x.exp)
    /\ cookie' = AgedCookie(x.tok, x.exp)
    /\ late' = AgedLate(late \ {x}, x.tok, x.exp)
    /\ lossy' = lossy \cup ({x.tok.sid} \ {None})
    /\ UNCHANGED <<tabVars, chan, lock, count, gone, wiped>>

Revoke(s, why) ==
    /\ status' = [status EXCEPT ![s] = IF @ = "active" THEN "revoked" ELSE @]
    /\ reason' = [reason EXCEPT ![s] = IF Active(s) THEN why ELSE @]

\* With the access token of session exp, or, when that has expired, with the
\* cookie alone.
AuthLogout(t) ==
    LET x == http[t]["logout"]
        mismatch == x.exp # None /\ x.tok # NoToken /\ x.tok.sid # x.exp
    IN  /\ x.st = "request"
        /\ \/ /\ mismatch
              /\ http' = [http EXCEPT ![t]["logout"] =
                            Reply("mismatch", "keep", x.tok)]
              /\ UNCHANGED <<status, reason>>
           \/ /\ ~mismatch /\ x.exp # None
              /\ Revoke(x.exp, "logout")
              /\ http' = [http EXCEPT ![t]["logout"] =
                            Reply("ok", IF x.tok = NoToken THEN "keep" ELSE "clear",
                                  x.tok)]
           \/ /\ ~mismatch
              /\ IF x.tok # NoToken /\ Recognised(x.tok)
                 THEN Revoke(x.tok.sid, "logout")
                 ELSE UNCHANGED <<status, reason>>
              /\ http' = [http EXCEPT ![t]["logout"] = Reply("ok", "clear", x.tok)]
        /\ UNCHANGED <<tabVars, chan, cookie, lock, fresh, late, count, histVars>>

AuthPresence(t) ==
    LET x == http[t]["presence"]
    IN  /\ x.st = "request"
        /\ http' = [http EXCEPT ![t]["presence"] =
             IF x.tok = NoToken THEN Idle
             ELSE IF Active(x.tok.sid) /\ Recognised(x.tok) THEN Idle
             ELSE Reply("denied", "clear", x.tok)]
        /\ UNCHANGED <<tabVars, chan, cookie, lock, srvVars, count, histVars>>

\* The session is revoked from another device, or by an administrator.
RevokeElsewhere(s) ==
    /\ Active(s)
    /\ Incident("elsewhere")
    /\ Revoke(s, "elsewhere")
    /\ UNCHANGED <<tabVars, http, chan, cookie, lock, fresh, late, histVars>>

GraceEnds(s) ==
    /\ fresh[s]
    /\ Incident("grace")
    /\ fresh' = [fresh EXCEPT ![s] = FALSE]
    /\ UNCHANGED <<tabVars, http, chan, cookie, lock, status, late, reason, histVars>>

-----------------------------------------------------------------------------
(* What the handlers of a tab have in common.                              *)

\* The browser stores or deletes the cookie of an answer.
SetCookie(r) ==
    IF r.set = "set" THEN r.tok ELSE IF r.set = "clear" THEN NoToken ELSE cookie

\* Whether answer r deletes a token the server would still accept: one of the
\* session it is about, or of another.
Wiped(r) ==
    IF r.set = "clear" /\ Active(cookie.sid) /\ Recognised(cookie)
    THEN {IF r.tok.sid = cookie.sid THEN "stale" ELSE "other"} ELSE {}

Publish(t, kind, s) ==
    chan' = [u \in Tabs |-> IF u = t THEN chan[u]
                            ELSE Append(chan[u], [kind |-> kind, sid |-> s])]

\* Mutant: the epoch is not advanced.
SupersededNever(r) == r

\* authEpoch += 1
Superseded(r) == IF r.st = "none" THEN r ELSE [r EXCEPT !.old = TRUE]

\* Mutant: a refused refresh leaves the tab signed in.
ClearedKeeps(t, sync) ==
    /\ boot' = [boot EXCEPT ![t] = "complete"]
    /\ UNCHANGED <<mem, chan, gone>>

\* clearAuthentication in tab t; sync is synchronizeTabs.
Cleared(t, sync) ==
    /\ mem' = [mem EXCEPT ![t] = None]
    /\ boot' = [boot EXCEPT ![t] = "complete"]
    /\ IF sync /\ mem[t] # None THEN Publish(t, "signed_out", mem[t])
       ELSE UNCHANGED chan
    /\ gone' = IF mem[t] # None /\ status[mem[t]] = "revoked"
               THEN [gone EXCEPT ![t] = @ \cup {mem[t]}] ELSE gone

\* A refresh of tab t ends with this outcome: the lock is released and those
\* who wait for it go on, the API request and executeLogout.
EndRefresh(t, outcome) ==
    /\ rf' = [rf EXCEPT ![t] = NoRefresh]
    /\ lock' = None
    /\ api' = [api EXCEPT ![t] = IF @ # "waiting" THEN @
                                 ELSE IF outcome = "authenticated" THEN "retried"
                                 ELSE "none"]
    /\ leaving' = [leaving EXCEPT ![t] =
                     @ \/ (api[t] = "waiting"
                            /\ outcome \in {"anonymous", "out_of_sync"})]
    /\ signing' = [signing EXCEPT ![t] = IF @ # "recovering" THEN @
                                         ELSE IF outcome = "authenticated"
                                         THEN "again" ELSE "no"]
    /\ http' = [http EXCEPT
                  ![t]["refresh"] = Idle,
                  ![t]["logout"] =
                     IF signing[t] = "recovering" /\ outcome = "authenticated"
                     THEN Request(cookie', mem'[t]) ELSE @]

\* refreshAuthentication: one refresh per tab.
StartedRefresh(t) == IF rf[t].st = "none" THEN [rf EXCEPT ![t] = Queued] ELSE rf

-----------------------------------------------------------------------------
(* Refreshing.                                                             *)

\* Timer of the presence hook, or headers that are about to expire.
RefreshAuthentication(t) ==
    /\ mem[t] # None /\ rf[t].st = "none"
    /\ rf' = StartedRefresh(t)
    /\ UNCHANGED <<mem, boot, api, signing, leaving, http, chan, cookie, lock, srvVars,
                   count, histVars>>

\* A route guard, the boot of a page, or the sign-in page.
ResolveAuthentication(t) ==
    /\ mem[t] # None \/ boot[t] # "complete"
    /\ \/ /\ mem[t] # None
          /\ boot' = [boot EXCEPT ![t] = "complete"]
          /\ UNCHANGED rf
       \/ /\ boot' = [boot EXCEPT ![t] = "idle"]
          /\ rf' = StartedRefresh(t)
    /\ UNCHANGED <<mem, api, signing, leaving, http, chan, cookie, lock, srvVars,
                   count, histVars>>

\* An API request is answered 401, because its token expired or its session
\* is no longer active.
ApiUnauthorized(t) ==
    /\ api[t] = "none"
    /\ Incident("denied")
    /\ api' = [api EXCEPT ![t] = "waiting"]
    /\ rf' = StartedRefresh(t)
    /\ UNCHANGED <<mem, boot, signing, leaving, http, chan, cookie, lock, srvVars,
                   histVars>>

\* The request is sent again with the new token.
ApiRetried(t) ==
    /\ api[t] = "retried"
    /\ api' = [api EXCEPT ![t] = "none"]
    /\ IF Active(mem[t])
       THEN UNCHANGED <<mem, boot, rf, leaving, chan, gone>>
       ELSE /\ Cleared(t, FALSE)
            /\ rf' = [rf EXCEPT ![t] = Superseded(@)]
            /\ leaving' = [leaving EXCEPT ![t] = TRUE]
    /\ UNCHANGED <<signing, http, cookie, lock, srvVars, count, lossy, wiped>>

\* Mutant: every tab refreshes without the lock.
RunRefreshUnlocked(t) ==
    /\ rf[t].st = "queued"
    /\ IF rf[t].old
       THEN /\ UNCHANGED <<mem, cookie>>
            /\ EndRefresh(t, "transient_error")
       ELSE /\ rf' = [rf EXCEPT ![t].st = "running"]
            /\ http' = [http EXCEPT ![t]["refresh"] = Request(cookie, mem[t])]
            /\ UNCHANGED <<mem, api, signing, leaving, cookie, lock>>
    /\ UNCHANGED <<boot, chan, srvVars, count, histVars>>

\* The browser grants the lock and the refresh runs.
RunRefresh(t) ==
    /\ rf[t].st = "queued" /\ lock = None
    /\ IF rf[t].old
       THEN /\ UNCHANGED <<mem, cookie>>
            /\ EndRefresh(t, "transient_error")
       ELSE /\ lock' = t
            /\ rf' = [rf EXCEPT ![t].st = "running"]
            /\ http' = [http EXCEPT ![t]["refresh"] = Request(cookie, mem[t])]
            /\ UNCHANGED <<mem, api, signing, leaving, cookie>>
    /\ UNCHANGED <<boot, chan, srvVars, count, histVars>>

\* The answer to the refresh of a tab that is still the current one.
Answered(t, r) ==
    \/ /\ r.res = "ok"
       /\ mem' = [mem EXCEPT ![t] = r.tok.sid]
       /\ boot' = [boot EXCEPT ![t] = "complete"]
       /\ EndRefresh(t, "authenticated")
       /\ UNCHANGED <<chan, gone>>
    \/ /\ r.res = "mismatch" /\ rf[t].retry
       /\ mem' = [mem EXCEPT ![t] = None]
       /\ boot' = [boot EXCEPT ![t] = "idle"]
       /\ rf' = [rf EXCEPT ![t].retry = FALSE]
       /\ http' = [http EXCEPT ![t]["refresh"] = Request(cookie, None)]
       /\ UNCHANGED <<api, signing, leaving, chan, lock, gone>>
    \/ /\ r.res = "mismatch" /\ ~rf[t].retry
       /\ Cleared(t, FALSE)
       /\ EndRefresh(t, "out_of_sync")
    \/ /\ r.res = "denied"
       /\ Cleared(t, TRUE)
       /\ EndRefresh(t, "anonymous")
    \/ /\ r.res = "failed"
       /\ boot' = [boot EXCEPT ![t] = "idle"]
       /\ UNCHANGED <<mem, chan, gone>>
       /\ EndRefresh(t, "transient_error")

RefreshReply(t) ==
    LET r == http[t]["refresh"]
    IN  /\ r.st = "reply"
        /\ cookie' = SetCookie(r)
        /\ IF rf[t].old
           THEN /\ UNCHANGED <<mem, boot, chan, gone>>
                /\ EndRefresh(t, "transient_error")
           ELSE Answered(t, r)
        /\ wiped' = wiped \cup Wiped(r)
        /\ UNCHANGED <<srvVars, count, lossy>>

-----------------------------------------------------------------------------
(* Signing in and out, presence, other tabs.                               *)

\* The sign-in form, shown once the page's own refresh has ended, is posted and
\* the server creates a session, which nobody can use before the answer arrives.
Login(t) ==
    /\ mem[t] = None /\ rf[t].st = "none" /\ http[t]["login"].st = "idle"
    /\ \E s \in Sids :
         /\ status[s] = "unused"
         /\ status' = [status EXCEPT ![s] = "active"]
         /\ http' = [http EXCEPT ![t]["login"] = Reply("ok", "set", Current(s))]
    /\ UNCHANGED <<tabVars, chan, cookie, lock, fresh, late, reason, count, histVars>>

\* handleLoginSuccess, unless the tab got a session in the meantime.
LoginReply(t) ==
    LET r == http[t]["login"]
    IN  /\ r.st = "reply"
        /\ cookie' = SetCookie(r)
        /\ http' = [http EXCEPT ![t]["login"] = Idle]
        /\ IF r.res = "ok" /\ mem[t] = None
           THEN /\ mem' = [mem EXCEPT ![t] = r.tok.sid]
                /\ boot' = [boot EXCEPT ![t] = "complete"]
                /\ rf' = [rf EXCEPT ![t] = Superseded(@)]
                /\ Publish(t, "authenticated", r.tok.sid)
           ELSE UNCHANGED <<mem, boot, rf, chan>>
        /\ UNCHANGED <<api, signing, leaving, lock, srvVars, count, histVars>>

\* The sign-out dialog: executeLogout.
SignOut(t) ==
    /\ signing[t] = "no" /\ mem[t] # None
    /\ Incident("sign-out")
    /\ signing' = [signing EXCEPT ![t] = "asking"]
    /\ http' = [http EXCEPT ![t]["logout"] = Request(cookie, mem[t])]
    /\ UNCHANGED <<mem, boot, rf, api, leaving, chan, cookie, lock, srvVars, histVars>>

LogoutReply(t) ==
    LET r == http[t]["logout"]
    IN  /\ r.st = "reply"
        /\ cookie' = SetCookie(r)
        /\ http' = [http EXCEPT ![t]["logout"] = Idle]
        /\ \/ /\ r.res = "ok"
              /\ signing' = [signing EXCEPT ![t] = "no"]
              /\ Cleared(t, TRUE)
              /\ rf' = [rf EXCEPT ![t] = Superseded(@)]
           \/ /\ r.res = "mismatch" /\ signing[t] = "asking"
              /\ signing' = [signing EXCEPT ![t] = "recovering"]
              /\ rf' = StartedRefresh(t)
              /\ UNCHANGED <<mem, boot, chan, gone>>
           \/ /\ \/ r.res = "failed"
                 \/ r.res = "mismatch" /\ signing[t] = "again"
              /\ signing' = [signing EXCEPT ![t] = "no"]
              /\ UNCHANGED <<mem, boot, rf, chan, gone>>
        /\ wiped' = IF Wiped(r) = {} THEN wiped ELSE wiped \cup {"sign-out"}
        /\ UNCHANGED <<api, leaving, lock, srvVars, count, lossy>>

\* The presence hook opens an event source for the session in memory.
Connect(t) ==
    /\ mem[t] # None /\ http[t]["presence"].st = "idle"
    /\ Incident("presence")
    /\ http' = [http EXCEPT ![t]["presence"] = Request(cookie, mem[t])]
    /\ UNCHANGED <<tabVars, chan, cookie, lock, srvVars, histVars>>

\* The server refused the connection, which is opened again later.
PresenceReply(t) ==
    LET r == http[t]["presence"]
    IN  /\ r.st = "reply"
        /\ http' = [http EXCEPT ![t]["presence"] = Idle]
        /\ IF mem[t] = None THEN UNCHANGED <<cookie, wiped>>
           ELSE cookie' = SetCookie(r) /\ wiped' = wiped \cup Wiped(r)
        /\ UNCHANGED <<tabVars, chan, lock, srvVars, count, lossy, gone>>

\* applyAuthRotation: a security change renewed the access token.
ApplyAuthRotation(t) ==
    /\ Active(mem[t])
    /\ rf[t].st # "none"
    /\ rf' = [rf EXCEPT ![t] = Superseded(@)]
    /\ UNCHANGED <<mem, boot, api, signing, leaving, http, chan, cookie, lock, srvVars,
                   count, histVars>>

Deliver(t) ==
    LET e == Head(chan[t])
        rest == [chan EXCEPT ![t] = Tail(@)]
    IN  /\ chan[t] # <<>>
        /\ chan' = rest
        /\ IF mem[t] # None /\ (e.kind = "authenticated") = (e.sid # mem[t])
           THEN /\ mem' = [mem EXCEPT ![t] = None]
                /\ boot' = [boot EXCEPT ![t] = "complete"]
                /\ rf' = [rf EXCEPT ![t] = Superseded(@)]
                /\ gone' = IF status[mem[t]] = "revoked"
                           THEN [gone EXCEPT ![t] = @ \cup {mem[t]}] ELSE gone
           ELSE UNCHANGED <<mem, boot, rf, gone>>
        /\ leaving' = [leaving EXCEPT ![t] =
                         @ \/ (e.kind = "authenticated" /\ e.sid # mem[t])]
        /\ UNCHANGED <<api, signing, http, cookie, lock, srvVars, count, lossy,
                       wiped>>

\* A tab that slept for a minute ignores what it missed.
Expire(t) ==
    /\ chan[t] # <<>>
    /\ Incident("lose")
    /\ chan' = [chan EXCEPT ![t] = Tail(@)]
    /\ UNCHANGED <<tabVars, http, cookie, lock, srvVars, histVars>>

-----------------------------------------------------------------------------
(* Faults.                                                                 *)

\* An answer that rotated a token never reached the cookie.
LostRotation(x) == x.st = "reply" /\ x.set = "set"

Lose(t, k) ==
    /\ k # "presence" /\ http[t][k].st # "idle"
    /\ Incident("lose")
    /\ http' = [http EXCEPT ![t][k] = Reply("failed", "keep", NoToken)]
    /\ lossy' = IF LostRotation(http[t][k]) THEN lossy \cup {http[t][k].tok.sid}
                ELSE lossy
    /\ UNCHANGED <<tabVars, chan, cookie, lock, srvVars, gone,
                   wiped>>

\* The page is loaded again; the browser releases its lock and drops its
\* requests, which the server may still receive.
Reload(t) ==
    LET x == http[t]["refresh"]
    IN  /\ IF leaving[t] THEN UNCHANGED count ELSE Incident("reload")
        /\ mem' = [mem EXCEPT ![t] = None]
        /\ boot' = [boot EXCEPT ![t] = "idle"]
        /\ rf' = [rf EXCEPT ![t] = NoRefresh]
        /\ api' = [api EXCEPT ![t] = "none"]
        /\ signing' = [signing EXCEPT ![t] = "no"]
        /\ leaving' = [leaving EXCEPT ![t] = FALSE]
        /\ http' = [http EXCEPT ![t] = [k \in Kinds |-> Idle]]
        /\ chan' = [chan EXCEPT ![t] = <<>>]
        /\ lock' = IF lock = t THEN None ELSE lock
        /\ late' = IF x.st = "request" THEN late \cup {x} ELSE late
        /\ lossy' = IF LostRotation(x) THEN lossy \cup {x.tok.sid} ELSE lossy
        /\ UNCHANGED <<cookie, status, fresh, reason, gone, wiped>>

-----------------------------------------------------------------------------
Init ==
    /\ mem = [t \in Tabs |-> None]
    /\ boot = [t \in Tabs |-> "idle"]
    /\ rf = [t \in Tabs |-> NoRefresh]
    /\ api = [t \in Tabs |-> "none"]
    /\ signing = [t \in Tabs |-> "no"]
    /\ leaving = [t \in Tabs |-> FALSE]
    /\ http = [t \in Tabs |-> [k \in Kinds |-> Idle]]
    /\ chan = [t \in Tabs |-> <<>>]
    /\ cookie = NoToken /\ lock = None
    /\ status = [s \in Sids |-> "unused"]
    /\ fresh = [s \in Sids |-> FALSE]
    /\ late = {}
    /\ count = 0
    /\ reason = [s \in Sids |-> "none"]
    /\ lossy = {} /\ gone = [t \in Tabs |-> {}] /\ wiped = {}

Tab(t) ==
    \/ RefreshAuthentication(t) \/ ResolveAuthentication(t)
    \/ ApiUnauthorized(t) \/ ApiRetried(t)
    \/ RunRefresh(t) \/ RefreshReply(t)
    \/ Login(t) \/ LoginReply(t)
    \/ SignOut(t) \/ LogoutReply(t)
    \/ Connect(t) \/ PresenceReply(t)
    \/ ApplyAuthRotation(t)
    \/ Deliver(t) \/ Expire(t)
    \/ Reload(t)

Server(t) ==
    RefreshAuth(t) \/ AuthLogout(t) \/ AuthPresence(t)

Next ==
    \/ \E t \in Tabs : Tab(t)
    \/ \E t \in Tabs : Server(t)
    \/ \E x \in late : RefreshAuthLate(x)
    \/ \E s \in Sids : RevokeElsewhere(s)
    \/ \E s \in Sids : GraceEnds(s)
    \/ \E t \in Tabs, k \in Kinds : Lose(t, k)

Spec == Init /\ [][Next]_vars

\* Timers fire, the browser grants its lock in turn, requests are served and
\* answered.
FairSpec ==
    /\ Spec
    /\ \A t \in Tabs :
         /\ WF_vars(RefreshAuthentication(t))
         /\ SF_vars(RunRefresh(t))
         /\ WF_vars(RefreshAuth(t))
         /\ WF_vars(RefreshReply(t))

-----------------------------------------------------------------------------
(* Properties.                                                             *)

Tokens == [sid : Sids \cup {None}, age : 0..2]
Requests == [st : {"request"}, tok : Tokens, exp : Sids \cup {None}]
Replies == [st : {"reply"}, res : {"ok", "mismatch", "denied", "failed"},
            set : {"set", "keep", "clear"}, tok : Tokens]
Exchanges == {Idle} \cup Requests \cup Replies
Events == [kind : {"authenticated", "signed_out"}, sid : Sids \cup {None}]

RefreshStates ==
    [Tabs -> [st : {"none", "queued", "running"}, old : BOOLEAN, retry : BOOLEAN]]

TabType ==
    /\ mem \in [Tabs -> Sids \cup {None}]
    /\ boot \in [Tabs -> {"idle", "complete"}]
    /\ rf \in RefreshStates
    /\ api \in [Tabs -> {"none", "waiting", "retried"}]
    /\ signing \in [Tabs -> {"no", "asking", "recovering", "again"}]
    /\ leaving \in [Tabs -> BOOLEAN]

WebType ==
    /\ http \in [Tabs -> [Kinds -> Exchanges]]
    /\ late \subseteq Requests
    /\ cookie \in Tokens
    /\ lock \in Tabs \cup {None}

ServerType ==
    /\ status \in [Sids -> {"unused", "active", "revoked"}]
    /\ fresh \in [Sids -> BOOLEAN]
    /\ reason \in [Sids -> {"none", "refresh_reuse", "logout", "elsewhere"}]
    /\ count \in 0..MaxIncidents

HistoryType ==
    /\ lossy \subseteq Sids \cup {None}
    /\ gone \in [Tabs -> SUBSET Sids]
    /\ wiped \subseteq {"stale", "other", "sign-out"}

\* The stores of the tabs, what is in transit, the cookie and the session rows
\* have their types.
TypeOK ==
    /\ TabType /\ WebType /\ ServerType /\ HistoryType
    /\ chan \in [Tabs -> Seq(Events)]

\* A session that was revoked and that a tab cleared, because it signed out or
\* heard of it, never comes back into that tab: an answer of a refresh sent
\* before is fenced by the epoch.
SignedOutStaysOut == \A t \in Tabs : mem[t] \notin gone[t]

\* The server takes a session for stolen only if an answer that rotated its
\* token was lost, or a refresh request outlived its page: tabs that refresh at
\* the same time never cause it.
ReuseNeedsLoss == \A s \in Sids : reason[s] = "refresh_reuse" => s \in lossy

\* A refresh signs a tab out of a session that is still active only if another
\* login took its place in the browser, if its cookie was wiped, or if an answer
\* that rotated its token was lost for longer than the grace window.
ActiveStaysIn ==
    [][\A t \in Tabs :
         mem[t] # None /\ rf[t].st = "running" /\ ~rf[t].old
           /\ http[t]["refresh"].st = "reply" /\ http[t]["refresh"].res = "denied"
           /\ http'[t]["refresh"] = Idle /\ wiped = {}
           /\ (mem[t] \in lossy => fresh[mem[t]])
           /\ (\A s \in Sids \ {mem[t]} : status[s] = "unused")
         => ~Active(mem[t])]_vars

\* A sign-out reported as successful has revoked the session the tab was
\* signed in to.
SignOutRevokes ==
    [][\A t \in Tabs :
         mem[t] # None /\ signing[t] # "no" /\ http[t]["logout"].st = "reply"
           /\ http[t]["logout"].res = "ok" /\ http'[t]["logout"] = Idle
           /\ ~leaving[t] /\ mem'[t] = None
         => status[mem[t]] = "revoked"]_vars

\* Rejecting a token of an earlier generation leaves the current one alone.
StaleTokenOnlyRejected == "stale" \notin wiped

\* The answer to a refresh that a newer login has superseded neither replaces
\* nor deletes the login's cookie.
NewerLoginWins ==
    [][\A t \in Tabs : rf[t].old /\ rf'[t].st = "none" /\ Active(cookie.sid)
                         => cookie'.sid = cookie.sid]_vars

\* A revoked session leaves every tab.
RevokedLeaves ==
    \A t \in Tabs, s \in Sids :
        (mem[t] = s /\ status[s] = "revoked") ~> (mem[t] # s)

-----------------------------------------------------------------------------
(* Why sessions that are over stay over, and refreshes are not thefts.     *)

\* The tab whose refresh runs has the lock and is the only one to exchange.
LockInv ==
    \A t \in Tabs :
        /\ lock = t <=> rf[t].st = "running"
        /\ http[t]["refresh"].st = "idle" <=> rf[t].st # "running"

\* What the server answers: only a refresh and a login set the cookie.
ReplyInv ==
    \A t \in Tabs :
        /\ \A k \in {"logout", "presence"} :
             http[t][k].st = "reply" => http[t][k].set # "set"
        /\ http[t]["refresh"].st = "reply" =>
             /\ http[t]["refresh"].set = "set" <=> http[t]["refresh"].res = "ok"
             /\ http[t]["refresh"].res = "mismatch" => http[t]["refresh"].set = "keep"
        /\ http[t]["login"].st # "request"

\* Only the answer to its login has session s.
Unseen(s) ==
    /\ cookie.sid # s
    /\ \A x \in late : x.tok.sid # s
    /\ \A t \in Tabs :
         mem[t] # s /\ (http[t]["refresh"].st # "idle" => http[t]["refresh"].tok.sid # s)

Granted(t, s) == http[t]["login"].st = "reply" /\ http[t]["login"].tok.sid = s

LoginInv ==
    \A s \in Sids :
        /\ status[s] = "unused" => Unseen(s) /\ \A t \in Tabs : ~Granted(t, s)
        /\ \A t \in Tabs : Granted(t, s) =>
             /\ Unseen(s) /\ http[t]["login"].tok.age = 0
             /\ \A u \in Tabs \ {t} : ~Granted(u, s)

\* A session that the tab has left is revoked, and no answer that the tab would
\* accept brings it back.
GoneInv ==
    \A t \in Tabs : \A s \in gone[t] :
        /\ status[s] = "revoked" /\ mem[t] # s /\ ~Granted(t, s)
        /\ http[t]["refresh"].st = "reply" /\ http[t]["refresh"].res = "ok" /\ ~rf[t].old
             => http[t]["refresh"].tok.sid # s

\* While no rotation of session s is lost, its cookie is current or about to be.
Arriving(t, s) ==
    /\ http[t]["refresh"].st = "reply" /\ http[t]["refresh"].set = "set"
    /\ http[t]["refresh"].tok.sid = s

RotationInv ==
    \A s \in Sids \ lossy :
        /\ reason[s] # "refresh_reuse"
        /\ cookie.sid = s => cookie.age = 0 \/ \E t \in Tabs : Arriving(t, s)
        /\ \A t \in Tabs :
             (http[t]["refresh"].st = "request" /\ http[t]["refresh"].tok.sid = s)
               \/ Arriving(t, s)
             => http[t]["refresh"].tok.age = 0

SessionInv == LockInv /\ ReplyInv /\ LoginInv /\ GoneInv /\ RotationInv

\* The browser and the requests under way hold no token of s newer than age n.
NoneNewer(s, n) ==
    /\ cookie.sid = s => n <= cookie.age
    /\ \A x \in late : x.tok.sid = s => n <= x.tok.age

Sent(t, s) ==
    http[t]["refresh"].st = "request" /\ http[t]["refresh"].tok.sid = s

\* An answer that sets the cookie sets a session's token; the answer to a login
\* does, or was lost.
AnswerInv ==
    \A t \in Tabs :
        /\ LostRotation(http[t]["refresh"]) => http[t]["refresh"].tok.sid \in Sids
        /\ http[t]["login"].st = "reply" =>
             \/ http[t]["login"].set = "set" /\ http[t]["login"].tok.sid \in Sids
             \/ http[t]["login"].set = "keep" /\ http[t]["login"].res # "ok"

\* The cookie is at most one rotation behind, and nothing under way is newer.
OrderInv ==
    \A s \in Sids :
        /\ cookie.sid = s => cookie.age <= 1 /\ NoneNewer(s, cookie.age)
        /\ \A t \in Tabs :
             /\ Sent(t, s) =>
                  /\ http[t]["refresh"].tok.age <= 1
                  /\ NoneNewer(s, http[t]["refresh"].tok.age)
                  /\ cookie.sid = s => cookie.age = http[t]["refresh"].tok.age
             /\ Arriving(t, s) => http[t]["refresh"].tok.age = 0 /\ NoneNewer(s, 1)

\* Session s is the only one there ever was, active, and no token the server
\* would accept has been deleted.
Alone(s) ==
    Active(s) /\ wiped = {} /\ \A v \in Sids \ {s} : status[v] = "unused"

\* No token of s that the server would accept is left but one that is arriving.
Lapsed(s) ==
    /\ ~fresh[s] /\ NoneNewer(s, 1)
    /\ \A t \in Tabs : Sent(t, s) => 1 <= http[t]["refresh"].tok.age

\* The browser has no token of a session that a tab is signed in to only after
\* a rotation was lost and the grace window ended.
LapseInv ==
    \A s \in Sids : Alone(s) =>
        /\ (\E t \in Tabs : mem[t] = s) /\ cookie.sid # s =>
             Lapsed(s) /\ (s \in lossy \/ \E t \in Tabs : Arriving(t, s))
        /\ \A t \in Tabs :
             mem[t] = s /\ ~rf[t].old
               /\ \/ http[t]["refresh"].st = "request" /\ ~Sent(t, s)
                  \/ http[t]["refresh"].st = "reply" /\ http[t]["refresh"].res = "denied"
             => cookie.sid # s

TokenInv == AnswerInv /\ OrderInv /\ LapseInv
=============================================================================
