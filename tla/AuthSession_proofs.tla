------------------------- MODULE AuthSession_proofs -------------------------
(***************************************************************************)
(* Proofs about AuthSession: types and the inductive invariant SessionInv, *)
(* for any number of tabs, logins and incidents.                           *)
(*                                                                         *)
(* Most steps of a tab touch no refresh or login exchange; what they may   *)
(* do to the invariant is the lemma SessionKept.  The others, which send,  *)
(* answer, lose or apply such an exchange, have a lemma each.              *)
(***************************************************************************)
EXTENDS AuthSession, TLAPS

-----------------------------------------------------------------------------
(* Types.                                                                  *)

LEMMA ExchangeTypes ==
    /\ Idle \in Exchanges /\ NoToken \in Tokens
    /\ \A tok \in Tokens, e \in Sids \cup {None} : Request(tok, e) \in Requests
    /\ \A res \in {"ok", "mismatch", "denied", "failed"}, set \in {"set", "keep", "clear"},
          tok \in Tokens : Reply(res, set, tok) \in Replies
    /\ \A s \in Sids : Current(s) \in Tokens
    /\ Requests \subseteq Exchanges /\ Replies \subseteq Exchanges
BY DEF Exchanges, Requests, Replies, Tokens, Idle, NoToken, Request, Reply, Current

\* One exchange changes.
LEMMA PutType ==
    ASSUME WebType, NEW t \in Tabs, NEW k \in Kinds, NEW x \in Exchanges
    PROVE  /\ [http EXCEPT ![t][k] = x] \in [Tabs -> [Kinds -> Exchanges]]
           /\ \A u \in Tabs, j \in Kinds : [http EXCEPT ![t][k] = x][u][j] =
                IF u = t /\ j = k THEN x ELSE http[u][j]
BY DEF WebType

LEMMA OlderType ==
    ASSUME NEW tok \in Tokens, NEW s
    PROVE  Older(tok, s) \in Tokens /\ Older(tok, s).sid = tok.sid
BY DEF Older, Tokens

\* Ageing changes no more than ages.
LEMMA OlderExchangeType ==
    ASSUME NEW x \in Exchanges, NEW s
    PROVE  /\ OlderExchange(x, s) \in Exchanges
           /\ x \in Requests => OlderExchange(x, s) \in Requests
           /\ OlderExchange(x, s).st = x.st
           /\ x.st # "idle" => /\ OlderExchange(x, s).tok = Older(x.tok, s)
                               /\ OlderExchange(x, s).tok.sid = x.tok.sid
           /\ x.st = "reply" => /\ OlderExchange(x, s).res = x.res
                                /\ OlderExchange(x, s).set = x.set
<1>1. CASE x = Idle
  BY <1>1 DEF OlderExchange, Idle, Requests, Replies, Exchanges
<1>2. CASE x \in Requests
  <2>1. x.tok \in Tokens /\ x.st = "request"
    BY <1>2 DEF Requests
  <2>2. OlderExchange(x, s) = [x EXCEPT !.tok = Older(x.tok, s)]
    BY <2>1 DEF OlderExchange
  <2> QED BY <1>2, <2>1, <2>2, OlderType DEF Requests, Exchanges
<1>3. CASE x \in Replies
  <2>1. x.tok \in Tokens /\ x.st = "reply"
    BY <1>3 DEF Replies
  <2>2. OlderExchange(x, s) = [x EXCEPT !.tok = Older(x.tok, s)]
    BY <2>1 DEF OlderExchange
  <2> QED BY <1>3, <2>1, <2>2, OlderType DEF Requests, Replies, Exchanges
<1> QED BY <1>1, <1>2, <1>3 DEF Exchanges

LEMMA PublishType ==
    ASSUME TypeOK, NEW t \in Tabs, NEW kind \in {"authenticated", "signed_out"},
           NEW s \in Sids \cup {None}, Publish(t, kind, s)
    PROVE  chan' \in [Tabs -> Seq(Events)]
<1> DEFINE e == [kind |-> kind, sid |-> s]
<1>1. e \in Events
  BY DEF Events
<1> HIDE DEF e
<1>2. \A u \in Tabs : Append(chan[u], e) \in Seq(Events)
  BY <1>1 DEF TypeOK
<1>3. chan' = [u \in Tabs |-> IF u = t THEN chan[u] ELSE Append(chan[u], e)]
  BY DEF Publish, e
<1> QED BY <1>2, <1>3 DEF TypeOK

LEMMA ClearedType ==
    ASSUME TypeOK, NEW t \in Tabs, NEW sync \in BOOLEAN, Cleared(t, sync)
    PROVE  /\ mem' \in [Tabs -> Sids \cup {None}] /\ boot' \in [Tabs -> {"idle", "complete"}]
           /\ chan' \in [Tabs -> Seq(Events)] /\ gone' \in [Tabs -> SUBSET Sids]
<1>1. chan' \in [Tabs -> Seq(Events)]
  BY PublishType DEF Cleared, TypeOK, TabType
<1>2. gone' \in [Tabs -> SUBSET Sids]
  BY DEF Cleared, TypeOK, TabType, HistoryType
<1> QED BY <1>1, <1>2 DEF Cleared, TypeOK, TabType

LEMMA EndRefreshType ==
    ASSUME TypeOK, NEW t \in Tabs, NEW outcome, EndRefresh(t, outcome),
           mem' \in [Tabs -> Sids \cup {None}], cookie' \in Tokens
    PROVE  /\ rf' \in RefreshStates
           /\ lock' = None /\ api' \in [Tabs -> {"none", "waiting", "retried"}]
           /\ leaving' \in [Tabs -> BOOLEAN]
           /\ signing' \in [Tabs -> {"no", "asking", "recovering", "again"}]
           /\ http' \in [Tabs -> [Kinds -> Exchanges]]
           /\ \A u \in Tabs, j \in Kinds \ {"logout"} :
                http'[u][j] = IF u = t /\ j = "refresh" THEN Idle ELSE http[u][j]
           /\ \A u \in Tabs :
                http'[u]["logout"] = http[u]["logout"] \/ http'[u]["logout"].st = "request"
<1> USE DEF TypeOK, TabType, WebType
<1>1. leaving' \in [Tabs -> BOOLEAN]
  BY DEF EndRefresh
<1>2. /\ rf' \in RefreshStates
      /\ lock' = None /\ api' \in [Tabs -> {"none", "waiting", "retried"}]
      /\ signing' \in [Tabs -> {"no", "asking", "recovering", "again"}]
  BY DEF EndRefresh, NoRefresh, RefreshStates
<1>3. PICK x \in Exchanges :
        /\ http' = [http EXCEPT ![t]["refresh"] = Idle, ![t]["logout"] = x]
        /\ x = http[t]["logout"] \/ x.st = "request"
  <2>1. http[t]["logout"] \in Exchanges /\ Request(cookie', mem'[t]) \in Exchanges
        /\ Request(cookie', mem'[t]).st = "request"
    BY ExchangeTypes DEF Kinds, Request
  <2> QED BY <2>1 DEF EndRefresh, Kinds
<1>4. "refresh" \in Kinds /\ "logout" \in Kinds /\ Idle \in Exchanges
  BY ExchangeTypes DEF Kinds
<1>5. http' \in [Tabs -> [Kinds -> Exchanges]]
  BY <1>3, <1>4
<1>6. \A u \in Tabs, j \in Kinds \ {"logout"} :
        http'[u][j] = IF u = t /\ j = "refresh" THEN Idle ELSE http[u][j]
  BY <1>3, <1>4
<1>7. \A u \in Tabs :
        http'[u]["logout"] = http[u]["logout"] \/ http'[u]["logout"].st = "request"
  BY <1>3, <1>4
<1> QED BY <1>1, <1>2, <1>5, <1>6, <1>7

\* The refresh of a tab is started, or superseded.
LEMMA RefreshTypes ==
    ASSUME TypeOK, NEW t \in Tabs
    PROVE  /\ StartedRefresh(t) \in RefreshStates
           /\ [rf EXCEPT ![t] = Superseded(@)] \in RefreshStates
BY DEF TypeOK, TabType, RefreshStates, StartedRefresh, Queued, NoRefresh, Superseded

LEMMA RefreshStep ==
    ASSUME TypeOK, NEW t \in Tabs, Tab(t) \/ Server(t)
    PROVE  rf' \in RefreshStates
<1>1. \/ rf' \in {rf, StartedRefresh(t)} \/ rf' = [rf EXCEPT ![t] = Superseded(@)]
      \/ rf' = [rf EXCEPT ![t] = NoRefresh]
      \/ rf' = [rf EXCEPT ![t].st = "running"] \/ rf' = [rf EXCEPT ![t].retry = FALSE]
  BY DEF Tab, Server, RefreshAuthentication, ResolveAuthentication, ApiUnauthorized, ApiRetried,
     RunRefresh, RefreshReply, Answered, EndRefresh, Login, LoginReply, SignOut, LogoutReply,
     Connect, PresenceReply, ApplyAuthRotation, Deliver, Expire, Reload, RefreshAuth, AuthLogout,
     AuthPresence, tabVars
<1>2. rf \in RefreshStates
  BY DEF TypeOK, TabType
<1>3. CASE rf' \in {rf, StartedRefresh(t)} \/ rf' = [rf EXCEPT ![t] = Superseded(@)]
  BY <1>2, <1>3, RefreshTypes
<1>4. CASE rf' = [rf EXCEPT ![t] = NoRefresh]
  BY <1>2, <1>4 DEF RefreshStates, NoRefresh
<1>5. CASE rf' = [rf EXCEPT ![t].st = "running"]
  BY <1>2, <1>5 DEF RefreshStates
<1>6. CASE rf' = [rf EXCEPT ![t].retry = FALSE]
  BY <1>2, <1>6 DEF RefreshStates
<1> QED BY <1>1, <1>3, <1>4, <1>5, <1>6

LEMMA RefreshResultType ==
    ASSUME TypeOK, NEW tok \in Tokens, NEW e \in Sids \cup {None}
    PROVE  /\ RefreshResult(tok, e) \in Replies
           /\ RefreshResult(tok, e).set = "set" <=> RefreshResult(tok, e).res = "ok"
           /\ RefreshResult(tok, e).res = "mismatch" => RefreshResult(tok, e).set = "keep"
           /\ RefreshResult(tok, e).tok.sid \in {tok.sid, None}
           /\ RefreshResult(tok, e).res = "ok" =>
                /\ RefreshResult(tok, e).tok = Current(tok.sid)
                /\ Active(tok.sid) /\ e \in {None, tok.sid} /\ tok # NoToken /\ Recognised(tok)
<1>1. ~Active(None)
  BY DEF Active
<1>2. tok.sid \in Sids \cup {None} /\ (Active(tok.sid) => tok.sid \in Sids)
  BY <1>1 DEF Tokens
<1>3. RefreshResult(tok, e) \in Replies
  BY <1>2, ExchangeTypes DEF RefreshResult
<1>4. /\ RefreshResult(tok, e).set = "set" <=> RefreshResult(tok, e).res = "ok"
      /\ RefreshResult(tok, e).res = "mismatch" => RefreshResult(tok, e).set = "keep"
  BY DEF RefreshResult, Reply
<1>5. RefreshResult(tok, e).tok.sid \in {tok.sid, None}
  BY DEF RefreshResult, Reply, Current, NoToken
<1>6. RefreshResult(tok, e).res = "ok" =>
        /\ RefreshResult(tok, e).tok = Current(tok.sid)
        /\ Active(tok.sid) /\ e \in {None, tok.sid} /\ tok # NoToken /\ Recognised(tok)
  BY DEF RefreshResult, Reply
<1> QED BY <1>3, <1>4, <1>5, <1>6

\* A rotation ages what is in transit, the cookie and the late requests.
LEMMA AgedType ==
    ASSUME TypeOK, NEW tok \in Tokens, NEW e, NEW reqs, reqs \subseteq Requests
    PROVE  /\ Aged(tok, e) \in [Tabs -> [Kinds -> Exchanges]]
           /\ AgedCookie(tok, e) \in Tokens /\ AgedLate(reqs, tok, e) \subseteq Requests
           /\ \A u \in Tabs, k \in Kinds :
                Aged(tok, e)[u][k] = IF Rotates(tok, e) THEN OlderExchange(http[u][k], tok.sid)
                                     ELSE http[u][k]
<1> USE DEF TypeOK, WebType
<1>1. Aged(tok, e) \in [Tabs -> [Kinds -> Exchanges]]
  BY OlderExchangeType DEF Aged
<1>2. AgedCookie(tok, e) \in Tokens
  BY OlderType DEF AgedCookie
<1>3. AgedLate(reqs, tok, e) \subseteq Requests
  <2>1. \A x \in reqs : OlderExchange(x, tok.sid) \in Requests
    BY OlderExchangeType, ExchangeTypes
  <2> QED BY <2>1 DEF AgedLate
<1>4. \A u \in Tabs, k \in Kinds :
        Aged(tok, e)[u][k] = IF Rotates(tok, e) THEN OlderExchange(http[u][k], tok.sid)
                             ELSE http[u][k]
  BY DEF Aged
<1> QED BY <1>1, <1>2, <1>3, <1>4

LEMMA RotateType ==
    ASSUME TypeOK, NEW tok \in Tokens, NEW e, RotateUserSessionRefresh(tok, e)
    PROVE  /\ status' \in [Sids -> {"unused", "active", "revoked"}]
           /\ fresh' \in [Sids -> BOOLEAN]
           /\ reason' \in [Sids -> {"none", "refresh_reuse", "logout", "elsewhere"}]
BY DEF RotateUserSessionRefresh, TypeOK, ServerType

LEMMA RevokeType ==
    ASSUME TypeOK, NEW s, NEW why \in {"logout", "elsewhere"}, Revoke(s, why)
    PROVE  /\ status' \in [Sids -> {"unused", "active", "revoked"}]
           /\ reason' \in [Sids -> {"none", "refresh_reuse", "logout", "elsewhere"}]
BY DEF Revoke, TypeOK, ServerType

LEMMA SetCookieType ==
    ASSUME TypeOK, NEW r \in Replies
    PROVE  SetCookie(r) \in Tokens /\ Wiped(r) \subseteq {"stale", "other"}
BY ExchangeTypes DEF SetCookie, Wiped, TypeOK, WebType, Replies

LEMMA ReplyType ==
    ASSUME TypeOK, NEW t \in Tabs, NEW k \in Kinds
    PROVE  /\ http[t][k] \in Exchanges
           /\ http[t][k].st = "idle" <=> http[t][k] = Idle
           /\ http[t][k].st = "request" => http[t][k] \in Requests
           /\ http[t][k].st = "reply" => http[t][k] \in Replies
           /\ http[t][k].st \in {"idle", "request", "reply"}
<1>1. http[t][k] \in Exchanges
  BY DEF TypeOK, WebType
<1> QED BY <1>1 DEF Exchanges, Idle, Requests, Replies

LEMMA ServerTypeStep ==
    ASSUME TypeOK, NEW t \in Tabs, Server(t)
    PROVE  TypeOK'
<1> "refresh" \in Kinds /\ "logout" \in Kinds /\ "presence" \in Kinds
  BY DEF Kinds
<1>1. CASE RefreshAuth(t)
  <2> DEFINE x == http[t]["refresh"]
  <2>1. x \in Requests /\ x.tok \in Tokens /\ x.exp \in Sids \cup {None}
    BY <1>1, ReplyType DEF RefreshAuth, Requests
  <2>2. RefreshResult(x.tok, x.exp) \in Exchanges
    BY <2>1, RefreshResultType, ExchangeTypes
  <2>3. http' = [Aged(x.tok, x.exp) EXCEPT ![t]["refresh"] = RefreshResult(x.tok, x.exp)]
        /\ cookie' = AgedCookie(x.tok, x.exp) /\ late' = AgedLate(late, x.tok, x.exp)
        /\ RotateUserSessionRefresh(x.tok, x.exp)
        /\ UNCHANGED <<tabVars, chan, lock, count, histVars>>
    BY <1>1 DEF RefreshAuth
  <2> HIDE DEF x
  <2>4. late \subseteq Requests
    BY DEF TypeOK, WebType
  <2>5. http' \in [Tabs -> [Kinds -> Exchanges]] /\ cookie' \in Tokens /\ late' \subseteq Requests
    BY <2>1, <2>2, <2>3, <2>4, AgedType
  <2>6. ServerType'
    BY <2>1, <2>3, RotateType DEF ServerType, TypeOK
  <2> QED BY <2>3, <2>5, <2>6 DEF TypeOK, TabType, WebType, HistoryType, tabVars, histVars
<1>2. CASE AuthLogout(t)
  <2> DEFINE x == http[t]["logout"]
  <2>1. x \in Requests /\ x.tok \in Tokens /\ x.exp \in Sids \cup {None}
    BY <1>2, ReplyType DEF AuthLogout, Requests
  <2>2. PICK y \in Exchanges : http' = [http EXCEPT ![t]["logout"] = y]
    BY <1>2, <2>1, ExchangeTypes DEF AuthLogout
  <2>3. http' \in [Tabs -> [Kinds -> Exchanges]]
    BY <2>2, PutType DEF TypeOK
  <2>4. ServerType'
    BY <1>2, RevokeType DEF AuthLogout, ServerType, TypeOK
  <2> QED BY <1>2, <2>3, <2>4 DEF AuthLogout, TypeOK, TabType, WebType, HistoryType, tabVars, histVars
<1>3. CASE AuthPresence(t)
  <2> DEFINE x == http[t]["presence"]
  <2>1. x \in Requests /\ x.tok \in Tokens
    BY <1>3, ReplyType DEF AuthPresence, Requests
  <2>2. PICK y \in Exchanges : http' = [http EXCEPT ![t]["presence"] = y]
    BY <1>3, <2>1, ExchangeTypes DEF AuthPresence
  <2>3. http' \in [Tabs -> [Kinds -> Exchanges]]
    BY <2>2, PutType DEF TypeOK
  <2> QED BY <1>3, <2>3 DEF AuthPresence, TypeOK, TabType, WebType, ServerType, HistoryType,
     tabVars, srvVars, histVars
<1> QED BY <1>1, <1>2, <1>3 DEF Server

LEMMA TabTypeStep ==
    ASSUME TypeOK, NEW t \in Tabs, Tab(t)
    PROVE  TypeOK'
<1> USE DEF TypeOK, TabType, WebType, ServerType, HistoryType, tabVars, srvVars, histVars
<1> "refresh" \in Kinds /\ "logout" \in Kinds /\ "presence" \in Kinds /\ "login" \in Kinds
  BY DEF Kinds
<1>0. rf' \in RefreshStates
  BY RefreshStep
<1>1. CASE RefreshAuthentication(t) \/ ResolveAuthentication(t) \/ ApplyAuthRotation(t)
  <2>1. /\ \/ UNCHANGED boot \/ boot' = [boot EXCEPT ![t] = "complete"]
           \/ boot' = [boot EXCEPT ![t] = "idle"]
        /\ UNCHANGED <<mem, api, signing, leaving, http, chan, cookie, lock, srvVars, count,
                       histVars>>
    BY <1>1 DEF RefreshAuthentication, ResolveAuthentication, ApplyAuthRotation
  <2> QED BY <1>0, <2>1
<1>2. CASE ApiUnauthorized(t)
  BY <1>0, <1>2, BoundsAssumption DEF ApiUnauthorized, Incident
<1>3. CASE ApiRetried(t)
  <2>1. CASE Active(mem[t])
    BY <1>3, <2>1 DEF ApiRetried
  <2>2. CASE ~Active(mem[t])
    <3>1. Cleared(t, FALSE) /\ UNCHANGED <<signing, http, cookie, lock, srvVars, count, lossy, wiped>>
          /\ api' = [api EXCEPT ![t] = "none"] /\ leaving' = [leaving EXCEPT ![t] = TRUE]
      BY <1>3, <2>2 DEF ApiRetried
    <3> QED BY <1>0, <3>1, ClearedType
  <2> QED BY <2>1, <2>2
<1>4. CASE RunRefresh(t)
  <2>1. CASE rf[t].old
    <3>1. EndRefresh(t, "transient_error") /\ UNCHANGED <<mem, cookie, boot, chan, srvVars, count, histVars>>
      BY <1>4, <2>1 DEF RunRefresh
    <3> QED BY <3>1, EndRefreshType
  <2>2. CASE ~rf[t].old
    <3>1. Request(cookie, mem[t]) \in Exchanges
      BY ExchangeTypes
    <3>2. /\ http' = [http EXCEPT ![t]["refresh"] = Request(cookie, mem[t])] /\ lock' = t
          /\ UNCHANGED <<mem, api, signing, leaving, cookie, boot, chan, srvVars, count, histVars>>
      BY <1>4, <2>2 DEF RunRefresh
    <3>3. http' \in [Tabs -> [Kinds -> Exchanges]]
      BY <3>1, <3>2, PutType
    <3> QED BY <1>0, <3>2, <3>3
  <2> QED BY <2>1, <2>2
<1>5. CASE RefreshReply(t)
  <2> DEFINE r == http[t]["refresh"]
  <2>1. r \in Replies /\ cookie' = SetCookie(r) /\ wiped' = wiped \cup Wiped(r)
        /\ UNCHANGED <<srvVars, count, lossy>>
    BY <1>5, ReplyType DEF RefreshReply
  <2>2. cookie' \in Tokens /\ wiped' \subseteq {"stale", "other", "sign-out"}
    BY <2>1, SetCookieType
  <2>3. CASE EndRefresh(t, "transient_error") /\ UNCHANGED <<mem, chan, gone>>
             /\ (UNCHANGED boot \/ boot' = [boot EXCEPT ![t] = "idle"])
    <3> HIDE DEF r
    <3> QED BY <2>1, <2>2, <2>3, EndRefreshType
  <2>4. CASE mem' = [mem EXCEPT ![t] = r.tok.sid] /\ boot' = [boot EXCEPT ![t] = "complete"]
             /\ EndRefresh(t, "authenticated") /\ UNCHANGED <<chan, gone>>
    <3>1. r.tok.sid \in Sids \cup {None}
      BY <2>1 DEF Replies, Tokens
    <3> HIDE DEF r
    <3> QED BY <2>1, <2>2, <2>4, <3>1, EndRefreshType
  <2>5. CASE /\ mem' = [mem EXCEPT ![t] = None] /\ boot' = [boot EXCEPT ![t] = "idle"]
             /\ rf' = [rf EXCEPT ![t].retry = FALSE]
             /\ http' = [http EXCEPT ![t]["refresh"] = Request(cookie, None)]
             /\ UNCHANGED <<api, signing, leaving, chan, lock, gone>>
    <3>1. Request(cookie, None) \in Exchanges
      BY ExchangeTypes
    <3>2. http' \in [Tabs -> [Kinds -> Exchanges]]
      BY <2>5, <3>1, PutType
    <3> HIDE DEF r
    <3> QED BY <1>0, <2>1, <2>2, <2>5, <3>2
  <2>6. CASE \/ Cleared(t, FALSE) /\ EndRefresh(t, "out_of_sync")
             \/ Cleared(t, TRUE) /\ EndRefresh(t, "anonymous")
    <3> HIDE DEF r
    <3> QED BY <2>1, <2>2, <2>6, ClearedType, EndRefreshType
  <2> QED BY <1>5, <2>3, <2>4, <2>5, <2>6 DEF RefreshReply, Answered
<1>6. CASE Login(t)
  <2> PICK s \in Sids : /\ status' = [status EXCEPT ![s] = "active"]
                        /\ http' = [http EXCEPT ![t]["login"] = Reply("ok", "set", Current(s))]
    BY <1>6 DEF Login
  <2>1. Reply("ok", "set", Current(s)) \in Exchanges
    BY ExchangeTypes
  <2> QED BY <1>6, <2>1, PutType DEF Login
<1>7. CASE LoginReply(t)
  <2> DEFINE r == http[t]["login"]
  <2>1. r \in Replies /\ r.tok.sid \in Sids \cup {None}
    BY <1>7, ReplyType DEF LoginReply, Replies, Tokens
  <2>2. cookie' \in Tokens /\ http' \in [Tabs -> [Kinds -> Exchanges]]
    BY <1>7, <2>1, SetCookieType, PutType, ExchangeTypes DEF LoginReply
  <2>3. UNCHANGED <<api, signing, leaving, lock, srvVars, count, histVars>>
    BY <1>7 DEF LoginReply
  <2>4. CASE /\ mem' = [mem EXCEPT ![t] = r.tok.sid] /\ boot' = [boot EXCEPT ![t] = "complete"]
             /\ rf' = [rf EXCEPT ![t] = Superseded(@)] /\ Publish(t, "authenticated", r.tok.sid)
    <3> HIDE DEF r
    <3> QED BY <1>0, <2>1, <2>2, <2>3, <2>4, PublishType
  <2>5. CASE UNCHANGED <<mem, boot, rf, chan>>
    BY <2>2, <2>3, <2>5
  <2> QED BY <1>7, <2>4, <2>5 DEF LoginReply
<1>8. CASE SignOut(t) \/ Connect(t)
  <2>1. Request(cookie, mem[t]) \in Exchanges
    BY ExchangeTypes
  <2>2. CASE SignOut(t)
    <3>1. http' \in [Tabs -> [Kinds -> Exchanges]]
      BY <2>1, <2>2, PutType DEF SignOut
    <3> QED BY <2>2, <3>1, BoundsAssumption DEF SignOut, Incident
  <2>3. CASE Connect(t)
    <3>1. http' \in [Tabs -> [Kinds -> Exchanges]]
      BY <2>1, <2>3, PutType DEF Connect
    <3> QED BY <2>3, <3>1, BoundsAssumption DEF Connect, Incident
  <2> QED BY <1>8, <2>2, <2>3
<1>9. CASE LogoutReply(t)
  <2> DEFINE r == http[t]["logout"]
  <2>1. r \in Replies
    BY <1>9, ReplyType DEF LogoutReply
  <2>2. cookie' \in Tokens /\ http' \in [Tabs -> [Kinds -> Exchanges]]
    BY <1>9, <2>1, SetCookieType, PutType, ExchangeTypes DEF LogoutReply
  <2>3. UNCHANGED <<api, leaving, lock, srvVars, count, lossy>> /\ wiped' \in {wiped, wiped \cup {"sign-out"}}
        /\ signing' \in [Tabs -> {"no", "asking", "recovering", "again"}]
    BY <1>9 DEF LogoutReply
  <2>4. CASE Cleared(t, TRUE) /\ rf' = [rf EXCEPT ![t] = Superseded(@)]
    BY <1>0, <2>2, <2>3, <2>4, ClearedType
  <2>5. CASE (rf' = StartedRefresh(t) \/ UNCHANGED rf) /\ UNCHANGED <<mem, boot, chan, gone>>
    BY <1>0, <2>2, <2>3, <2>5
  <2> QED BY <1>9, <2>4, <2>5 DEF LogoutReply
<1>10. CASE PresenceReply(t)
  <2> DEFINE r == http[t]["presence"]
  <2>1. r \in Replies
    BY <1>10, ReplyType DEF PresenceReply
  <2>2. http' \in [Tabs -> [Kinds -> Exchanges]]
    BY <1>10, PutType, ExchangeTypes DEF PresenceReply
  <2>3. cookie' \in Tokens /\ wiped' \subseteq {"stale", "other", "sign-out"}
    BY <1>10, <2>1, SetCookieType DEF PresenceReply
  <2> QED BY <1>10, <2>2, <2>3 DEF PresenceReply
<1>11. CASE Deliver(t) \/ Expire(t)
  <2>1. chan[t] # <<>> /\ chan' = [chan EXCEPT ![t] = Tail(@)]
    BY <1>11 DEF Deliver, Expire
  <2>2. chan' \in [Tabs -> Seq(Events)]
    BY <2>1
  <2>3. CASE Expire(t)
    BY <2>2, <2>3, BoundsAssumption DEF Expire, Incident
  <2>4. CASE Deliver(t)
    <3>1. leaving' \in [Tabs -> BOOLEAN]
      BY <2>4 DEF Deliver
    <3>2. gone' \in [Tabs -> SUBSET Sids]
      <4>1. \/ UNCHANGED gone
            \/ mem[t] \in Sids /\ gone' = [gone EXCEPT ![t] = @ \cup {mem[t]}]
        BY <2>4 DEF Deliver
      <4>2. CASE mem[t] \in Sids /\ gone' = [gone EXCEPT ![t] = @ \cup {mem[t]}]
        BY <4>2
      <4> QED BY <4>1, <4>2
    <3> QED BY <1>0, <2>2, <2>4, <3>1, <3>2 DEF Deliver
  <2> QED BY <1>11, <2>3, <2>4
<1>12. CASE Reload(t)
  <2>1. http' \in [Tabs -> [Kinds -> Exchanges]]
    BY <1>12, ExchangeTypes DEF Reload
  <2>2. late' \subseteq Requests
    BY <1>12, ReplyType DEF Reload
  <2>3. lossy' \subseteq Sids \cup {None}
    BY <1>12, ReplyType DEF Reload, LostRotation, Replies, Tokens
  <2> QED BY <1>0, <1>12, <2>1, <2>2, <2>3, BoundsAssumption DEF Reload, Incident
<1> QED BY <1>1, <1>2, <1>3, <1>4, <1>5, <1>6, <1>7, <1>8, <1>9, <1>10, <1>11, <1>12 DEF Tab

LEMMA TypeStep ==
    ASSUME TypeOK, [Next]_vars PROVE TypeOK'
<1> USE DEF tabVars, srvVars, histVars
<1>1. CASE \E t \in Tabs : Tab(t) \/ Server(t)
  BY <1>1, TabTypeStep, ServerTypeStep
<1>2. ASSUME NEW x \in late, RefreshAuthLate(x) PROVE TypeOK'
  <2>1. x \in Requests /\ x.tok \in Tokens /\ late \ {x} \subseteq Requests
    BY DEF TypeOK, WebType, Requests
  <2>2. http' \in [Tabs -> [Kinds -> Exchanges]] /\ cookie' \in Tokens /\ late' \subseteq Requests
    BY <1>2, <2>1, AgedType DEF RefreshAuthLate
  <2>3. ServerType'
    BY <1>2, <2>1, RotateType DEF RefreshAuthLate, ServerType, TypeOK
  <2>4. lossy' \subseteq Sids \cup {None}
    BY <1>2, <2>1 DEF RefreshAuthLate, TypeOK, HistoryType, Tokens
  <2> QED BY <1>2, <2>2, <2>3, <2>4 DEF RefreshAuthLate, TypeOK, TabType, WebType, HistoryType
<1>3. ASSUME NEW s \in Sids, RevokeElsewhere(s) PROVE TypeOK'
  <2>1. ServerType'
    BY <1>3, RevokeType, BoundsAssumption DEF RevokeElsewhere, Incident, ServerType, TypeOK
  <2> QED BY <1>3, <2>1 DEF RevokeElsewhere, TypeOK, TabType, WebType, HistoryType
<1>4. ASSUME NEW s \in Sids, GraceEnds(s) PROVE TypeOK'
  BY <1>4, BoundsAssumption DEF GraceEnds, Incident, TypeOK, TabType, WebType, ServerType, HistoryType
<1>5. ASSUME NEW t \in Tabs, NEW k \in Kinds, Lose(t, k) PROVE TypeOK'
  <2>1. http' \in [Tabs -> [Kinds -> Exchanges]]
    BY <1>5, PutType, ExchangeTypes DEF Lose, TypeOK
  <2>2. lossy' \subseteq Sids \cup {None}
    BY <1>5, ReplyType DEF Lose, LostRotation, Replies, Tokens, TypeOK, HistoryType
  <2> QED BY <1>5, <2>1, <2>2, BoundsAssumption
          DEF Lose, Incident, TypeOK, TabType, WebType, ServerType, HistoryType
<1>6. CASE UNCHANGED vars
  BY <1>6 DEF vars, TypeOK, TabType, WebType, ServerType, HistoryType
<1> QED BY <1>1, <1>2, <1>3, <1>4, <1>5, <1>6 DEF Next

LEMMA TypeInit == Init => TypeOK
BY ExchangeTypes, BoundsAssumption DEF Init, TypeOK, TabType, WebType, ServerType, HistoryType,
   RefreshStates, NoRefresh

-----------------------------------------------------------------------------
(* The invariant.                                                          *)

\* What a step that touches no refresh or login exchange does.
SideStep ==
    /\ ReplyInv'
    /\ \A u \in Tabs : /\ http'[u]["refresh"] = http[u]["refresh"]
                       /\ http'[u]["login"] = http[u]["login"]
                       /\ rf'[u].st = "running" <=> rf[u].st = "running"
                       /\ rf[u].st = "running" /\ rf[u].old => rf'[u].old
                       /\ mem'[u] \in {mem[u], None}
    /\ \A u \in Tabs : \A s \in gone'[u] : s \in gone[u] \/
         /\ s = mem[u] /\ s \in Sids /\ mem'[u] = None /\ status[s] = "revoked"
         /\ rf[u].st = "running" => rf'[u].old
    /\ cookie' \in {cookie, NoToken}
    /\ \A s \in Sids : status'[s] = status[s] \/ (status[s] = "active" /\ status'[s] = "revoked")
    /\ \A s \in Sids : reason'[s] \in {reason[s], "logout", "elsewhere"}
    /\ UNCHANGED <<late, lock, lossy>>

LEMMA SessionKept ==
    ASSUME TypeOK, SessionInv, SideStep PROVE SessionInv'
<1> USE DEF SessionInv, SideStep
<1>0. (\A s \in Sids : NoToken.sid # s) /\ (cookie'.sid = cookie.sid \/ cookie' = NoToken)
  BY NoneAssumption DEF NoToken
<1>1. LockInv'
  BY DEF LockInv
<1>2. ReplyInv'
  OBVIOUS
<1>3. \A s \in Sids : Unseen(s) => Unseen(s)'
  BY <1>0, NoneAssumption DEF Unseen
<1>4. LoginInv'
  BY <1>3 DEF LoginInv, Granted
<1>5. GoneInv'
  <2> SUFFICES ASSUME NEW t \in Tabs, NEW s \in gone'[t]
               PROVE  /\ status'[s] = "revoked" /\ mem'[t] # s /\ ~Granted(t, s)
                      /\ http[t]["refresh"].st = "reply" /\ http[t]["refresh"].res = "ok"
                         /\ ~rf'[t].old => http[t]["refresh"].tok.sid # s
    BY DEF GoneInv, Granted
  <2>1. CASE s \in gone[t]
    <3>1. s \in Sids
      BY <2>1 DEF TypeOK, HistoryType
    <3>2. http[t]["refresh"].st = "reply" => rf[t].st = "running"
      BY DEF LockInv
    <3> QED BY <2>1, <3>1, <3>2, NoneAssumption DEF GoneInv
  <2>2. CASE s \notin gone[t]
    <3>1. s = mem[t] /\ mem'[t] = None /\ status[s] = "revoked" /\ s \in Sids
          /\ (rf[t].st = "running" => rf'[t].old)
      BY <2>2, NoneAssumption DEF TypeOK, TabType, ServerType
    <3> QED BY <3>1, NoneAssumption DEF LockInv, LoginInv, Unseen
  <2> QED BY <2>1, <2>2
<1>6. RotationInv'
  BY <1>0 DEF RotationInv, Arriving
<1> QED BY <1>1, <1>2, <1>4, <1>5, <1>6

\* Only a logout or presence exchange changes, if any, and sets no cookie.
LEMMA OtherExchange ==
    ASSUME TypeOK, SessionInv, NEW t \in Tabs, NEW k \in {"logout", "presence"},
           NEW x \in Exchanges, x.st = "reply" => x.set # "set",
           http' = [http EXCEPT ![t][k] = x]
    PROVE  /\ ReplyInv'
           /\ \A u \in Tabs : /\ http'[u]["refresh"] = http[u]["refresh"]
                              /\ http'[u]["login"] = http[u]["login"]
<1>1. k \in Kinds /\ {"refresh", "login", "logout", "presence"} \subseteq Kinds
  BY DEF Kinds
<1>2. \A u \in Tabs, j \in Kinds : http'[u][j] = IF u = t /\ j = k THEN x ELSE http[u][j]
  BY <1>1, PutType DEF TypeOK
<1> QED BY <1>1, <1>2 DEF SessionInv, ReplyInv

\* A refresh is started or superseded.
LEMMA RefreshKept ==
    ASSUME TypeOK, NEW t \in Tabs, NEW f,
           f \in {rf, StartedRefresh(t)} \/ f = [rf EXCEPT ![t] = Superseded(@)]
    PROVE  /\ \A u \in Tabs : /\ f[u].st = "running" <=> rf[u].st = "running"
                              /\ rf[u].st = "running" /\ rf[u].old => f[u].old
           /\ f = [rf EXCEPT ![t] = Superseded(@)] /\ rf[t].st = "running" => f[t].old
BY DEF TypeOK, TabType, RefreshStates, StartedRefresh, Queued, NoRefresh, Superseded

\* clearAuthentication leaves the session behind.
LEMMA ClearedKept ==
    ASSUME TypeOK, NEW t \in Tabs, NEW sync, Cleared(t, sync)
    PROVE  /\ \A u \in Tabs : mem'[u] = IF u = t THEN None ELSE mem[u]
           /\ \A u \in Tabs : \A s \in gone'[u] : s \in gone[u] \/
                /\ u = t /\ s = mem[u] /\ s \in Sids /\ status[s] = "revoked"
BY DEF Cleared, TypeOK, TabType, HistoryType

LEMMA RevokeKept ==
    ASSUME TypeOK, NEW s, NEW why \in {"logout", "elsewhere"}, Revoke(s, why)
    PROVE  /\ \A v \in Sids : status'[v] = status[v] \/ (status[v] = "active" /\ status'[v] = "revoked")
           /\ \A v \in Sids : reason'[v] \in {reason[v], "logout", "elsewhere"}
BY DEF Revoke, TypeOK, ServerType

\* The tab leaves its session and supersedes its refresh.
LEMMA LeaveKept ==
    ASSUME TypeOK, NEW t \in Tabs, rf' = [rf EXCEPT ![t] = Superseded(@)],
           \A u \in Tabs : mem'[u] = IF u = t THEN None ELSE mem[u],
           \A u \in Tabs : \A s \in gone'[u] : s \in gone[u] \/
             /\ u = t /\ s = mem[u] /\ s \in Sids /\ status[s] = "revoked",
           ReplyInv', \A u \in Tabs : /\ http'[u]["refresh"] = http[u]["refresh"]
                                     /\ http'[u]["login"] = http[u]["login"],
           cookie' \in {cookie, NoToken}, UNCHANGED <<status, reason, late, lock, lossy>>
    PROVE  SideStep
<1>1. \A u \in Tabs : /\ rf'[u].st = "running" <=> rf[u].st = "running"
                      /\ rf[u].st = "running" /\ rf[u].old => rf'[u].old
  BY RefreshKept
<1>2. rf[t].st = "running" => rf'[t].old
  BY RefreshKept
<1>3. \A u \in Tabs : \A s \in gone'[u] : s \in gone[u] \/
        /\ s = mem[u] /\ s \in Sids /\ mem'[u] = None /\ status[s] = "revoked"
        /\ rf[u].st = "running" => rf'[u].old
  BY <1>2
<1> QED BY <1>1, <1>3 DEF SideStep

LEMMA SideSteps ==
    ASSUME TypeOK, SessionInv, NEW t \in Tabs,
           \/ RefreshAuthentication(t) \/ ResolveAuthentication(t) \/ ApiUnauthorized(t)
           \/ ApiRetried(t) \/ SignOut(t) \/ LogoutReply(t) \/ Connect(t) \/ PresenceReply(t)
           \/ ApplyAuthRotation(t) \/ Deliver(t) \/ Expire(t) \/ AuthLogout(t) \/ AuthPresence(t)
    PROVE  SideStep
<1> USE DEF tabVars, srvVars, histVars
<1>0. UNCHANGED http => /\ ReplyInv'
                        /\ \A u \in Tabs : /\ http'[u]["refresh"] = http[u]["refresh"]
                                           /\ http'[u]["login"] = http[u]["login"]
  BY DEF SessionInv, ReplyInv
<1>1. CASE \/ RefreshAuthentication(t) \/ ResolveAuthentication(t) \/ ApiUnauthorized(t)
           \/ ApplyAuthRotation(t)
  <2>1. /\ rf' \in {rf, StartedRefresh(t)} \/ rf' = [rf EXCEPT ![t] = Superseded(@)]
        /\ UNCHANGED <<mem, http, chan, cookie, lock, srvVars, histVars>>
    BY <1>1 DEF RefreshAuthentication, ResolveAuthentication, ApiUnauthorized, ApplyAuthRotation
  <2> QED BY <1>0, <2>1, RefreshKept DEF SideStep
<1>2. CASE ApiRetried(t)
  <2>1. UNCHANGED <<http, cookie, lock, srvVars, lossy>>
    BY <1>2 DEF ApiRetried
  <2>2. CASE UNCHANGED <<mem, rf, gone>>
    BY <1>0, <2>1, <2>2 DEF SideStep
  <2>3. CASE Cleared(t, FALSE) /\ rf' = [rf EXCEPT ![t] = Superseded(@)]
    BY <1>0, <2>1, <2>3, ClearedKept, LeaveKept
  <2> QED BY <1>2, <2>2, <2>3 DEF ApiRetried
<1>3. CASE SignOut(t) \/ Connect(t)
  <2>1. Request(cookie, mem[t]) \in Exchanges /\ Request(cookie, mem[t]).st = "request"
    BY ExchangeTypes DEF Request, TypeOK, TabType, WebType
  <2>2. PICK k \in {"logout", "presence"} : http' = [http EXCEPT ![t][k] = Request(cookie, mem[t])]
    BY <1>3 DEF SignOut, Connect
  <2>3. UNCHANGED <<mem, rf, cookie, lock, srvVars, histVars>>
    BY <1>3 DEF SignOut, Connect
  <2> QED BY <2>1, <2>2, <2>3, OtherExchange DEF SideStep
<1>4. CASE LogoutReply(t) \/ PresenceReply(t)
  <2>1. PICK k \in {"logout", "presence"} :
          /\ http[t][k].st = "reply" /\ http' = [http EXCEPT ![t][k] = Idle]
          /\ cookie' \in {cookie, SetCookie(http[t][k])}
    BY <1>4 DEF LogoutReply, PresenceReply
  <2>2. cookie' \in {cookie, NoToken}
    BY <2>1 DEF SessionInv, ReplyInv, SetCookie
  <2>3. UNCHANGED <<lock, srvVars, lossy>>
    BY <1>4 DEF LogoutReply, PresenceReply
  <2>4. /\ ReplyInv'
        /\ \A u \in Tabs : /\ http'[u]["refresh"] = http[u]["refresh"]
                           /\ http'[u]["login"] = http[u]["login"]
    BY <2>1, OtherExchange, ExchangeTypes DEF Idle
  <2>5. CASE rf' \in {rf, StartedRefresh(t)} /\ UNCHANGED <<mem, gone>>
    BY <2>2, <2>3, <2>4, <2>5, RefreshKept DEF SideStep
  <2>6. CASE Cleared(t, TRUE) /\ rf' = [rf EXCEPT ![t] = Superseded(@)]
    BY <2>2, <2>3, <2>4, <2>6, ClearedKept, LeaveKept
  <2> QED BY <1>4, <2>5, <2>6 DEF LogoutReply, PresenceReply
<1>5. CASE Deliver(t)
  <2>1. UNCHANGED <<http, cookie, lock, srvVars, lossy>>
    BY <1>5 DEF Deliver
  <2>2. CASE UNCHANGED <<mem, rf, gone>>
    BY <1>0, <2>1, <2>2 DEF SideStep
  <2>3. CASE /\ mem[t] # None /\ mem' = [mem EXCEPT ![t] = None]
             /\ rf' = [rf EXCEPT ![t] = Superseded(@)]
             /\ gone' = IF status[mem[t]] = "revoked"
                        THEN [gone EXCEPT ![t] = @ \cup {mem[t]}] ELSE gone
    <3>1. \A u \in Tabs : mem'[u] = IF u = t THEN None ELSE mem[u]
      BY <2>3 DEF TypeOK, TabType
    <3>2. \A u \in Tabs : \A s \in gone'[u] : s \in gone[u] \/
            /\ u = t /\ s = mem[u] /\ s \in Sids /\ status[s] = "revoked"
      BY <2>3 DEF TypeOK, TabType, HistoryType
    <3> QED BY <1>0, <2>1, <2>3, <3>1, <3>2, LeaveKept
  <2> QED BY <1>5, <2>2, <2>3 DEF Deliver
<1>6. CASE Expire(t)
  BY <1>0, <1>6 DEF Expire, SideStep
<1>7. CASE AuthLogout(t)
  <2> DEFINE x == http[t]["logout"]
  <2>1. x.tok \in Tokens
    BY <1>7, ReplyType DEF AuthLogout, Requests, Kinds
  <2>2. PICK y \in Replies : http' = [http EXCEPT ![t]["logout"] = y] /\ y.set # "set"
    BY <1>7, <2>1, ExchangeTypes DEF AuthLogout, Reply
  <2>3. /\ \A v \in Sids : status'[v] = status[v] \/ (status[v] = "active" /\ status'[v] = "revoked")
        /\ \A v \in Sids : reason'[v] \in {reason[v], "logout", "elsewhere"}
    BY <1>7, RevokeKept DEF AuthLogout
  <2>4. UNCHANGED <<mem, rf, cookie, lock, late, histVars>>
    BY <1>7 DEF AuthLogout
  <2> QED BY <2>2, <2>3, <2>4, OtherExchange, ExchangeTypes DEF SideStep
<1>8. CASE AuthPresence(t)
  <2> DEFINE x == http[t]["presence"]
  <2>1. x.tok \in Tokens
    BY <1>8, ReplyType DEF AuthPresence, Requests, Kinds
  <2>2. PICK y \in Exchanges : /\ http' = [http EXCEPT ![t]["presence"] = y]
                               /\ y.st = "reply" => y.set # "set"
    BY <1>8, <2>1, ExchangeTypes DEF AuthPresence, Reply, Idle
  <2>3. UNCHANGED <<mem, rf, cookie, lock, srvVars, histVars>>
    BY <1>8 DEF AuthPresence
  <2> QED BY <2>2, <2>3, OtherExchange DEF SideStep
<1> QED BY <1>1, <1>2, <1>3, <1>4, <1>5, <1>6, <1>7, <1>8

LEMMA OutsideSteps ==
    ASSUME TypeOK, SessionInv,
           \/ UNCHANGED vars \/ (\E s \in Sids : RevokeElsewhere(s) \/ GraceEnds(s))
    PROVE  SideStep
<1> USE DEF tabVars, srvVars, histVars
<1>1. UNCHANGED <<mem, rf, http, cookie, lock, late, histVars>>
  BY DEF vars, RevokeElsewhere, GraceEnds
<1>2. /\ \A v \in Sids : status'[v] = status[v] \/ (status[v] = "active" /\ status'[v] = "revoked")
      /\ \A v \in Sids : reason'[v] \in {reason[v], "logout", "elsewhere"}
  BY RevokeKept DEF vars, RevokeElsewhere, GraceEnds
<1> QED BY <1>1, <1>2 DEF SideStep, SessionInv, ReplyInv

\* Other tabs have no refresh exchange while t has one.
LEMMA OneExchange ==
    ASSUME LockInv, NEW t \in Tabs, http[t]["refresh"].st # "idle"
    PROVE  /\ lock = t /\ rf[t].st = "running"
           /\ \A u \in Tabs : u # t => http[u]["refresh"].st = "idle" /\ rf[u].st # "running"
BY DEF LockInv

\* The end of a refresh.
LEMMA EndReply ==
    ASSUME TypeOK, SessionInv, NEW t \in Tabs, NEW outcome, EndRefresh(t, outcome),
           mem' \in [Tabs -> Sids \cup {None}], cookie' \in Tokens
    PROVE  ReplyInv'
<1>1. /\ \A u \in Tabs, j \in Kinds \ {"logout"} :
           http'[u][j] = IF u = t /\ j = "refresh" THEN Idle ELSE http[u][j]
      /\ \A u \in Tabs :
           http'[u]["logout"] = http[u]["logout"] \/ http'[u]["logout"].st = "request"
  BY EndRefreshType
<1>2. {"refresh", "login", "presence"} \subseteq Kinds \ {"logout"}
  BY DEF Kinds
<1>3. Idle.st = "idle"
  BY DEF Idle
<1> QED BY <1>1, <1>2, <1>3 DEF SessionInv, ReplyInv

LEMMA RunRefreshStep ==
    ASSUME TypeOK, SessionInv, NEW t \in Tabs, RunRefresh(t) PROVE SessionInv'
<1> USE DEF SessionInv, tabVars, srvVars, histVars
<1>1. CASE rf[t].old
  <2>1. /\ EndRefresh(t, "transient_error") /\ rf[t].st = "queued" /\ lock = None
        /\ UNCHANGED <<mem, cookie, boot, chan, srvVars, count, histVars>>
    BY <1>1 DEF RunRefresh
  <2>2. /\ mem' \in [Tabs -> Sids \cup {None}] /\ cookie' \in Tokens
        /\ rf' = [rf EXCEPT ![t] = NoRefresh]
    BY <2>1 DEF TypeOK, TabType, WebType, EndRefresh
  <2>3. ReplyInv' /\ lock' = lock
    BY <2>1, <2>2, EndReply, EndRefreshType
  <2>4. \A u \in Tabs, j \in {"refresh", "login"} : http'[u][j] = http[u][j]
    <3>1. http[t]["refresh"] = Idle
      BY <2>1, ReplyType DEF LockInv, Kinds
    <3> QED BY <2>1, <2>2, <3>1, EndRefreshType DEF Kinds
  <2>5. \A u \in Tabs : /\ rf'[u].st = "running" <=> rf[u].st = "running"
                        /\ rf[u].st = "running" => rf'[u] = rf[u]
    BY <2>1, <2>2 DEF TypeOK, TabType, RefreshStates, NoRefresh
  <2>6. SideStep
    BY <2>1, <2>3, <2>4, <2>5 DEF SideStep
  <2> QED BY <2>6, SessionKept
<1>2. CASE ~rf[t].old
  <2> DEFINE x == Request(cookie, mem[t])
  <2>1. /\ lock = None /\ lock' = t /\ rf' = [rf EXCEPT ![t].st = "running"]
        /\ http' = [http EXCEPT ![t]["refresh"] = x] /\ rf[t].st = "queued"
        /\ UNCHANGED <<mem, cookie, srvVars, histVars>>
    BY <1>2 DEF RunRefresh
  <2>2. x \in Exchanges /\ x.st = "request" /\ x.tok = cookie
    BY ExchangeTypes DEF Request, TypeOK, TabType, WebType
  <2> HIDE DEF x
  <2>3. \A u \in Tabs, j \in Kinds : http'[u][j] = IF u = t /\ j = "refresh" THEN x ELSE http[u][j]
    BY <2>1, <2>2, PutType DEF TypeOK, Kinds
  <2>4. {"refresh", "login", "logout", "presence"} \subseteq Kinds
    BY DEF Kinds
  <2>5. \A u \in Tabs : rf'[u].old = rf[u].old
                        /\ rf'[u].st = IF u = t THEN "running" ELSE rf[u].st
    BY <2>1 DEF TypeOK, TabType, RefreshStates
  <2>6. LockInv'
    BY <2>1, <2>2, <2>3, <2>4, <2>5, NoneAssumption DEF LockInv
  <2>7. ReplyInv'
    BY <2>2, <2>3, <2>4 DEF ReplyInv
  <2>8. \A s \in Sids : Unseen(s) => Unseen(s)'
    BY <2>1, <2>2, <2>3, <2>4 DEF Unseen
  <2>9. LoginInv'
    BY <2>1, <2>3, <2>4, <2>8 DEF LoginInv, Granted
  <2>10. GoneInv'
    BY <2>1, <2>2, <2>3, <2>4, <2>5 DEF GoneInv, Granted
  <2>11. \A u \in Tabs, s \in Sids : ~Arriving(u, s)
    BY <2>1, NoneAssumption DEF LockInv, Arriving
  <2>12. \A u \in Tabs, s \in Sids : ~Arriving(u, s)'
    BY <2>2, <2>3, <2>4, <2>11 DEF Arriving
  <2>13. RotationInv'
    BY <2>1, <2>2, <2>3, <2>4, <2>11, <2>12 DEF RotationInv
  <2> QED BY <2>6, <2>7, <2>9, <2>10, <2>13
<1> QED BY <1>1, <1>2

LEMMA RefreshReplyStep ==
    ASSUME TypeOK, TypeOK', SessionInv, NEW t \in Tabs, RefreshReply(t) PROVE SessionInv'
<1> DEFINE r == http[t]["refresh"]
<1> USE DEF SessionInv, tabVars, srvVars, histVars
<1>1. /\ r.st = "reply" /\ cookie' = SetCookie(r) /\ UNCHANGED <<srvVars, lossy>>
      /\ IF rf[t].old THEN UNCHANGED <<mem, gone>> /\ EndRefresh(t, "transient_error")
         ELSE Answered(t, r)
  BY DEF RefreshReply
<1>2. r \in Replies /\ r.tok.sid \in Sids \cup {None}
  BY <1>1, ReplyType DEF Replies, Tokens, Kinds
<1>3. /\ lock = t /\ rf[t].st = "running"
      /\ \A u \in Tabs : u # t => http[u]["refresh"].st = "idle" /\ rf[u].st # "running"
  BY <1>1, OneExchange
<1>4. cookie'.sid \in {cookie.sid, r.tok.sid, None}
  BY <1>1 DEF SetCookie, NoToken
<1>5. \A s \in Sids \ lossy : cookie'.sid = s => cookie'.age = 0
  <2> TAKE s \in Sids \ lossy
  <2>1. CASE r.set = "set"
    BY <1>1, <2>1 DEF SetCookie, RotationInv, Arriving
  <2>2. CASE r.set = "clear"
    BY <1>1, <2>2 DEF SetCookie, NoToken
  <2>3. CASE r.set \notin {"set", "clear"}
    <3>1. cookie' = cookie /\ \A u \in Tabs : ~Arriving(u, s)
      BY <1>1, <1>3, <2>3 DEF SetCookie, Arriving
    <3> QED BY <3>1 DEF RotationInv
  <2> QED BY <2>1, <2>2, <2>3
<1>6. {"refresh", "login", "logout", "presence"} \subseteq Kinds
  BY DEF Kinds
<1>7. ASSUME NEW outcome, EndRefresh(t, outcome), mem' \in [Tabs -> Sids \cup {None}],
             \A u \in Tabs : mem'[u] \in {mem[u], None, r.tok.sid},
             \A u \in Tabs : mem'[u] \notin gone'[u],
             \A u \in Tabs : \A s \in gone'[u] : s \in gone[u] \/
               /\ u = t /\ s = mem[u] /\ s \in Sids /\ status[s] = "revoked"
      PROVE  SessionInv'
  <2>1. /\ lock' = None /\ rf' = [rf EXCEPT ![t] = NoRefresh] /\ ReplyInv'
        /\ \A u \in Tabs : http'[u]["refresh"] = IF u = t THEN Idle ELSE http[u]["refresh"]
        /\ \A u \in Tabs : http'[u]["login"] = http[u]["login"]
    <3>1. cookie' \in Tokens
      BY DEF TypeOK, WebType
    <3>2. rf' = [rf EXCEPT ![t] = NoRefresh]
      BY <1>7 DEF EndRefresh
    <3> QED BY <1>6, <1>7, <3>1, <3>2, EndRefreshType, EndReply
  <2>2. \A u \in Tabs : http'[u]["refresh"].st = "idle" /\ rf'[u].st # "running"
    <3>1. \A u \in Tabs : rf'[u] = IF u = t THEN NoRefresh ELSE rf[u]
      BY <2>1 DEF TypeOK, TabType, RefreshStates
    <3>2. NoRefresh.st = "none" /\ Idle.st = "idle"
      BY DEF NoRefresh, Idle
    <3> QED BY <1>3, <2>1, <3>1, <3>2
  <2>3. LockInv'
    BY <2>1, <2>2, NoneAssumption DEF LockInv
  <2>4. \A s \in Sids : Unseen(s) => Unseen(s)'
    BY <1>1, <1>4, <1>7, <2>2, NoneAssumption DEF Unseen
  <2>5. LoginInv'
    BY <1>1, <2>1, <2>4 DEF LoginInv, Granted
  <2>6. GoneInv'
    <3> SUFFICES ASSUME NEW u \in Tabs, NEW s \in gone'[u]
                 PROVE  status[s] = "revoked" /\ mem'[u] # s /\ ~Granted(u, s)
      BY <1>1, <2>1, <2>2 DEF GoneInv, Granted
    <3>1. CASE s \in gone[u]
      BY <1>7, <3>1 DEF GoneInv
    <3>2. CASE s = mem[u] /\ s \in Sids /\ status[s] = "revoked"
      BY <1>7, <3>2 DEF LoginInv, Unseen
    <3> QED BY <1>7, <3>1, <3>2
  <2>7. RotationInv'
    BY <1>1, <1>5, <2>2 DEF RotationInv, Arriving
  <2> QED BY <2>1, <2>3, <2>5, <2>6, <2>7
<1>8. mem \in [Tabs -> Sids \cup {None}] /\ mem' \in [Tabs -> Sids \cup {None}]
      /\ gone \in [Tabs -> SUBSET Sids] /\ \A u \in Tabs : mem[u] \notin gone[u]
  BY DEF TypeOK, TabType, HistoryType, GoneInv
<1>9. CASE UNCHANGED <<mem, gone>> /\ EndRefresh(t, "transient_error")
  <2> HIDE DEF r
  <2> QED BY <1>7, <1>8, <1>9
<1>10. CASE /\ r.res = "ok" /\ ~rf[t].old /\ mem' = [mem EXCEPT ![t] = r.tok.sid]
            /\ EndRefresh(t, "authenticated") /\ UNCHANGED gone
  <2>1. r.tok.sid \notin gone[t]
    BY <1>1, <1>10 DEF GoneInv
  <2> HIDE DEF r
  <2> QED BY <1>7, <1>8, <1>10, <2>1
<1>11. CASE \/ Cleared(t, FALSE) /\ EndRefresh(t, "out_of_sync")
            \/ Cleared(t, TRUE) /\ EndRefresh(t, "anonymous")
  <2>1. /\ \A u \in Tabs : mem'[u] = IF u = t THEN None ELSE mem[u]
        /\ \A u \in Tabs : \A s \in gone'[u] : s \in gone[u] \/
             /\ u = t /\ s = mem[u] /\ s \in Sids /\ status[s] = "revoked"
    BY <1>11, ClearedKept
  <2>2. \A u \in Tabs : mem'[u] \notin gone'[u]
    BY <1>8, <2>1, NoneAssumption
  <2> HIDE DEF r
  <2> QED BY <1>7, <1>8, <1>11, <2>1, <2>2
<1>12. CASE /\ r.res = "mismatch" /\ mem' = [mem EXCEPT ![t] = None]
            /\ rf' = [rf EXCEPT ![t].retry = FALSE]
            /\ http' = [http EXCEPT ![t]["refresh"] = Request(cookie, None)]
            /\ UNCHANGED <<lock, gone>>
  <2> DEFINE x == Request(cookie, None)
  <2>1. x \in Exchanges /\ x.st = "request" /\ x.tok = cookie /\ cookie' = cookie
    BY <1>1, <1>12, ExchangeTypes DEF Request, TypeOK, WebType, ReplyInv, SetCookie
  <2> HIDE DEF x
  <2>2. \A u \in Tabs, j \in Kinds : http'[u][j] = IF u = t /\ j = "refresh" THEN x ELSE http[u][j]
    BY <1>6, <1>12, <2>1, PutType DEF TypeOK, x
  <2>3. \A u \in Tabs : rf'[u].st = rf[u].st /\ rf'[u].old = rf[u].old
    BY <1>12 DEF TypeOK, TabType, RefreshStates
  <2>4. \A u \in Tabs : mem'[u] = IF u = t THEN None ELSE mem[u]
    BY <1>8, <1>12
  <2>5. LockInv' /\ ReplyInv'
    BY <1>3, <1>6, <1>12, <2>1, <2>2, <2>3 DEF LockInv, ReplyInv
  <2>6. \A s \in Sids : Unseen(s) => Unseen(s)'
    BY <1>1, <1>6, <2>1, <2>2, <2>4, NoneAssumption DEF Unseen
  <2>7. LoginInv'
    BY <1>1, <1>6, <2>2, <2>6 DEF LoginInv, Granted
  <2>8. GoneInv'
    BY <1>1, <1>6, <1>8, <1>12, <2>1, <2>2, <2>3, <2>4, NoneAssumption DEF GoneInv, Granted
  <2>9. RotationInv'
    BY <1>1, <1>3, <1>5, <1>6, <2>1, <2>2 DEF RotationInv, Arriving
  <2> QED BY <2>5, <2>7, <2>8, <2>9
<1> QED BY <1>1, <1>9, <1>10, <1>11, <1>12 DEF Answered

LEMMA LoginStep ==
    ASSUME TypeOK, SessionInv, NEW t \in Tabs, Login(t) PROVE SessionInv'
<1> USE DEF SessionInv, tabVars, srvVars, histVars
<1> PICK s \in Sids :
      /\ status[s] = "unused" /\ status' = [status EXCEPT ![s] = "active"]
      /\ http' = [http EXCEPT ![t]["login"] = Reply("ok", "set", Current(s))]
  BY DEF Login
<1> DEFINE x == Reply("ok", "set", Current(s))
<1>1. UNCHANGED <<mem, rf, cookie, lock, late, reason, histVars>> /\ http[t]["login"].st = "idle"
  BY DEF Login
<1>2. x \in Exchanges /\ x.st = "reply" /\ x.tok = Current(s)
      /\ Current(s).sid = s /\ Current(s).age = 0
  BY ExchangeTypes DEF Reply, Current
<1> HIDE DEF x
<1>3. \A u \in Tabs, j \in Kinds : http'[u][j] = IF u = t /\ j = "login" THEN x ELSE http[u][j]
  BY <1>2, PutType DEF TypeOK, Kinds, x
<1>4. {"refresh", "login", "logout", "presence"} \subseteq Kinds
  BY DEF Kinds
<1>5. LockInv' /\ ReplyInv'
  BY <1>1, <1>2, <1>3, <1>4 DEF LockInv, ReplyInv
<1>6. \A v \in Sids : Unseen(v) => Unseen(v)'
  BY <1>1, <1>3, <1>4 DEF Unseen
<1>7. \A v \in Sids, u \in Tabs : Granted(u, v)' <=> (u = t /\ v = s) \/ (u # t /\ Granted(u, v))
  BY <1>2, <1>3, <1>4 DEF Granted
<1>8. \A v \in Sids : status'[v] = IF v = s THEN "active" ELSE status[v]
  BY DEF TypeOK, ServerType
<1>9. LoginInv'
  <2> SUFFICES ASSUME NEW v \in Sids
               PROVE  /\ status'[v] = "unused" => Unseen(v)' /\ \A u \in Tabs : ~Granted(u, v)'
                      /\ \A u \in Tabs : Granted(u, v)' =>
                           /\ Unseen(v)' /\ http'[u]["login"].tok.age = 0
                           /\ \A w \in Tabs \ {u} : ~Granted(w, v)'
    BY DEF LoginInv
  <2>1. CASE v = s
    BY <1>2, <1>3, <1>4, <1>6, <1>7, <1>8, <2>1 DEF LoginInv
  <2>2. CASE v # s
    BY <1>3, <1>4, <1>6, <1>7, <1>8, <2>2 DEF LoginInv
  <2> QED BY <2>1, <2>2
<1>10. GoneInv'
  <2>1. \A u \in Tabs : \A v \in gone[u] : v \in Sids /\ v # s
    BY DEF GoneInv, TypeOK, HistoryType
  <2> QED BY <1>1, <1>3, <1>4, <1>7, <1>8, <2>1 DEF GoneInv
<1>11. RotationInv'
  BY <1>1, <1>3, <1>4 DEF RotationInv, Arriving
<1> QED BY <1>5, <1>9, <1>10, <1>11

LEMMA LoginReplyStep ==
    ASSUME TypeOK, SessionInv, NEW t \in Tabs, LoginReply(t) PROVE SessionInv'
<1> DEFINE r == http[t]["login"]
           s == r.tok.sid
<1> USE DEF SessionInv, tabVars, srvVars, histVars
<1>1. /\ r.st = "reply" /\ cookie' = SetCookie(r) /\ http' = [http EXCEPT ![t]["login"] = Idle]
      /\ UNCHANGED <<lock, srvVars, histVars>>
      /\ \/ mem' = [mem EXCEPT ![t] = s] /\ rf' = [rf EXCEPT ![t] = Superseded(@)]
         \/ UNCHANGED <<mem, rf>>
  BY DEF LoginReply
<1>2. s \in Sids \cup {None}
  BY <1>1, ReplyType DEF Replies, Tokens, Kinds
<1>3. s \in Sids => /\ Unseen(s) /\ status[s] # "unused" /\ r.tok.age = 0 /\ s \notin gone[t]
                    /\ \A u \in Tabs \ {t} : ~Granted(u, s)
  <2>1. s \in Sids => Granted(t, s)
    BY <1>1 DEF Granted
  <2> QED BY <2>1 DEF LoginInv, GoneInv
<1>4. {"refresh", "login", "logout", "presence"} \subseteq Kinds /\ Idle.st = "idle" /\ Idle \in Exchanges
  BY ExchangeTypes DEF Kinds, Idle
<1>5. \A u \in Tabs, j \in Kinds : http'[u][j] = IF u = t /\ j = "login" THEN Idle ELSE http[u][j]
  BY <1>1, <1>4, PutType DEF TypeOK
<1>6. cookie' = r.tok \/ cookie' = NoToken \/ cookie' = cookie
  BY <1>1 DEF SetCookie
<1>7. \A u \in Tabs : mem'[u] = mem[u] \/ (u = t /\ mem'[u] = s)
  BY <1>1 DEF TypeOK, TabType
<1>8. \A u \in Tabs : /\ rf'[u].st = "running" <=> rf[u].st = "running"
                      /\ rf[u].st = "running" /\ rf[u].old => rf'[u].old
  BY <1>1, RefreshKept
<1> HIDE DEF r, s
<1>9. LockInv' /\ ReplyInv'
  BY <1>1, <1>4, <1>5, <1>8 DEF LockInv, ReplyInv
<1>10. \A v \in Sids : v # s /\ Unseen(v) => Unseen(v)'
  BY <1>1, <1>4, <1>5, <1>6, <1>7, NoneAssumption DEF Unseen, NoToken, s
<1>11. \A v \in Sids, u \in Tabs : Granted(u, v)' <=> u # t /\ Granted(u, v)
  BY <1>4, <1>5 DEF Granted
<1>12. LoginInv'
  <2> SUFFICES ASSUME NEW v \in Sids
               PROVE  /\ status'[v] = "unused" => Unseen(v)' /\ \A u \in Tabs : ~Granted(u, v)'
                      /\ \A u \in Tabs : Granted(u, v)' =>
                           /\ Unseen(v)' /\ http'[u]["login"].tok.age = 0
                           /\ \A w \in Tabs \ {u} : ~Granted(w, v)'
    BY DEF LoginInv
  <2>1. CASE v = s
    BY <1>1, <1>3, <1>11, <2>1
  <2>2. CASE v # s
    BY <1>1, <1>4, <1>5, <1>10, <1>11, <2>2 DEF LoginInv
  <2> QED BY <2>1, <2>2
<1>13. GoneInv'
  <2>1. \A u \in Tabs : \A v \in gone[u] : v \in Sids /\ (u = t => v # s)
    BY <1>3 DEF TypeOK, HistoryType
  <2>2. \A u \in Tabs : http[u]["refresh"].st = "reply" => rf[u].st = "running"
    BY DEF LockInv
  <2> QED BY <1>1, <1>4, <1>5, <1>7, <1>8, <1>11, <2>1, <2>2 DEF GoneInv
<1>14. RotationInv'
  <2>1. \A v \in Sids, u \in Tabs : Arriving(u, v)' <=> Arriving(u, v)
    BY <1>4, <1>5 DEF Arriving
  <2>2. \A v \in Sids \ lossy : cookie'.sid = v => cookie'.age = 0 \/ \E u \in Tabs : Arriving(u, v)
    BY <1>3, <1>6, NoneAssumption DEF RotationInv, NoToken, s
  <2> QED BY <1>1, <1>4, <1>5, <2>1, <2>2 DEF RotationInv
<1> QED BY <1>9, <1>12, <1>13, <1>14

LEMMA LoseStep ==
    ASSUME TypeOK, SessionInv, NEW t \in Tabs, NEW k \in Kinds, Lose(t, k) PROVE SessionInv'
<1> DEFINE x == Reply("failed", "keep", NoToken)
<1> USE DEF SessionInv, tabVars, srvVars, histVars
<1>1. /\ k # "presence" /\ http[t][k].st # "idle" /\ http' = [http EXCEPT ![t][k] = x]
      /\ UNCHANGED <<mem, rf, cookie, lock, srvVars, gone>>
      /\ lossy' = IF LostRotation(http[t][k]) THEN lossy \cup {http[t][k].tok.sid} ELSE lossy
  BY DEF Lose
<1>2. x \in Exchanges /\ x.st = "reply" /\ x.res = "failed" /\ x.set = "keep" /\ x.tok.sid \notin Sids
  BY ExchangeTypes, NoneAssumption DEF Reply, NoToken
<1> HIDE DEF x
<1>3. \A u \in Tabs, j \in Kinds : http'[u][j] = IF u = t /\ j = k THEN x ELSE http[u][j]
  BY <1>1, <1>2, PutType DEF TypeOK
<1>4. {"refresh", "login", "logout", "presence"} \subseteq Kinds
  BY DEF Kinds
<1>5. LockInv'
  BY <1>1, <1>2, <1>3, <1>4 DEF LockInv
<1>6. ReplyInv'
  BY <1>2, <1>3, <1>4 DEF ReplyInv
<1>7. \A v \in Sids : Unseen(v) => Unseen(v)'
  BY <1>1, <1>2, <1>3, <1>4 DEF Unseen
<1>8. \A v \in Sids, u \in Tabs : Granted(u, v)' => Granted(u, v) /\ http'[u]["login"] = http[u]["login"]
  BY <1>2, <1>3, <1>4 DEF Granted
<1>9. LoginInv'
  BY <1>1, <1>7, <1>8 DEF LoginInv
<1>10. GoneInv'
  <2>1. \A u \in Tabs : \A v \in gone[u] : v \in Sids
    BY DEF TypeOK, HistoryType
  <2> QED BY <1>1, <1>2, <1>3, <1>4, <1>8, <2>1 DEF GoneInv
<1>11. RotationInv'
  <2>1. \A v \in Sids \ lossy', u \in Tabs : Arriving(u, v) => Arriving(u, v)'
    BY <1>1, <1>3, <1>4 DEF Arriving, LostRotation
  <2>2. \A u \in Tabs : \/ http'[u]["refresh"] = http[u]["refresh"]
                        \/ http'[u]["refresh"].st = "reply" /\ http'[u]["refresh"].set = "keep"
    BY <1>2, <1>3, <1>4
  <2>3. lossy \subseteq lossy'
    BY <1>1
  <2> QED BY <1>1, <2>1, <2>2, <2>3 DEF RotationInv, Arriving
<1> QED BY <1>5, <1>6, <1>9, <1>10, <1>11

LEMMA ReloadStep ==
    ASSUME TypeOK, SessionInv, NEW t \in Tabs, Reload(t) PROVE SessionInv'
<1> DEFINE x == http[t]["refresh"]
<1> USE DEF SessionInv, tabVars, srvVars, histVars
<1>1. /\ mem' = [mem EXCEPT ![t] = None] /\ rf' = [rf EXCEPT ![t] = NoRefresh]
      /\ http' = [http EXCEPT ![t] = [k \in Kinds |-> Idle]]
      /\ lock' = IF lock = t THEN None ELSE lock
      /\ late' = IF x.st = "request" THEN late \cup {x} ELSE late
      /\ lossy' = IF LostRotation(x) THEN lossy \cup {x.tok.sid} ELSE lossy
      /\ UNCHANGED <<cookie, status, reason, gone>>
  BY DEF Reload
<1>2. {"refresh", "login", "logout", "presence"} \subseteq Kinds /\ Idle.st = "idle"
  BY DEF Kinds, Idle
<1>3. \A u \in Tabs, j \in Kinds : http'[u][j] = IF u = t THEN Idle ELSE http[u][j]
  BY <1>1 DEF TypeOK, WebType
<1>4. \A u \in Tabs : mem'[u] = (IF u = t THEN None ELSE mem[u])
                      /\ rf'[u] = (IF u = t THEN NoRefresh ELSE rf[u])
  BY <1>1 DEF TypeOK, TabType, RefreshStates
<1>5. NoRefresh.st = "none"
  BY DEF NoRefresh
<1>6. LockInv'
  BY <1>1, <1>2, <1>3, <1>4, <1>5, NoneAssumption DEF LockInv
<1>7. ReplyInv'
  BY <1>2, <1>3 DEF ReplyInv
<1>8. \A v \in Sids : Unseen(v) => Unseen(v)'
  BY <1>1, <1>2, <1>3, <1>4, NoneAssumption DEF Unseen
<1>9. \A v \in Sids, u \in Tabs : Granted(u, v)' => Granted(u, v) /\ http'[u]["login"] = http[u]["login"]
  BY <1>2, <1>3 DEF Granted
<1>10. LoginInv'
  BY <1>1, <1>8, <1>9 DEF LoginInv
<1>11. GoneInv'
  <2>1. \A u \in Tabs : \A v \in gone[u] : v \in Sids
    BY DEF TypeOK, HistoryType
  <2> QED BY <1>1, <1>2, <1>3, <1>4, <1>9, <2>1, NoneAssumption DEF GoneInv
<1>12. RotationInv'
  <2>1. \A v \in Sids \ lossy', u \in Tabs : Arriving(u, v) => Arriving(u, v)'
    BY <1>1, <1>2, <1>3 DEF Arriving, LostRotation
  <2>2. \A u \in Tabs : http'[u]["refresh"] = http[u]["refresh"] \/ http'[u]["refresh"].st = "idle"
    BY <1>2, <1>3
  <2>3. lossy \subseteq lossy'
    BY <1>1
  <2> QED BY <1>1, <2>1, <2>2, <2>3 DEF RotationInv, Arriving
<1> QED BY <1>6, <1>7, <1>10, <1>11, <1>12

-----------------------------------------------------------------------------
(* The server's rotation.                                                  *)

\* A rotation changes ages of tokens of its session, and nothing else in transit.
LEMMA Ageing ==
    ASSUME TypeOK, NEW tok \in Tokens, NEW e
    PROVE  /\ \A u \in Tabs, k \in Kinds :
                /\ Aged(tok, e)[u][k].st = http[u][k].st
                /\ http[u][k].st # "idle" =>
                     /\ Aged(tok, e)[u][k].tok.sid = http[u][k].tok.sid
                     /\ http[u][k].tok.sid # tok.sid => Aged(tok, e)[u][k].tok = http[u][k].tok
                /\ http[u][k].st = "reply" => /\ Aged(tok, e)[u][k].res = http[u][k].res
                                              /\ Aged(tok, e)[u][k].set = http[u][k].set
           /\ AgedCookie(tok, e).sid = cookie.sid
           /\ ~Rotates(tok, e) \/ cookie.sid # tok.sid => AgedCookie(tok, e) = cookie
<1>1. ASSUME NEW u \in Tabs, NEW k \in Kinds
      PROVE  /\ Aged(tok, e)[u][k].st = http[u][k].st
             /\ http[u][k].st # "idle" =>
                  /\ Aged(tok, e)[u][k].tok.sid = http[u][k].tok.sid
                  /\ http[u][k].tok.sid # tok.sid => Aged(tok, e)[u][k].tok = http[u][k].tok
             /\ http[u][k].st = "reply" => /\ Aged(tok, e)[u][k].res = http[u][k].res
                                           /\ Aged(tok, e)[u][k].set = http[u][k].set
  <2>1. http[u][k] \in Exchanges
    BY ReplyType
  <2>2. Aged(tok, e)[u][k] \in {http[u][k], OlderExchange(http[u][k], tok.sid)}
    BY DEF Aged
  <2>3. http[u][k].st # "idle" /\ http[u][k].tok.sid # tok.sid =>
          Older(http[u][k].tok, tok.sid) = http[u][k].tok
    BY DEF Older
  <2> QED BY <2>1, <2>2, <2>3, OlderExchangeType
<1>2. AgedCookie(tok, e).sid = cookie.sid
  BY OlderType DEF AgedCookie, TypeOK, WebType
<1>3. ~Rotates(tok, e) \/ cookie.sid # tok.sid => AgedCookie(tok, e) = cookie
  BY DEF AgedCookie, Older
<1> QED BY <1>1, <1>2, <1>3

LEMMA AgeingLate ==
    ASSUME NEW tok, NEW e, NEW reqs, reqs \subseteq Requests, NEW x \in AgedLate(reqs, tok, e)
    PROVE  \E w \in reqs : w.tok.sid = x.tok.sid
<1>1. CASE x \in reqs
  BY <1>1
<1>2. CASE x \notin reqs
  <2>1. PICK w \in reqs : x = OlderExchange(w, tok.sid)
    BY <1>2 DEF AgedLate
  <2>2. w \in Exchanges /\ w.st # "idle"
    BY ExchangeTypes DEF Requests
  <2> QED BY <2>1, <2>2, OlderExchangeType
<1> QED BY <1>1, <1>2

\* A refresh revokes at most its own session, and that for a reused token.
LEMMA RotateKept ==
    ASSUME TypeOK, NEW tok \in Tokens, NEW e, RotateUserSessionRefresh(tok, e)
    PROVE  \A s \in Sids :
             /\ status'[s] = status[s] \/ (status[s] = "active" /\ status'[s] = "revoked")
             /\ reason'[s] = reason[s] \/ (s = tok.sid /\ tok.age = 1)
BY DEF RotateUserSessionRefresh, Revokes, Reused, Active, Tokens, TypeOK, ServerType

\* What a rotation does to the exchanges other than its own answer.
LEMMA RotationSees ==
    ASSUME TypeOK, SessionInv, NEW tok \in Tokens, NEW e, RotateUserSessionRefresh(tok, e),
           \A u \in Tabs : http'[u]["login"] = Aged(tok, e)[u]["login"],
           \A u \in Tabs : /\ http'[u]["refresh"].st # "idle" => http[u]["refresh"].st # "idle"
                           /\ http[u]["refresh"].st # "idle" =>
                                http'[u]["refresh"].tok.sid \in {http[u]["refresh"].tok.sid, None},
           cookie' = AgedCookie(tok, e),
           \A x \in late' : \E w \in late : w.tok.sid = x.tok.sid, UNCHANGED mem,
           tok.sid \in Sids => ~Unseen(tok.sid)
    PROVE  /\ LoginInv'
           /\ \A u \in Tabs, s \in Sids : Granted(u, s)' <=> Granted(u, s)
<1>1. "login" \in Kinds /\ "refresh" \in Kinds
  BY DEF Kinds
<1>2. \A u \in Tabs, s \in Sids : Granted(u, s)' <=> Granted(u, s)
  BY <1>1, Ageing DEF Granted
<1>3. \A s \in Sids : Unseen(s) => Unseen(s)'
  <2>1. cookie'.sid = cookie.sid
    BY Ageing
  <2> QED BY <2>1, NoneAssumption DEF Unseen
<1>4. \A u \in Tabs, s \in Sids : Granted(u, s) /\ Unseen(s) =>
        http'[u]["login"].tok = http[u]["login"].tok
  <2> SUFFICES ASSUME NEW u \in Tabs, NEW s \in Sids, Granted(u, s), Unseen(s)
               PROVE  http'[u]["login"].tok = http[u]["login"].tok
    OBVIOUS
  <2>1. http[u]["login"].st # "idle" /\ http[u]["login"].tok.sid # tok.sid
    BY DEF Granted
  <2> QED BY <1>1, <2>1, Ageing
<1>5. \A s \in Sids : status'[s] = "unused" => status[s] = "unused"
  BY RotateKept
<1>6. LoginInv'
  BY <1>2, <1>3, <1>4, <1>5 DEF SessionInv, LoginInv
<1> QED BY <1>2, <1>6

LEMMA RefreshAuthStep ==
    ASSUME TypeOK, SessionInv, NEW t \in Tabs, RefreshAuth(t) PROVE SessionInv'
<1> DEFINE x == http[t]["refresh"]
           y == RefreshResult(x.tok, x.exp)
<1> USE DEF SessionInv, tabVars, histVars
<1>1. /\ x.st = "request" /\ RotateUserSessionRefresh(x.tok, x.exp)
      /\ http' = [Aged(x.tok, x.exp) EXCEPT ![t]["refresh"] = y]
      /\ cookie' = AgedCookie(x.tok, x.exp) /\ late' = AgedLate(late, x.tok, x.exp)
      /\ UNCHANGED <<mem, rf, lock, lossy, gone>>
  BY DEF RefreshAuth
<1>2. {"refresh", "login", "logout", "presence"} \subseteq Kinds
  BY DEF Kinds
<1>3. x.tok \in Tokens /\ x.exp \in Sids \cup {None} /\ late \subseteq Requests
  BY <1>1, <1>2, ReplyType DEF Requests, TypeOK, WebType
<1>4. /\ y \in Replies /\ y.st = "reply" /\ y.tok.sid \in {x.tok.sid, None}
      /\ y.set = "set" <=> y.res = "ok"
      /\ y.res = "mismatch" => y.set = "keep"
  BY <1>3, RefreshResultType DEF Replies
<1>5. y.res = "ok" => /\ y.tok = Current(x.tok.sid) /\ Active(x.tok.sid)
                      /\ x.exp \in {None, x.tok.sid} /\ x.tok # NoToken
  BY <1>3, RefreshResultType
<1>6. \A u \in Tabs, k \in Kinds :
        http'[u][k] = IF u = t /\ k = "refresh" THEN y ELSE Aged(x.tok, x.exp)[u][k]
  <2>1. Aged(x.tok, x.exp) \in [Tabs -> [Kinds -> Exchanges]]
    BY <1>3, AgedType
  <2> QED BY <1>1, <1>2, <2>1
<1>7. /\ lock = t /\ rf[t].st = "running"
      /\ \A u \in Tabs : u # t => http[u]["refresh"].st = "idle" /\ rf[u].st # "running"
  BY <1>1, OneExchange
<1>8. \A u \in Tabs : u # t => http'[u]["refresh"].st = "idle"
  BY <1>2, <1>3, <1>6, <1>7, Ageing
<1>9. http'[t]["refresh"] = y
  BY <1>2, <1>6
<1>10. \A u \in Tabs, k \in Kinds \ {"refresh"} : http'[u][k] = Aged(x.tok, x.exp)[u][k]
  BY <1>6
<1>11. LockInv'
  BY <1>1, <1>4, <1>7, <1>8, <1>9 DEF LockInv
<1>12. ReplyInv'
  <2>1. {"login", "logout", "presence"} \subseteq Kinds \ {"refresh"}
    BY DEF Kinds
  <2>2. \A u \in Tabs : /\ \A k \in {"logout", "presence"} :
                             http'[u][k].st = "reply" => http'[u][k].set # "set"
                        /\ http'[u]["login"].st # "request"
    BY <1>3, <1>10, <2>1, Ageing DEF ReplyInv
  <2> QED BY <1>4, <1>8, <1>9, <2>2 DEF ReplyInv
<1>13. LoginInv' /\ \A u \in Tabs, s \in Sids : Granted(u, s)' <=> Granted(u, s)
  <2>1. \A u \in Tabs : http'[u]["login"] = Aged(x.tok, x.exp)[u]["login"]
    BY <1>10 DEF Kinds
  <2>2. \A u \in Tabs : /\ http'[u]["refresh"].st # "idle" => http[u]["refresh"].st # "idle"
                        /\ http[u]["refresh"].st # "idle" =>
                             http'[u]["refresh"].tok.sid \in {http[u]["refresh"].tok.sid, None}
    BY <1>1, <1>4, <1>7, <1>8, <1>9
  <2>3. \A w \in late' : \E v \in late : v.tok.sid = w.tok.sid
    BY <1>1, <1>3, AgeingLate
  <2>4. x.tok.sid \in Sids => ~Unseen(x.tok.sid)
    BY <1>1 DEF Unseen
  <2> HIDE DEF x, y
  <2> QED BY <1>1, <1>3, <2>1, <2>2, <2>3, <2>4, RotationSees
<1>14. \A s \in Sids :
         /\ status'[s] = status[s] \/ (status[s] = "active" /\ status'[s] = "revoked")
         /\ reason'[s] = reason[s] \/ (s = x.tok.sid /\ x.tok.age = 1)
  BY <1>1, <1>3, RotateKept
<1>15. GoneInv'
  <2> SUFFICES ASSUME NEW u \in Tabs, NEW s \in gone[u]
               PROVE  /\ status'[s] = "revoked" /\ mem[u] # s /\ ~Granted(u, s)'
                      /\ u = t /\ y.res = "ok" => y.tok.sid # s
    BY <1>1, <1>8, <1>9 DEF GoneInv
  <2>1. s \in Sids /\ status[s] = "revoked" /\ mem[u] # s /\ ~Granted(u, s)
    BY DEF GoneInv, TypeOK, HistoryType
  <2>2. y.res = "ok" => y.tok.sid # s
    BY <1>5, <2>1 DEF Current, Active
  <2> QED BY <1>13, <1>14, <2>1, <2>2
<1>16. ASSUME NEW s \in Sids \ lossy
       PROVE  /\ reason'[s] # "refresh_reuse"
              /\ cookie'.sid = s => cookie'.age = 0 \/ Arriving(t, s)'
              /\ Arriving(t, s)' => y.tok.age = 0
  <2>1. /\ cookie.sid = s => cookie.age = 0
        /\ x.tok.sid = s => x.tok.age = 0
        /\ reason[s] # "refresh_reuse"
    BY <1>1, <1>7 DEF RotationInv, Arriving
  <2>2. reason'[s] # "refresh_reuse"
    BY <1>14, <2>1
  <2>3. Arriving(t, s)' <=> y.set = "set" /\ y.tok.sid = s
    BY <1>4, <1>9 DEF Arriving
  <2>4. Arriving(t, s)' => y.tok.age = 0
    BY <1>4, <1>5, <2>3 DEF Current
  <2>5. cookie'.sid = cookie.sid
    BY <1>1, <1>3, Ageing
  <2>6. CASE cookie.sid # x.tok.sid \/ ~Rotates(x.tok, x.exp)
    <3>1. cookie' = cookie
      BY <1>1, <1>3, <2>6, Ageing
    <3> QED BY <2>1, <2>2, <2>4, <3>1
  <2>7. CASE cookie.sid = x.tok.sid /\ Rotates(x.tok, x.exp)
    <3>1. y = Reply("ok", "set", Current(x.tok.sid))
      BY <2>7 DEF Rotates, RefreshResult, Recognised
    <3>2. cookie.sid = s => Arriving(t, s)'
      BY <2>3, <2>7, <3>1 DEF Reply, Current
    <3> QED BY <2>2, <2>4, <2>5, <3>2
  <2> QED BY <2>6, <2>7
<1>17. RotationInv'
  <2>1. \A u \in Tabs, s \in Sids :
          ~(http'[u]["refresh"].st = "request") /\ (Arriving(u, s)' => u = t)
    BY <1>4, <1>8, <1>9 DEF Arriving
  <2> HIDE DEF x, y
  <2> QED BY <1>1, <1>9, <1>16, <2>1 DEF RotationInv
<1> QED BY <1>11, <1>12, <1>13, <1>15, <1>17

LEMMA RefreshAuthLateStep ==
    ASSUME TypeOK, SessionInv, NEW x \in late, RefreshAuthLate(x) PROVE SessionInv'
<1> USE DEF SessionInv, tabVars, histVars
<1>1. /\ RotateUserSessionRefresh(x.tok, x.exp)
      /\ http' = Aged(x.tok, x.exp)
      /\ cookie' = AgedCookie(x.tok, x.exp) /\ late' = AgedLate(late \ {x}, x.tok, x.exp)
      /\ lossy' = lossy \cup ({x.tok.sid} \ {None})
      /\ UNCHANGED <<mem, rf, lock, gone>>
  BY DEF RefreshAuthLate
<1>2. {"refresh", "login", "logout", "presence"} \subseteq Kinds
  BY DEF Kinds
<1>3. x.tok \in Tokens /\ x.tok.sid \in Sids \cup {None} /\ late \ {x} \subseteq Requests
  BY DEF Requests, Tokens, TypeOK, WebType
<1>4. \A u \in Tabs, k \in Kinds :
        /\ http'[u][k].st = http[u][k].st
        /\ http[u][k].st # "idle" =>
             /\ http'[u][k].tok.sid = http[u][k].tok.sid
             /\ http[u][k].tok.sid # x.tok.sid => http'[u][k].tok = http[u][k].tok
        /\ http[u][k].st = "reply" => /\ http'[u][k].res = http[u][k].res
                                      /\ http'[u][k].set = http[u][k].set
  BY <1>1, <1>3, Ageing
<1>5. LockInv'
  BY <1>1, <1>2, <1>4 DEF LockInv
<1>6. ReplyInv'
  BY <1>2, <1>4 DEF ReplyInv
<1>7. LoginInv' /\ \A u \in Tabs, s \in Sids : Granted(u, s)' <=> Granted(u, s)
  <2>1. \A w \in late' : \E v \in late : v.tok.sid = w.tok.sid
    BY <1>1, <1>3, AgeingLate
  <2>2. x.tok.sid \in Sids => ~Unseen(x.tok.sid)
    BY DEF Unseen
  <2> QED BY <1>1, <1>2, <1>3, <1>4, <2>1, <2>2, RotationSees
<1>8. \A s \in Sids :
        /\ status'[s] = status[s] \/ (status[s] = "active" /\ status'[s] = "revoked")
        /\ reason'[s] = reason[s] \/ s = x.tok.sid
  BY <1>1, <1>3, RotateKept
<1>9. GoneInv'
  <2>1. \A u \in Tabs : \A s \in gone[u] : s \in Sids
    BY DEF TypeOK, HistoryType
  <2> QED BY <1>1, <1>2, <1>4, <1>7, <1>8, <2>1 DEF GoneInv
<1>10. RotationInv'
  <2>1. \A s \in Sids \ lossy' : s # x.tok.sid /\ s \notin lossy
    BY <1>1, <1>3, NoneAssumption
  <2>2. cookie'.sid = cookie.sid /\ (cookie.sid # x.tok.sid => cookie' = cookie)
    BY <1>1, <1>3, Ageing
  <2>3. \A u \in Tabs, s \in Sids : Arriving(u, s)' <=> Arriving(u, s)
    BY <1>2, <1>4, ReplyType DEF Arriving
  <2>4. \A u \in Tabs, s \in Sids \ lossy' :
          (http'[u]["refresh"].st # "idle" /\ http'[u]["refresh"].tok.sid = s)
            => http'[u]["refresh"].tok = http[u]["refresh"].tok
    BY <1>2, <1>4, <2>1
  <2>5. ASSUME NEW s \in Sids \ lossy'
        PROVE  /\ reason'[s] # "refresh_reuse"
               /\ cookie'.sid = s => cookie'.age = 0 \/ \E u \in Tabs : Arriving(u, s)'
               /\ \A u \in Tabs :
                    (http'[u]["refresh"].st = "request" /\ http'[u]["refresh"].tok.sid = s)
                      \/ Arriving(u, s)' => http'[u]["refresh"].tok.age = 0
    <3>1. s \in Sids \ lossy /\ s # x.tok.sid
      BY <2>1
    <3>2. reason'[s] # "refresh_reuse"
      BY <1>8, <3>1 DEF RotationInv
    <3>3. cookie'.sid = s => cookie'.age = 0 \/ \E u \in Tabs : Arriving(u, s)'
      BY <2>2, <2>3, <3>1 DEF RotationInv
    <3>4. \A u \in Tabs :
            (http'[u]["refresh"].st = "request" /\ http'[u]["refresh"].tok.sid = s)
              \/ Arriving(u, s)' => http'[u]["refresh"].tok.age = 0
      BY <1>2, <1>4, <2>3, <2>4, <3>1 DEF RotationInv, Arriving
    <3> QED BY <3>2, <3>3, <3>4
  <2> QED BY <2>5 DEF RotationInv
<1> QED BY <1>5, <1>6, <1>7, <1>9, <1>10

-----------------------------------------------------------------------------
(* The invariant and what follows from it.                                 *)

LEMMA SessionInit == Init => SessionInv
<1> SUFFICES ASSUME Init PROVE SessionInv
  OBVIOUS
<1>1. \A t \in Tabs : /\ \A k \in Kinds : http[t][k].st = "idle"
                      /\ rf[t].st = "none" /\ mem[t] = None /\ gone[t] = {}
  BY DEF Init, Idle, NoRefresh
<1>2. {"refresh", "login", "logout", "presence"} \subseteq Kinds
  BY DEF Kinds
<1>3. LockInv /\ ReplyInv /\ GoneInv
  BY <1>1, <1>2, NoneAssumption DEF Init, LockInv, ReplyInv, GoneInv
<1>4. LoginInv
  BY <1>1, <1>2, NoneAssumption DEF Init, LoginInv, Unseen, Granted, NoToken
<1>5. RotationInv
  BY <1>1, <1>2 DEF Init, RotationInv, Arriving, NoToken
<1> QED BY <1>3, <1>4, <1>5 DEF SessionInv

LEMMA SessionStep ==
    ASSUME TypeOK, TypeOK', SessionInv, [Next]_vars PROVE SessionInv'
<1>1. ASSUME NEW t \in Tabs, Tab(t) PROVE SessionInv'
  BY <1>1, SideSteps, SessionKept, RunRefreshStep, RefreshReplyStep, LoginStep, LoginReplyStep,
     ReloadStep DEF Tab
<1>2. ASSUME NEW t \in Tabs, Server(t) PROVE SessionInv'
  BY <1>2, SideSteps, SessionKept, RefreshAuthStep DEF Server
<1>3. ASSUME NEW x \in late, RefreshAuthLate(x) PROVE SessionInv'
  BY <1>3, RefreshAuthLateStep
<1>4. CASE UNCHANGED vars \/ (\E s \in Sids : RevokeElsewhere(s) \/ GraceEnds(s))
  BY <1>4, OutsideSteps, SessionKept
<1>5. ASSUME NEW t \in Tabs, NEW k \in Kinds, Lose(t, k) PROVE SessionInv'
  BY <1>5, LoseStep
<1> QED BY <1>1, <1>2, <1>3, <1>4, <1>5 DEF Next

\* One tab refreshes at a time; a session is seen by nobody before the answer to
\* its login; one that was left stays revoked; and its token is current as long
\* as no rotation is lost: refreshAuthentication, RotateUserSessionRefresh.
THEOREM SessionInvariant == Spec => [](TypeOK /\ SessionInv)
<1>1. Init => TypeOK /\ SessionInv
  BY TypeInit, SessionInit
<1>2. (TypeOK /\ SessionInv) /\ [Next]_vars => (TypeOK /\ SessionInv)'
  <2> SUFFICES ASSUME TypeOK, SessionInv, [Next]_vars PROVE TypeOK' /\ SessionInv'
    OBVIOUS
  <2>1. TypeOK'
    BY TypeStep
  <2> QED BY <2>1, SessionStep
<1> QED BY <1>1, <1>2, PTL DEF Spec

\* No tab gets a session back that was revoked and that it cleared, whatever
\* answers and events are still under way: the epoch of clearAuthentication.
THEOREM SignedOutTheorem == Spec => []SignedOutStaysOut
<1>1. SessionInv => SignedOutStaysOut
  BY DEF SessionInv, GoneInv, SignedOutStaysOut
<1> QED BY <1>1, SessionInvariant, PTL

\* Refreshes of any number of tabs are never taken for theft, unless an answer
\* is lost or a page goes: the lock of refreshAuthentication is enough.
THEOREM ReuseTheorem == Spec => []ReuseNeedsLoss
<1>1. SessionInv => ReuseNeedsLoss
  BY DEF SessionInv, RotationInv, ReuseNeedsLoss
<1> QED BY <1>1, SessionInvariant, PTL

-----------------------------------------------------------------------------
(* Tokens: which one is newest, and when none is left.                     *)

\* What a side step does not do to tokens.
TokenStep ==
    /\ \A s \in Sids : fresh'[s] => fresh[s]
    /\ wiped \subseteq wiped'
    /\ cookie' # cookie /\ Active(cookie.sid) /\ Recognised(cookie) => wiped' # {}

LEMMA TokenTypes ==
    ASSUME TypeOK
    PROVE  /\ cookie.age \in 0..2 /\ cookie.sid \in Sids \cup {None}
           /\ \A x \in late : x.tok.age \in 0..2 /\ x.tok.sid \in Sids \cup {None} /\ x \in Requests
           /\ \A t \in Tabs : http[t]["refresh"].st # "idle" =>
                http[t]["refresh"].tok.age \in 0..2 /\ http[t]["refresh"].tok \in Tokens
<1>1. \A t \in Tabs : http[t]["refresh"].st # "idle" =>
        http[t]["refresh"].tok.age \in 0..2 /\ http[t]["refresh"].tok \in Tokens
  BY ReplyType DEF Requests, Replies, Tokens, Kinds
<1> QED BY <1>1 DEF TypeOK, WebType, Requests, Tokens

\* A session that stays the only one was so before.
LEMMA AloneKept ==
    ASSUME \A s \in Sids : \/ status'[s] = status[s]
                           \/ status[s] = "active" /\ status'[s] = "revoked",
           wiped \subseteq wiped', NEW s \in Sids, Alone(s)'
    PROVE  Alone(s)
BY DEF Alone, Active

LEMMA TokenKept ==
    ASSUME TypeOK, SessionInv, TokenInv, SideStep, TokenStep PROVE TokenInv'
<1> USE DEF TokenInv
<1>1. /\ (\A s \in Sids : NoToken.sid # s)
      /\ cookie' = cookie \/ (cookie' = NoToken /\ cookie' # cookie)
  BY NoneAssumption DEF NoToken, SideStep
<1>2. /\ \A u \in Tabs : /\ http'[u]["refresh"] = http[u]["refresh"]
                         /\ http'[u]["login"] = http[u]["login"]
                         /\ mem'[u] \in {mem[u], None}
                         /\ rf[u].st = "running" /\ rf[u].old => rf'[u].old
      /\ late' = late /\ lossy' = lossy
  BY DEF SideStep
<1>3. AnswerInv'
  BY <1>2 DEF AnswerInv, LostRotation
<1>4. \A s \in Sids, t \in Tabs : (Sent(t, s)' <=> Sent(t, s)) /\ (Arriving(t, s)' <=> Arriving(t, s))
  BY <1>2 DEF Sent, Arriving
<1>5. \A s \in Sids : \A n : NoneNewer(s, n) => NoneNewer(s, n)'
  BY <1>1, <1>2 DEF NoneNewer
<1>6. OrderInv'
  BY <1>1, <1>2, <1>4, <1>5 DEF OrderInv
<1>7. ASSUME NEW s \in Sids, Alone(s)'
      PROVE  Alone(s) /\ Active(s)
  BY <1>7, AloneKept DEF SideStep, TokenStep, Alone
<1>8. ASSUME NEW s \in Sids, Alone(s)', NEW u \in Tabs, mem'[u] = s, cookie'.sid # s
      PROVE  Lapsed(s)' /\ (s \in lossy \/ \E t \in Tabs : Arriving(t, s))
  <2>1. Alone(s) /\ Active(s) /\ mem[u] = s
    BY <1>2, <1>7, <1>8, NoneAssumption
  <2>2. CASE cookie.sid # s
    <3>1. Lapsed(s) /\ (s \in lossy \/ \E t \in Tabs : Arriving(t, s))
      BY <2>1, <2>2 DEF LapseInv
    <3> QED BY <1>2, <1>4, <1>5, <3>1 DEF Lapsed, TokenStep
  <2>3. CASE cookie.sid = s
    <3>1. ~Recognised(cookie)
      BY <1>8, <2>1, <2>3 DEF TokenStep, Alone
    <3>2. cookie.age = 1 /\ ~fresh[s]
      BY <2>3, <3>1, TokenTypes DEF Recognised, OrderInv
    <3>3. NoneNewer(s, 1) /\ \A t \in Tabs : Sent(t, s) => http[t]["refresh"].tok.age = 1
      BY <2>3, <3>2 DEF OrderInv
    <3>4. s \in lossy \/ \E t \in Tabs : Arriving(t, s)
      BY <2>3, <3>2 DEF SessionInv, RotationInv
    <3> QED BY <1>2, <1>4, <1>5, <3>2, <3>3, <3>4 DEF Lapsed, TokenStep
  <2> QED BY <2>2, <2>3
<1>9. ASSUME NEW s \in Sids, Alone(s)', NEW u \in Tabs, mem'[u] = s, ~rf'[u].old,
             \/ http[u]["refresh"].st = "request" /\ ~Sent(u, s)
             \/ http[u]["refresh"].st = "reply" /\ http[u]["refresh"].res = "denied"
      PROVE  cookie'.sid # s
  <2>1. Alone(s) /\ mem[u] = s
    BY <1>2, <1>7, <1>9, NoneAssumption
  <2>2. rf[u].st = "running"
    BY <1>9 DEF SessionInv, LockInv
  <2>3. cookie.sid # s
    BY <1>2, <1>9, <2>1, <2>2 DEF LapseInv
  <2> QED BY <1>1, <2>3
<1>10. LapseInv'
  BY <1>2, <1>4, <1>8, <1>9 DEF LapseInv
<1> QED BY <1>3, <1>6, <1>10

LEMMA WipedKept ==
    ASSUME NEW r, cookie' \in {cookie, SetCookie(r)}, r.set # "set"
    PROVE  cookie' # cookie /\ Active(cookie.sid) /\ Recognised(cookie) => Wiped(r) # {}
BY DEF SetCookie, Wiped

LEMMA TokenSteps ==
    ASSUME TypeOK, SessionInv,
           \/ \E t \in Tabs :
                \/ RefreshAuthentication(t) \/ ResolveAuthentication(t) \/ ApiUnauthorized(t)
                \/ ApiRetried(t) \/ SignOut(t) \/ LogoutReply(t) \/ Connect(t) \/ PresenceReply(t)
                \/ ApplyAuthRotation(t) \/ Deliver(t) \/ Expire(t) \/ AuthLogout(t)
                \/ AuthPresence(t)
           \/ UNCHANGED vars \/ (\E s \in Sids : RevokeElsewhere(s) \/ GraceEnds(s))
    PROVE  TokenStep
<1> USE DEF tabVars, srvVars, histVars, TokenStep
<1>1. ASSUME NEW t \in Tabs, LogoutReply(t) PROVE TokenStep
  <2> DEFINE r == http[t]["logout"]
  <2>1. /\ r.st = "reply" /\ cookie' = SetCookie(r) /\ UNCHANGED fresh
        /\ wiped' = IF Wiped(r) = {} THEN wiped ELSE wiped \cup {"sign-out"}
    BY <1>1 DEF LogoutReply
  <2>2. r.set # "set"
    BY <2>1 DEF SessionInv, ReplyInv
  <2> HIDE DEF r
  <2> QED BY <2>1, <2>2, WipedKept
<1>2. ASSUME NEW t \in Tabs, PresenceReply(t) PROVE TokenStep
  <2> DEFINE r == http[t]["presence"]
  <2>1. /\ r.st = "reply" /\ UNCHANGED fresh
        /\ \/ UNCHANGED <<cookie, wiped>>
           \/ cookie' = SetCookie(r) /\ wiped' = wiped \cup Wiped(r)
    BY <1>2 DEF PresenceReply
  <2>2. r.set # "set"
    BY <2>1 DEF SessionInv, ReplyInv
  <2> HIDE DEF r
  <2> QED BY <2>1, <2>2, WipedKept
<1>3. ASSUME NEW t \in Tabs,
             \/ RefreshAuthentication(t) \/ ResolveAuthentication(t) \/ ApiUnauthorized(t)
             \/ ApiRetried(t) \/ SignOut(t) \/ Connect(t)
             \/ ApplyAuthRotation(t) \/ Deliver(t) \/ Expire(t) \/ AuthLogout(t)
             \/ AuthPresence(t)
      PROVE  TokenStep
  <2>1. UNCHANGED <<cookie, fresh, wiped>>
    BY <1>3 DEF RefreshAuthentication, ResolveAuthentication, ApiUnauthorized, ApiRetried, SignOut,
       Connect, ApplyAuthRotation, Deliver, Expire, AuthLogout, AuthPresence
  <2> QED BY <2>1
<1>4. CASE UNCHANGED vars \/ (\E s \in Sids : RevokeElsewhere(s) \/ GraceEnds(s))
  BY <1>4 DEF vars, RevokeElsewhere, GraceEnds, TypeOK, ServerType
<1> QED BY <1>1, <1>2, <1>3, <1>4

\* The refresh exchanges that are requests are gone, and none is arriving.
LEMMA OrderQuiet ==
    ASSUME TypeOK, OrderInv, UNCHANGED late, \A u \in Tabs : http'[u]["refresh"].st = "idle",
           \A s \in Sids : cookie'.sid = s => cookie' = cookie \/ cookie'.age = 0
    PROVE  OrderInv'
<1>1. \A u \in Tabs, s \in Sids : ~Sent(u, s)' /\ ~Arriving(u, s)'
  BY DEF Sent, Arriving
<1>2. ASSUME NEW s \in Sids, cookie'.sid = s PROVE cookie'.age <= 1 /\ NoneNewer(s, cookie.age)'
  <2>1. CASE cookie' = cookie
    BY <1>2, <2>1 DEF OrderInv, NoneNewer
  <2>2. CASE cookie'.age = 0
    BY <1>2, <2>2, TokenTypes DEF NoneNewer
  <2> QED BY <1>2, <2>1, <2>2
<1> QED BY <1>1, <1>2 DEF OrderInv

LEMMA RunRefreshTokens ==
    ASSUME TypeOK, SessionInv, TokenInv, NEW t \in Tabs, RunRefresh(t) PROVE TokenInv'
<1> USE DEF TokenInv, tabVars, srvVars, histVars
<1>0. /\ rf[t].st = "queued" /\ lock = None /\ UNCHANGED <<mem, cookie, srvVars, histVars>>
  BY DEF RunRefresh
<1>1. \A u \in Tabs : http[u]["refresh"].st = "idle" /\ rf[u].st # "running"
  BY <1>0, NoneAssumption DEF SessionInv, LockInv
<1>2. \A u \in Tabs, s \in Sids : ~Arriving(u, s)
  BY <1>1 DEF Arriving
<1>3. \A s \in Sids : (Alone(s)' <=> Alone(s)) /\ \A n : NoneNewer(s, n)' <=> NoneNewer(s, n)
  BY <1>0 DEF Alone, Active, NoneNewer
<1>4. CASE rf[t].old
  <2>1. EndRefresh(t, "transient_error")
    BY <1>4 DEF RunRefresh
  <2>2. \A u \in Tabs : http'[u]["refresh"].st = "idle" /\ http'[u]["login"] = http[u]["login"]
    <3>1. mem' \in [Tabs -> Sids \cup {None}] /\ cookie' \in Tokens
      BY <1>0 DEF TypeOK, TabType, WebType
    <3>2. {"refresh", "login"} \subseteq Kinds \ {"logout"} /\ Idle.st = "idle"
      BY DEF Kinds, Idle
    <3> QED BY <1>1, <2>1, <3>1, <3>2, EndRefreshType
  <2>3. AnswerInv'
    BY <2>2 DEF AnswerInv, LostRotation
  <2>4. OrderInv'
    BY <1>0, <2>2, OrderQuiet
  <2>5. LapseInv'
    BY <1>0, <1>2, <1>3, <2>2 DEF LapseInv, Lapsed, Sent
  <2> QED BY <2>3, <2>4, <2>5
<1>5. CASE ~rf[t].old
  <2> DEFINE x == Request(cookie, mem[t])
  <2>1. http' = [http EXCEPT ![t]["refresh"] = x]
    BY <1>5 DEF RunRefresh
  <2>2. x \in Exchanges /\ x.st = "request" /\ x.tok = cookie
    BY ExchangeTypes DEF Request, TypeOK, TabType, WebType
  <2> HIDE DEF x
  <2>3. \A u \in Tabs : /\ http'[u]["refresh"] = IF u = t THEN x ELSE http[u]["refresh"]
                        /\ http'[u]["login"] = http[u]["login"]
    BY <2>1, <2>2, PutType DEF TypeOK, Kinds
  <2>4. AnswerInv'
    BY <2>2, <2>3 DEF AnswerInv, LostRotation
  <2>5. \A u \in Tabs, s \in Sids : ~Arriving(u, s)' /\ (Sent(u, s)' <=> u = t /\ cookie.sid = s)
    BY <1>1, <2>2, <2>3 DEF Arriving, Sent
  <2>6. OrderInv'
    BY <1>0, <1>3, <2>2, <2>3, <2>5 DEF OrderInv
  <2>7. LapseInv'
    BY <1>0, <1>1, <1>2, <1>3, <2>2, <2>3, <2>5 DEF LapseInv, Lapsed
  <2> QED BY <2>4, <2>6, <2>7
<1> QED BY <1>4, <1>5

LEMMA LoginTokens ==
    ASSUME TypeOK, SessionInv, TokenInv, NEW t \in Tabs, Login(t) PROVE TokenInv'
<1> USE DEF TokenInv, tabVars, srvVars, histVars
<1> PICK s \in Sids :
      /\ status[s] = "unused" /\ status' = [status EXCEPT ![s] = "active"]
      /\ http' = [http EXCEPT ![t]["login"] = Reply("ok", "set", Current(s))]
  BY DEF Login
<1> DEFINE x == Reply("ok", "set", Current(s))
<1>1. UNCHANGED <<mem, rf, cookie, late, fresh, histVars>>
  BY DEF Login
<1>2. x \in Exchanges /\ x.set = "set" /\ x.tok.sid = s
  BY ExchangeTypes DEF Reply, Current
<1> HIDE DEF x
<1>3. \A u \in Tabs : /\ http'[u]["login"] = IF u = t THEN x ELSE http[u]["login"]
                      /\ http'[u]["refresh"] = http[u]["refresh"]
  BY <1>2, PutType DEF TypeOK, Kinds, x
<1>4. AnswerInv'
  BY <1>2, <1>3 DEF AnswerInv, LostRotation
<1>5. OrderInv'
  BY <1>1, <1>3 DEF OrderInv, NoneNewer, Sent, Arriving
<1>6. \A u \in Tabs : mem'[u] # s
  BY <1>1 DEF SessionInv, LoginInv, Unseen
<1>7. \A v \in Sids : Alone(v)' => v = s
  BY DEF Alone, TypeOK, ServerType
<1>8. LapseInv'
  BY <1>6, <1>7 DEF LapseInv
<1> QED BY <1>4, <1>5, <1>8

LEMMA LoginReplyTokens ==
    ASSUME TypeOK, SessionInv, TokenInv, NEW t \in Tabs, LoginReply(t) PROVE TokenInv'
<1> DEFINE r == http[t]["login"]
           s == r.tok.sid
<1> USE DEF TokenInv, tabVars, srvVars, histVars
<1>1. /\ r.st = "reply" /\ cookie' = SetCookie(r) /\ http' = [http EXCEPT ![t]["login"] = Idle]
      /\ UNCHANGED <<srvVars, histVars>>
      /\ \/ r.res = "ok" /\ mem' = [mem EXCEPT ![t] = s] /\ rf' = [rf EXCEPT ![t] = Superseded(@)]
         \/ UNCHANGED <<mem, rf>>
  BY DEF LoginReply
<1>2. \A u \in Tabs : /\ http'[u]["login"] = IF u = t THEN Idle ELSE http[u]["login"]
                      /\ http'[u]["refresh"] = http[u]["refresh"]
  BY <1>1, PutType, ExchangeTypes DEF TypeOK, Kinds
<1>3. AnswerInv'
  BY <1>2 DEF AnswerInv, LostRotation, Idle
<1>4. \A v \in Sids, u \in Tabs : (Sent(u, v)' <=> Sent(u, v)) /\ (Arriving(u, v)' <=> Arriving(u, v))
  BY <1>2 DEF Sent, Arriving
<1>5. \A v \in Sids : Alone(v)' <=> Alone(v)
  BY <1>1 DEF Alone, Active
<1>6. CASE r.set = "keep" /\ r.res # "ok"
  <2>1. UNCHANGED <<mem, rf, cookie, late, lossy, fresh>>
    BY <1>1, <1>6 DEF SetCookie
  <2>2. \A v \in Sids : (\A n : NoneNewer(v, n)' <=> NoneNewer(v, n)) /\ (Lapsed(v)' <=> Lapsed(v))
    BY <1>2, <1>4, <2>1 DEF NoneNewer, Lapsed
  <2>3. OrderInv'
    BY <1>2, <1>4, <2>1, <2>2 DEF OrderInv
  <2>4. LapseInv'
    BY <1>2, <1>4, <1>5, <2>1, <2>2 DEF LapseInv
  <2> QED BY <1>3, <2>3, <2>4
<1>7. CASE r.set = "set" /\ s \in Sids
  <2>1. Granted(t, s)
    BY <1>1 DEF Granted
  <2>2. Unseen(s) /\ status[s] # "unused" /\ r.tok.age = 0
    BY <1>7, <2>1 DEF SessionInv, LoginInv
  <2>3. cookie' = r.tok /\ cookie'.sid = s /\ cookie'.age = 0
    BY <1>1, <1>7, <2>2 DEF SetCookie
  <2>4. \A u \in Tabs : ~Sent(u, s) /\ ~Arriving(u, s) /\ mem[u] # s
    BY <2>2 DEF Unseen, Sent, Arriving
  <2>5. \A v \in Sids : \A n : v # s /\ NoneNewer(v, n) => NoneNewer(v, n)'
    BY <1>1, <2>3 DEF NoneNewer
  <2>6. \A v \in Sids : v = s => NoneNewer(v, cookie.age)'
    BY <1>1, <2>3, TokenTypes DEF NoneNewer
  <2>7. \A u \in Tabs : rf[u].st = "running" /\ mem'[u] = s => rf'[u].old
    <3>1. \A u \in Tabs : u # t => mem'[u] = mem[u]
      BY <1>1 DEF TypeOK, TabType
    <3> QED BY <1>1, <2>4, <3>1, RefreshKept
  <2> HIDE DEF r, s
  <2>8. OrderInv'
    <3> SUFFICES ASSUME NEW v \in Sids
                 PROVE  /\ cookie'.sid = v => cookie'.age <= 1 /\ NoneNewer(v, cookie.age)'
                        /\ \A u \in Tabs :
                             /\ Sent(u, v) =>
                                  /\ http[u]["refresh"].tok.age <= 1
                                  /\ NoneNewer(v, http[u]["refresh"].tok.age)'
                                  /\ cookie'.sid = v => cookie'.age = http[u]["refresh"].tok.age
                             /\ Arriving(u, v) => /\ http[u]["refresh"].tok.age = 0
                                                  /\ NoneNewer(v, 1)'
      BY <1>2, <1>4 DEF OrderInv
    <3>1. CASE v = s
      <4>1. cookie'.age <= 1 /\ NoneNewer(v, cookie.age)'
        BY <2>3, <2>6, <3>1
      <4>2. \A u \in Tabs : ~Sent(u, v) /\ ~Arriving(u, v)
        BY <2>4, <3>1
      <4> QED BY <4>1, <4>2
    <3>2. CASE v # s
      <4>1. \A u \in Tabs : /\ Sent(u, v) => NoneNewer(v, http[u]["refresh"].tok.age)'
                            /\ Arriving(u, v) => NoneNewer(v, 1)'
        BY <1>2, <2>5, <3>2 DEF OrderInv
      <4> QED BY <2>3, <3>2, <4>1 DEF OrderInv
    <3> QED BY <3>1, <3>2
  <2>9. LapseInv'
    <3> SUFFICES ASSUME NEW v \in Sids, Alone(v), NEW u \in Tabs, mem'[u] = v, ~rf'[u].old,
                        http[u]["refresh"].st # "idle"
                 PROVE  cookie'.sid # v
      <4>1. \A v \in Sids : Alone(v) => v = s
        BY <1>7, <2>2 DEF Alone
      <4> QED BY <1>2, <1>5, <2>3, <4>1 DEF LapseInv
    <3>1. v = s
      BY <1>7, <2>2 DEF Alone
    <3>2. rf[u].st = "running"
      BY DEF SessionInv, LockInv
    <3> QED BY <2>7, <3>1, <3>2
  <2> QED BY <1>3, <2>8, <2>9
<1> QED BY <1>1, <1>6, <1>7 DEF AnswerInv

LEMMA LoseTokens ==
    ASSUME TypeOK, SessionInv, TokenInv, NEW t \in Tabs, NEW k \in Kinds, Lose(t, k) PROVE TokenInv'
<1> DEFINE x == Reply("failed", "keep", NoToken)
<1> USE DEF TokenInv, tabVars, srvVars, histVars
<1>1. /\ http' = [http EXCEPT ![t][k] = x]
      /\ UNCHANGED <<mem, rf, cookie, lock, srvVars, gone, wiped>>
      /\ lossy' = IF LostRotation(http[t][k]) THEN lossy \cup {http[t][k].tok.sid} ELSE lossy
  BY DEF Lose
<1>2. x \in Exchanges /\ x.st = "reply" /\ x.res = "failed" /\ x.set = "keep"
  BY ExchangeTypes DEF Reply
<1> HIDE DEF x
<1>3. \A u \in Tabs, j \in {"refresh", "login"} :
        http'[u][j] = IF u = t /\ j = k THEN x ELSE http[u][j]
  BY <1>1, <1>2, PutType DEF TypeOK, Kinds
<1>4. AnswerInv'
  BY <1>2, <1>3 DEF AnswerInv, LostRotation
<1>5. \A u \in Tabs, s \in Sids : /\ Sent(u, s)' => Sent(u, s) /\ http'[u]["refresh"] = http[u]["refresh"]
                                  /\ Arriving(u, s)' => Arriving(u, s) /\ http'[u]["refresh"] = http[u]["refresh"]
  BY <1>2, <1>3 DEF Sent, Arriving
<1>6. \A s \in Sids : \A n : NoneNewer(s, n) <=> NoneNewer(s, n)'
  BY <1>1 DEF NoneNewer
<1>7. OrderInv'
  BY <1>1, <1>5, <1>6 DEF OrderInv
<1>8. \A s \in Sids : (Alone(s)' <=> Alone(s)) /\ (Lapsed(s) => Lapsed(s)')
  BY <1>1, <1>5, <1>6 DEF Alone, Active, Lapsed
<1>9. \A u \in Tabs, s \in Sids : Arriving(u, s) => Arriving(u, s)' \/ s \in lossy'
  BY <1>1, <1>3 DEF Arriving, LostRotation
<1>10. \A u \in Tabs, s \in Sids :
         /\ http'[u]["refresh"].st = "request" /\ ~Sent(u, s)' =>
              http[u]["refresh"].st = "request" /\ ~Sent(u, s)
         /\ http'[u]["refresh"].st = "reply" /\ http'[u]["refresh"].res = "denied" =>
              http[u]["refresh"].st = "reply" /\ http[u]["refresh"].res = "denied"
  BY <1>2, <1>3 DEF Sent
<1>11. LapseInv'
  <2>1. lossy \subseteq lossy'
    BY <1>1
  <2> QED BY <1>1, <1>8, <1>9, <1>10, <2>1 DEF LapseInv
<1> QED BY <1>4, <1>7, <1>11

LEMMA ReloadTokens ==
    ASSUME TypeOK, SessionInv, TokenInv, NEW t \in Tabs, Reload(t) PROVE TokenInv'
<1> DEFINE x == http[t]["refresh"]
<1> USE DEF TokenInv
<1>1. /\ mem' = [mem EXCEPT ![t] = None] /\ rf' = [rf EXCEPT ![t] = NoRefresh]
      /\ http' = [http EXCEPT ![t] = [k \in Kinds |-> Idle]]
      /\ late' = IF x.st = "request" THEN late \cup {x} ELSE late
      /\ lossy' = IF LostRotation(x) THEN lossy \cup {x.tok.sid} ELSE lossy
      /\ UNCHANGED <<cookie, status, fresh, wiped>>
  BY DEF Reload
<1>2. Idle.st = "idle"
  BY DEF Idle
<1>3. \A u \in Tabs, j \in {"refresh", "login"} : http'[u][j] = IF u = t THEN Idle ELSE http[u][j]
  BY <1>1 DEF TypeOK, WebType, Kinds
<1>4. \A u \in Tabs : mem'[u] = (IF u = t THEN None ELSE mem[u])
                      /\ (u # t => rf'[u] = rf[u])
  BY <1>1 DEF TypeOK, TabType, RefreshStates
<1>5. AnswerInv'
  BY <1>2, <1>3 DEF AnswerInv, LostRotation
<1>6. \A u \in Tabs, s \in Sids :
        /\ Sent(u, s)' => u # t /\ Sent(u, s) /\ http'[u]["refresh"] = http[u]["refresh"]
        /\ Arriving(u, s)' => u # t /\ Arriving(u, s) /\ http'[u]["refresh"] = http[u]["refresh"]
  BY <1>2, <1>3 DEF Sent, Arriving
<1>7. \A s \in Sids : \A n : NoneNewer(s, n) /\ (Sent(t, s) => n <= x.tok.age) => NoneNewer(s, n)'
  BY <1>1 DEF NoneNewer, Sent
<1>8. \A u \in Tabs, s \in Sids : u # t /\ (Sent(u, s) \/ Arriving(u, s)) => ~Sent(t, s)
  BY OneExchange DEF SessionInv, Sent, Arriving
<1>9. OrderInv'
  <2> SUFFICES ASSUME NEW s \in Sids
               PROVE  /\ cookie.sid = s => cookie.age <= 1 /\ NoneNewer(s, cookie.age)'
                      /\ \A u \in Tabs :
                           /\ Sent(u, s)' =>
                                /\ http'[u]["refresh"].tok.age <= 1
                                /\ NoneNewer(s, http[u]["refresh"].tok.age)'
                                /\ cookie.sid = s => cookie.age = http'[u]["refresh"].tok.age
                           /\ Arriving(u, s)' => /\ http'[u]["refresh"].tok.age = 0
                                                 /\ NoneNewer(s, 1)'
    BY <1>1 DEF OrderInv
  <2>1. cookie.sid = s => cookie.age <= 1 /\ NoneNewer(s, cookie.age)'
    <3>1. cookie.sid = s => cookie.age <= 1 /\ NoneNewer(s, cookie.age)
                            /\ (Sent(t, s) => cookie.age <= x.tok.age)
      BY TokenTypes DEF OrderInv
    <3>2. cookie' = cookie
      BY <1>1
    <3> QED BY <1>7, <3>1, <3>2
  <2>2. ASSUME NEW u \in Tabs, Sent(u, s)'
        PROVE  /\ http'[u]["refresh"].tok.age <= 1
               /\ NoneNewer(s, http[u]["refresh"].tok.age)'
               /\ cookie.sid = s => cookie.age = http'[u]["refresh"].tok.age
    <3>1. Sent(u, s) /\ ~Sent(t, s) /\ http'[u]["refresh"] = http[u]["refresh"]
      BY <1>6, <1>8, <2>2
    <3> QED BY <1>7, <3>1 DEF OrderInv
  <2>3. ASSUME NEW u \in Tabs, Arriving(u, s)'
        PROVE  http'[u]["refresh"].tok.age = 0 /\ NoneNewer(s, 1)'
    <3>1. Arriving(u, s) /\ ~Sent(t, s) /\ http'[u]["refresh"] = http[u]["refresh"]
      BY <1>6, <1>8, <2>3
    <3> QED BY <1>7, <3>1 DEF OrderInv
  <2> QED BY <2>1, <2>2, <2>3
<1>10. \A s \in Sids : (Alone(s)' <=> Alone(s)) /\ (Lapsed(s) => Lapsed(s)')
  BY <1>1, <1>6, <1>7 DEF Alone, Active, Lapsed
<1>11. \A u \in Tabs, s \in Sids : Arriving(u, s) => Arriving(u, s)' \/ s \in lossy'
  BY <1>1, <1>3 DEF Arriving, LostRotation
<1>12. \A u \in Tabs : http'[u]["refresh"].st # "idle" => u # t /\ http'[u]["refresh"] = http[u]["refresh"]
  BY <1>2, <1>3
<1>13. \A u \in Tabs, s \in Sids : mem'[u] = s => mem[u] = s /\ u # t
  BY <1>4, NoneAssumption
<1>14. LapseInv'
  <2>1. lossy \subseteq lossy' /\ cookie' = cookie
    BY <1>1
  <2>2. ASSUME NEW s \in Sids, Alone(s), NEW u \in Tabs, mem'[u] = s, cookie.sid # s
        PROVE  Lapsed(s)' /\ (s \in lossy' \/ \E w \in Tabs : Arriving(w, s)')
    BY <1>10, <1>11, <1>13, <2>1, <2>2 DEF LapseInv
  <2>3. ASSUME NEW s \in Sids, Alone(s), NEW u \in Tabs, mem'[u] = s, ~rf'[u].old,
               \/ http'[u]["refresh"].st = "request" /\ ~Sent(u, s)'
               \/ http'[u]["refresh"].st = "reply" /\ http'[u]["refresh"].res = "denied"
        PROVE  cookie.sid # s
    <3>1. u # t /\ mem[u] = s /\ ~rf[u].old /\ http'[u]["refresh"] = http[u]["refresh"]
      BY <1>4, <1>12, <1>13, <2>3
    <3> QED BY <2>3, <3>1 DEF LapseInv, Sent
  <2> QED BY <1>10, <2>1, <2>2, <2>3 DEF LapseInv
<1> QED BY <1>5, <1>9, <1>14

\* The browser and the tab take an answer to a refresh.
LEMMA RefreshReplyTokens ==
    ASSUME TypeOK, TypeOK', SessionInv, TokenInv, NEW t \in Tabs, RefreshReply(t) PROVE TokenInv'
<1> DEFINE r == http[t]["refresh"]
<1> USE DEF TokenInv, tabVars, srvVars, histVars
<1>1. /\ r.st = "reply" /\ cookie' = SetCookie(r) /\ UNCHANGED <<srvVars, lossy>>
      /\ wiped' = wiped \cup Wiped(r)
      /\ IF rf[t].old THEN UNCHANGED <<mem, gone>> /\ EndRefresh(t, "transient_error")
         ELSE Answered(t, r)
  BY DEF RefreshReply
<1>2. /\ lock = t /\ rf[t].st = "running"
      /\ \A u \in Tabs : u # t => http[u]["refresh"].st = "idle" /\ rf[u].st # "running"
  BY <1>1, OneExchange DEF SessionInv
<1>3. /\ \A s \in Sids, u \in Tabs : ~Sent(u, s)
      /\ \A s \in Sids, u \in Tabs : Arriving(u, s) <=> u = t /\ r.set = "set" /\ r.tok.sid = s
  BY <1>1, <1>2 DEF Sent, Arriving
<1>4. r.set = "set" => /\ r.tok.sid \in Sids /\ status[r.tok.sid] # "unused" /\ r.tok.age = 0
                       /\ cookie' = r.tok
  <2>1. r.set = "set" => r.tok.sid \in Sids /\ cookie' = r.tok
    BY <1>1 DEF AnswerInv, LostRotation, SetCookie
  <2>2. r.tok.sid \in Sids => status[r.tok.sid] # "unused"
    BY <1>1 DEF SessionInv, LoginInv, Unseen
  <2>3. r.set = "set" => r.tok.age = 0
    BY <1>3, <2>1 DEF OrderInv
  <2> QED BY <2>1, <2>2, <2>3
<1>5. \A s \in Sids : cookie'.sid = s => cookie' = cookie \/ cookie'.age = 0
  BY <1>1, <1>4, NoneAssumption DEF SetCookie, NoToken
<1>6. \A s \in Sids : Alone(s)' => Alone(s) /\ Wiped(r) = {} /\ Active(s)
                                   /\ \A v \in Sids : status[v] # "unused" => v = s
  BY <1>1 DEF Alone, Active
<1>7. ASSUME NEW s \in Sids, Alone(s)', NEW u \in Tabs, mem[u] = s, cookie'.sid # s
      PROVE  s \in lossy /\ ~fresh[s] /\ \A x \in late : x.tok.sid = s => 1 <= x.tok.age
  <2>1. r.set # "set"
    BY <1>4, <1>6, <1>7
  <2>2. CASE cookie.sid # s
    <3>1. Lapsed(s) /\ s \in lossy
      BY <1>3, <1>6, <1>7, <2>1, <2>2 DEF LapseInv
    <3> QED BY <3>1 DEF Lapsed, NoneNewer
  <2>3. CASE cookie.sid = s
    <3>1. r.set = "clear"
      BY <1>1, <1>7, <2>1, <2>3 DEF SetCookie
    <3>2. ~Recognised(cookie)
      BY <1>6, <1>7, <2>3, <3>1 DEF Wiped
    <3>3. cookie.age = 1 /\ ~fresh[s]
      BY <2>3, <3>2, TokenTypes DEF Recognised, OrderInv
    <3>4. s \in lossy
      BY <1>3, <2>1, <2>3, <3>3 DEF SessionInv, RotationInv
    <3> QED BY <2>3, <3>3, <3>4 DEF OrderInv, NoneNewer
  <2> QED BY <2>2, <2>3
<1>8. ASSUME NEW outcome, EndRefresh(t, outcome),
             \A u \in Tabs : mem'[u] \in {mem[u], None} \/ (r.res = "ok" /\ mem'[u] = r.tok.sid)
      PROVE  TokenInv'
  <2>1. \A u \in Tabs : http'[u]["refresh"].st = "idle" /\ http'[u]["login"] = http[u]["login"]
    <3>1. mem' \in [Tabs -> Sids \cup {None}] /\ cookie' \in Tokens
      BY DEF TypeOK, TabType, WebType
    <3>2. {"refresh", "login"} \subseteq Kinds \ {"logout"} /\ Idle.st = "idle"
      BY DEF Kinds, Idle
    <3> QED BY <1>2, <1>8, <3>1, <3>2, EndRefreshType
  <2>2. AnswerInv'
    BY <2>1 DEF AnswerInv, LostRotation
  <2>3. OrderInv'
    BY <1>1, <1>5, <2>1, OrderQuiet
  <2>4. ASSUME NEW s \in Sids, Alone(s)', NEW u \in Tabs, mem'[u] = s, cookie'.sid # s
        PROVE  Lapsed(s)' /\ s \in lossy'
    <3>1. r.res = "ok" => r.set = "set"
      BY <1>1 DEF SessionInv, ReplyInv
    <3>2. mem[u] = s
      BY <1>4, <1>8, <2>4, <3>1, NoneAssumption
    <3>3. s \in lossy /\ ~fresh[s] /\ \A x \in late : x.tok.sid = s => 1 <= x.tok.age
      BY <1>7, <2>4, <3>2
    <3> QED BY <1>1, <2>1, <2>4, <3>3 DEF Lapsed, NoneNewer, Sent
  <2>5. LapseInv'
    BY <2>1, <2>4 DEF LapseInv
  <2> QED BY <2>2, <2>3, <2>5
<1>9. mem \in [Tabs -> Sids \cup {None}]
  BY DEF TypeOK, TabType
<1>10. CASE UNCHANGED mem /\ EndRefresh(t, "transient_error")
  <2> HIDE DEF r
  <2> QED BY <1>8, <1>10
<1>11. CASE r.res = "ok" /\ mem' = [mem EXCEPT ![t] = r.tok.sid] /\ EndRefresh(t, "authenticated")
  <2> HIDE DEF r
  <2> QED BY <1>8, <1>9, <1>11
<1>12. CASE \/ Cleared(t, FALSE) /\ EndRefresh(t, "out_of_sync")
            \/ Cleared(t, TRUE) /\ EndRefresh(t, "anonymous")
  <2>1. \A u \in Tabs : mem'[u] \in {mem[u], None}
    BY <1>12, ClearedKept
  <2> HIDE DEF r
  <2> QED BY <1>8, <1>12, <2>1
<1>13. CASE /\ r.res = "mismatch" /\ mem' = [mem EXCEPT ![t] = None]
            /\ rf' = [rf EXCEPT ![t].retry = FALSE]
            /\ http' = [http EXCEPT ![t]["refresh"] = Request(cookie, None)]
  <2> DEFINE x == Request(cookie, None)
  <2>1. x \in Exchanges /\ x.st = "request" /\ x.tok = cookie /\ cookie' = cookie /\ r.set = "keep"
    BY <1>1, <1>13, ExchangeTypes DEF Request, TypeOK, WebType, SessionInv, ReplyInv, SetCookie
  <2> HIDE DEF x
  <2>2. \A u \in Tabs : /\ http'[u]["refresh"] = IF u = t THEN x ELSE http[u]["refresh"]
                        /\ http'[u]["login"] = http[u]["login"]
    BY <1>13, <2>1, PutType DEF TypeOK, Kinds, x
  <2>3. \A u \in Tabs : mem'[u] = IF u = t THEN None ELSE mem[u]
    BY <1>9, <1>13
  <2>4. AnswerInv'
    BY <2>1, <2>2 DEF AnswerInv, LostRotation
  <2>5. \A u \in Tabs, s \in Sids : ~Arriving(u, s)' /\ (Sent(u, s)' <=> u = t /\ cookie.sid = s)
    BY <1>2, <2>1, <2>2 DEF Arriving, Sent
  <2>6. \A s \in Sids : \A n : NoneNewer(s, n)' <=> NoneNewer(s, n)
    BY <1>1, <2>1 DEF NoneNewer
  <2>7. OrderInv'
    BY <2>1, <2>2, <2>5, <2>6 DEF OrderInv
  <2>8. ASSUME NEW s \in Sids, Alone(s)', NEW u \in Tabs, mem'[u] = s, cookie'.sid # s
        PROVE  Lapsed(s)' /\ s \in lossy'
    <3>1. mem[u] = s
      BY <2>3, <2>8, NoneAssumption
    <3>2. s \in lossy /\ ~fresh[s] /\ \A v \in late : v.tok.sid = s => 1 <= v.tok.age
      BY <1>7, <2>8, <3>1
    <3> QED BY <1>1, <2>1, <2>5, <2>8, <3>2 DEF Lapsed, NoneNewer
  <2>9. \A u \in Tabs, s \in Sids : mem'[u] = s => http'[u]["refresh"].st = "idle"
    BY <1>2, <2>2, <2>3, NoneAssumption
  <2>10. LapseInv'
    BY <2>8, <2>9 DEF LapseInv
  <2> QED BY <2>4, <2>7, <2>10
<1> QED BY <1>1, <1>10, <1>11, <1>12, <1>13 DEF Answered

\* A rotation leaves no current token of its session behind.
LEMMA AgedNewer ==
    ASSUME TypeOK, NEW tok \in Tokens, NEW e, NEW reqs, reqs \subseteq late,
           cookie' = AgedCookie(tok, e), late' = AgedLate(reqs, tok, e)
    PROVE  /\ \A s \in Sids, n \in 0..1 : NoneNewer(s, n) => NoneNewer(s, n)'
           /\ \A s \in Sids : Rotates(tok, e) /\ tok.sid = s => NoneNewer(s, 1)'
           /\ cookie'.sid = cookie.sid
           /\ ~Rotates(tok, e) \/ cookie.sid # tok.sid => cookie' = cookie
           /\ Rotates(tok, e) /\ cookie.sid = tok.sid /\ cookie.age = 0 => cookie'.age = 1
<1>1. /\ cookie \in Tokens /\ \A x \in reqs : x \in Requests /\ x.tok \in Tokens
  BY DEF TypeOK, WebType, Requests
<1>2. \A y \in Tokens, s \in Sids, n \in 0..1 :
        /\ Older(y, s).age \in 0..2 /\ Older(y, s).sid = y.sid
        /\ n <= y.age => n <= Older(y, s).age
        /\ y.sid = s => 1 <= Older(y, s).age
        /\ y.sid = s /\ y.age = 0 => Older(y, s).age = 1
        /\ y.sid # s => Older(y, s) = y
  BY DEF Older, Tokens
<1>3. Rotates(tok, e) => tok.sid \in Sids
  BY DEF Rotates, Active, Tokens
<1>4. CASE ~Rotates(tok, e)
  BY <1>4 DEF AgedCookie, AgedLate, NoneNewer
<1>5. CASE Rotates(tok, e)
  <2>1. cookie' = Older(cookie, tok.sid)
    BY <1>5 DEF AgedCookie
  <2>2. \A w \in late' : \E x \in reqs : w.tok = Older(x.tok, tok.sid)
    <3> SUFFICES ASSUME NEW x \in reqs PROVE OlderExchange(x, tok.sid).tok = Older(x.tok, tok.sid)
      BY <1>5 DEF AgedLate
    <3>1. x \in Exchanges /\ x.st = "request"
      BY <1>1 DEF Requests, Exchanges
    <3> QED BY <3>1, OlderExchangeType
  <2>3. \A s \in Sids, n \in 0..1 : NoneNewer(s, n) => NoneNewer(s, n)'
    BY <1>1, <1>2, <1>3, <1>5, <2>1, <2>2 DEF NoneNewer
  <2>4. \A s \in Sids : tok.sid = s => NoneNewer(s, 1)'
    BY <1>1, <1>2, <1>3, <1>5, <2>1, <2>2 DEF NoneNewer
  <2> QED BY <1>1, <1>2, <1>3, <1>5, <2>1, <2>3, <2>4
<1> QED BY <1>4, <1>5

\* The cookie, after a rotation with a token that nothing is newer than.
LEMMA AgedOrder ==
    ASSUME TypeOK, OrderInv, NEW tok \in Tokens, NEW e, NEW reqs, reqs \subseteq late,
           cookie' = AgedCookie(tok, e), late' = AgedLate(reqs, tok, e),
           Rotates(tok, e) /\ cookie.sid = tok.sid => cookie.age = 0,
           NEW s \in Sids, cookie'.sid = s
    PROVE  cookie'.age <= 1 /\ NoneNewer(s, cookie.age)'
<1>1. CASE Rotates(tok, e) /\ cookie.sid = tok.sid
  <2>1. cookie'.age = 1 /\ cookie.sid = s
    BY <1>1, AgedNewer
  <2>2. NoneNewer(s, 1)'
    BY <1>1, <2>1, AgedNewer
  <2> QED BY <2>1, <2>2 DEF NoneNewer
<1>2. CASE ~(Rotates(tok, e) /\ cookie.sid = tok.sid)
  <2>1. cookie' = cookie
    BY <1>2, AgedNewer
  <2>2. cookie.age \in 0..1 /\ NoneNewer(s, cookie.age)
    BY <2>1, TokenTypes DEF OrderInv
  <2>3. \A n \in 0..1 : NoneNewer(s, n) => NoneNewer(s, n)'
    BY AgedNewer
  <2> QED BY <2>1, <2>2, <2>3 DEF NoneNewer
<1> QED BY <1>1, <1>2

LEMMA RefreshAuthTokens ==
    ASSUME TypeOK, SessionInv, TokenInv, NEW t \in Tabs, RefreshAuth(t) PROVE TokenInv'
<1> DEFINE x == http[t]["refresh"]
           y == RefreshResult(x.tok, x.exp)
<1> USE DEF TokenInv, tabVars, histVars
<1>1. /\ x.st = "request" /\ RotateUserSessionRefresh(x.tok, x.exp)
      /\ http' = [Aged(x.tok, x.exp) EXCEPT ![t]["refresh"] = y]
      /\ cookie' = AgedCookie(x.tok, x.exp) /\ late' = AgedLate(late, x.tok, x.exp)
      /\ UNCHANGED <<mem, rf, lossy, wiped>>
  BY DEF RefreshAuth
<1>2. x.tok \in Tokens /\ x.exp \in Sids \cup {None} /\ late \subseteq Requests
  BY <1>1, ReplyType DEF Requests, TypeOK, WebType, Kinds
<1>3. /\ y \in Replies /\ y.st = "reply" /\ y.tok.sid \in {x.tok.sid, None}
      /\ y.set = "set" <=> y.res = "ok"
      /\ y.res = "ok" => /\ y.tok = Current(x.tok.sid) /\ Active(x.tok.sid)
                         /\ x.exp \in {None, x.tok.sid} /\ x.tok # NoToken /\ Recognised(x.tok)
  BY <1>2, RefreshResultType DEF Replies
<1>4. \A u \in Tabs : u # t => http[u]["refresh"].st = "idle"
  BY <1>1, OneExchange DEF SessionInv
<1>5. /\ \A u \in Tabs : http'[u]["refresh"] = IF u = t THEN y ELSE Aged(x.tok, x.exp)[u]["refresh"]
      /\ \A u \in Tabs : http'[u]["login"] = Aged(x.tok, x.exp)[u]["login"]
  <2>1. Aged(x.tok, x.exp) \in [Tabs -> [Kinds -> Exchanges]]
    BY <1>2, AgedType
  <2> QED BY <1>1, <2>1 DEF Kinds
<1>6. \A u \in Tabs : u # t => http'[u]["refresh"].st = "idle"
  <2>1. "refresh" \in Kinds
    BY DEF Kinds
  <2> QED BY <1>2, <1>4, <1>5, <2>1, Ageing
<1>7. AnswerInv'
  <2>1. "login" \in Kinds
    BY DEF Kinds
  <2>2. \A u \in Tabs : http'[u]["login"].st = "reply" =>
          \/ http'[u]["login"].set = "set" /\ http'[u]["login"].tok.sid \in Sids
          \/ http'[u]["login"].set = "keep" /\ http'[u]["login"].res # "ok"
    BY <1>2, <1>5, <2>1, Ageing DEF AnswerInv
  <2>3. y.set = "set" => y.tok.sid \in Sids
    BY <1>2, <1>3 DEF Current, Active, Tokens
  <2> HIDE DEF x, y
  <2> QED BY <1>3, <1>5, <1>6, <2>2, <2>3 DEF AnswerInv, LostRotation
<1>8. /\ \A s \in Sids : ~Arriving(t, s)
      /\ \A u \in Tabs, s \in Sids : ~Sent(u, s)' /\ (Arriving(u, s)' => u = t /\ y.set = "set" /\ s = x.tok.sid)
      /\ \A s \in Sids : Sent(t, s) <=> x.tok.sid = s
  <2>1. y.set = "set" => y.tok.sid = x.tok.sid
    BY <1>3 DEF Current
  <2>2. http'[t]["refresh"] = y
    BY <1>5
  <2>3. \A u \in Tabs, s \in Sids : ~Sent(u, s)'
    BY <1>3, <1>6, <2>2 DEF Sent
  <2>4. \A u \in Tabs, s \in Sids : Arriving(u, s)' => u = t /\ y.set = "set" /\ s = y.tok.sid
    BY <1>6, <2>2 DEF Arriving
  <2>5. \A s \in Sids : ~Arriving(t, s) /\ (Sent(t, s) <=> x.tok.sid = s)
    BY <1>1 DEF Arriving, Sent
  <2> HIDE DEF x, y
  <2> QED BY <2>1, <2>3, <2>4, <2>5
<1>9. Rotates(x.tok, x.exp) /\ cookie.sid = x.tok.sid => cookie.age = 0
  <2>1. Rotates(x.tok, x.exp) => x.tok.sid \in Sids /\ x.tok.age = 0
    BY <1>2 DEF Rotates, Active, Tokens
  <2> QED BY <1>8, <2>1 DEF OrderInv
<1>10. x.tok.sid \in Sids => x.tok.age \in 0..1 /\ NoneNewer(x.tok.sid, x.tok.age)
  BY <1>2, <1>8 DEF OrderInv, Tokens
<1>11. ASSUME NEW s \in Sids, Arriving(t, s)' PROVE y.tok.age = 0 /\ NoneNewer(s, 1)'
  <2>1. s = x.tok.sid /\ y.set = "set" /\ y.tok.age = 0
    BY <1>3, <1>8, <1>11 DEF Current
  <2>2. CASE x.tok.age = 0
    <3>1. Rotates(x.tok, x.exp)
      BY <1>3, <2>1, <2>2 DEF Rotates
    <3> QED BY <1>1, <1>2, <2>1, <3>1, AgedNewer
  <2>3. CASE x.tok.age = 1
    <3>1. NoneNewer(s, 1)
      BY <1>10, <2>1, <2>3
    <3> QED BY <1>1, <1>2, <2>1, <3>1, AgedNewer
  <2> QED BY <1>10, <2>1, <2>2, <2>3
<1>12. OrderInv'
  <2>1. \A s \in Sids : cookie'.sid = s => cookie'.age <= 1 /\ NoneNewer(s, cookie.age)'
    BY <1>1, <1>2, <1>9, AgedOrder
  <2>2. http'[t]["refresh"] = y
    BY <1>5
  <2> HIDE DEF x, y
  <2> QED BY <1>8, <1>11, <2>1, <2>2 DEF OrderInv
<1>13. /\ \A s \in Sids : Alone(s)' => Alone(s) /\ Active(s)'
       /\ cookie'.sid = cookie.sid
  <2>1. \A s \in Sids : status'[s] = status[s] \/ (status[s] = "active" /\ status'[s] = "revoked")
    BY <1>1, <1>2, RotateKept
  <2>2. cookie'.sid = cookie.sid
    BY <1>1, <1>2, AgedNewer
  <2> QED BY <1>1, <2>1, <2>2, AloneKept DEF Alone
<1>14. ASSUME NEW s \in Sids, Lapsed(s) PROVE Lapsed(s)'
  <2>1. NoneNewer(s, 1)'
    BY <1>1, <1>2, <1>14, AgedNewer DEF Lapsed
  <2>2. fresh'[s] = fresh[s]
    <3>1. x.tok.sid = s => 1 <= x.tok.age
      BY <1>8, <1>14 DEF Lapsed
    <3>2. Rotates(x.tok, x.exp) => x.tok.sid # s
      BY <3>1 DEF Rotates
    <3> HIDE DEF x
    <3> QED BY <1>1, <3>2 DEF RotateUserSessionRefresh, TypeOK, ServerType
  <2> QED BY <1>8, <1>14, <2>1, <2>2 DEF Lapsed
<1>15. ASSUME NEW s \in Sids, Alone(s)', Active(s), y.res = "denied" PROVE x.tok.sid # s
  <2> SUFFICES ASSUME x.tok.sid = s PROVE FALSE
    OBVIOUS
  <2>1. x.tok # NoToken /\ s # None
    BY NoneAssumption DEF NoToken
  <2>2. x.exp \in {None, x.tok.sid} /\ ~Recognised(x.tok)
    BY <1>15, <2>1 DEF RefreshResult, Reply
  <2>3. Reused(x.tok)
    BY <1>10, <2>2 DEF Recognised, Reused
  <2>4. Revokes(x.tok, x.exp)
    BY <1>15, <2>1, <2>2, <2>3 DEF Revokes
  <2>5. status' = [status EXCEPT ![x.tok.sid] = "revoked"]
    BY <1>1, <2>4 DEF RotateUserSessionRefresh
  <2>6. status'[s] = "revoked"
    BY <2>5 DEF TypeOK, ServerType
  <2> QED BY <1>13, <1>15, <2>6 DEF Active
<1>16. LapseInv'
  <2>1. http'[t]["refresh"] = y
    BY <1>5
  <2>2. ASSUME NEW s \in Sids, Alone(s)', NEW u \in Tabs, mem[u] = s, cookie.sid # s
        PROVE  Lapsed(s)' /\ s \in lossy
    <3>1. \A w \in Tabs : ~Arriving(w, s)
      BY <1>4, <1>8 DEF Arriving
    <3> QED BY <1>13, <1>14, <2>2, <3>1 DEF LapseInv
  <2>3. ASSUME NEW s \in Sids, Alone(s)', mem[t] = s, ~rf[t].old, y.res = "denied"
        PROVE  cookie.sid # s
    <3>1. Alone(s) /\ Active(s)
      BY <1>13, <2>3 DEF Alone
    <3>2. ~Sent(t, s)
      BY <1>8, <1>15, <2>3, <3>1
    <3> QED BY <1>1, <2>3, <3>1, <3>2 DEF LapseInv
  <2> HIDE DEF x, y
  <2> QED BY <1>1, <1>3, <1>6, <1>13, <2>1, <2>2, <2>3 DEF LapseInv
<1> QED BY <1>7, <1>12, <1>16

LEMMA RefreshAuthLateTokens ==
    ASSUME TypeOK, SessionInv, TokenInv, NEW x \in late, RefreshAuthLate(x) PROVE TokenInv'
<1> USE DEF TokenInv, tabVars, histVars
<1>1. /\ RotateUserSessionRefresh(x.tok, x.exp)
      /\ http' = Aged(x.tok, x.exp)
      /\ cookie' = AgedCookie(x.tok, x.exp) /\ late' = AgedLate(late \ {x}, x.tok, x.exp)
      /\ lossy' = lossy \cup ({x.tok.sid} \ {None})
      /\ UNCHANGED <<mem, rf, wiped>>
  BY DEF RefreshAuthLate
<1>2. x.tok \in Tokens /\ x.tok.sid \in Sids \cup {None} /\ x.tok.age \in 0..2 /\ late \ {x} \subseteq late
  BY DEF Requests, Tokens, TypeOK, WebType
<1>3. \A u \in Tabs, k \in {"refresh", "login"} :
        /\ http'[u][k].st = http[u][k].st
        /\ http[u][k].st # "idle" => http'[u][k].tok.sid = http[u][k].tok.sid
        /\ http[u][k].st = "reply" => /\ http'[u][k].res = http[u][k].res
                                      /\ http'[u][k].set = http[u][k].set
  <2>1. {"refresh", "login"} \subseteq Kinds
    BY DEF Kinds
  <2> QED BY <1>1, <1>2, <2>1, Ageing
<1>4. AnswerInv'
  BY <1>3, ReplyType DEF AnswerInv, LostRotation, Kinds
<1>5. \A u \in Tabs, s \in Sids : (Sent(u, s)' <=> Sent(u, s)) /\ (Arriving(u, s)' <=> Arriving(u, s))
  BY <1>3, ReplyType DEF Sent, Arriving, Kinds
<1>6. Rotates(x.tok, x.exp) => x.tok.sid \in Sids /\ x.tok.age = 0
  BY <1>2 DEF Rotates, Active
<1>7. ASSUME NEW s \in Sids, NEW n \in 0..2, NoneNewer(s, n), Rotates(x.tok, x.exp), x.tok.sid = s
      PROVE  n = 0
  BY <1>6, <1>7 DEF NoneNewer
<1>8. Rotates(x.tok, x.exp) /\ cookie.sid = x.tok.sid => cookie.age = 0
  BY <1>6, <1>7, TokenTypes DEF OrderInv
<1>9. \A u \in Tabs : http[u]["refresh"].st # "idle" =>
        /\ http[u]["refresh"].tok \in Tokens
        /\ http'[u]["refresh"].tok = IF Rotates(x.tok, x.exp) THEN Older(http[u]["refresh"].tok, x.tok.sid)
                                     ELSE http[u]["refresh"].tok
  <2>1. "refresh" \in Kinds
    BY DEF Kinds
  <2>2. \A u \in Tabs : http'[u]["refresh"] = IF Rotates(x.tok, x.exp)
                           THEN OlderExchange(http[u]["refresh"], x.tok.sid) ELSE http[u]["refresh"]
    BY <1>1, <2>1 DEF Aged
  <2>3. \A u \in Tabs : http[u]["refresh"] \in Exchanges
    BY <2>1, ReplyType
  <2> QED BY <2>2, <2>3, TokenTypes, OlderExchangeType
<1>10. ASSUME NEW u \in Tabs, NEW s \in Sids, Sent(u, s)'
       PROVE  /\ http'[u]["refresh"].tok.age <= 1
              /\ NoneNewer(s, http[u]["refresh"].tok.age)'
              /\ cookie'.sid = s => cookie'.age = http'[u]["refresh"].tok.age
  <2> DEFINE a == http[u]["refresh"].tok
  <2>1. /\ Sent(u, s) /\ a.sid = s /\ a \in Tokens /\ a.age \in 0..1 /\ NoneNewer(s, a.age)
        /\ cookie.sid = s => cookie.age = a.age
    BY <1>5, <1>9, <1>10 DEF OrderInv, Sent, Tokens
  <2>2. http'[u]["refresh"].tok = IF Rotates(x.tok, x.exp) THEN Older(a, x.tok.sid) ELSE a
    BY <1>9, <2>1 DEF Sent
  <2>3. CASE Rotates(x.tok, x.exp) /\ x.tok.sid = s
    <3>1. a.age = 0
      BY <1>7, <2>1, <2>3
    <3>2. http'[u]["refresh"].tok.age = 1
      BY <2>1, <2>2, <2>3, <3>1 DEF Older, Tokens
    <3>3. NoneNewer(s, 1)'
      BY <1>1, <1>2, <2>3, AgedNewer
    <3>4. cookie'.sid = s => cookie'.age = 1
      BY <1>1, <1>2, <1>8, <2>3, AgedNewer
    <3> QED BY <3>2, <3>3, <3>4 DEF NoneNewer
  <2>4. CASE ~(Rotates(x.tok, x.exp) /\ x.tok.sid = s)
    <3>1. http'[u]["refresh"].tok = a
      BY <2>1, <2>2, <2>4 DEF Older
    <3>2. \A n \in 0..1 : NoneNewer(s, n) => NoneNewer(s, n)'
      BY <1>1, <1>2, AgedNewer
    <3>3. cookie'.sid = s => cookie' = cookie
      BY <1>1, <1>2, <2>4, AgedNewer
    <3> QED BY <2>1, <3>1, <3>2, <3>3 DEF NoneNewer
  <2> QED BY <2>3, <2>4
<1>11. ASSUME NEW u \in Tabs, NEW s \in Sids, Arriving(u, s)'
       PROVE  http'[u]["refresh"].tok.age = 0 /\ NoneNewer(s, 1)'
  <2>1. Arriving(u, s) /\ http[u]["refresh"].st # "idle" /\ http[u]["refresh"].tok.sid = s
    BY <1>5, <1>11 DEF Arriving
  <2>2. http[u]["refresh"].tok.age = 0 /\ NoneNewer(s, 1)
    BY <2>1 DEF OrderInv
  <2>3. ~(Rotates(x.tok, x.exp) /\ x.tok.sid = s)
    BY <1>7, <2>2
  <2>4. http'[u]["refresh"].tok = http[u]["refresh"].tok
    BY <1>9, <2>1, <2>3 DEF Older
  <2> QED BY <1>1, <1>2, <2>2, <2>4, AgedNewer
<1>12. OrderInv'
  <2>1. \A s \in Sids : cookie'.sid = s => cookie'.age <= 1 /\ NoneNewer(s, cookie.age)'
    BY <1>1, <1>2, <1>8, AgedOrder
  <2> QED BY <1>10, <1>11, <2>1 DEF OrderInv
<1>13. /\ \A s \in Sids : Alone(s)' => Alone(s)
       /\ cookie'.sid = cookie.sid
  <2>1. \A s \in Sids : status'[s] = status[s] \/ (status[s] = "active" /\ status'[s] = "revoked")
    BY <1>1, <1>2, RotateKept
  <2>2. cookie'.sid = cookie.sid
    BY <1>1, <1>2, AgedNewer
  <2> QED BY <1>1, <2>1, <2>2, AloneKept
<1>14. ASSUME NEW s \in Sids, Lapsed(s) PROVE Lapsed(s)'
  <2>1. NoneNewer(s, 1)'
    BY <1>1, <1>2, <1>14, AgedNewer DEF Lapsed
  <2>2. ~(Rotates(x.tok, x.exp) /\ x.tok.sid = s)
    BY <1>7, <1>14 DEF Lapsed
  <2>3. fresh'[s] = fresh[s]
    BY <1>1, <2>2 DEF RotateUserSessionRefresh, TypeOK, ServerType
  <2>4. \A u \in Tabs : Sent(u, s) => http'[u]["refresh"].tok = http[u]["refresh"].tok
    BY <1>9, <2>2 DEF Older, Sent
  <2> QED BY <1>5, <1>14, <2>1, <2>3, <2>4 DEF Lapsed
<1>15. LapseInv'
  <2>1. lossy \subseteq lossy'
    BY <1>1
  <2> QED BY <1>1, <1>3, <1>5, <1>13, <1>14, <2>1 DEF LapseInv
<1> QED BY <1>4, <1>12, <1>15

-----------------------------------------------------------------------------
(* Who stays signed in.                                                    *)

LEMMA TokenInit == Init => TokenInv
<1> SUFFICES ASSUME Init PROVE TokenInv
  OBVIOUS
<1>1. \A t \in Tabs : http[t]["refresh"].st = "idle" /\ http[t]["login"].st = "idle" /\ mem[t] = None
  BY DEF Init, Idle, Kinds
<1>2. \A s \in Sids : cookie.sid # s /\ s # None
  BY NoneAssumption DEF Init, NoToken
<1> QED BY <1>1, <1>2 DEF TokenInv, AnswerInv, LostRotation, OrderInv, LapseInv, Sent, Arriving

LEMMA TokenInvStep ==
    ASSUME TypeOK, TypeOK', SessionInv, TokenInv, [Next]_vars PROVE TokenInv'
<1>1. ASSUME NEW t \in Tabs, Tab(t) PROVE TokenInv'
  BY <1>1, SideSteps, TokenSteps, TokenKept, RunRefreshTokens, RefreshReplyTokens, LoginTokens,
     LoginReplyTokens, ReloadTokens DEF Tab
<1>2. ASSUME NEW t \in Tabs, Server(t) PROVE TokenInv'
  BY <1>2, SideSteps, TokenSteps, TokenKept, RefreshAuthTokens DEF Server
<1>3. ASSUME NEW x \in late, RefreshAuthLate(x) PROVE TokenInv'
  BY <1>3, RefreshAuthLateTokens
<1>4. CASE UNCHANGED vars \/ (\E s \in Sids : RevokeElsewhere(s) \/ GraceEnds(s))
  BY <1>4, OutsideSteps, TokenSteps, TokenKept
<1>5. ASSUME NEW t \in Tabs, NEW k \in Kinds, Lose(t, k) PROVE TokenInv'
  BY <1>5, LoseTokens
<1> QED BY <1>1, <1>2, <1>3, <1>4, <1>5 DEF Next

\* The cookie is never more than one rotation behind and nothing under way is
\* newer; the browser has no usable token of a session in use only after a lost
\* rotation and its grace window: RotateUserSessionRefresh, runRefreshExclusively.
THEOREM TokenInvariant == Spec => [](TypeOK /\ SessionInv /\ TokenInv)
<1>1. Init => TypeOK /\ SessionInv /\ TokenInv
  BY TypeInit, SessionInit, TokenInit
<1>2. (TypeOK /\ SessionInv /\ TokenInv) /\ [Next]_vars => (TypeOK /\ SessionInv /\ TokenInv)'
  <2> SUFFICES ASSUME TypeOK, SessionInv, TokenInv, [Next]_vars
               PROVE  TypeOK' /\ SessionInv' /\ TokenInv'
    OBVIOUS
  <2>1. TypeOK'
    BY TypeStep
  <2> QED BY <2>1, SessionStep, TokenInvStep
<1> QED BY <1>1, <1>2, PTL DEF Spec

\* A refresh signs a tab out of an active session only after another login, a
\* deleted cookie, or a lost rotation and its grace window: the denied branch of
\* runRefreshExclusively.
THEOREM ActiveTheorem == Spec => ActiveStaysIn
<1>1. ASSUME TypeOK, SessionInv, TokenInv, NEW t \in Tabs,
             mem[t] # None, rf[t].st = "running", ~rf[t].old,
             http[t]["refresh"].st = "reply", http[t]["refresh"].res = "denied",
             wiped = {}, mem[t] \in lossy => fresh[mem[t]],
             \A s \in Sids \ {mem[t]} : status[s] = "unused"
      PROVE  ~Active(mem[t])
  <2> SUFFICES ASSUME Active(mem[t]) PROVE FALSE
    OBVIOUS
  <2> DEFINE s == mem[t]
  <2>1. s \in Sids /\ Alone(s)
    BY <1>1 DEF TypeOK, TabType, Alone
  <2>2. cookie.sid # s
    BY <1>1, <2>1 DEF TokenInv, LapseInv
  <2>3. Lapsed(s) /\ (s \in lossy \/ \E u \in Tabs : Arriving(u, s))
    BY <1>1, <2>1, <2>2 DEF TokenInv, LapseInv
  <2>4. \A u \in Tabs : ~Arriving(u, s)
    <3>1. \A u \in Tabs : u # t => http[u]["refresh"].st = "idle"
      BY <1>1, OneExchange DEF SessionInv
    <3>2. http[t]["refresh"].set # "set"
      BY <1>1 DEF SessionInv, ReplyInv
    <3> QED BY <3>1, <3>2 DEF Arriving
  <2> QED BY <1>1, <2>3, <2>4 DEF Lapsed
<1>2. TypeOK /\ SessionInv /\ TokenInv /\ [Next]_vars =>
        [\A t \in Tabs :
           mem[t] # None /\ rf[t].st = "running" /\ ~rf[t].old
             /\ http[t]["refresh"].st = "reply" /\ http[t]["refresh"].res = "denied"
             /\ http'[t]["refresh"] = Idle /\ wiped = {}
             /\ (mem[t] \in lossy => fresh[mem[t]])
             /\ (\A s \in Sids \ {mem[t]} : status[s] = "unused")
           => ~Active(mem[t])]_vars
  BY <1>1
<1> QED BY <1>2, TokenInvariant, PTL DEF Spec, ActiveStaysIn
=============================================================================
