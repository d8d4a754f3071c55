--------------------------- MODULE Platform_proofs ---------------------------
(***************************************************************************)
(* Theorems about Platform, for any clients, handlers, credentials,        *)
(* databases, clocks and numbers of restarts.  The gateway's part is what  *)
(* EdgeGateway_proofs shows of its steps.  The rest is one invariant per   *)
(* handler (HandlerOK): a step touches one handler, a restart some of      *)
(* them, and what others have is left as it was (FrameHandler).            *)
(***************************************************************************)
EXTENDS Platform, EdgeGateway_proofs

\* A token the auth service has signed by a time, for a tenant it knows.
Signed(token, at, time) ==
  /\ at \in 0..time
  /\ token.tenant \in DOMAIN Credentials
  /\ token = NewToken(token.tenant, at + AuthAhead)

BearerOK(r, time) == r \in Requests /\ (r.token = Forged \/ Signed(r.token, r.issued, time))

\* The tenant of a token is the one whose key and secret the login has shown.
LoggedIn(r, token) == Credentials[token.tenant] = [key |-> r.key, secret |-> r.secret]

\* What a client is given for a login.
GivenOK(k, time) == Signed(k.token, k.at, time) /\ k.expiresAt >= k.token.expiresAt

\* The edge's own view of its request.
EdgeOK(h) ==
  /\ pc[h] # "idle" => BearerOK(req[h], now)
  /\ pc[h] # "answered" => status[h] = 0
  /\ pc[h] \notin {"idle", "answered"} => tenant[h] = Charge(req[h])

\* A service works for a handler that waits for it, has given up or is gone.
CallOK(h) ==
  call[h] # NoRequest =>
    /\ BearerOK(call[h], now)
    /\ \/ pc[h] = "idle"
       \/ pc[h] = "proxying" /\ req[h] = call[h]
       \/ pc[h] = "answered" /\ req[h] = call[h] /\ status[h] = 502

LinkOK(h) ==
  /\ CallOK(h)
  /\ reply[h] # Nothing => call[h] # NoRequest /\ reply[h].status \in BackendStatuses
  /\ login[h] # Nothing => call[h] # NoRequest /\ call[h].route = "login" /\ reply[h] = Nothing
  /\ outcome[h] # "idle" => call[h] # NoRequest /\ call[h].route = "transfer"

\* Whose token a login gives, and whose account a search shows.
ContentOK(h) ==
  /\ login[h] # Nothing => Signed(login[h].token, login[h].at, now) /\ LoggedIn(call[h], login[h].token)
  /\ Succeeded(h) /\ call[h].route = "login" =>
       GivenOK(reply[h].gives, now) /\ LoggedIn(call[h], reply[h].gives.token)
  /\ Succeeded(h) /\ call[h].route = "search" =>
       reply[h].gives.account = call[h].account /\ TenantOf[call[h].account] = call[h].token.tenant

\* Money has moved when the service says so, and only then.
TransferOK(h) ==
  /\ outcome[h] \in {"idle", "pending", "done", "refused"}
  /\ outcome[h] \in {"pending", "done"} => breq[h] = BankRequest(call[h])
  /\ call[h] # NoRequest /\ call[h].route = "transfer" =>
       /\ outcome[h] \in {"idle", "pending"} => reply[h] = Nothing /\ settled[h] = 0
       /\ outcome[h] \in {"done", "refused"} => reply[h] # Nothing
  /\ outcome[h] = "done" =>
       /\ reply[h].status = 200 /\ settled[h] = 1
       /\ TenantOf[call[h].account] = call[h].token.tenant
       /\ TenantOf[call[h].to] = call[h].token.tenant
  /\ outcome[h] = "refused" => reply[h].status \in {400, 401, 402, 403, 404} /\ settled[h] = 0

\* What the edge has answered agrees with what has moved.
AnswerOK(h) ==
  /\ settled[h] \in {0, 1}
  /\ pc[h] \in {"limit", "deny", "detect", "forward"} => call[h] = NoRequest /\ settled[h] = 0
  /\ pc[h] = "answered" /\ req[h].route = "transfer" =>
       /\ status[h] = 200 => settled[h] = 1
       /\ status[h] \notin {0, 200, 502} => settled[h] = 0

HandlerOK(h) == EdgeOK(h) /\ LinkOK(h) /\ ContentOK(h) /\ TransferOK(h) /\ AnswerOK(h)

EdgeShapes ==
  DOMAIN pc = Handlers /\ DOMAIN req = Handlers /\ DOMAIN tenant = Handlers /\ DOMAIN status = Handlers

LinkShapes ==
  /\ call = [h \in Handlers |-> call[h]] /\ settled = [h \in Handlers |-> settled[h]]
  /\ DOMAIN reply = Handlers /\ DOMAIN login = Handlers
  /\ DOMAIN outcome = Handlers /\ DOMAIN breq = Handlers

Shapes == EdgeShapes /\ LinkShapes /\ now \in 0..MaxTime

LinksInv == Shapes /\ (\A k \in held : GivenOK(k, now)) /\ \A h \in Handlers : HandlerOK(h)

PlatformInv == EdgeInv /\ EdgeTypes /\ LinksInv

\* Of handler u, the edge's part stays; what services and clients have of it
\* stays; all does.
EdgeSame(u) ==
  pc'[u] = pc[u] /\ req'[u] = req[u] /\ tenant'[u] = tenant[u] /\ status'[u] = status[u]

LinkSame(u) ==
  /\ call'[u] = call[u] /\ reply'[u] = reply[u] /\ login'[u] = login[u]
  /\ outcome'[u] = outcome[u] /\ breq'[u] = breq[u] /\ settled'[u] = settled[u]

Same(u) == EdgeSame(u) /\ LinkSame(u)

-----------------------------------------------------------------------------
(* What does not change                                                    *)

\* A signed token stays one: only its age changes.
LEMMA TokensStay ==
  ASSUME NEW c \in Int, NEW d \in Int, c <= d
  PROVE  /\ \A token, at : Signed(token, at, c) => Signed(token, at, d)
         /\ \A r : BearerOK(r, c) => BearerOK(r, d)
         /\ \A k : GivenOK(k, c) => GivenOK(k, d)
<1>1. \A token, at : Signed(token, at, c) => Signed(token, at, d)
  BY DEF Signed
<1> QED
  BY <1>1 DEF BearerOK, GivenOK

LEMMA FrameHandler ==
  ASSUME NEW u \in Handlers, HandlerOK(u), Same(u), now \in Int, now' \in Int, now <= now'
  PROVE  HandlerOK(u)'
<1>1. EdgeOK(u)'
  BY TokensStay DEF HandlerOK, EdgeOK, Same, EdgeSame, Charge
<1>2. LinkOK(u)'
  BY TokensStay DEF HandlerOK, LinkOK, CallOK, Same, EdgeSame, LinkSame
<1>3. ContentOK(u)'
  BY TokensStay DEF HandlerOK, ContentOK, Succeeded, Same, LinkSame, LoggedIn
<1>4. TransferOK(u)'
  BY DEF HandlerOK, TransferOK, Same, LinkSame, BankRequest
<1>5. AnswerOK(u)'
  BY DEF HandlerOK, AnswerOK, Same, EdgeSame, LinkSame
<1> QED
  BY <1>1, <1>2, <1>3, <1>4, <1>5 DEF HandlerOK

-----------------------------------------------------------------------------
(* What an action of the edge does to the handlers                         *)

LEMMA ReceiveMoves ==
  ASSUME Shapes, NEW h \in Handlers, NEW r, Receive(h, r)
  PROVE  /\ EdgeShapes' /\ now' = now /\ \A u \in Handlers : u # h => EdgeSame(u)
         /\ pc[h] = "idle" /\ req'[h] = r
         /\ IF Screened(r) = 0
              THEN pc'[h] = "limit" /\ tenant'[h] = Charge(r) /\ status'[h] = status[h]
              ELSE pc'[h] = "answered" /\ status'[h] = Screened(r)
BY DEF Shapes, EdgeShapes, EdgeSame, Receive, Answer

LEMMA ControlMoves ==
  ASSUME Shapes, EdgeInv, NEW h \in Handlers, Control(h)
  PROVE  /\ EdgeShapes' /\ now' = now /\ \A u \in Handlers : u # h => EdgeSame(u)
         /\ pc[h] \in {"limit", "deny", "detect", "forward"}
         /\ req' = req /\ tenant' = tenant
         /\ \/ pc'[h] \in {"deny", "detect", "forward", "proxying"} /\ status'[h] = status[h]
            \/ pc'[h] = "answered" /\ status'[h] \in {429, 403, 404}
<1>1. CASE Admit(h)
  <2>1. now' = now
    BY <1>1 DEF Admit, Limiter!AllowGrants
  <2> QED
    BY <1>1, <2>1 DEF Shapes, EdgeShapes, EdgeSame, Admit
<1>2. CASE Deny(h)
  <2>1. now' = now
    BY <1>2 DEF Deny, Limiter!AllowDenies, Limiter!AllowUnknown, Limiter!vars
  <2> QED
    BY <1>2, <2>1 DEF Shapes, EdgeShapes, EdgeSame, Deny
<1>3. CASE Explain(h) \/ Flag(h) \/ Pass(h)
  BY <1>3 DEF Shapes, EdgeShapes, EdgeSame, Explain, Flag, Pass, Answer
<1>4. CASE Forward(h)
  <2>1. /\ pc[h] = "forward" /\ UNCHANGED <<now, req, tenant>>
        /\ \/ pc' = [pc EXCEPT ![h] = "proxying"] /\ status' = status
           \/ pc' = [pc EXCEPT ![h] = "answered"] /\ status' = [status EXCEPT ![h] = 404]
    BY <1>4, Zenon DEF Forward, Answer
  <2> QED
    BY <2>1 DEF Shapes, EdgeShapes, EdgeSame
<1> QED
  BY <1>1, <1>2, <1>3, <1>4 DEF Control

LEMMA ReturnMoves ==
  ASSUME Shapes, NEW h \in Handlers, NEW s, Return(h, s)
  PROVE  /\ EdgeShapes' /\ now' = now /\ \A u \in Handlers : u # h => EdgeSame(u)
         /\ pc[h] = "proxying" /\ pc'[h] = "answered" /\ status'[h] = s
         /\ req' = req /\ tenant' = tenant
BY DEF Shapes, EdgeShapes, EdgeSame, Return, Answer

LEMMA CloseMoves ==
  ASSUME Shapes, NEW h \in Handlers, Close(h)
  PROVE  /\ EdgeShapes' /\ now' = now /\ \A u \in Handlers : u # h => EdgeSame(u)
         /\ pc[h] = "answered" /\ pc'[h] = "idle" /\ status'[h] = 0
BY DEF Shapes, EdgeShapes, EdgeSame, Close

\* No handler but h is touched; h is as it should be.
LEMMA OneHandler ==
  ASSUME LinksInv, NEW h \in Handlers, HandlerOK(h)', EdgeShapes', LinkShapes', now' = now,
         \A u \in Handlers : u # h => EdgeSame(u) /\ LinkSame(u),
         \A k \in held' : k \in held \/ GivenOK(k, now)
  PROVE  LinksInv'
<1>1. now \in Int /\ now' \in Int /\ now <= now'
  BY DEF LinksInv, Shapes
<1>2. ASSUME NEW u \in Handlers
      PROVE  HandlerOK(u)'
  <2>1. CASE u = h
    BY <2>1
  <2>2. CASE u # h
    BY <1>1, <2>2, FrameHandler DEF LinksInv, Same
  <2> QED
    BY <2>1, <2>2
<1>3. \A k \in held' : GivenOK(k, now')
  BY DEF LinksInv
<1> QED
  BY <1>2, <1>3 DEF LinksInv, Shapes, EdgeShapes, LinkShapes

-----------------------------------------------------------------------------
(* Clients and the edge                                                    *)

\* A client has only tokens it was given: a request that carries one is a
\* request the clients may send.
LEMMA BearingOK ==
  ASSUME NEW time \in 0..MaxTime, NEW q \in Queries, q.route # "login", NEW k, GivenOK(k, time)
  PROVE  BearerOK(Bearing(q, k), time)
<1> DEFINE s == [token |-> NewToken(k.token.tenant, k.at + AuthAhead), at |-> k.at]
<1>1. /\ k.at \in 0..MaxTime /\ k.token.tenant \in DOMAIN Credentials
      /\ k.token = s.token /\ k.at = s.at
  BY EdgeAssumption DEF GivenOK, Signed
<1>2. Bearing(q, s) \in Requests
  BY <1>1, PlatformAssumption
<1>3. Bearing(q, k) = Bearing(q, s)
  BY <1>1 DEF Bearing
<1>4. "token" \in DOMAIN q /\ "issued" \in DOMAIN q
  BY PlatformAssumption
<1>5. Bearing(q, k).token = k.token /\ Bearing(q, k).issued = k.at
  BY <1>4 DEF Bearing
<1> QED
  BY <1>2, <1>3, <1>5 DEF BearerOK, GivenOK

LEMMA SendInv ==
  ASSUME LinksInv, NEW h \in Handlers, Send(h)
  PROVE  /\ LinksInv'
         /\ \E r : BearerOK(r, now) /\ Receive(h, r)
<1>1. PICK r : BearerOK(r, now) /\ Receive(h, r)
  <2>1. \A q \in Queries : BearerOK(q, now)
    BY PlatformAssumption DEF BearerOK
  <2>2. \A q \in Queries, k \in held : q.route # "login" => BearerOK(Bearing(q, k), now)
    BY BearingOK DEF LinksInv, Shapes
  <2> QED
    BY <2>1, <2>2 DEF Send
<1>2. /\ call[h] = NoRequest /\ settled' = [settled EXCEPT ![h] = 0]
      /\ UNCHANGED <<call, reply, login, breq, outcome, held>>
  BY DEF Send, linkVars, bankVars
<1>3. /\ EdgeShapes' /\ now' = now /\ \A u \in Handlers : u # h => EdgeSame(u)
      /\ pc[h] = "idle" /\ req'[h] = r
      /\ IF Screened(r) = 0
           THEN pc'[h] = "limit" /\ tenant'[h] = Charge(r) /\ status'[h] = status[h]
           ELSE pc'[h] = "answered" /\ status'[h] = Screened(r)
  BY <1>1, ReceiveMoves DEF LinksInv
<1>4. LinkShapes' /\ \A u \in Handlers : u # h => LinkSame(u)
  BY <1>2 DEF LinksInv, Shapes, LinkShapes, LinkSame
<1>5. HandlerOK(h)'
  <2>1. HandlerOK(h) /\ settled'[h] = 0
    BY <1>2 DEF LinksInv, Shapes, LinkShapes
  <2>2. Screened(r) \in {0, 400, 401}
    BY DEF Screened
  <2>3. EdgeOK(h)'
    BY <1>1, <1>3, <2>1, <2>2 DEF HandlerOK, EdgeOK, Charge
  <2>4. LinkOK(h)' /\ AnswerOK(h)'
    BY <1>2, <1>3, <2>1, <2>2 DEF HandlerOK, LinkOK, CallOK, AnswerOK
  <2>5. ContentOK(h)' /\ TransferOK(h)'
    BY <1>2, <2>1 DEF HandlerOK, LinkOK, ContentOK, Succeeded, TransferOK
  <2> QED
    BY <2>3, <2>4, <2>5 DEF HandlerOK
<1> QED
  BY <1>1, <1>2, <1>3, <1>4, <1>5, OneHandler

LEMMA EdgeControlInv ==
  ASSUME LinksInv, EdgeInv, NEW h \in Handlers, EdgeControl(h)
  PROVE  LinksInv'
<1>1. /\ Control(h)
      /\ call' = IF pc'[h] = "proxying" THEN [call EXCEPT ![h] = req[h]] ELSE call
      /\ UNCHANGED <<reply, login, breq, outcome, held, settled>>
  BY DEF EdgeControl, bankVars, clientVars
<1>2. /\ EdgeShapes' /\ now' = now /\ \A u \in Handlers : u # h => EdgeSame(u)
      /\ pc[h] \in {"limit", "deny", "detect", "forward"}
      /\ req' = req /\ tenant' = tenant
      /\ \/ pc'[h] \in {"deny", "detect", "forward", "proxying"} /\ status'[h] = status[h]
         \/ pc'[h] = "answered" /\ status'[h] \in {429, 403, 404}
  BY <1>1, ControlMoves DEF LinksInv
<1>3. LinkShapes' /\ \A u \in Handlers : u # h => LinkSame(u)
  BY <1>1 DEF LinksInv, Shapes, LinkShapes, LinkSame
<1>4. HandlerOK(h)'
  <2>1. HandlerOK(h) /\ call[h] = NoRequest /\ settled[h] = 0
    BY <1>2 DEF LinksInv, HandlerOK, AnswerOK
  <2>2. call'[h] = IF pc'[h] = "proxying" THEN req[h] ELSE NoRequest
    BY <1>1, <2>1 DEF LinksInv, Shapes, LinkShapes
  <2>3. reply[h] = Nothing /\ login[h] = Nothing /\ outcome[h] = "idle"
    BY <2>1 DEF HandlerOK, LinkOK
  <2>4. EdgeOK(h)'
    BY <1>2, <2>1 DEF HandlerOK, EdgeOK, Charge
  <2>5. LinkOK(h)' /\ AnswerOK(h)'
    BY <1>1, <1>2, <2>1, <2>2, <2>3 DEF HandlerOK, EdgeOK, LinkOK, CallOK, AnswerOK
  <2>6. ContentOK(h)' /\ TransferOK(h)'
    BY <1>1, <2>1, <2>3 DEF HandlerOK, ContentOK, Succeeded, TransferOK
  <2> QED
    BY <2>4, <2>5, <2>6 DEF HandlerOK
<1> QED
  BY <1>1, <1>2, <1>3, <1>4, OneHandler

\* An answer that leaves its service leaves nothing behind.
LEMMA HangupLeaves ==
  ASSUME LinksInv, NEW h \in Handlers, reply[h] # Nothing, Hangup(h)
  PROVE  /\ LinkShapes' /\ \A u \in Handlers : u # h => LinkSame(u)
         /\ call'[h] = NoRequest /\ reply'[h] = Nothing /\ login'[h] = Nothing
         /\ outcome'[h] = "idle" /\ settled'[h] = settled[h]
<1>1. HandlerOK(h) /\ LinkShapes
  BY DEF LinksInv, Shapes
<1>2. login[h] = Nothing
  BY <1>1 DEF HandlerOK, LinkOK
<1>3. /\ call' = [call EXCEPT ![h] = NoRequest]
      /\ reply' = [reply EXCEPT ![h] = Nothing]
      /\ UNCHANGED <<login, settled>>
  BY DEF Hangup
<1>4. CASE call[h].route = "transfer"
  <2>1. outcome' = [outcome EXCEPT ![h] = "idle"] /\ breq' = [breq EXCEPT ![h] = NoRequest]
    BY <1>4 DEF Hangup, Transfers!Finish
  <2> QED
    BY <1>1, <1>2, <1>3, <2>1 DEF LinkShapes, LinkSame
<1>5. CASE call[h].route # "transfer"
  <2>1. UNCHANGED <<outcome, breq>> /\ outcome[h] = "idle"
    BY <1>1, <1>5 DEF Hangup, bankVars, HandlerOK, LinkOK
  <2> QED
    BY <1>1, <1>2, <1>3, <2>1 DEF LinkShapes, LinkSame
<1> QED
  BY <1>4, <1>5

\* Such a handler has nothing left at any service.
LEMMA Released ==
  ASSUME NEW h \in Handlers, EdgeOK(h)', AnswerOK(h)',
         call'[h] = NoRequest, reply'[h] = Nothing, login'[h] = Nothing, outcome'[h] = "idle"
  PROVE  HandlerOK(h)'
BY DEF HandlerOK, LinkOK, CallOK, ContentOK, Succeeded, TransferOK

\* The edge has an answer or gives one.
LEMMA AnsweredInv ==
  ASSUME LinksInv, NEW h \in Handlers, reply[h] # Nothing, Hangup(h),
         NEW s, Return(h, s), s \in {0, reply[h].status},
         \A k \in held' : k \in held \/ GivenOK(k, now)
  PROVE  LinksInv'
<1>1. /\ EdgeShapes' /\ now' = now /\ \A u \in Handlers : u # h => EdgeSame(u)
      /\ pc[h] = "proxying" /\ pc'[h] = "answered" /\ status'[h] = s
      /\ req' = req /\ tenant' = tenant
  BY ReturnMoves DEF LinksInv
<1>2. /\ LinkShapes' /\ \A u \in Handlers : u # h => LinkSame(u)
      /\ call'[h] = NoRequest /\ reply'[h] = Nothing /\ login'[h] = Nothing
      /\ outcome'[h] = "idle" /\ settled'[h] = settled[h]
  BY HangupLeaves
<1>3. HandlerOK(h)
  BY DEF LinksInv
<1>4. call[h] # NoRequest /\ req[h] = call[h]
  BY <1>1, <1>3 DEF HandlerOK, LinkOK, CallOK
<1>5. EdgeOK(h)'
  BY <1>1, <1>3 DEF HandlerOK, EdgeOK
<1>6. AnswerOK(h)'
  BY <1>1, <1>2, <1>3, <1>4 DEF HandlerOK, AnswerOK, TransferOK
<1> QED
  BY <1>1, <1>2, <1>5, <1>6, Released, OneHandler

LEMMA TakeReplyInv ==
  ASSUME LinksInv, NEW h \in Handlers, TakeReply(h)
  PROVE  LinksInv'
<1>1. reply[h] # Nothing /\ Return(h, reply[h].status) /\ Hangup(h)
  BY DEF TakeReply, Deliver
<1>2. ASSUME NEW k \in held'
      PROVE  k \in held \/ GivenOK(k, now)
  <2>1. k \in held \/ (call[h].route = "login" /\ reply[h].status = 200 /\ k = reply[h].gives)
    BY <1>2 DEF TakeReply
  <2> QED
    BY <1>1, <2>1 DEF LinksInv, HandlerOK, ContentOK, Succeeded
<1> QED
  BY <1>1, <1>2, AnsweredInv

LEMMA LoseReplyInv ==
  ASSUME LinksInv, NEW h \in Handlers, LoseReply(h)
  PROVE  LinksInv'
<1>1. reply[h] # Nothing /\ Return(h, 0) /\ Hangup(h) /\ held' = held
  BY DEF LoseReply, CopyBreaks
<1> QED
  BY <1>1, AnsweredInv

LEMMA GiveUpInv ==
  ASSUME LinksInv, NEW h \in Handlers, GiveUp(h)
  PROVE  LinksInv'
<1>1. Return(h, 502) /\ UNCHANGED <<call, reply, login, outcome, breq, settled, held>>
  BY DEF GiveUp, ProxyFails, linkVars, bankVars, clientVars
<1>2. /\ EdgeShapes' /\ now' = now /\ \A u \in Handlers : u # h => EdgeSame(u)
      /\ pc[h] = "proxying" /\ pc'[h] = "answered" /\ status'[h] = 502
      /\ req' = req /\ tenant' = tenant
  BY <1>1, ReturnMoves DEF LinksInv
<1>3. LinkShapes' /\ \A u \in Handlers : LinkSame(u)
  BY <1>1 DEF LinksInv, Shapes, LinkShapes, LinkSame
<1>4. HandlerOK(h)
  BY DEF LinksInv
<1>5. EdgeOK(h)' /\ LinkOK(h)' /\ AnswerOK(h)'
  BY <1>1, <1>2, <1>4 DEF HandlerOK, EdgeOK, LinkOK, CallOK, AnswerOK
<1>6. ContentOK(h)' /\ TransferOK(h)'
  BY <1>1, <1>2, <1>4 DEF HandlerOK, ContentOK, LoggedIn, Succeeded, TransferOK, BankRequest
<1> QED
  BY <1>1, <1>2, <1>3, <1>5, <1>6, OneHandler DEF HandlerOK

LEMMA DropInv ==
  ASSUME LinksInv, NEW h \in Handlers, Drop(h)
  PROVE  LinksInv'
<1>1. /\ pc[h] # "proxying" /\ reply[h] # Nothing /\ Hangup(h)
      /\ UNCHANGED <<pc, req, tenant, status, now, held>>
  BY DEF Drop, edgeVars, handlerVars
<1>2. /\ LinkShapes' /\ \A u \in Handlers : u # h => LinkSame(u)
      /\ call'[h] = NoRequest /\ reply'[h] = Nothing /\ login'[h] = Nothing
      /\ outcome'[h] = "idle" /\ settled'[h] = settled[h]
  BY <1>1, HangupLeaves
<1>3. EdgeShapes' /\ \A u \in Handlers : EdgeSame(u)
  BY <1>1 DEF LinksInv, Shapes, EdgeShapes, EdgeSame
<1>4. HandlerOK(h)
  BY DEF LinksInv
<1>5. EdgeOK(h)' /\ AnswerOK(h)'
  BY <1>1, <1>2, <1>4 DEF HandlerOK, EdgeOK, AnswerOK, Charge
<1> QED
  BY <1>1, <1>2, <1>3, <1>5, Released, OneHandler

LEMMA CloseClientInv ==
  ASSUME LinksInv, NEW h \in Handlers, CloseClient(h)
  PROVE  LinksInv'
<1>1. Close(h) /\ UNCHANGED <<call, reply, login, outcome, breq, settled, held>>
  BY DEF CloseClient, linkVars, bankVars, clientVars
<1>2. /\ EdgeShapes' /\ now' = now /\ \A u \in Handlers : u # h => EdgeSame(u)
      /\ pc[h] = "answered" /\ pc'[h] = "idle" /\ status'[h] = 0
  BY <1>1, CloseMoves DEF LinksInv
<1>3. LinkShapes' /\ \A u \in Handlers : LinkSame(u)
  BY <1>1 DEF LinksInv, Shapes, LinkShapes, LinkSame
<1>4. HandlerOK(h)
  BY DEF LinksInv
<1>5. EdgeOK(h)' /\ LinkOK(h)' /\ AnswerOK(h)'
  BY <1>1, <1>2, <1>4 DEF HandlerOK, EdgeOK, LinkOK, CallOK, AnswerOK
<1>6. ContentOK(h)' /\ TransferOK(h)'
  BY <1>1, <1>2, <1>4 DEF HandlerOK, ContentOK, LoggedIn, Succeeded, TransferOK, BankRequest
<1> QED
  BY <1>1, <1>2, <1>3, <1>5, <1>6, OneHandler DEF HandlerOK

-----------------------------------------------------------------------------
(* The services                                                            *)

\* A service's step does not touch the edge.
LEMMA EdgeLeft ==
  ASSUME Shapes, UNCHANGED edgeVars
  PROVE  EdgeShapes' /\ now' = now /\ \A u \in Handlers : EdgeSame(u)
BY DEF Shapes, EdgeShapes, EdgeSame, edgeVars, handlerVars

\* An answer is given, or a login begun: the call stays as it was.
LEMMA CallStays ==
  ASSUME NEW h \in Handlers, HandlerOK(h), EdgeSame(h), now' = now,
         call'[h] = call[h], settled'[h] = settled[h]
  PROVE  EdgeOK(h)' /\ CallOK(h)' /\ AnswerOK(h)'
BY DEF HandlerOK, EdgeSame, EdgeOK, LinkOK, CallOK, AnswerOK, Charge

LEMMA LookupFinds ==
  ASSUME NEW r, NEW t \in Auth!Lookup(r)
  PROVE  t \in DOMAIN Credentials /\ Credentials[t] = [key |-> r.key, secret |-> r.secret]
BY DEF Auth!Lookup

\* The clock is read again after the token was signed: never earlier.
LEMMA ExpiryLater ==
  ASSUME NEW at \in Int, NEW time \in Int, at <= time, NEW t
  PROVE  time + AuthAhead + Lifetime >= NewToken(t, at + AuthAhead).expiresAt
<1>1. AuthAhead \in Int /\ Lifetime \in Int /\ Second \in Nat /\ Second > 0
  BY PlatformAssumption, TokenAssumption
<1>2. DEFINE c == at + AuthAhead + Lifetime
<1>3. c \in Int /\ c % Second >= 0 /\ c % Second \in Int
  BY <1>1
<1>4. NewToken(t, at + AuthAhead).expiresAt = c - (c % Second)
  BY <1>1 DEF NewToken, NumericDate
<1> QED
  BY <1>1, <1>3, <1>4

LEMMA LoginRefused ==
  ASSUME NEW h \in Handlers, Auth!RefuseLogin(h) \/ Auth!SignFails(h)
  PROVE  \E s \in {400, 401, 500} :
           /\ login[h] = Nothing /\ login' = login
           /\ reply' = [reply EXCEPT ![h] = [status |-> s, gives |-> Nothing]]
<1>1. login[h] = Nothing /\ login' = login
  BY Zenon DEF Auth!RefuseLogin, Auth!SignFails
<1>2. \/ reply' = [reply EXCEPT ![h] = [status |-> 400, gives |-> Nothing]]
      \/ reply' = [reply EXCEPT ![h] = [status |-> 401, gives |-> Nothing]]
      \/ reply' = [reply EXCEPT ![h] = [status |-> 500, gives |-> Nothing]]
  BY Zenon DEF Auth!RefuseLogin, Auth!SignFails
<1> QED
  BY <1>1, <1>2

LEMMA AuthWorksInv ==
  ASSUME LinksInv, NEW h \in Handlers, AuthWorks(h)
  PROVE  LinksInv'
<1>1. /\ Auth!AuthStep(h) /\ Auth!Arrived(h)
      /\ UNCHANGED <<call, outcome, breq, held, settled>> /\ UNCHANGED edgeVars
  BY DEF AuthWorks, Auth!AuthStep, Auth!RefuseLogin, Auth!Sign, Auth!SignFails, Auth!GiveToken,
         bankVars, clientVars
<1>2. EdgeShapes' /\ now' = now /\ \A u \in Handlers : EdgeSame(u)
  BY <1>1, EdgeLeft DEF LinksInv
<1>3. HandlerOK(h) /\ call[h] # NoRequest /\ call[h].route = "login" /\ reply[h] = Nothing
  BY <1>1 DEF LinksInv, Auth!Arrived
<1>4. outcome[h] = "idle"
  BY <1>3 DEF HandlerOK, LinkOK
<1>5. EdgeOK(h)' /\ CallOK(h)' /\ AnswerOK(h)' /\ TransferOK(h)'
  BY <1>1, <1>2, <1>3, <1>4, CallStays DEF HandlerOK, TransferOK
<1>6. CASE Auth!RefuseLogin(h) \/ Auth!SignFails(h)
  <2>1. PICK s \in {400, 401, 500} :
          /\ login[h] = Nothing /\ login' = login
          /\ reply' = [reply EXCEPT ![h] = [status |-> s, gives |-> Nothing]]
    BY <1>6, LoginRefused
  <2>2. LinkShapes' /\ \A u \in Handlers : u # h => LinkSame(u)
    BY <1>1, <2>1 DEF LinksInv, Shapes, LinkShapes, LinkSame
  <2>3. reply'[h].status = s /\ login'[h] = Nothing
    BY <2>1 DEF LinksInv, Shapes, LinkShapes
  <2>4. LinkOK(h)' /\ ContentOK(h)'
    BY <1>1, <1>3, <1>4, <1>5, <2>3 DEF LinkOK, ContentOK, Succeeded, BackendStatuses
  <2> QED
    BY <1>2, <1>5, <1>1, <2>2, <2>4, OneHandler DEF HandlerOK
<1>7. CASE Auth!Sign(h)
  <2>1. PICK t \in Auth!Lookup(call[h]) :
          /\ login' = [login EXCEPT ![h] = [token |-> NewToken(t, now + AuthAhead), at |-> now]]
          /\ reply' = reply
    BY <1>7 DEF Auth!Sign, Auth!AuthClock, Auth!NewToken, NewToken, Auth!NumericDate, NumericDate
  <2>2. LinkShapes' /\ \A u \in Handlers : u # h => LinkSame(u)
    BY <1>1, <2>1 DEF LinksInv, Shapes, LinkShapes, LinkSame
  <2>3. login'[h].token = NewToken(t, now + AuthAhead) /\ login'[h].at = now /\ reply'[h] = Nothing
    BY <1>3, <2>1 DEF LinksInv, Shapes, LinkShapes
  <2>4. login'[h].token.tenant = t
    BY <2>3 DEF NewToken
  <2>5. now \in 0..now
    BY DEF LinksInv, Shapes
  <2>6. Signed(login'[h].token, login'[h].at, now) /\ LoggedIn(call[h], login'[h].token)
    BY <2>3, <2>4, <2>5, LookupFinds DEF Signed, LoggedIn
  <2>7. LinkOK(h)' /\ ContentOK(h)'
    BY <1>1, <1>2, <1>3, <1>4, <1>5, <2>3, <2>6 DEF LinkOK, ContentOK, Succeeded, LoggedIn
  <2> QED
    BY <1>2, <1>5, <1>1, <2>2, <2>7, OneHandler DEF HandlerOK
<1>8. CASE Auth!GiveToken(h)
  <2> DEFINE g == [token |-> login[h].token, at |-> login[h].at, expiresAt |-> now + AuthAhead + Lifetime]
  <2>1. /\ login[h] # Nothing /\ login' = [login EXCEPT ![h] = Nothing]
        /\ reply' = [reply EXCEPT ![h] = [status |-> 200, gives |-> g]]
    BY <1>8 DEF Auth!GiveToken, Auth!AuthClock
  <2>2. LinkShapes' /\ \A u \in Handlers : u # h => LinkSame(u)
    BY <1>1, <2>1 DEF LinksInv, Shapes, LinkShapes, LinkSame
  <2>3. reply'[h].status = 200 /\ reply'[h].gives = g /\ login'[h] = Nothing
    BY <2>1 DEF LinksInv, Shapes, LinkShapes
  <2>4. Signed(g.token, g.at, now) /\ LoggedIn(call[h], g.token)
    BY <1>3, <2>1 DEF HandlerOK, ContentOK
  <2>5. g.expiresAt >= g.token.expiresAt
    <3>1. g.at \in Int /\ now \in Int /\ g.at <= now /\ g.token = NewToken(g.token.tenant, g.at + AuthAhead)
      BY <2>4 DEF Signed, LinksInv, Shapes
    <3> HIDE DEF g
    <3>2. now + AuthAhead + Lifetime >= g.token.expiresAt
      BY <3>1, ExpiryLater
    <3> QED
      BY <3>2 DEF g
  <2>6. LinkOK(h)' /\ ContentOK(h)'
    BY <1>1, <1>2, <1>3, <1>4, <1>5, <2>3, <2>4, <2>5
       DEF LinkOK, ContentOK, Succeeded, LoggedIn, GivenOK, BackendStatuses
  <2> QED
    BY <1>2, <1>5, <1>1, <2>2, <2>6, OneHandler DEF HandlerOK
<1> QED
  BY <1>1, <1>6, <1>7, <1>8 DEF Auth!AuthStep

LEMMA SearchWorksInv ==
  ASSUME LinksInv, NEW h \in Handlers, SearchWorks(h)
  PROVE  LinksInv'
<1> DEFINE s == Search!Find(call[h])
           g == IF s = 200
                  THEN [account |-> call[h].account, balance |-> searchDb[call[h].account]]
                  ELSE Nothing
<1>1. /\ call[h] # NoRequest /\ call[h].route = "search"
      /\ reply' = [reply EXCEPT ![h] = [status |-> s, gives |-> g]]
      /\ UNCHANGED <<call, login, outcome, breq, held, settled>> /\ UNCHANGED edgeVars
  BY DEF SearchWorks, Search!Search, bankVars, clientVars
<1>2. EdgeShapes' /\ now' = now /\ \A u \in Handlers : EdgeSame(u)
  BY <1>1, EdgeLeft DEF LinksInv
<1>3. HandlerOK(h) /\ login[h] = Nothing /\ outcome[h] = "idle"
  BY <1>1 DEF LinksInv, HandlerOK, LinkOK
<1>4. LinkShapes' /\ \A u \in Handlers : u # h => LinkSame(u)
  BY <1>1 DEF LinksInv, Shapes, LinkShapes, LinkSame
<1>5. reply'[h].status = s /\ reply'[h].gives = g
  BY <1>1 DEF LinksInv, Shapes, LinkShapes
<1>6. s \in BackendStatuses
  BY DEF Search!Find, BackendStatuses
<1>7. s = 200 => TenantOf[call[h].account] = call[h].token.tenant
  BY DEF Search!Find
<1>8. EdgeOK(h)' /\ CallOK(h)' /\ AnswerOK(h)' /\ TransferOK(h)'
  BY <1>1, <1>2, <1>3, CallStays DEF HandlerOK, TransferOK
<1>9. LinkOK(h)' /\ ContentOK(h)'
  BY <1>1, <1>3, <1>5, <1>6, <1>7, <1>8 DEF LinkOK, ContentOK, Succeeded
<1> QED
  BY <1>1, <1>2, <1>4, <1>8, <1>9, OneHandler DEF HandlerOK

\* The transfer service answers s, and its handler is done.
LEMMA TransferReplyInv ==
  ASSUME LinksInv, NEW h \in Handlers, NEW s \in BackendStatuses, TransferReplies(h, s),
         call[h] # NoRequest, call[h].route = "transfer", outcome[h] \in {"idle", "pending"},
         DOMAIN outcome' = Handlers, settled' = [u \in Handlers |-> settled'[u]], breq' = breq,
         \A u \in Handlers : u # h => outcome'[u] = outcome[u] /\ settled'[u] = settled[u],
         \/ /\ outcome'[h] = "done" /\ s = 200 /\ settled'[h] = settled[h] + 1
            /\ outcome[h] = "pending"
            /\ TenantOf[call[h].account] = call[h].token.tenant
            /\ TenantOf[call[h].to] = call[h].token.tenant
         \/ outcome'[h] = "refused" /\ s \in {400, 401, 402, 403, 404} /\ settled'[h] = settled[h]
  PROVE  LinksInv'
<1>1. /\ reply' = [reply EXCEPT ![h] = [status |-> s, gives |-> Nothing]]
      /\ UNCHANGED <<call, login, held>> /\ UNCHANGED edgeVars
  BY DEF TransferReplies
<1>2. EdgeShapes' /\ now' = now /\ \A u \in Handlers : EdgeSame(u)
  BY <1>1, EdgeLeft DEF LinksInv
<1>3. HandlerOK(h) /\ login[h] = Nothing /\ reply[h] = Nothing /\ settled[h] = 0
  BY DEF LinksInv, HandlerOK, LinkOK, TransferOK
<1>4. LinkShapes' /\ \A u \in Handlers : u # h => LinkSame(u)
  BY <1>1 DEF LinksInv, Shapes, LinkShapes, LinkSame
<1>5. /\ reply'[h] # Nothing /\ reply'[h].status = s
      /\ settled'[h] = IF outcome'[h] = "done" THEN 1 ELSE 0
  BY <1>1, <1>3, PlatformAssumption DEF LinksInv, Shapes, LinkShapes
<1>6. LinkOK(h)' /\ EdgeOK(h)'
  BY <1>1, <1>2, <1>3, <1>5 DEF HandlerOK, EdgeSame, EdgeOK, LinkOK, CallOK, Charge
<1>7. TransferOK(h)'
  BY <1>1, <1>3, <1>5 DEF HandlerOK, TransferOK, BankRequest
<1>8. ContentOK(h)'
  BY <1>1, <1>3 DEF ContentOK
<1>9. AnswerOK(h)'
  <2>1. pc[h] \in {"idle", "proxying"} \/ (pc[h] = "answered" /\ status[h] = 502)
    BY <1>3 DEF HandlerOK, LinkOK, CallOK
  <2> QED
    BY <1>2, <1>5, <2>1 DEF AnswerOK, EdgeSame
<1> QED
  BY <1>1, <1>2, <1>4, <1>6, <1>7, <1>8, <1>9, OneHandler DEF HandlerOK

LEMMA TransferWorksInv ==
  ASSUME LinksInv, NEW h \in Handlers, TransferWorks(h)
  PROVE  LinksInv'
<1>0. HandlerOK(h)
  BY DEF LinksInv
<1>1. CASE TransferTurnsAway(h)
  <2>1. /\ call[h] # NoRequest /\ call[h].route = "transfer" /\ outcome[h] = "idle"
        /\ outcome' = [outcome EXCEPT ![h] = "refused"] /\ breq' = breq /\ settled' = settled
    BY <1>1 DEF TransferTurnsAway, TransferArrived, Transfers!Refuse
  <2>2. PICK s \in {400, 401} : TransferReplies(h, s)
    BY <1>1, Zenon DEF TransferTurnsAway
  <2>3. s \in BackendStatuses /\ s \in {400, 401, 402, 403, 404}
    BY DEF BackendStatuses
  <2>4. outcome[h] \in {"idle", "pending"}
    BY <2>1
  <2> QED
    BY <2>1, <2>2, <2>3, <2>4, TransferReplyInv DEF LinksInv, Shapes, LinkShapes
<1>2. CASE TransferBegins(h)
  <2>1. /\ call[h] # NoRequest /\ call[h].route = "transfer" /\ outcome[h] = "idle"
        /\ breq' = [breq EXCEPT ![h] = BankRequest(call[h])]
        /\ outcome' = [outcome EXCEPT ![h] = "pending"]
        /\ UNCHANGED <<call, reply, login, held, settled>> /\ UNCHANGED edgeVars
    BY <1>2 DEF TransferBegins, TransferArrived, Transfers!Submit, linkVars, clientVars
  <2>2. EdgeShapes' /\ now' = now /\ \A u \in Handlers : EdgeSame(u)
    BY <2>1, EdgeLeft DEF LinksInv
  <2>3. LinkShapes' /\ \A u \in Handlers : u # h => LinkSame(u)
    BY <2>1 DEF LinksInv, Shapes, LinkShapes, LinkSame
  <2>4. outcome'[h] = "pending" /\ breq'[h] = BankRequest(call[h])
    BY <2>1 DEF LinksInv, Shapes, LinkShapes
  <2>5. login[h] = Nothing /\ reply[h] = Nothing
    BY <1>0, <2>1 DEF HandlerOK, LinkOK, TransferOK
  <2>6. EdgeOK(h)' /\ CallOK(h)' /\ AnswerOK(h)'
    BY <1>0, <2>1, <2>2, CallStays
  <2>7. LinkOK(h)' /\ ContentOK(h)' /\ TransferOK(h)'
    BY <1>0, <2>1, <2>4, <2>5, <2>6 DEF HandlerOK, LinkOK, ContentOK, Succeeded, TransferOK, BankRequest
  <2> QED
    BY <2>1, <2>2, <2>3, <2>6, <2>7, OneHandler DEF HandlerOK
<1>3. CASE TransferSettles(h)
  <2>1. /\ outcome[h] = "pending"
        /\ TenantOf[breq[h].from] = breq[h].tenant /\ TenantOf[breq[h].to] = breq[h].tenant
        /\ outcome' = [outcome EXCEPT ![h] = "done"] /\ breq' = breq
        /\ settled' = [settled EXCEPT ![h] = @ + 1] /\ TransferReplies(h, 200)
    BY <1>3 DEF TransferSettles, Transfers!Settle
  <2>2. call[h] # NoRequest /\ call[h].route = "transfer" /\ breq[h] = BankRequest(call[h])
    BY <1>0, <2>1 DEF HandlerOK, LinkOK, TransferOK
  <2>3. TenantOf[call[h].account] = call[h].token.tenant /\ TenantOf[call[h].to] = call[h].token.tenant
    BY <2>1, <2>2 DEF BankRequest
  <2> QED
    BY <2>1, <2>2, <2>3, TransferReplyInv DEF BackendStatuses, LinksInv, Shapes, LinkShapes
<1>4. CASE TransferRefuses(h)
  <2>1. /\ outcome[h] = "pending"
        /\ outcome' = [outcome EXCEPT ![h] = "refused"] /\ breq' = breq /\ settled' = settled
        /\ TransferReplies(h, RefusalStatus(breq[h]))
    BY <1>4 DEF TransferRefuses, Transfers!Refuse
  <2>2. RefusalStatus(breq[h]) \in BackendStatuses /\ RefusalStatus(breq[h]) \in {400, 401, 402, 403, 404}
    BY DEF RefusalStatus, BackendStatuses
  <2>3. /\ call[h] # NoRequest /\ call[h].route = "transfer"
        /\ outcome[h] \in {"idle", "pending"}
    BY <1>0, <2>1 DEF HandlerOK, LinkOK
  <2> QED
    BY <2>1, <2>2, <2>3, TransferReplyInv DEF LinksInv, Shapes, LinkShapes
<1> QED
  BY <1>1, <1>2, <1>3, <1>4 DEF TransferWorks

-----------------------------------------------------------------------------
(* Restarts and the clock                                                  *)

\* Where a service's calls die, what it had of them is gone too.
LEMMA CallsDieInv ==
  ASSUME LinksInv, NEW route \in {"login", "search", "transfer"}, CallsDie(route),
         UNCHANGED edgeVars, UNCHANGED <<held, settled>>,
         IF route = "login" THEN login' = [h \in Handlers |-> Nothing] ELSE login' = login,
         IF route = "transfer"
           THEN breq' = [h \in Handlers |-> NoRequest] /\ outcome' = [h \in Handlers |-> "idle"]
           ELSE breq' = breq /\ outcome' = outcome
  PROVE  LinksInv'
<1>1. EdgeShapes' /\ now' = now /\ \A u \in Handlers : EdgeSame(u)
  BY EdgeLeft DEF LinksInv
<1>2. LinkShapes'
  BY DEF CallsDie, LinksInv, Shapes, LinkShapes
<1>3. now \in Int /\ now' \in Int /\ now <= now'
  BY <1>1 DEF LinksInv, Shapes
<1>4. ASSUME NEW h \in Handlers
      PROVE  HandlerOK(h)'
  <2>1. HandlerOK(h)
    BY DEF LinksInv
  <2>2. CASE call[h] # NoRequest /\ call[h].route = route
    <3>1. call'[h] = NoRequest /\ reply'[h] = Nothing
      BY <2>2 DEF CallsDie
    <3>2. login'[h] = Nothing /\ outcome'[h] = "idle"
      BY <2>1, <2>2 DEF HandlerOK, LinkOK
    <3>3. EdgeOK(h)' /\ AnswerOK(h)'
      BY <1>1, <2>1, <3>1 DEF HandlerOK, EdgeSame, EdgeOK, AnswerOK, Charge
    <3> QED
      BY <3>1, <3>2, <3>3, Released
  <2>3. CASE ~(call[h] # NoRequest /\ call[h].route = route)
    <3>1. call'[h] = call[h] /\ reply'[h] = reply[h] /\ settled'[h] = settled[h]
      BY <2>3 DEF CallsDie
    <3>2. login'[h] = login[h] /\ outcome'[h] = outcome[h]
      BY <2>1, <2>3 DEF HandlerOK, LinkOK
    <3>3. EdgeOK(h)' /\ LinkOK(h)' /\ AnswerOK(h)'
      BY <1>1, <2>1, <3>1, <3>2, CallStays DEF HandlerOK, LinkOK
    <3>4. ContentOK(h)'
      BY <1>1, <2>1, <3>1, <3>2 DEF HandlerOK, ContentOK, Succeeded, LoggedIn
    <3>5. TransferOK(h)'
      <4>1. outcome[h] # "idle" => breq'[h] = breq[h]
        BY <2>1, <2>3 DEF HandlerOK, LinkOK
      <4> QED
        BY <2>1, <3>1, <3>2, <4>1 DEF HandlerOK, TransferOK, BankRequest
    <3> QED
      BY <3>3, <3>4, <3>5 DEF HandlerOK
  <2> QED
    BY <2>2, <2>3
<1> QED
  BY <1>1, <1>2, <1>4 DEF LinksInv, Shapes

LEMMA RestartEdgeInv ==
  ASSUME LinksInv, RestartEdge
  PROVE  LinksInv'
<1>1. /\ pc' = [h \in Handlers |-> "idle"]
      /\ req' = [h \in Handlers |-> NoRequest]
      /\ tenant' = [h \in Handlers |-> "unknown"]
      /\ status' = [h \in Handlers |-> 0]
      /\ now' = now /\ UNCHANGED <<call, reply, login, outcome, breq, held, settled>>
  BY DEF RestartEdge, EdgeRestart, linkVars, bankVars
<1>2. Shapes' /\ \A h \in Handlers : LinkSame(h)
  BY <1>1 DEF LinksInv, Shapes, EdgeShapes, LinkShapes, LinkSame
<1>3. ASSUME NEW h \in Handlers
      PROVE  HandlerOK(h)'
  <2>1. HandlerOK(h) /\ pc'[h] = "idle" /\ status'[h] = 0
    BY <1>1 DEF LinksInv
  <2>2. EdgeOK(h)' /\ LinkOK(h)' /\ AnswerOK(h)'
    BY <1>1, <2>1 DEF HandlerOK, EdgeOK, LinkOK, CallOK, AnswerOK
  <2>3. ContentOK(h)' /\ TransferOK(h)'
    BY <1>1, <2>1 DEF HandlerOK, ContentOK, LoggedIn, Succeeded, TransferOK, BankRequest
  <2> QED
    BY <2>2, <2>3 DEF HandlerOK
<1> QED
  BY <1>1, <1>2, <1>3 DEF LinksInv

LEMMA QuietInv ==
  ASSUME LinksInv, PlatformTick \/ UNCHANGED platformVars
  PROVE  LinksInv'
<1>1. /\ UNCHANGED <<pc, req, tenant, status, call, reply, login, outcome, breq, settled, held>>
      /\ now <= now' /\ now' \in 0..MaxTime
  BY EdgeAssumption
     DEF LinksInv, Shapes, PlatformTick, EdgeTick, Limiter!Tick, platformVars, edgeVars, handlerVars,
         linkVars, bankVars, clientVars
<1>2. Shapes' /\ \A h \in Handlers : Same(h)
  BY <1>1 DEF LinksInv, Shapes, EdgeShapes, LinkShapes, EdgeSame, LinkSame, Same
<1>3. now \in Int /\ now' \in Int
  BY <1>1 DEF LinksInv, Shapes
<1>4. \A h \in Handlers : HandlerOK(h)'
  BY <1>1, <1>2, <1>3, FrameHandler DEF LinksInv
<1>5. \A k \in held' : GivenOK(k, now')
  BY <1>1, <1>3, TokensStay DEF LinksInv
<1> QED
  BY <1>2, <1>4, <1>5 DEF LinksInv

LEMMA InitLinks == PlatformInit => LinksInv
<1> SUFFICES ASSUME PlatformInit PROVE LinksInv
  OBVIOUS
<1>1. Shapes
  BY EdgeAssumption
     DEF PlatformInit, EdgeInit, Limiter!Init, Auth!AuthInit, Transfers!Init, Shapes, EdgeShapes, LinkShapes
<1>2. ASSUME NEW h \in Handlers
      PROVE  HandlerOK(h)
  <2>1. /\ pc[h] = "idle" /\ status[h] = 0 /\ call[h] = NoRequest /\ reply[h] = Nothing
        /\ login[h] = Nothing /\ outcome[h] = "idle" /\ settled[h] = 0
    BY <1>2 DEF PlatformInit, EdgeInit, Auth!AuthInit, Transfers!Init
  <2> QED
    BY <2>1 DEF HandlerOK, EdgeOK, LinkOK, CallOK, ContentOK, Succeeded, TransferOK, AnswerOK
<1> QED
  BY <1>1, <1>2 DEF LinksInv, PlatformInit

-----------------------------------------------------------------------------
(* The platform                                                            *)

\* What a handler or a service does is a step of the gateway's, or none.
LEMMA ExchangeEdge ==
  ASSUME LinksInv, NEW h \in Handlers, Exchange(h)
  PROVE  \/ \E r \in Requests : Receive(h, r)
         \/ Control(h)
         \/ \E s \in Statuses : Return(h, s)
         \/ Close(h)
         \/ UNCHANGED edgeVars
<1>1. CASE Send(h)
  BY <1>1, SendInv DEF BearerOK
<1>2. CASE TakeReply(h) \/ LoseReply(h) \/ GiveUp(h)
  <2>1. reply[h] # Nothing => reply[h].status \in Statuses
    BY DEF LinksInv, HandlerOK, LinkOK, Statuses
  <2>2. 0 \in Statuses /\ 502 \in Statuses
    BY DEF Statuses
  <2> QED
    BY <1>2, <2>1, <2>2 DEF TakeReply, LoseReply, GiveUp, Deliver, CopyBreaks, ProxyFails
<1>3. CASE EdgeControl(h) \/ Drop(h) \/ CloseClient(h)
  BY <1>3 DEF EdgeControl, Drop, CloseClient
<1>4. CASE Serve(h)
  BY <1>4 DEF Serve, AuthWorks, SearchWorks, TransferWorks, TransferTurnsAway, TransferBegins,
              TransferSettles, TransferRefuses, TransferReplies
<1> QED
  BY <1>1, <1>2, <1>3, <1>4 DEF Exchange

LEMMA ExchangeInv ==
  ASSUME PlatformInv, NEW h \in Handlers, Exchange(h)
  PROVE  PlatformInv'
<1>1. LinksInv /\ EdgeInv /\ EdgeTypes
  BY DEF PlatformInv
<1>2. LinksInv'
  BY <1>1, SendInv, EdgeControlInv, TakeReplyInv, LoseReplyInv, GiveUpInv, DropInv, CloseClientInv,
     AuthWorksInv, SearchWorksInv, TransferWorksInv DEF Exchange, Serve
<1>3. EdgeInv' /\ EdgeTypes'
  <2>1. CASE UNCHANGED edgeVars
    BY <1>1, <2>1, EdgeStep, EdgeStepTypes
  <2>2. CASE \/ \E r \in Requests : Receive(h, r)
             \/ Control(h)
             \/ \E s \in Statuses : Return(h, s)
             \/ Close(h)
    <3>1. EdgeInv'
      BY <1>1, <2>2, ChargeType, HandlerStep
    <3> QED
      BY <1>1, <2>2, <3>1, HandlerEdgeTypes
  <2> QED
    BY <1>1, <2>1, <2>2, ExchangeEdge
<1> QED
  BY <1>2, <1>3 DEF PlatformInv

LEMMA RestartInv ==
  ASSUME PlatformInv, RestartEdge \/ RestartAuth \/ RestartSearch \/ RestartTransfer
  PROVE  PlatformInv'
<1>1. LinksInv /\ EdgeInv /\ EdgeTypes
  BY DEF PlatformInv
<1>2. LinksInv'
  <2>1. CASE RestartAuth
    BY <1>1, <2>1, CallsDieInv DEF RestartAuth, bankVars
  <2>2. CASE RestartSearch
    BY <1>1, <2>2, CallsDieInv DEF RestartSearch, bankVars
  <2>3. CASE RestartTransfer
    BY <1>1, <2>3, CallsDieInv DEF RestartTransfer, Transfers!Restart
  <2> QED
    BY <1>1, <2>1, <2>2, <2>3, RestartEdgeInv
<1>3. EdgeRestart \/ UNCHANGED edgeVars
  BY DEF RestartEdge, RestartAuth, RestartSearch, RestartTransfer
<1> QED
  BY <1>1, <1>2, <1>3, EdgeStep, EdgeStepTypes DEF PlatformInv

LEMMA PlatformStep == PlatformInv /\ [PlatformNext]_platformVars => PlatformInv'
<1> SUFFICES ASSUME PlatformInv, [PlatformNext]_platformVars
             PROVE  PlatformInv'
  OBVIOUS
<1>1. CASE PlatformTick \/ UNCHANGED platformVars
  <2>1. EdgeTick \/ UNCHANGED edgeVars
    BY <1>1 DEF PlatformTick, platformVars
  <2> QED
    BY <1>1, <2>1, QuietInv, EdgeStep, EdgeStepTypes DEF PlatformInv
<1> QED
  BY <1>1, ExchangeInv, RestartInv DEF PlatformNext

\* PlatformInv is inductive.
THEOREM PlatformInvariant == PlatformSpec => []PlatformInv
<1>1. PlatformInit => PlatformInv
  BY InitEdge, InitEdgeTypes, InitLinks DEF PlatformInit, PlatformInv
<1> QED
  BY <1>1, PlatformStep, PTL DEF PlatformSpec

\* Whatever the services, the clients and the restarts do: every variable
\* keeps its type, every answer belongs to a call, and nothing of a request
\* that is over stays behind.
THEOREM PlatformTypeCorrect == PlatformSpec => []PlatformTypeOK
<1>1. PlatformInv => PlatformTypeOK
  <2> SUFFICES ASSUME PlatformInv PROVE PlatformTypeOK
    OBVIOUS
  <2>1. EdgeTypeOK
    BY AllTypes DEF PlatformInv
  <2>2. ASSUME NEW h \in Handlers
        PROVE  /\ call[h] \in Requests \cup {NoRequest}
               /\ reply[h] # Nothing => call[h] # NoRequest /\ reply[h].status \in BackendStatuses
               /\ login[h] # Nothing => call[h] # NoRequest
               /\ outcome[h] # "idle" => call[h] # NoRequest
               /\ pc[h] = "proxying" => call[h] \in {req[h], NoRequest}
               /\ settled[h] \in Nat
    BY DEF PlatformInv, LinksInv, HandlerOK, LinkOK, CallOK, AnswerOK, BearerOK
  <2>3. \A k \in held : k.at \in 0..now
    BY DEF PlatformInv, LinksInv, GivenOK, Signed
  <2> QED
    BY <2>1, <2>2, <2>3 DEF PlatformTypeOK, PlatformInv, LinksInv, Shapes, LinkShapes
<1> QED
  BY PlatformInvariant, <1>1, PTL

\* In the platform, too, backends get only requests that were paid for, the
\* gauge is exact and a 429 does not contradict itself.
THEOREM GatewayHolds ==
  PlatformSpec => [](ForwardsPaid /\ GaugeExact /\ DenialExplained)
<1>1. PlatformInv => ForwardsPaid /\ GaugeExact /\ DenialExplained
  BY DEF PlatformInv, EdgeInv, DenialInv
<1> QED
  BY PlatformInvariant, <1>1, PTL

\* The tenant served by a request that succeeds, by kind of request.
LEMMA ServedTenant ==
  ASSUME PlatformInv, NEW h \in Handlers, Succeeded(h)
  PROVE  /\ call[h] # NoRequest /\ call[h] \in Requests
         /\ call[h].route = "login" =>
              /\ Served(h) \in DOMAIN Credentials
              /\ Credentials[Served(h)] = [key |-> call[h].key, secret |-> call[h].secret]
         /\ call[h].route = "search" => Served(h) = call[h].token.tenant
         /\ call[h].route = "transfer" =>
              Served(h) = call[h].token.tenant /\ TenantOf[call[h].to] = Served(h)
<1>1. HandlerOK(h)
  BY DEF PlatformInv, LinksInv
<1>2. call[h] # NoRequest /\ call[h] \in Requests
  BY <1>1 DEF HandlerOK, LinkOK, CallOK, BearerOK, Succeeded
<1>3. CASE call[h].route = "login"
  <2>1. Served(h) = reply[h].gives.token.tenant
    BY <1>3 DEF Served
  <2> QED
    BY <1>1, <1>2, <1>3, <2>1 DEF HandlerOK, ContentOK, GivenOK, Signed, LoggedIn
<1>4. CASE call[h].route = "search"
  <2>1. Served(h) = TenantOf[reply[h].gives.account]
    BY <1>4 DEF Served
  <2> QED
    BY <1>1, <1>2, <1>4, <2>1 DEF HandlerOK, ContentOK
<1>5. CASE call[h].route = "transfer"
  <2>1. Served(h) = TenantOf[call[h].account]
    BY <1>5 DEF Served
  <2>2. outcome[h] = "done"
    BY <1>1, <1>2, <1>5 DEF HandlerOK, TransferOK, Succeeded
  <2> QED
    BY <1>1, <1>2, <1>5, <2>1, <2>2 DEF HandlerOK, TransferOK
<1> QED
  BY <1>2, <1>3, <1>4, <1>5, PlatformAssumption

\* A request that succeeds has served the tenant whose key and secret, or
\* whose valid token, it carries, whatever its URI and its body made the edge
\* take it for.
THEOREM TenantsIsolated == PlatformSpec => []TenantIsolation
<1>1. PlatformInv => TenantIsolation
  <2> SUFFICES ASSUME PlatformInv, NEW h \in Handlers, Succeeded(h)
               PROVE  /\ IF call[h].route = "login"
                           THEN Credentials[Served(h)] = [key |-> call[h].key, secret |-> call[h].secret]
                           ELSE Served(h) = call[h].token.tenant
                      /\ call[h].route = "transfer" => TenantOf[call[h].to] = Served(h)
    BY DEF TenantIsolation
  <2> QED
    BY ServedTenant, PlatformAssumption
<1> QED
  BY PlatformInvariant, <1>1, PTL

\* The tenant served is the one whose limit has paid, for every request that
\* the edge reads as the service does; of the others nothing is said.
THEOREM TenantsCharged == PlatformSpec => []TenantCharged
<1>1. PlatformInv => TenantCharged
  <2> SUFFICES ASSUME PlatformInv, NEW h \in Handlers, Succeeded(h),
                      pc[h] = "proxying", ReadAlike(call[h])
               PROVE  Served(h) = tenant[h]
    BY DEF TenantCharged
  <2>1. call[h] # NoRequest /\ call[h] \in Requests /\ HandlerOK(h)
    BY ServedTenant DEF PlatformInv, LinksInv
  <2>2. tenant[h] = Charge(call[h])
    BY <2>1 DEF HandlerOK, EdgeOK, LinkOK, CallOK
  <2>3. CASE call[h].route = "login"
    <3>1. tenant[h] = KeyTenant[call[h].key]
      <4>1. call[h].namesLogin /\ call[h].edgeKey = call[h].key
        BY <2>1, <2>3, EdgeAssumption DEF ReadAlike
      <4> QED
        BY <2>2, <4>1 DEF Charge
    <3>2. /\ Served(h) \in DOMAIN Credentials
          /\ Credentials[Served(h)] = [key |-> call[h].key, secret |-> call[h].secret]
      BY <2>3, ServedTenant
    <3>3. Credentials[Served(h)].key = call[h].key
      BY <3>2
    <3>4. KeyTenant[Credentials[Served(h)].key] = Served(h)
      BY <3>2, PlatformAssumption
    <3> QED
      BY <3>1, <3>3, <3>4
  <2>4. CASE call[h].route # "login"
    <3>1. tenant[h] = call[h].token.tenant
      BY <2>2, <2>4 DEF Charge, ReadAlike
    <3> QED
      BY <2>1, <2>4, <3>1, ServedTenant, PlatformAssumption
  <2> QED
    BY <2>3, <2>4
<1> QED
  BY PlatformInvariant, <1>1, PTL

\* The expiry a client is told is never before its token's own.
THEOREM ExpiryAnnounced == PlatformSpec => []AnnouncedExpiry
<1>1. PlatformInv => AnnouncedExpiry
  BY DEF PlatformInv, LinksInv, GivenOK, AnnouncedExpiry
<1> QED
  BY PlatformInvariant, <1>1, PTL

-----------------------------------------------------------------------------
(* Tokens and clocks                                                       *)

\* A service that admits a token by its clock is not certainly wrong, and one
\* that does not admit it neither: cutting dates down to whole seconds moves
\* both ends by less than one.
LEMMA DatesAgree ==
  ASSUME now \in Int, NEW r, BearerOK(r, now), NEW ahead \in Int
  PROVE  IF ValidateToken(r.token, now + ahead) THEN ~SurelyInvalid(r, ahead) ELSE ~SurelyValid(r, ahead)
<1>0. Second \in Nat /\ Second > 0 /\ Lifetime \in Int /\ AuthAhead \in Int
  BY TokenAssumption, PlatformAssumption
<1>1. CASE r.token = Forged
  BY <1>1 DEF ValidateToken, SurelyValid
<1>2. CASE r.token # Forged
  <2> DEFINE c == r.issued + AuthAhead
  <2>1. c \in Int /\ c + Lifetime \in Int /\ r.issued \in Int /\ r.token = NewToken(r.token.tenant, c)
    BY <1>0, <1>2 DEF BearerOK, Signed
  <2> HIDE DEF c
  <2>2. \A t \in Int : t % Second \in 0..(Second - 1)
    BY <1>0
  <2>3. \A t \in Int : NumericDate(t) \in Int /\ NumericDate(t) <= t /\ t < NumericDate(t) + Second
    BY <1>0, <2>2 DEF NumericDate
  <2>4. r.token.notBefore = NumericDate(c) /\ r.token.expiresAt = NumericDate(c + Lifetime)
    BY <2>1 DEF NewToken
  <2>5. ValidateToken(r.token, now + ahead) <=>
          now + ahead >= NumericDate(c) /\ now + ahead < NumericDate(c + Lifetime)
    BY <1>2, <2>4 DEF ValidateToken
  <2>6. /\ NumericDate(c) \in Int /\ NumericDate(c) <= c /\ c < NumericDate(c) + Second
        /\ NumericDate(c + Lifetime) \in Int /\ NumericDate(c + Lifetime) <= c + Lifetime
        /\ c + Lifetime < NumericDate(c + Lifetime) + Second
    BY <2>1, <2>3
  <2>7. SurelyValid(r, ahead) => now + ahead >= c /\ now + ahead + Second <= c + Lifetime
    BY DEF SurelyValid, c
  <2>8. SurelyInvalid(r, ahead) => now + ahead + Second <= c \/ now + ahead >= c + Lifetime
    BY <1>2 DEF SurelyInvalid, c
  <2> QED
    BY <1>0, <2>1, <2>5, <2>6, <2>7, <2>8
<1> QED
  BY <1>1, <1>2

-----------------------------------------------------------------------------
(* One handler at a time                                                   *)

\* What handler u or a service does for it leaves every other handler alone.
LEMMA OthersSame ==
  ASSUME PlatformInv, NEW u \in Handlers, Exchange(u), NEW h \in Handlers, h # u
  PROVE  Same(h) /\ now' = now
<1>1. LinksInv /\ EdgeInv /\ Shapes
  BY DEF PlatformInv, LinksInv
<1>2. EdgeSame(h) /\ now' = now
  <2>1. CASE UNCHANGED edgeVars
    BY <1>1, <2>1, EdgeLeft
  <2>2. CASE Control(u)
    BY <1>1, <2>2, ControlMoves
  <2>3. CASE (\E r \in Requests : Receive(u, r)) \/ (\E s \in Statuses : Return(u, s)) \/ Close(u)
    BY <1>1, <2>3, ReceiveMoves, ReturnMoves, CloseMoves
  <2> QED
    BY <1>1, <2>1, <2>2, <2>3, ExchangeEdge
<1>3. LinkSame(h)
  <2>1. CASE Send(u) \/ EdgeControl(u)
    BY <1>1, <2>1 DEF Shapes, LinkShapes, LinkSame, Send, EdgeControl, linkVars, bankVars, clientVars
  <2>2. CASE TakeReply(u) \/ LoseReply(u) \/ Drop(u)
    BY <1>1, <2>2, HangupLeaves DEF TakeReply, LoseReply, Drop
  <2>3. CASE GiveUp(u) \/ CloseClient(u)
    BY <2>3 DEF LinkSame, GiveUp, CloseClient, linkVars, bankVars, clientVars
  <2>4. CASE AuthWorks(u)
    <3>1. UNCHANGED <<call, outcome, breq, settled>>
      BY <2>4 DEF AuthWorks, Auth!AuthStep, Auth!RefuseLogin, Auth!Sign, Auth!SignFails, Auth!GiveToken,
                  bankVars, clientVars
    <3>2. login'[h] = login[h] /\ reply'[h] = reply[h]
      <4>1. CASE Auth!RefuseLogin(u) \/ Auth!SignFails(u)
        BY <1>1, <4>1, LoginRefused DEF Shapes, LinkShapes
      <4>2. CASE Auth!Sign(u) \/ Auth!GiveToken(u)
        BY <1>1, <4>2 DEF Shapes, LinkShapes, Auth!Sign, Auth!GiveToken
      <4> QED
        BY <2>4, <4>1, <4>2 DEF AuthWorks, Auth!AuthStep
    <3> QED
      BY <3>1, <3>2 DEF LinkSame
  <2>5. CASE SearchWorks(u)
    BY <1>1, <2>5 DEF Shapes, LinkShapes, LinkSame, SearchWorks, Search!Search, bankVars, clientVars
  <2>6. CASE TransferWorks(u)
    <3>1. CASE TransferTurnsAway(u)
      <4>1. (\E s : TransferReplies(u, s)) /\ Transfers!Refuse(u) /\ UNCHANGED settled
        BY <3>1, Zenon DEF TransferTurnsAway
      <4> QED
        BY <1>1, <4>1 DEF Shapes, LinkShapes, LinkSame, TransferReplies, Transfers!Refuse
    <3>2. CASE TransferBegins(u)
      BY <1>1, <3>2 DEF Shapes, LinkShapes, LinkSame, TransferBegins, Transfers!Submit, linkVars, clientVars
    <3>3. CASE TransferSettles(u) \/ TransferRefuses(u)
      BY <1>1, <3>3 DEF Shapes, LinkShapes, LinkSame, TransferSettles, TransferRefuses, TransferReplies,
                        Transfers!Settle, Transfers!Refuse
    <3> QED
      BY <2>6, <3>1, <3>2, <3>3 DEF TransferWorks
  <2> QED
    BY <2>1, <2>2, <2>3, <2>4, <2>5, <2>6 DEF Exchange, Serve
<1> QED
  BY <1>2, <1>3 DEF Same

\* An answer, a transfer or a request that begins does so by a step for its
\* own handler.
LEMMA OwnStep ==
  ASSUME PlatformInv, [PlatformNext]_platformVars, NEW h \in Handlers,
         \/ pc[h] = "idle" /\ pc'[h] # "idle"
         \/ reply[h] = Nothing /\ reply'[h] # Nothing
         \/ outcome[h] = "idle" /\ outcome'[h] # "idle"
  PROVE  Exchange(h)
<1>1. ~Same(h)
  BY DEF Same, EdgeSame, LinkSame
<1>2. ~RestartEdge
  BY DEF RestartEdge, EdgeRestart, linkVars, bankVars
<1>3. ~(RestartAuth \/ RestartSearch \/ RestartTransfer)
  <2>1. ASSUME NEW route, CallsDie(route), reply[h] = Nothing
        PROVE  reply'[h] = Nothing
    BY <2>1 DEF CallsDie
  <2> QED
    BY <2>1 DEF RestartAuth, RestartSearch, RestartTransfer, edgeVars, handlerVars, bankVars, Transfers!Restart
<1>4. ~(PlatformTick \/ UNCHANGED platformVars)
  BY <1>1 DEF PlatformTick, EdgeTick, platformVars, edgeVars, handlerVars, linkVars, bankVars, clientVars,
              Same, EdgeSame, LinkSame
<1> QED
  BY <1>1, <1>2, <1>3, <1>4, OthersSame DEF PlatformNext

-----------------------------------------------------------------------------
(* Every service honours a token from the second after its login to the    *)
(* last one                                                                *)

LEMMA EdgeJudges ==
  ASSUME PlatformInv, NEW h \in Handlers, Exchange(h),
         pc[h] = "idle", pc'[h] # "idle", ~req'[h].namesLogin, status'[h] # 400
  PROVE  Judged(req'[h], status'[h], EdgeAhead)
<1>1. LinksInv /\ Shapes /\ EdgeInv /\ now \in Int
  BY DEF PlatformInv, LinksInv, Shapes
<1>2. Send(h)
  <2>1. ~(EdgeControl(h) \/ TakeReply(h) \/ LoseReply(h) \/ GiveUp(h) \/ CloseClient(h))
    BY <1>1, ControlMoves
       DEF EdgeControl, TakeReply, LoseReply, GiveUp, CloseClient, Deliver, CopyBreaks, ProxyFails, Return, Close
  <2>2. ~(Drop(h) \/ Serve(h))
    BY DEF Drop, Serve, AuthWorks, SearchWorks, TransferWorks, TransferTurnsAway, TransferBegins,
           TransferSettles, TransferRefuses, TransferReplies, edgeVars, handlerVars
  <2> QED
    BY <2>1, <2>2 DEF Exchange
<1>3. PICK r : BearerOK(r, now) /\ Receive(h, r)
  BY <1>1, <1>2, SendInv
<1>4. req'[h] = r /\ status'[h] = Screened(r)
  <2>1. status[h] = 0
    BY <1>1 DEF LinksInv, HandlerOK, EdgeOK
  <2> QED
    BY <1>1, <1>3, <2>1, ReceiveMoves
<1>5. Screened(r) = IF ValidateToken(r.token, now + EdgeAhead) THEN 0 ELSE 401
  BY <1>4 DEF Screened, EdgeClock
<1> QED
  BY <1>1, <1>3, <1>4, <1>5, DatesAgree, EdgeAssumption DEF Judged

LEMMA SearchJudges ==
  ASSUME PlatformInv, NEW h \in Handlers, Exchange(h),
         reply[h] = Nothing, reply'[h] # Nothing, call[h].route = "search"
  PROVE  Judged(call[h], reply'[h].status, SearchAhead)
<1>1. LinksInv /\ Shapes /\ HandlerOK(h) /\ now \in Int
  BY DEF PlatformInv, LinksInv, Shapes
<1>2. SearchWorks(h)
  <2>1. ~(Send(h) \/ EdgeControl(h) \/ GiveUp(h) \/ CloseClient(h))
    BY DEF Send, EdgeControl, GiveUp, CloseClient, linkVars
  <2>2. ~(TakeReply(h) \/ LoseReply(h) \/ Drop(h) \/ AuthWorks(h))
    BY DEF TakeReply, LoseReply, Drop, AuthWorks, Auth!AuthStep, Auth!RefuseLogin, Auth!Sign, Auth!SignFails,
           Auth!GiveToken, Auth!Arrived
  <2>3. ~TransferWorks(h)
    BY <1>1 DEF TransferWorks, TransferTurnsAway, TransferBegins, TransferSettles, TransferRefuses,
                TransferArrived, Transfers!Settle, HandlerOK, LinkOK
  <2> QED
    BY <2>1, <2>2, <2>3 DEF Exchange, Serve
<1>3. call[h] # NoRequest /\ reply'[h].status = Search!Find(call[h])
  BY <1>1, <1>2 DEF SearchWorks, Search!Search, Shapes, LinkShapes
<1>4. BearerOK(call[h], now)
  BY <1>1, <1>3 DEF HandlerOK, LinkOK, CallOK
<1>5. Search!Find(call[h]) = 401 <=> ~ValidateToken(call[h].token, now + SearchAhead)
  BY DEF Search!Find, Search!SearchAdmits, Search!SearchClock, Search!ValidateToken, ValidateToken
<1> QED
  BY <1>1, <1>3, <1>4, <1>5, DatesAgree, PlatformAssumption DEF Judged

LEMMA TransferJudges ==
  ASSUME PlatformInv, NEW h \in Handlers, Exchange(h), outcome[h] = "idle", outcome'[h] # "idle"
  PROVE  Judged(call[h], IF outcome'[h] = "pending" THEN 0 ELSE reply'[h].status, TransferAhead)
<1>1. LinksInv /\ Shapes /\ HandlerOK(h) /\ now \in Int
  BY DEF PlatformInv, LinksInv, Shapes
<1>2. TransferTurnsAway(h) \/ TransferBegins(h)
  <2>1. ~(Send(h) \/ EdgeControl(h) \/ GiveUp(h) \/ CloseClient(h) \/ AuthWorks(h) \/ SearchWorks(h))
    BY DEF Send, EdgeControl, GiveUp, CloseClient, AuthWorks, SearchWorks, bankVars
  <2>2. ~(TakeReply(h) \/ LoseReply(h) \/ Drop(h))
    BY <1>1, HangupLeaves DEF TakeReply, LoseReply, Drop
  <2>3. ~(TransferSettles(h) \/ TransferRefuses(h))
    BY DEF TransferSettles, TransferRefuses, Transfers!Settle
  <2> QED
    BY <2>1, <2>2, <2>3 DEF Exchange, Serve, TransferWorks
<1>3. call[h] # NoRequest
  BY <1>2 DEF TransferTurnsAway, TransferBegins, TransferArrived
<1>4. BearerOK(call[h], now)
  BY <1>1, <1>3 DEF HandlerOK, LinkOK, CallOK
<1>5. CASE TransferTurnsAway(h)
  <2>1. outcome'[h] = "refused"
    BY <1>1, <1>5 DEF TransferTurnsAway, Transfers!Refuse, Shapes, LinkShapes
  <2>2. PICK s \in {400, 401} :
          TransferReplies(h, s) /\ (s = 401 <=> ~ValidateToken(call[h].token, now + TransferAhead))
    <3>1. CASE ~TransferAdmits(call[h]) /\ TransferReplies(h, 401)
      BY <3>1 DEF TransferAdmits
    <3>2. CASE TransferAdmits(call[h]) /\ TransferReplies(h, 400)
      BY <3>2 DEF TransferAdmits
    <3> QED
      BY <1>5, <3>1, <3>2, Zenon DEF TransferTurnsAway
  <2>3. reply'[h].status = s
    BY <1>1, <2>2 DEF TransferReplies, Shapes, LinkShapes
  <2> QED
    BY <1>1, <1>4, <2>1, <2>2, <2>3, DatesAgree, PlatformAssumption DEF Judged
<1>6. CASE TransferBegins(h)
  <2>1. outcome'[h] = "pending"
    BY <1>1, <1>6 DEF TransferBegins, Transfers!Submit, Shapes, LinkShapes
  <2>2. ValidateToken(call[h].token, now + TransferAhead)
    BY <1>6 DEF TransferBegins, TransferAdmits
  <2> QED
    BY <1>1, <1>4, <2>1, <2>2, DatesAgree, PlatformAssumption DEF Judged
<1> QED
  BY <1>2, <1>5, <1>6

\* No service refuses a token from a second after its login to a second
\* before its end, and none accepts it earlier or later, for any clocks; the
\* edge judges it unless the request's URI names the login, and then the
\* service the request is for still does.
THEOREM TokensHonoured == PlatformSpec => TokenHonoured
<1>1. PlatformInv /\ [PlatformNext]_platformVars => [TokenStep]_platformVars
  <2> SUFFICES ASSUME PlatformInv, [PlatformNext]_platformVars PROVE TokenStep
    OBVIOUS
  <2> QED
    BY OwnStep, EdgeJudges, SearchJudges, TransferJudges DEF TokenStep
<1> QED
  BY PlatformInvariant, <1>1, PTL DEF PlatformSpec, TokenHonoured

-----------------------------------------------------------------------------
(* The contract of a transfer                                              *)

\* A step of TransferContract for one handler, or none.
ContractStep(p, m, q, n) ==
  \/ q = p /\ n = m
  \/ p = "idle" /\ q = "pending" /\ n = m
  \/ p \in {"pending", "unknown"} /\ m = 0 /\ q = p /\ n = 1
  \/ p = "pending" /\ m = 1 /\ q = "done" /\ n = m
  \/ p \in {"idle", "pending"} /\ m = 0 /\ q = "refused" /\ n = m
  \/ p = "pending" /\ q = "unknown" /\ n = m
  \/ p \in {"done", "refused", "unknown"} /\ q = "idle" /\ n = 0

LEMMA PhaseStays ==
  ASSUME NEW h \in Handlers, pc'[h] = pc[h], req'[h] = req[h], status'[h] = status[h],
         call'[h] = call[h] \/
           (~(call[h] # NoRequest /\ call[h].route = "transfer") /\
            ~(call'[h] # NoRequest /\ call'[h].route = "transfer"))
  PROVE  /\ Phase'[h] = Phase[h]
         /\ settled'[h] = settled[h] => Moved'[h] = Moved[h]
BY DEF Phase, Moved

\* A step for one handler that is a step of the contract's for it.
LEMMA OneContractStep ==
  ASSUME NEW h \in Handlers, ContractStep(Phase[h], Moved[h], Phase'[h], Moved'[h]),
         \A u \in Handlers : u # h => Phase'[u] = Phase[u] /\ Moved'[u] = Moved[u]
  PROVE  [ContractOf!Next]_(ContractOf!vars)
<1>0. /\ Phase = [u \in Handlers |-> Phase[u]] /\ Phase' = [u \in Handlers |-> Phase'[u]]
      /\ Moved = [u \in Handlers |-> Moved[u]] /\ Moved' = [u \in Handlers |-> Moved'[u]]
  BY Zenon DEF Phase, Moved
<1>1. Phase' = [Phase EXCEPT ![h] = Phase'[h]] /\ Moved' = [Moved EXCEPT ![h] = Moved'[h]]
  BY <1>0
<1>3. Moved'[h] = Moved[h] => Moved' = Moved
  BY <1>0
<1>4. Phase'[h] = Phase[h] => Phase' = Phase
  BY <1>0
<1>5. CASE Phase'[h] = Phase[h] /\ Moved'[h] = Moved[h]
  BY <1>3, <1>4, <1>5 DEF ContractOf!vars
<1>6. CASE Phase[h] \in {"pending", "unknown"} /\ Moved[h] = 0 /\ Phase'[h] = Phase[h] /\ Moved'[h] = 1
  BY <1>1, <1>4, <1>6 DEF ContractOf!Next, ContractOf!Move
<1>7. CASE Phase[h] = "idle" /\ Phase'[h] = "pending" /\ Moved'[h] = Moved[h]
  BY <1>1, <1>3, <1>7 DEF ContractOf!Next, ContractOf!Send, ContractOf!Become
<1>8. CASE Phase[h] = "pending" /\ Moved[h] = 1 /\ Phase'[h] = "done" /\ Moved'[h] = Moved[h]
  BY <1>1, <1>3, <1>8 DEF ContractOf!Next, ContractOf!Confirm, ContractOf!Become
<1>9. CASE Phase[h] \in {"idle", "pending"} /\ Moved[h] = 0 /\ Phase'[h] = "refused" /\ Moved'[h] = Moved[h]
  BY <1>1, <1>3, <1>9 DEF ContractOf!Next, ContractOf!Refuse, ContractOf!Become
<1>10. CASE Phase[h] = "pending" /\ Phase'[h] = "unknown" /\ Moved'[h] = Moved[h]
  BY <1>1, <1>3, <1>10 DEF ContractOf!Next, ContractOf!GiveUp, ContractOf!Become
<1>11. CASE Phase[h] \in {"done", "refused", "unknown"} /\ Phase'[h] = "idle" /\ Moved'[h] = 0
  BY <1>1, <1>11 DEF ContractOf!Next, ContractOf!Forget, ContractOf!Become
<1> QED
  BY <1>5, <1>6, <1>7, <1>8, <1>9, <1>10, <1>11 DEF ContractStep

LEMMA SendContract ==
  ASSUME PlatformInv, NEW h \in Handlers, Send(h)
  PROVE  ContractStep(Phase[h], Moved[h], Phase'[h], Moved'[h])
<1>1. LinksInv /\ HandlerOK(h) /\ Shapes
  BY DEF PlatformInv, LinksInv
<1>2. PICK r : Receive(h, r)
  BY <1>1, SendInv
<1>3. /\ pc[h] = "idle" /\ req'[h] = r
      /\ IF Screened(r) = 0
           THEN pc'[h] = "limit" /\ tenant'[h] = Charge(r) /\ status'[h] = status[h]
           ELSE pc'[h] = "answered" /\ status'[h] = Screened(r)
  BY <1>1, <1>2, ReceiveMoves
<1>4. Screened(r) \in {0, 400, 401}
  BY DEF Screened
<1>5. call[h] = NoRequest /\ call'[h] = NoRequest /\ settled'[h] = 0
  BY <1>1 DEF Send, linkVars, Shapes, LinkShapes
<1> QED
  BY <1>3, <1>4, <1>5 DEF Phase, Moved, ContractStep

LEMMA ControlContract ==
  ASSUME PlatformInv, NEW h \in Handlers, EdgeControl(h)
  PROVE  ContractStep(Phase[h], Moved[h], Phase'[h], Moved'[h])
<1>1. LinksInv /\ EdgeInv /\ HandlerOK(h) /\ Shapes
  BY DEF PlatformInv, LinksInv
<1>2. /\ pc[h] \in {"limit", "deny", "detect", "forward"} /\ req' = req
      /\ \/ pc'[h] \in {"deny", "detect", "forward", "proxying"} /\ status'[h] = status[h]
         \/ pc'[h] = "answered" /\ status'[h] \in {429, 403, 404}
  BY <1>1, ControlMoves DEF EdgeControl
<1>3. call[h] = NoRequest /\ settled[h] = 0 /\ settled' = settled
  BY <1>1, <1>2 DEF HandlerOK, AnswerOK, EdgeControl, clientVars
<1>4. call'[h] \in {req[h], NoRequest} /\ (call'[h] # NoRequest => pc'[h] = "proxying")
  BY <1>1, <1>3 DEF EdgeControl, Shapes, LinkShapes
<1> QED
  BY <1>2, <1>3, <1>4 DEF Phase, Moved, ContractStep

LEMMA ReturnContract ==
  ASSUME PlatformInv, NEW h \in Handlers, TakeReply(h) \/ LoseReply(h) \/ GiveUp(h)
  PROVE  ContractStep(Phase[h], Moved[h], Phase'[h], Moved'[h])
<1>1. LinksInv /\ HandlerOK(h) /\ Shapes
  BY DEF PlatformInv, LinksInv
<1>2. PICK s : /\ Return(h, s)
               /\ \/ GiveUp(h) /\ s = 502
                  \/ TakeReply(h) /\ s = reply[h].status
                  \/ LoseReply(h) /\ s = 0
  BY DEF TakeReply, LoseReply, GiveUp, Deliver, CopyBreaks, ProxyFails
<1>3. pc[h] = "proxying" /\ pc'[h] = "answered" /\ status'[h] = s /\ req' = req
  BY <1>1, <1>2, ReturnMoves
<1>4. CASE GiveUp(h) /\ s = 502
  <2>1. call' = call /\ settled' = settled /\ call[h] \in {req[h], NoRequest}
    BY <1>1, <1>3, <1>4 DEF GiveUp, linkVars, clientVars, HandlerOK, LinkOK, CallOK
  <2> QED
    BY <1>3, <1>4, <2>1 DEF Phase, Moved, ContractStep
<1>5. CASE (TakeReply(h) /\ s = reply[h].status) \/ (LoseReply(h) /\ s = 0)
  <2>1. reply[h] # Nothing /\ call'[h] = NoRequest /\ settled'[h] = settled[h]
    BY <1>1, <1>5, HangupLeaves DEF TakeReply, LoseReply
  <2>2. call[h] = req[h] /\ call[h] # NoRequest
    BY <1>1, <1>3, <2>1 DEF HandlerOK, LinkOK, CallOK
  <2>3. call[h].route = "transfer" =>
          /\ reply[h].status = 200 => settled[h] = 1
          /\ reply[h].status # 200 => settled[h] = 0 /\ reply[h].status \notin {0, 502}
    BY <1>1, <2>1, <2>2 DEF HandlerOK, TransferOK
  <2> QED
    BY <1>3, <1>5, <2>1, <2>2, <2>3 DEF Phase, Moved, ContractStep
<1> QED
  BY <1>2, <1>4, <1>5

LEMMA LeaveContract ==
  ASSUME PlatformInv, NEW h \in Handlers, Drop(h) \/ CloseClient(h)
  PROVE  ContractStep(Phase[h], Moved[h], Phase'[h], Moved'[h])
<1>1. LinksInv /\ HandlerOK(h) /\ Shapes
  BY DEF PlatformInv, LinksInv
<1>2. CASE Drop(h)
  <2>1. /\ pc[h] # "proxying" /\ reply[h] # Nothing /\ UNCHANGED <<pc, req, status>>
        /\ call'[h] = NoRequest /\ settled'[h] = settled[h]
    BY <1>1, <1>2, HangupLeaves DEF Drop, edgeVars, handlerVars
  <2>2. call[h] # NoRequest /\ (pc[h] = "idle" \/ (pc[h] = "answered" /\ req[h] = call[h] /\ status[h] = 502))
    BY <1>1, <2>1 DEF HandlerOK, LinkOK, CallOK
  <2> QED
    BY <2>1, <2>2 DEF Phase, Moved, ContractStep
<1>3. CASE CloseClient(h)
  <2>1. pc[h] = "answered" /\ pc'[h] = "idle" /\ call' = call /\ settled' = settled
    BY <1>1, <1>3, CloseMoves DEF CloseClient, linkVars, clientVars
  <2>2. call[h] # NoRequest => req[h] = call[h] /\ status[h] = 502
    BY <1>1, <2>1 DEF HandlerOK, LinkOK, CallOK
  <2> QED
    BY <2>1, <2>2 DEF Phase, Moved, ContractStep
<1> QED
  BY <1>2, <1>3

LEMMA ServeContract ==
  ASSUME PlatformInv, NEW h \in Handlers, Serve(h)
  PROVE  ContractStep(Phase[h], Moved[h], Phase'[h], Moved'[h])
<1>1. LinksInv /\ HandlerOK(h) /\ Shapes
  BY DEF PlatformInv, LinksInv
<1>2. UNCHANGED <<pc, req, status, call>>
  BY DEF Serve, AuthWorks, SearchWorks, TransferWorks, TransferTurnsAway, TransferBegins, TransferSettles,
         TransferRefuses, TransferReplies, Auth!AuthStep, Auth!RefuseLogin, Auth!Sign, Auth!SignFails,
         Auth!GiveToken, Search!Search, linkVars, edgeVars, handlerVars
<1>3. Phase'[h] = Phase[h] /\ (settled'[h] = settled[h] => Moved'[h] = Moved[h])
  BY <1>2, PhaseStays
<1>4. CASE settled' = settled
  BY <1>3, <1>4 DEF ContractStep
<1>5. CASE TransferSettles(h)
  <2>1. settled'[h] = settled[h] + 1 /\ outcome[h] = "pending"
    BY <1>1, <1>5 DEF TransferSettles, Transfers!Settle, Shapes, LinkShapes
  <2>2. call[h] # NoRequest /\ call[h].route = "transfer" /\ settled[h] = 0
    BY <1>1, <2>1 DEF HandlerOK, LinkOK, TransferOK
  <2>3. pc[h] = "idle" \/ (pc[h] \in {"proxying", "answered"} /\ req[h] = call[h] /\ (pc[h] = "answered" => status[h] = 502))
    BY <1>1, <2>2 DEF HandlerOK, LinkOK, CallOK
  <2>4. Phase[h] \in {"pending", "unknown"}
    BY <2>2, <2>3 DEF Phase
  <2>5. Moved[h] = 0 /\ Moved'[h] = 1
    BY <1>3, <2>1, <2>2, <2>4 DEF Moved
  <2> QED
    BY <1>3, <2>4, <2>5 DEF ContractStep
<1> QED
  BY <1>4, <1>5 DEF Serve, AuthWorks, SearchWorks, TransferWorks, TransferTurnsAway, TransferBegins,
                    TransferRefuses, clientVars

\* A restart is an interruption of the contract's.
LEMMA RestartContract ==
  ASSUME PlatformInv, RestartEdge \/ RestartTransfer
  PROVE  ContractOf!Interrupt
<1>1. LinksInv /\ LinksInv'
  BY RestartInv DEF PlatformInv
<1>2. Phase' \in [Handlers -> ContractOf!Phases]
  BY DEF Phase, ContractOf!Phases
<1>3. Moved' \in [Handlers -> {0, 1}]
  <2>1. \A h \in Handlers : settled'[h] \in {0, 1}
    BY <1>1 DEF LinksInv, HandlerOK, AnswerOK
  <2> QED
    BY <2>1 DEF Moved
<1>4. ASSUME NEW h \in Handlers
      PROVE  \/ Phase'[h] = Phase[h] /\ Moved'[h] = Moved[h]
             \/ Phase[h] = "pending" /\ Phase'[h] = "unknown" /\ Moved'[h] = Moved[h]
             \/ Phase'[h] = "idle" /\ Moved'[h] = 0
  <2>1. /\ call[h] # NoRequest =>
             \/ pc[h] = "idle"
             \/ pc[h] = "proxying" /\ req[h] = call[h]
             \/ pc[h] = "answered" /\ req[h] = call[h] /\ status[h] = 502
    BY <1>1 DEF LinksInv, HandlerOK, LinkOK, CallOK
  <2>2. CASE RestartEdge
    <3>1. pc'[h] = "idle" /\ call' = call /\ settled' = settled
      BY <2>2 DEF RestartEdge, EdgeRestart, linkVars
    <3> QED
      BY <2>1, <3>1 DEF Phase, Moved
  <2>3. CASE RestartTransfer
    <3>1. /\ UNCHANGED <<pc, req, status, settled>>
          /\ call'[h] = IF call[h] # NoRequest /\ call[h].route = "transfer" THEN NoRequest ELSE call[h]
      BY <2>3 DEF RestartTransfer, CallsDie, edgeVars, handlerVars
    <3> QED
      BY <3>1 DEF Phase, Moved
  <2> QED
    BY <2>2, <2>3
<1> QED
  BY <1>2, <1>3, <1>4 DEF ContractOf!Interrupt

\* The other restarts and the clock do not concern transfers.
LEMMA QuietContract ==
  ASSUME PlatformInv, RestartAuth \/ RestartSearch \/ PlatformTick \/ UNCHANGED platformVars
  PROVE  UNCHANGED (ContractOf!vars)
<1>1. UNCHANGED <<pc, req, status, settled>>
  BY DEF RestartAuth, RestartSearch, PlatformTick, EdgeTick, platformVars, edgeVars, handlerVars, clientVars
<1>2. ASSUME NEW h \in Handlers
      PROVE  Phase'[h] = Phase[h] /\ Moved'[h] = Moved[h]
  <2>1. \/ call'[h] = call[h]
        \/ /\ ~(call[h] # NoRequest /\ call[h].route = "transfer")
           /\ ~(call'[h] # NoRequest /\ call'[h].route = "transfer")
    BY DEF RestartAuth, RestartSearch, CallsDie, PlatformTick, platformVars, linkVars
  <2> QED
    BY <1>1, <2>1, PhaseStays
<1>3. /\ Phase = [u \in Handlers |-> Phase[u]] /\ Phase' = [u \in Handlers |-> Phase'[u]]
      /\ Moved = [u \in Handlers |-> Moved[u]] /\ Moved' = [u \in Handlers |-> Moved'[u]]
  BY Zenon DEF Phase, Moved
<1>4. Phase' = Phase /\ Moved' = Moved
  BY <1>2, <1>3
<1> QED
  BY <1>4 DEF ContractOf!vars

LEMMA ExchangeContract ==
  ASSUME PlatformInv, NEW h \in Handlers, Exchange(h)
  PROVE  [ContractOf!Next]_(ContractOf!vars)
<1>1. ContractStep(Phase[h], Moved[h], Phase'[h], Moved'[h])
  BY SendContract, ControlContract, ReturnContract, LeaveContract, ServeContract DEF Exchange
<1>2. ASSUME NEW u \in Handlers, u # h
      PROVE  Phase'[u] = Phase[u] /\ Moved'[u] = Moved[u]
  <2>1. Same(u)
    BY <1>2, OthersSame
  <2> QED
    BY <2>1, PhaseStays DEF Same, EdgeSame, LinkSame
<1> QED
  BY <1>1, <1>2, OneContractStep

LEMMA InitContract == PlatformInit => ContractOf!Init
<1> SUFFICES ASSUME PlatformInit PROVE ContractOf!Init
  OBVIOUS
<1>1. \A h \in Handlers : pc[h] = "idle" /\ call[h] = NoRequest
  BY DEF PlatformInit, EdgeInit
<1>2. Phase = [h \in Handlers |-> "idle"]
  BY <1>1 DEF Phase
<1>3. Moved = [h \in Handlers |-> 0]
  BY <1>2 DEF Moved
<1> QED
  BY <1>2, <1>3 DEF ContractOf!Init

\* The platform implements TransferContract: a 200 means that the money has
\* moved once, a refusal that it has not and will not, silence that it has
\* moved or will at most once, whatever breaks or restarts in between.
THEOREM ContractHolds == PlatformSpec => Contract
<1>1. PlatformInv /\ [PlatformNext]_platformVars => [ContractOf!Next]_(ContractOf!vars)
  <2> SUFFICES ASSUME PlatformInv, [PlatformNext]_platformVars
               PROVE  [ContractOf!Next]_(ContractOf!vars)
    OBVIOUS
  <2>1. CASE RestartEdge \/ RestartTransfer
    BY <2>1, RestartContract DEF ContractOf!Next
  <2>2. CASE RestartAuth \/ RestartSearch \/ PlatformTick \/ UNCHANGED platformVars
    BY <2>2, QuietContract
  <2> QED
    BY <2>1, <2>2, ExchangeContract DEF PlatformNext
<1> QED
  BY PlatformInvariant, InitContract, <1>1, PTL DEF PlatformSpec, Contract, ContractOf!Spec
=============================================================================
