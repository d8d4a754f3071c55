---------------------------- MODULE AuthService ----------------------------
(***************************************************************************)
(* cmd/auth-service/main.go: handleLogin.  A login reads the clock twice,  *)
(* once inside NewToken and once for the expiry it tells the client, and   *)
(* other things happen in between; otherwise the service keeps no state.   *)
(*                                                                         *)
(* call and reply are the connections from the edge: call[h] the request   *)
(* it has forwarded for its handler h, reply[h] the answer not yet taken.  *)
(***************************************************************************)
EXTENDS TokenManager

CONSTANTS
  Handlers, NoRequest,
  Nothing,       \* no reply, or one without a content
  Credentials,   \* tenant |-> its api_key and secret
  AuthAhead      \* how far this service's clock is ahead of now

VARIABLES
  now, call, reply,
  login   \* handler |-> the token signed and when, Nothing before

AuthClock == now + AuthAhead

AuthInit == login = [h \in Handlers |-> Nothing]

\* A login that the service has accepted and not yet answered.
Arrived(h) ==
  /\ call[h] # NoRequest
  /\ call[h].route = "login"
  /\ reply[h] = Nothing

\* Faulty variant: the key is enough.
LookupByKey(r) == {t \in DOMAIN Credentials : Credentials[t].key = r.key}

\* The tenants whose key and secret the request names, as this service decodes
\* its body: into a struct, while the edge looks up one key of a map.
Lookup(r) ==
  {t \in DOMAIN Credentials : Credentials[t] = [key |-> r.key, secret |-> r.secret]}

RefuseLogin(h) ==
  /\ Arrived(h) /\ login[h] = Nothing
  /\ \/ ~call[h].wellFormed /\ reply' = [reply EXCEPT ![h] = [status |-> 400, gives |-> Nothing]]
     \/ call[h].wellFormed /\ Lookup(call[h]) = {}
          /\ reply' = [reply EXCEPT ![h] = [status |-> 401, gives |-> Nothing]]
  /\ UNCHANGED <<call, login>>

Sign(h) ==
  /\ Arrived(h) /\ login[h] = Nothing
  /\ call[h].wellFormed
  /\ \E t \in Lookup(call[h]) :
       login' = [login EXCEPT ![h] = [token |-> NewToken(t, AuthClock), at |-> now]]
  /\ UNCHANGED <<call, reply>>

\* The signature can fail.
SignFails(h) ==
  /\ Arrived(h) /\ login[h] = Nothing
  /\ call[h].wellFormed /\ Lookup(call[h]) # {}
  /\ reply' = [reply EXCEPT ![h] = [status |-> 500, gives |-> Nothing]]
  /\ UNCHANGED <<call, login>>

\* The clock is read again for the expires_at of the answer.
GiveToken(h) ==
  /\ Arrived(h) /\ login[h] # Nothing
  /\ reply' = [reply EXCEPT ![h] =
       [status |-> 200,
        gives |-> [token |-> login[h].token, at |-> login[h].at,
                   expiresAt |-> AuthClock + Lifetime]]]
  /\ login' = [login EXCEPT ![h] = Nothing]
  /\ UNCHANGED call

AuthStep(h) == RefuseLogin(h) \/ Sign(h) \/ SignFails(h) \/ GiveToken(h)
=============================================================================
