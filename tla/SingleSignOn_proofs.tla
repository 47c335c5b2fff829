------------------------- MODULE SingleSignOn_proofs -------------------------
(***************************************************************************)
(* Proofs about SingleSignOn, for every set of tenants, operators, logins, *)
(* callbacks and administrators' requests; and, in the second part, about  *)
(* Console: what a request may do with the session a login has opened, on  *)
(* every route of the console, the REST gateway and the gRPC server.       *)
(***************************************************************************)
EXTENDS SingleSignOn, Console, SequenceTheorems, TLAPS

IdpRec ==
  [issuer : Issuers, client : Clients, secret : Secrets, enabled : BOOLEAN, jit : BOOLEAN]

OperatorRec == [email : Emails \cup {None}, active : BOOLEAN]

Taken    == [pc : {"taken"}, state : States, tenant : Tenants]
Resolved == [pc : {"resolved"}, state : States, tenant : Tenants, idp : IdpRec]
Verified == [pc : {"verified", "provision"}, tenant : Tenants, jit : BOOLEAN, token : Tokens]

CallbackRec == {Idle, Done} \cup Taken \cup Resolved \cup Verified

AdminRec ==
  {Idle, Done}
    \cup [pc : {"read", "staged"}, tenant : Tenants, domains : SUBSET Domains, idp : IdpRec]
    \cup [pc : {"deleting"}, tenant : Tenants, rows : SUBSET (Tenants \X Domains)]

SessionRec == [by : Callbacks, tenant : Tenants, principal : Principals, token : Tokens]

TypeOK ==
  /\ idp \in [Tenants -> IdpRec \cup {None}]
  /\ configured \subseteq Tenants \X Issuers \X Clients
  /\ domains \subseteq Tenants \X Domains
  /\ DOMAIN operators \subseteq Principals
  /\ operators \in [DOMAIN operators -> OperatorRec]
  /\ members \subseteq Tenants \X Principals
  /\ states \subseteq States \X Tenants
  /\ started \subseteq States
  /\ callbacks \in [Callbacks -> CallbackRec]
  /\ admins \in [Admins -> AdminRec]
  /\ provisioned \subseteq Callbacks \X Tenants \X Emails
  /\ opened \subseteq SessionRec

(***************************************************************************)
(* A login is in one place: in Redis, in one callback, which carries its   *)
(* state and later a token with its nonce, or behind it, with at most one  *)
(* session.                                                                *)
(***************************************************************************)
Carries(c, s) ==
  \/ callbacks[c].pc \in {"taken", "resolved"} /\ callbacks[c].state = s
  \/ callbacks[c].pc \in {"verified", "provision"} /\ callbacks[c].token.nonce = s

InRedis(s) == \E t \in Tenants : <<s, t>> \in states

Spent(s) == \E x \in opened : x.token.nonce = s

LoginInOnePlace ==
  /\ \A s \in States : InRedis(s) => s \in started /\ ~Spent(s)
  /\ \A s \in States : \A t, u \in Tenants : <<s, t>> \in states /\ <<s, u>> \in states => t = u
  /\ \A c \in Callbacks : \A s \in States :
       Carries(c, s) => s \in started /\ ~InRedis(s) /\ ~Spent(s)
  /\ \A c, d \in Callbacks : \A s \in States : Carries(c, s) /\ Carries(d, s) => c = d
  /\ \A x \in opened : x.token.nonce \in started
  /\ \A x, y \in opened : x.token.nonce = y.token.nonce => x = y

(***************************************************************************)
(* The provider that a tenant has and the one that a callback uses for it  *)
(* were configured for the tenant, and a verified token comes from one     *)
(* that was.                                                               *)
(***************************************************************************)
Configured(t, p) == <<t, p.issuer, p.client>> \in configured

OwnProvider ==
  /\ \A t \in Tenants : idp[t] # None => Configured(t, idp[t])
  /\ \A c \in Callbacks :
       callbacks[c].pc = "resolved" => Configured(callbacks[c].tenant, callbacks[c].idp)

Vouched(t, tok) ==
  /\ tok.alg = "RS256" /\ tok.signed /\ tok.fresh /\ tok.verified
  /\ <<t, tok.iss, tok.aud>> \in configured

VerifiedToken ==
  \A c \in Callbacks :
    callbacks[c].pc \in {"verified", "provision"} =>
      Vouched(callbacks[c].tenant, callbacks[c].token)

(***************************************************************************)
(* The unique columns of admin_operator.                                   *)
(***************************************************************************)
OneOperatorPerEmail ==
  \A p, q \in DOMAIN operators :
    operators[p].email = operators[q].email => p = q \/ operators[p].email = None

ProvisionedExist == \A x \in provisioned : x[3] \in DOMAIN operators

IInv ==
  /\ TypeOK
  /\ LoginInOnePlace
  /\ OwnProvider
  /\ VerifiedToken
  /\ OneOperatorPerEmail
  /\ ProvisionedExist
  /\ SessionOfMember
  /\ ProviderVouched
  /\ ProvisionedOnce

-----------------------------------------------------------------------------
(***************************************************************************)
(* What a callback and an administrator's request hold depends on where    *)
(* they stand.                                                             *)
(***************************************************************************)
LEMMA CallbackShape ==
  ASSUME TypeOK, NEW c \in Callbacks
  PROVE  /\ callbacks[c].pc = "taken" => callbacks[c] \in Taken
         /\ callbacks[c].pc = "resolved" => callbacks[c] \in Resolved
         /\ callbacks[c].pc \in {"verified", "provision"} => callbacks[c] \in Verified
<1>1. callbacks[c] \in CallbackRec
  BY DEF TypeOK
<1> QED
  BY <1>1 DEF CallbackRec, Idle, Done, Taken, Resolved, Verified

(***************************************************************************)
(* The fields of an administrator's request at each of its stages.         *)
(***************************************************************************)
LEMMA AdminShape ==
  ASSUME TypeOK, NEW a \in Admins
  PROVE  /\ admins[a].pc \in {"read", "staged"} =>
              admins[a] \in [pc : {"read", "staged"}, tenant : Tenants,
                             domains : SUBSET Domains, idp : IdpRec]
         /\ admins[a].pc = "deleting" =>
              admins[a] \in [pc : {"deleting"}, tenant : Tenants, rows : SUBSET (Tenants \X Domains)]
<1>1. admins[a] \in AdminRec
  BY DEF TypeOK
<1> QED
  BY <1>1 DEF AdminRec, Idle, Done

-----------------------------------------------------------------------------
(* What a step leaves alone keeps what is said of it. *)

(***************************************************************************)
(* A login is in one place, while states, callbacks and sessions do not    *)
(* change.                                                                 *)
(***************************************************************************)
LEMMA LoginFrame ==
  ASSUME LoginInOnePlace, UNCHANGED <<states, started, callbacks, opened>>
  PROVE  LoginInOnePlace'
BY DEF LoginInOnePlace, Carries, InRedis, Spent

(***************************************************************************)
(* What the callbacks hold stays true, while they and the providers do not *)
(* change.                                                                 *)
(***************************************************************************)
LEMMA CallbackFrame ==
  ASSUME OwnProvider, VerifiedToken, UNCHANGED <<idp, configured, callbacks>>
  PROVE  OwnProvider' /\ VerifiedToken'
BY DEF OwnProvider, VerifiedToken, Configured, Vouched

(***************************************************************************)
(* One operator for each email, while the operators do not change.         *)
(***************************************************************************)
LEMMA DirectoryFrame ==
  ASSUME OneOperatorPerEmail, ProvisionedExist, ProvisionedOnce,
         UNCHANGED <<operators, provisioned>>
  PROVE  OneOperatorPerEmail' /\ ProvisionedExist' /\ ProvisionedOnce'
BY DEF OneOperatorPerEmail, ProvisionedExist, ProvisionedOnce

(***************************************************************************)
(* The sessions stay those of members a provider vouched for, while        *)
(* members join and providers are configured.                              *)
(***************************************************************************)
LEMMA SessionFrame ==
  ASSUME SessionOfMember, ProviderVouched, UNCHANGED opened,
         members \subseteq members', configured \subseteq configured'
  PROVE  SessionOfMember' /\ ProviderVouched'
BY DEF SessionOfMember, ProviderVouched

-----------------------------------------------------------------------------
(* The start of a login and the provider. *)

(***************************************************************************)
(* A login starts with a state that was never used.                        *)
(***************************************************************************)
LEMMA StartStep ==
  ASSUME IInv, NEW s \in States, NEW d \in Domains, HandleSSOStart(s, d)
  PROVE  IInv'
<1>1. PICK t \in Tenants : states' = states \cup {<<s, t>>}
  BY DEF HandleSSOStart
<1>2. /\ s \notin started /\ started' = started \cup {s}
      /\ UNCHANGED <<idp, configured, domains, admins, operators, members, callbacks, provisioned, opened>>
  BY DEF HandleSSOStart, config, directory
<1>3. TypeOK'
  BY <1>1, <1>2 DEF IInv, TypeOK
<1>4. /\ \A x \in States : InRedis(x)' <=> InRedis(x) \/ x = s
      /\ \A x \in States : Spent(x)' <=> Spent(x)
      /\ \A c \in Callbacks : \A x \in States : Carries(c, x)' <=> Carries(c, x)
  BY <1>1, <1>2 DEF InRedis, Spent, Carries
<1>5. ~InRedis(s) /\ ~Spent(s) /\ \A c \in Callbacks : ~Carries(c, s)
  BY <1>2 DEF IInv, LoginInOnePlace, Spent
<1>6. \A x \in States : \A u, v \in Tenants :
        <<x, u>> \in states' /\ <<x, v>> \in states' => u = v
  BY <1>1, <1>5 DEF IInv, LoginInOnePlace, InRedis
<1>7. LoginInOnePlace'
  BY <1>2, <1>4, <1>5, <1>6 DEF IInv, LoginInOnePlace
<1> QED
  BY <1>2, <1>3, <1>7, CallbackFrame, DirectoryFrame, SessionFrame DEF IInv

(***************************************************************************)
(* A state that expires leaves Redis and no callback takes it over.        *)
(***************************************************************************)
LEMMA ExpiryStep ==
  ASSUME IInv, NEW s \in States, StateExpires(s)
  PROVE  IInv'
<1>1. /\ states' \subseteq states
      /\ UNCHANGED <<idp, configured, domains, admins, operators, members, started, callbacks,
                     provisioned, opened>>
  BY DEF StateExpires, config, directory
<1>2. TypeOK'
  BY <1>1 DEF IInv, TypeOK
<1>3. LoginInOnePlace'
  BY <1>1 DEF IInv, LoginInOnePlace, Carries, InRedis, Spent
<1> QED
  BY <1>1, <1>2, <1>3, CallbackFrame, DirectoryFrame, SessionFrame DEF IInv

-----------------------------------------------------------------------------
(* The callback. *)

(***************************************************************************)
(* A callback ends without a session: its login is behind it.              *)
(***************************************************************************)
LEMMA FailStep ==
  ASSUME IInv, NEW c \in Callbacks, Fail(c)
  PROVE  IInv'
<1>1. /\ callbacks' = [callbacks EXCEPT ![c] = Done]
      /\ UNCHANGED <<idp, configured, domains, admins, operators, members, states, started,
                     provisioned, opened>>
  BY DEF Fail, config, directory
<1>2. TypeOK'
  BY <1>1 DEF IInv, TypeOK, CallbackRec
<1>3. LoginInOnePlace'
  <2>1. \A d \in Callbacks : \A x \in States : Carries(d, x)' => Carries(d, x)
    BY <1>1 DEF IInv, TypeOK, Carries, Done
  <2> QED
    BY <1>1, <2>1 DEF IInv, LoginInOnePlace, InRedis, Spent
<1>4. OwnProvider' /\ VerifiedToken'
  BY <1>1 DEF IInv, TypeOK, OwnProvider, VerifiedToken, Configured, Vouched, Done
<1> QED
  BY <1>1, <1>2, <1>3, <1>4, DirectoryFrame, SessionFrame DEF IInv

(***************************************************************************)
(* TakeOIDCState moves a login from Redis into the callback: GETDEL.       *)
(***************************************************************************)
LEMMA TakeStep ==
  ASSUME IInv, NEW c \in Callbacks, NEW s \in States, TakeOIDCState(c, s)
  PROVE  IInv'
<1>1. PICK t \in Tenants :
        /\ <<s, t>> \in states
        /\ states' = states \ {<<s, t>>}
        /\ callbacks' = [callbacks EXCEPT ![c] = [pc |-> "taken", state |-> s, tenant |-> t]]
  BY DEF TakeOIDCState
<1>2. UNCHANGED <<idp, configured, domains, admins, operators, members, started, provisioned, opened>>
  BY DEF TakeOIDCState, config, directory
<1>3. callbacks' \in [Callbacks -> CallbackRec]
  BY <1>1 DEF IInv, TypeOK, CallbackRec, Taken
<1>4. TypeOK'
  BY <1>1, <1>2, <1>3 DEF IInv, TypeOK
<1>5. /\ \A x \in States : InRedis(x)' => InRedis(x) /\ x # s
      /\ InRedis(s)
  BY <1>1 DEF IInv, LoginInOnePlace, InRedis
<1>6. \A d \in Callbacks : \A x \in States :
        Carries(d, x)' <=> (d # c /\ Carries(d, x)) \/ (d = c /\ x = s)
  BY <1>1, <1>2 DEF IInv, TypeOK, Carries
<1>7. LoginInOnePlace'
  BY <1>1, <1>2, <1>5, <1>6 DEF IInv, LoginInOnePlace, Spent
<1>8. OwnProvider' /\ VerifiedToken'
  BY <1>1, <1>2 DEF IInv, TypeOK, OwnProvider, VerifiedToken, Configured, Vouched
<1> QED
  BY <1>2, <1>4, <1>7, <1>8, DirectoryFrame, SessionFrame DEF IInv

(***************************************************************************)
(* The callback goes on with the provider of the tenant of its state.      *)
(***************************************************************************)
LEMMA ResolveStep ==
  ASSUME IInv, NEW c \in Callbacks, ResolveIdPByTenant(c)
  PROVE  IInv'
<1> DEFINE t == callbacks[c].tenant
<1>1. /\ callbacks[c].pc = "taken" /\ idp[t] # None
      /\ callbacks' = [callbacks EXCEPT
           ![c] = [pc |-> "resolved", state |-> callbacks[c].state, tenant |-> t, idp |-> idp[t]]]
      /\ UNCHANGED <<idp, configured, domains, admins, operators, members, states, started,
                     provisioned, opened>>
  BY DEF ResolveIdPByTenant, config, directory
<1>2. callbacks[c] \in Taken
  BY <1>1, CallbackShape DEF IInv
<1>3. t \in Tenants /\ callbacks[c].state \in States /\ idp[t] \in IdpRec /\ Configured(t, idp[t])
  BY <1>1, <1>2 DEF Taken, IInv, TypeOK, OwnProvider
<1> HIDE DEF t
<1>4. [pc |-> "resolved", state |-> callbacks[c].state, tenant |-> t, idp |-> idp[t]] \in Resolved
  BY <1>3 DEF Resolved
<1>5. TypeOK'
  BY <1>1, <1>4 DEF IInv, TypeOK, CallbackRec
<1>6. \A d \in Callbacks : \A x \in States : Carries(d, x)' <=> Carries(d, x)
  BY <1>1 DEF IInv, TypeOK, Carries
<1>7. LoginInOnePlace'
  BY <1>1, <1>6 DEF IInv, LoginInOnePlace, InRedis, Spent
<1>8. OwnProvider' /\ VerifiedToken'
  BY <1>1, <1>3 DEF IInv, TypeOK, OwnProvider, VerifiedToken, Configured, Vouched
<1> QED
  BY <1>1, <1>5, <1>7, <1>8, DirectoryFrame, SessionFrame DEF IInv

(***************************************************************************)
(* The callback accepts a token: it carries the nonce of the state, so     *)
(* that the login stays where it was.                                      *)
(***************************************************************************)
LEMMA ExchangeStep ==
  ASSUME IInv, NEW c \in Callbacks, NEW tok \in Tokens, Exchange(c, tok)
  PROVE  IInv'
<1> DEFINE cb == callbacks[c]
           new == [pc |-> "verified", tenant |-> cb.tenant, jit |-> cb.idp.jit, token |-> tok]
<1>1. /\ cb.pc = "resolved" /\ VerifyIDToken(tok, cb.idp, cb.state) /\ tok.verified
      /\ callbacks' = [callbacks EXCEPT ![c] = new]
      /\ UNCHANGED <<idp, configured, domains, admins, operators, members, states, started,
                     provisioned, opened>>
  BY DEF Exchange, config, directory
<1>2. cb \in Resolved /\ Configured(cb.tenant, cb.idp)
  BY <1>1, CallbackShape DEF IInv, OwnProvider
<1>3. cb.idp \in IdpRec /\ cb.state \in States /\ cb.tenant \in Tenants /\ cb.idp.jit \in BOOLEAN
  BY <1>2 DEF Resolved, IdpRec
<1>4. Vouched(cb.tenant, tok)
  BY <1>1, <1>2 DEF VerifyIDToken, Configured, Vouched, Tokens
<1>5. tok.nonce = cb.state
  BY <1>1 DEF VerifyIDToken
<1>6. /\ new \in Verified
      /\ new.pc = "verified" /\ new.tenant = cb.tenant /\ new.token = tok
  BY <1>3, <1>5 DEF Verified
<1> HIDE DEF new
<1>7. TypeOK'
  BY <1>1, <1>6 DEF IInv, TypeOK, CallbackRec
<1>8. \A d \in Callbacks : \A x \in States : Carries(d, x)' <=> Carries(d, x)
  BY <1>1, <1>5, <1>6 DEF IInv, TypeOK, Carries
<1>9. LoginInOnePlace'
  BY <1>1, <1>8 DEF IInv, LoginInOnePlace, InRedis, Spent
<1>10. OwnProvider' /\ VerifiedToken'
  BY <1>1, <1>4, <1>6 DEF IInv, TypeOK, OwnProvider, VerifiedToken, Configured, Vouched
<1> QED
  BY <1>1, <1>7, <1>9, <1>10, DirectoryFrame, SessionFrame DEF IInv

(***************************************************************************)
(* A session is opened and the callback ends: the login that the callback  *)
(* carried is behind it, and no other callback carries it.                 *)
(***************************************************************************)
LEMMA OpenStep ==
  ASSUME IInv, NEW c \in Callbacks, NEW p \in Principals,
         callbacks[c].pc \in {"verified", "provision"},
         Open(c, callbacks[c].tenant, p),
         callbacks' = [callbacks EXCEPT ![c] = Done],
         members \subseteq members', <<callbacks[c].tenant, p>> \in members',
         UNCHANGED <<idp, configured, admins, states, started>>
  PROVE  /\ opened' \subseteq SessionRec /\ callbacks' \in [Callbacks -> CallbackRec]
         /\ LoginInOnePlace' /\ OwnProvider' /\ VerifiedToken'
         /\ SessionOfMember' /\ ProviderVouched'
<1> DEFINE cb == callbacks[c]
           new == [by |-> c, tenant |-> cb.tenant, principal |-> p, token |-> cb.token]
<1>1. cb \in Verified
  BY CallbackShape DEF IInv
<1>2. cb.tenant \in Tenants /\ cb.token \in Tokens /\ cb.token.nonce \in States
  BY <1>1 DEF Verified, Tokens
<1>3. /\ new \in SessionRec /\ opened' = opened \cup {new}
      /\ new.tenant = cb.tenant /\ new.principal = p /\ new.token = cb.token
  BY <1>2 DEF Open, SessionRec
<1> HIDE DEF new
<1>4. opened' \subseteq SessionRec /\ callbacks' \in [Callbacks -> CallbackRec]
  BY <1>3 DEF IInv, TypeOK, CallbackRec
<1>5. LoginInOnePlace'
  <2>1. \A d \in Callbacks : \A x \in States :
          Carries(d, x)' => d # c /\ Carries(d, x) /\ x # cb.token.nonce
    <3>1. \A d \in Callbacks : \A x \in States : Carries(d, x)' => d # c /\ Carries(d, x)
      BY DEF IInv, TypeOK, Carries, Done
    <3>2. Carries(c, cb.token.nonce)
      BY DEF Carries
    <3> QED
      BY <3>1, <3>2, <1>2 DEF IInv, LoginInOnePlace
  <2>2. /\ \A x \in States : InRedis(x)' <=> InRedis(x)
        /\ \A x \in States : Spent(x)' => Spent(x) \/ x = cb.token.nonce
    BY <1>3 DEF InRedis, Spent
  <2>3. cb.token.nonce \in started /\ ~InRedis(cb.token.nonce) /\ ~Spent(cb.token.nonce)
    BY <1>2 DEF IInv, LoginInOnePlace, Carries
  <2>4. \A x \in opened : x.token.nonce # cb.token.nonce
    BY <2>3 DEF Spent
  <2>5. /\ \A x \in opened' : x.token.nonce \in started
        /\ \A x, y \in opened' : x.token.nonce = y.token.nonce => x = y
    BY <1>3, <2>3, <2>4 DEF IInv, LoginInOnePlace
  <2> QED
    BY <2>1, <2>2, <2>3, <2>5 DEF IInv, LoginInOnePlace
<1>6. OwnProvider' /\ VerifiedToken'
  BY DEF IInv, TypeOK, OwnProvider, VerifiedToken, Configured, Vouched, Done
<1>7. SessionOfMember'
  BY <1>3 DEF IInv, SessionOfMember
<1>8. ProviderVouched'
  BY <1>3 DEF IInv, ProviderVouched, VerifiedToken, Vouched
<1> QED
  BY <1>4, <1>5, <1>6, <1>7, <1>8

(***************************************************************************)
(* The session of an operator that is a member of the tenant.              *)
(***************************************************************************)
LEMMA MatchStep ==
  ASSUME IInv, NEW c \in Callbacks, MatchOperator(c)
  PROVE  IInv'
<1> DEFINE cb == callbacks[c]
<1>1. PICK p \in OperatorEmailMatch(cb.tenant, cb.token.email) : Open(c, cb.tenant, p)
  BY DEF MatchOperator
<1>2. p \in Principals /\ <<cb.tenant, p>> \in members
  BY DEF OperatorEmailMatch, IInv, TypeOK
<1>3. /\ cb.pc = "verified" /\ callbacks' = [callbacks EXCEPT ![c] = Done]
      /\ UNCHANGED <<idp, configured, domains, admins, operators, members, states, started, provisioned>>
  BY DEF MatchOperator, config, directory
<1>4. /\ opened' \subseteq SessionRec /\ callbacks' \in [Callbacks -> CallbackRec]
      /\ LoginInOnePlace' /\ OwnProvider' /\ VerifiedToken'
      /\ SessionOfMember' /\ ProviderVouched'
  BY <1>1, <1>2, <1>3, OpenStep
<1>5. TypeOK'
  BY <1>3, <1>4 DEF IInv, TypeOK
<1> QED
  BY <1>3, <1>4, <1>5, DirectoryFrame DEF IInv

(***************************************************************************)
(* The callback looks for the operator with the email, before it           *)
(* provisions one.                                                         *)
(***************************************************************************)
LEMMA ProvisionCheckStep ==
  ASSUME IInv, NEW c \in Callbacks, ProvisionCheck(c)
  PROVE  IInv'
<1>1. /\ callbacks[c].pc = "verified" /\ callbacks' = [callbacks EXCEPT ![c].pc = "provision"]
      /\ UNCHANGED <<idp, configured, domains, admins, operators, members, states, started,
                     provisioned, opened>>
  BY DEF ProvisionCheck, config, directory
<1>2. callbacks[c] \in Verified
  BY <1>1, CallbackShape DEF IInv
<1>3. /\ [callbacks[c] EXCEPT !.pc = "provision"] \in Verified
      /\ [callbacks[c] EXCEPT !.pc = "provision"].pc = "provision"
      /\ [callbacks[c] EXCEPT !.pc = "provision"].token = callbacks[c].token
      /\ [callbacks[c] EXCEPT !.pc = "provision"].tenant = callbacks[c].tenant
  BY <1>2 DEF Verified
<1>4. callbacks' = [callbacks EXCEPT ![c] = [callbacks[c] EXCEPT !.pc = "provision"]]
  BY <1>1
<1>5. TypeOK'
  BY <1>1, <1>3, <1>4 DEF IInv, TypeOK, CallbackRec
<1>6. \A d \in Callbacks : \A x \in States : Carries(d, x)' <=> Carries(d, x)
  BY <1>1, <1>3, <1>4 DEF IInv, TypeOK, Carries
<1>7. LoginInOnePlace'
  BY <1>1, <1>6 DEF IInv, LoginInOnePlace, InRedis, Spent
<1>8. OwnProvider' /\ VerifiedToken'
  BY <1>1, <1>3, <1>4 DEF IInv, TypeOK, OwnProvider, VerifiedToken, Configured, Vouched
<1> QED
  BY <1>1, <1>5, <1>7, <1>8, DirectoryFrame, SessionFrame DEF IInv

(***************************************************************************)
(* The insertion of a new operator finds both unique columns free: it is   *)
(* the first with its principal and the only one with its email.           *)
(***************************************************************************)
LEMMA ProvisionStep ==
  ASSUME IInv, NEW c \in Callbacks, ProvisionOperatorForLogin(c)
  PROVE  IInv'
<1> DEFINE cb == callbacks[c]
           e == cb.token.email
<1>1. /\ cb.pc = "provision" /\ InsertJITOperatorTx(e)
      /\ members' = members \cup {<<cb.tenant, e>>}
      /\ provisioned' = provisioned \cup {<<c, cb.tenant, e>>}
      /\ Open(c, cb.tenant, e)
      /\ callbacks' = [callbacks EXCEPT ![c] = Done]
      /\ UNCHANGED <<idp, configured, domains, admins, states, started>>
  BY DEF ProvisionOperatorForLogin, config
<1>2. cb \in Verified
  BY <1>1, CallbackShape DEF IInv
<1>3. cb.tenant \in Tenants /\ e \in Emails /\ e \in Principals
  BY <1>2, SSOAssumption DEF Verified, Tokens
<1>4. /\ opened' \subseteq SessionRec /\ callbacks' \in [Callbacks -> CallbackRec]
      /\ LoginInOnePlace' /\ OwnProvider' /\ VerifiedToken'
      /\ SessionOfMember' /\ ProviderVouched'
  BY <1>1, <1>3, OpenStep
<1> HIDE DEF e
<1>5. /\ DOMAIN operators' = DOMAIN operators \cup {e} /\ e \notin DOMAIN operators
      /\ operators'[e] = Operator(e, TRUE)
      /\ \A p \in DOMAIN operators : operators'[p] = operators[p] /\ operators[p].email # e
      /\ operators' \in [DOMAIN operators' -> OperatorRec]
  BY <1>1, <1>3 DEF InsertJITOperatorTx, EmailUsed, Operator, OperatorRec, IInv, TypeOK
<1>6. TypeOK'
  BY <1>1, <1>3, <1>4, <1>5 DEF IInv, TypeOK
<1>7. OneOperatorPerEmail'
  BY <1>5 DEF IInv, OneOperatorPerEmail, Operator
<1>8. ProvisionedExist' /\ ProvisionedOnce'
  BY <1>1, <1>5 DEF IInv, ProvisionedExist, ProvisionedOnce
<1> QED
  BY <1>4, <1>6, <1>7, <1>8 DEF IInv

-----------------------------------------------------------------------------
(* Administrators. *)

(***************************************************************************)
(* Configuring or deleting a provider changes nothing that a login or a    *)
(* session rests on, and leaves every tenant with one it configured.       *)
(***************************************************************************)
LEMMA AdminFrame ==
  ASSUME IInv,
         UNCHANGED <<directory, states, started, callbacks, provisioned, opened>>,
         idp' \in [Tenants -> IdpRec \cup {None}],
         configured \subseteq configured',
         configured' \subseteq Tenants \X Issuers \X Clients,
         domains' \subseteq Tenants \X Domains,
         admins' \in [Admins -> AdminRec],
         \A t \in Tenants : idp'[t] # None => Configured(t, idp[t])'
  PROVE  IInv'
<1>1. UNCHANGED <<operators, members, states, started, callbacks, provisioned, opened>>
  BY DEF directory
<1>2. TypeOK'
  BY <1>1 DEF IInv, TypeOK
<1>3. OwnProvider' /\ VerifiedToken'
  BY <1>1 DEF IInv, OwnProvider, VerifiedToken, Configured, Vouched
<1> QED
  BY <1>1, <1>2, <1>3, LoginFrame, DirectoryFrame, SessionFrame DEF IInv

(***************************************************************************)
(* The requests of administrators alone change nothing else.               *)
(***************************************************************************)
LEMMA RequestFrame ==
  ASSUME IInv, admins' \in [Admins -> AdminRec],
         UNCHANGED <<idp, configured, domains, directory, states, started, callbacks,
                     provisioned, opened>>
  PROVE  IInv'
<1>1. \A t \in Tenants : idp'[t] # None => Configured(t, idp[t])'
  BY DEF IInv, OwnProvider, Configured
<1> QED
  BY <1>1, AdminFrame DEF IInv, TypeOK

(***************************************************************************)
(* ConfigureTenantIdp reads the configuration that is there.               *)
(***************************************************************************)
LEMMA ConfigureBeginStep ==
  ASSUME IInv, NEW a \in Admins, NEW t \in Tenants, NEW i \in Issuers, NEW k \in Clients,
         NEW secret \in Secrets \cup {None},
         NEW ds \in SUBSET Domains, NEW on \in BOOLEAN, NEW jit \in BOOLEAN,
         ConfigureBegin(a, t, i, k, secret, ds, on, jit)
  PROVE  IInv'
<1> DEFINE kept == IF secret = None THEN idp[t].secret ELSE secret
           p == Idp(i, k, kept, on, jit)
           new == [pc |-> "read", tenant |-> t, domains |-> ds, idp |-> p]
<1>1. /\ secret = None => idp[t] # None
      /\ admins' = [admins EXCEPT ![a] = new]
      /\ UNCHANGED <<idp, configured, domains, directory, states, started, callbacks,
                     provisioned, opened>>
  BY DEF ConfigureBegin
<1>2. kept \in Secrets
  <2>1. CASE secret = None
    <3>1. idp[t] \in IdpRec
      BY <1>1, <2>1 DEF IInv, TypeOK
    <3> QED
      BY <2>1, <3>1 DEF IdpRec
  <2> QED
    BY <2>1
<1> HIDE DEF kept
<1>3. p \in IdpRec
  BY <1>2 DEF Idp, IdpRec
<1> HIDE DEF p
<1>4. new \in AdminRec
  BY <1>3 DEF AdminRec
<1> HIDE DEF new
<1>5. admins' \in [Admins -> AdminRec]
  BY <1>1, <1>4 DEF IInv, TypeOK
<1> QED
  BY <1>1, <1>5, RequestFrame

(***************************************************************************)
(* ConfigureTenantIdp writes the row it made of it.                        *)
(***************************************************************************)
LEMMA ConfigureUpsertStep ==
  ASSUME IInv, NEW a \in Admins, ConfigureUpsert(a)
  PROVE  IInv'
<1> DEFINE q == admins[a]
           new == [q EXCEPT !.pc = "staged"]
<1>1. /\ q.pc = "read"
      /\ admins' = [admins EXCEPT ![a] = new]
      /\ UNCHANGED <<idp, configured, domains, directory, states, started, callbacks,
                     provisioned, opened>>
  BY DEF ConfigureUpsert
<1>2. q \in [pc : {"read", "staged"}, tenant : Tenants, domains : SUBSET Domains, idp : IdpRec]
  BY <1>1, AdminShape DEF IInv
<1>3. new \in AdminRec
  BY <1>2 DEF AdminRec
<1> HIDE DEF new
<1>4. admins' \in [Admins -> AdminRec]
  BY <1>1, <1>3 DEF IInv, TypeOK
<1> QED
  BY <1>1, <1>4, RequestFrame

(***************************************************************************)
(* The requests of an administrator that end.                              *)
(***************************************************************************)
LEMMA AdminEnds ==
  ASSUME IInv, NEW a \in Admins, admins' = [admins EXCEPT ![a] = Done]
  PROVE  admins' \in [Admins -> AdminRec]
BY DEF IInv, TypeOK, AdminRec, Done

(***************************************************************************)
(* The configuration commits if its domains are no other tenant's.         *)
(***************************************************************************)
LEMMA ConfigureCommitStep ==
  ASSUME IInv, NEW a \in Admins, ConfigureCommit(a)
  PROVE  IInv'
<1> DEFINE q == admins[a]
<1>1. /\ q.pc = "staged"
      /\ idp' = [idp EXCEPT ![q.tenant] = q.idp]
      /\ configured' = configured \cup {<<q.tenant, q.idp.issuer, q.idp.client>>}
      /\ domains' = ReplacedDomains(q.tenant, q.domains)
      /\ admins' = [admins EXCEPT ![a] = Done]
      /\ UNCHANGED <<directory, states, started, callbacks, provisioned, opened>>
  BY DEF ConfigureCommit
<1>2. q \in [pc : {"read", "staged"}, tenant : Tenants, domains : SUBSET Domains, idp : IdpRec]
  BY <1>1, AdminShape DEF IInv
<1>3. /\ q.tenant \in Tenants /\ q.domains \subseteq Domains /\ q.idp \in IdpRec
      /\ q.idp.issuer \in Issuers /\ q.idp.client \in Clients
  BY <1>2 DEF IdpRec
<1>4. domains' \subseteq Tenants \X Domains
  BY <1>1, <1>3 DEF ReplacedDomains, IInv, TypeOK
<1>5. /\ idp' \in [Tenants -> IdpRec \cup {None}]
      /\ configured \subseteq configured' /\ configured' \subseteq Tenants \X Issuers \X Clients
  BY <1>1, <1>3 DEF IInv, TypeOK
<1>6. \A t \in Tenants : idp'[t] # None => Configured(t, idp[t])'
  BY <1>1, <1>3 DEF IInv, TypeOK, OwnProvider, Configured
<1> QED
  BY <1>1, <1>4, <1>5, <1>6, AdminEnds, AdminFrame

(***************************************************************************)
(* DeleteTenantIdp commits.                                                *)
(***************************************************************************)
LEMMA DeleteStep ==
  ASSUME IInv, NEW a \in Admins, DeleteTenantIdp(a)
  PROVE  IInv'
<1> DEFINE q == admins[a]
<1>1. /\ domains' \subseteq domains
      /\ idp' = [idp EXCEPT ![q.tenant] = None]
      /\ admins' = [admins EXCEPT ![a] = Done]
      /\ UNCHANGED <<configured, directory, states, started, callbacks, provisioned, opened>>
  BY DEF DeleteTenantIdp
<1>2. /\ idp' \in [Tenants -> IdpRec \cup {None}]
      /\ \A t \in Tenants : idp'[t] # None => Configured(t, idp[t])'
  BY <1>1 DEF IInv, TypeOK, OwnProvider, Configured
<1>3. domains' \subseteq Tenants \X Domains /\ configured' \subseteq Tenants \X Issuers \X Clients
  BY <1>1 DEF IInv, TypeOK
<1> QED
  BY <1>1, <1>2, <1>3, AdminEnds, AdminFrame

(***************************************************************************)
(* DeleteTenantIdp reads the rows it will delete.                          *)
(***************************************************************************)
LEMMA DeleteBeginStep ==
  ASSUME IInv, NEW a \in Admins, NEW t \in Tenants, DeleteBegin(a, t)
  PROVE  IInv'
<1> DEFINE new == [pc |-> "deleting", tenant |-> t, rows |-> {x \in domains : x[1] = t}]
<1>1. /\ admins' = [admins EXCEPT ![a] = new]
      /\ UNCHANGED <<idp, configured, domains, directory, states, started, callbacks,
                     provisioned, opened>>
  BY DEF DeleteBegin
<1>2. new \in AdminRec
  BY DEF AdminRec, IInv, TypeOK
<1> HIDE DEF new
<1>3. admins' \in [Admins -> AdminRec]
  BY <1>1, <1>2 DEF IInv, TypeOK
<1> QED
  BY <1>1, <1>3, RequestFrame

(***************************************************************************)
(* Changes of operators keep every operator and every membership, and one  *)
(* operator per email.                                                     *)
(***************************************************************************)
LEMMA ChangeOperatorStep ==
  ASSUME IInv, NEW p \in Principals, ChangeOperator(p)
  PROVE  IInv'
<1> DEFINE Kept == /\ DOMAIN operators \subseteq DOMAIN operators'
                   /\ DOMAIN operators' \subseteq Principals
                   /\ operators' \in [DOMAIN operators' -> OperatorRec]
                   /\ OneOperatorPerEmail'
                   /\ members \subseteq members' /\ members' \subseteq Tenants \X Principals
<1>1. Kept
  <2>0. ASSUME NEW e \in Emails \cup {None}, CreateOperator(p, e) PROVE Kept
    BY <2>0 DEF CreateOperator, EmailUsed, Operator, IInv, TypeOK, OneOperatorPerEmail, OperatorRec
  <2>1. ASSUME NEW e \in Emails \cup {None}, SetOperatorEmail(p, e) PROVE Kept
    BY <2>1 DEF SetOperatorEmail, IInv, TypeOK, OneOperatorPerEmail, OperatorRec
  <2>2. ASSUME NEW active \in BOOLEAN, SetOperatorStatus(p, active) PROVE Kept
    BY <2>2 DEF SetOperatorStatus, IInv, TypeOK, OneOperatorPerEmail, OperatorRec
  <2>3. ASSUME NEW t \in Tenants, InviteMember(t, p) PROVE Kept
    BY <2>3 DEF InviteMember, Operator, IInv, TypeOK, OneOperatorPerEmail, OperatorRec
  <2> QED
    BY <2>0, <2>1, <2>2, <2>3 DEF ChangeOperator
<1>2. UNCHANGED <<idp, configured, domains, admins, states, started, callbacks, provisioned, opened>>
  BY DEF ChangeOperator, CreateOperator, SetOperatorEmail, SetOperatorStatus, InviteMember, config
<1>3. TypeOK'
  BY <1>1, <1>2 DEF IInv, TypeOK
<1>4. ProvisionedExist' /\ ProvisionedOnce'
  BY <1>1, <1>2 DEF IInv, ProvisionedExist, ProvisionedOnce
<1> QED
  BY <1>1, <1>2, <1>3, <1>4, LoginFrame, CallbackFrame, SessionFrame DEF IInv

-----------------------------------------------------------------------------
(***************************************************************************)
(* The invariant holds at the start and through every interleaving of      *)
(* logins, callbacks, providers, administrators and changes of operators.  *)
(***************************************************************************)
THEOREM Invariance == Spec => []IInv
<1>1. Init => IInv
  <2> SUFFICES ASSUME Init PROVE IInv
    OBVIOUS
  <2>0. /\ idp \in [Tenants -> IdpRec \cup {None}]
        /\ configured = {<<t, idp[t].issuer, idp[t].client>> : t \in {t \in Tenants : idp[t] # None}}
        /\ domains \subseteq Tenants \X Domains
        /\ members \subseteq Tenants \X Principals
        /\ DOMAIN operators \subseteq Principals
        /\ operators \in [DOMAIN operators -> OperatorRec]
        /\ OneOperatorPerEmail
        /\ states = {} /\ started = {} /\ provisioned = {} /\ opened = {}
        /\ callbacks = [c \in Callbacks |-> Idle] /\ admins = [a \in Admins |-> Idle]
    <3>1. idp \in [Tenants -> IdpRec \cup {None}]
      <4>1. [issuer : Issuers, client : Clients, secret : Secrets, enabled : {TRUE}, jit : {TRUE}]
              \subseteq IdpRec
        BY DEF IdpRec
      <4> QED
        BY <4>1 DEF Init
    <3>2. /\ DOMAIN operators \subseteq Principals
          /\ operators \in [DOMAIN operators -> OperatorRec]
      BY DEF Init, Operator, OperatorRec
    <3>3. members \subseteq Tenants \X Principals /\ domains \subseteq Tenants \X Domains
      BY DEF Init
    <3> QED
      BY <3>1, <3>2, <3>3 DEF Init, OneOperatorPerEmail
  <2>1. TypeOK
    <3>1. \A t \in Tenants : idp[t] # None => idp[t].issuer \in Issuers /\ idp[t].client \in Clients
      BY <2>0 DEF IdpRec
    <3>2. configured \subseteq Tenants \X Issuers \X Clients
      BY <2>0, <3>1
    <3>3. /\ callbacks \in [Callbacks -> CallbackRec]
          /\ admins \in [Admins -> AdminRec]
      BY <2>0 DEF CallbackRec, AdminRec
    <3> QED
      BY <2>0, <3>2, <3>3 DEF TypeOK
  <2>2. LoginInOnePlace
    BY <2>0 DEF LoginInOnePlace, Carries, InRedis, Spent, Idle
  <2>3. OwnProvider /\ VerifiedToken
    BY <2>0 DEF OwnProvider, VerifiedToken, Configured, Idle
  <2>4. ProvisionedExist /\ ProvisionedOnce
    BY <2>0 DEF ProvisionedExist, ProvisionedOnce
  <2>5. SessionOfMember /\ ProviderVouched
    BY <2>0 DEF SessionOfMember, ProviderVouched
  <2> QED
    BY <2>0, <2>1, <2>2, <2>3, <2>4, <2>5 DEF IInv
<1>2. IInv /\ [Next]_vars => IInv'
  <2> SUFFICES ASSUME IInv, [Next]_vars PROVE IInv'
    OBVIOUS
  <2>1. ASSUME NEW c \in Callbacks, HandleOIDCCallback(c) PROVE IInv'
    BY <2>1, TakeStep, ResolveStep, ExchangeStep, MatchStep, ProvisionCheckStep,
       ProvisionStep, FailStep DEF HandleOIDCCallback
  <2>2. ASSUME NEW a \in Admins, AdminFails(a) PROVE IInv'
    BY <2>2, AdminEnds, RequestFrame DEF AdminFails
  <2>3. ASSUME NEW a \in Admins, Configure(a) \/ Delete(a) PROVE IInv'
    BY <2>2, <2>3, ConfigureBeginStep, ConfigureUpsertStep, ConfigureCommitStep,
       DeleteBeginStep, DeleteStep DEF Configure, Delete
  <2>4. CASE UNCHANGED vars
    <3>1. UNCHANGED <<idp, configured, domains, operators, members, states, started, callbacks,
                      admins, provisioned, opened>>
      BY <2>4 DEF vars
    <3>2. TypeOK'
      BY <3>1 DEF IInv, TypeOK
    <3> QED
      BY <3>1, <3>2, LoginFrame, CallbackFrame, DirectoryFrame, SessionFrame DEF IInv
  <2> QED
    BY <2>1, <2>3, <2>4, StartStep, ExpiryStep, ChangeOperatorStep DEF Next
<1> QED
  BY <1>1, <1>2, PTL DEF Spec

(***************************************************************************)
(* TakeOIDCState hands a login to one callback and VerifyIDToken compares  *)
(* the nonce: a token opens at most one session.                           *)
(***************************************************************************)
THEOREM OneSessionTheorem == Spec => []TokenOpensOneSession
<1>1. IInv => TokenOpensOneSession
  BY DEF IInv, LoginInOnePlace, TokenOpensOneSession
<1> QED
  BY <1>1, Invariance, PTL

(***************************************************************************)
(* OperatorEmailMatch and ProvisionOperatorForLogin open sessions of       *)
(* members of the tenant only.                                             *)
(***************************************************************************)
THEOREM MemberTheorem == Spec => []SessionOfMember
<1>1. IInv => SessionOfMember
  BY DEF IInv
<1> QED
  BY <1>1, Invariance, PTL

(***************************************************************************)
(* Whatever a token endpoint answers, whichever tenants share an issuer or *)
(* a client, and however a provider is reconfigured during a login, a      *)
(* session rests on a token that a provider of the tenant signed for the   *)
(* tenant's client and whose email it vouched for.                         *)
(***************************************************************************)
THEOREM VouchedTheorem == Spec => []ProviderVouched
<1>1. IInv => ProviderVouched
  BY DEF IInv
<1> QED
  BY <1>1, Invariance, PTL

(***************************************************************************)
(* InsertJITOperatorTx creates an operator at most once, although two      *)
(* callbacks may both have found its email unused.                         *)
(***************************************************************************)
THEOREM ProvisionedTheorem == Spec => []ProvisionedOnce
<1>1. IInv => ProvisionedOnce
  BY DEF IInv
<1> QED
  BY <1>1, Invariance, PTL

-----------------------------------------------------------------------------
(***************************************************************************)
(* The front ends.                                                         *)
(***************************************************************************)
(* The stages a handler can have: what they do, and the method they name. *)
Kinds ==
  {"session", "csrf", "confirm", "dry", "authn", "decode", "authz", "try", "self", "status",
   "call", "flash", "lookup", "peek", "set", "take", "clear"}

RpcNames ==
  {"AddRoleInheritance", "ApplyTemplate", "ApplyTenantTemplate", "BatchDeleteDataPolicy",
   "BatchDeleteRole", "BatchRemoveRoleInheritance", "BatchRevokePermission",
   "BatchUnbindUserRole", "BindOperatorRole", "BindUserRole", "ChangeTenantPlan",
   "ConfigureTenantIdp", "CreateAdminRole", "CreateApplication", "CreateBusinessRole",
   "CreateOperator", "CreateRole", "DeleteDataPolicy", "DeleteRole", "DeleteTenantIdp",
   "DeleteTenantTemplate", "ExplainDecision", "ExportAppPolicy", "GetApplication",
   "GetEffectivePermissions", "GetRoleGraph", "GetTenantIdp", "GetTenantTemplate",
   "GetTenantUsage", "GrantAdminRole", "GrantPermission", "ImportAppPolicy", "InviteMember",
   "ListAdminRoles", "ListApplications", "ListDataPolicies", "ListGrants", "ListMembers",
   "ListMyTenants", "ListOperators", "ListPermissions", "ListRoleInheritances", "ListRoles",
   "ListTemplates", "ListTenantTemplates", "ListUserBindings", "PreviewDataFilter",
   "QueryAdminAuditLog", "QueryAuditLog", "RegisterTenant", "RemoveRoleInheritance",
   "ResetOperatorSecret", "RevokeAdminGrant", "RevokePermission", "RotateApplicationSecret",
   "SaveAppAsTemplate", "SetApplicationStatus", "SetOperatorEmail", "SetOperatorStatus",
   "SimulateRoleChange", "UnbindOperatorRole", "UnbindUserRole", "UpsertDataPolicy",
   "UpsertPermission"}

Methods == RpcNames \cup {""}

StageRec == [do : Kinds, rpc : Methods]

Prompts == ConfirmPrompts \cup {"ImportAppPolicy"}

(* A stage before the i-th does one of dos for method m. *)
Earlier(S, i, dos, m) == \E j \in 1..(i - 1) : S[j].do \in dos /\ S[j].rpc = m

(* Every call and every look-up of a status is authorised by a stage       *)
(* before it, or by the attempt just before it, unless its method is in A. *)
Guarded(S, A) ==
  \A i \in 1..Len(S) :
    S[i].do \in {"call", "status"} =>
      \/ S[i].rpc \in A
      \/ Earlier(S, i, {"authz", "self"}, S[i].rpc)
      \/ i > 1 /\ S[i - 1].do = "try" /\ S[i - 1].rpc = S[i].rpc

(* Every call of a policy write comes after the status of its method was   *)
(* checked, unless its method is in C.                                     *)
Checking(S, C) ==
  \A i \in 1..Len(S) :
    S[i].do = "call" /\ IsWrite(S[i].rpc) =>
      S[i].rpc \in C \/ Earlier(S, i, {"status"}, S[i].rpc)

(* An attempt is followed by the call it is about. *)
Paired(S) ==
  \A i \in 1..Len(S) : S[i].do = "try" => i < Len(S) /\ S[i + 1].do = "call"

Safe(S, A, C) == S \in Seq(StageRec) /\ Guarded(S, A) /\ Checking(S, C) /\ Paired(S)

(* What must be confirmed is called after the confirmation. *)
Asks(S) ==
  \A i \in 1..Len(S) :
    S[i].do = "call" /\ S[i].rpc \in Prompts =>
      \E j \in 1..(i - 1) : S[j].do \in {"confirm", "dry"}

(* The message is decoded before anything but the authentication. *)
DecodesFirst(S) ==
  \A i \in 1..Len(S) : S[i].do = "decode" => \A j \in 1..(i - 1) : S[j].do = "authn"

NoDecode(S) == \A i \in 1..Len(S) : S[i].do # "decode"

-----------------------------------------------------------------------------
(* Stages. *)

(* Two safe sequences of stages, one after the other. *)
LEMMA SafeConcat ==
  ASSUME NEW A, NEW C, NEW S, NEW R, Safe(S, A, C), Safe(R, A, C)
  PROVE  Safe(S \o R, A, C)
<1> DEFINE T == S \o R
<1>1. S \in Seq(StageRec) /\ R \in Seq(StageRec)
  BY DEF Safe
<1>2. T \in Seq(StageRec) /\ Len(T) = Len(S) + Len(R) /\ Len(S) \in Nat /\ Len(R) \in Nat
  BY <1>1
<1>3. /\ \A i \in 1..Len(S) : T[i] = S[i]
      /\ \A i \in 1..Len(R) : T[Len(S) + i] = R[i]
  BY <1>1, <1>2
<1>4. \A i \in 1..Len(T) : i \in 1..Len(S) \/ \E k \in 1..Len(R) : i = Len(S) + k
  <2> TAKE i \in 1..Len(T)
  <2>1. i \in 1..Len(S) \/ (i - Len(S) \in 1..Len(R) /\ i = Len(S) + (i - Len(S)))
    BY <1>2
  <2> QED
    BY <2>1
<1>5. \A dos, m : \A i \in 1..Len(S) : Earlier(S, i, dos, m) => Earlier(T, i, dos, m)
  BY <1>2, <1>3 DEF Earlier
<1>6. \A dos, m : \A k \in 1..Len(R) : Earlier(R, k, dos, m) => Earlier(T, Len(S) + k, dos, m)
  <2> TAKE dos, m
  <2> TAKE k \in 1..Len(R)
  <2>1. HAVE Earlier(R, k, dos, m)
  <2>2. PICK j \in 1..(k - 1) : R[j].do \in dos /\ R[j].rpc = m
    BY <2>1 DEF Earlier
  <2>3. j \in 1..Len(R) /\ Len(S) + j \in 1..(Len(S) + k - 1)
    BY <1>2
  <2> QED
    BY <1>3, <2>2, <2>3 DEF Earlier
<1> HIDE DEF T
<1>7. Guarded(T, A)
  <2> SUFFICES ASSUME NEW i \in 1..Len(T), T[i].do \in {"call", "status"}, T[i].rpc \notin A,
                      ~Earlier(T, i, {"authz", "self"}, T[i].rpc)
               PROVE  i > 1 /\ T[i - 1].do = "try" /\ T[i - 1].rpc = T[i].rpc
    BY DEF Guarded
  <2>1. CASE i \in 1..Len(S)
    <3>1. T[i] = S[i]
      BY <1>3, <2>1
    <3>2. ~Earlier(S, i, {"authz", "self"}, S[i].rpc)
      BY <1>5, <2>1, <3>1
    <3>3. i > 1 /\ S[i - 1].do = "try" /\ S[i - 1].rpc = S[i].rpc
      BY <2>1, <3>1, <3>2 DEF Safe, Guarded
    <3>4. i - 1 \in 1..Len(S)
      BY <1>2, <2>1, <3>3
    <3> QED
      BY <1>3, <3>1, <3>3, <3>4
  <2>2. ASSUME NEW k \in 1..Len(R), i = Len(S) + k
        PROVE  i > 1 /\ T[i - 1].do = "try" /\ T[i - 1].rpc = T[i].rpc
    <3>1. T[i] = R[k]
      BY <1>3, <2>2
    <3>2. ~Earlier(R, k, {"authz", "self"}, R[k].rpc)
      BY <1>6, <2>2, <3>1
    <3>3. k > 1 /\ R[k - 1].do = "try" /\ R[k - 1].rpc = R[k].rpc
      BY <2>2, <3>1, <3>2 DEF Safe, Guarded
    <3>4. k - 1 \in 1..Len(R) /\ Len(S) + (k - 1) = i - 1 /\ i > 1
      BY <1>2, <2>2, <3>3
    <3>5. T[i - 1] = R[k - 1]
      BY <1>3, <3>4
    <3> QED
      BY <3>1, <3>3, <3>4, <3>5
  <2> QED
    BY <1>4, <2>1, <2>2
<1>8. Checking(T, C)
  <2> SUFFICES ASSUME NEW i \in 1..Len(T), T[i].do = "call", IsWrite(T[i].rpc), T[i].rpc \notin C
               PROVE  Earlier(T, i, {"status"}, T[i].rpc)
    BY DEF Checking
  <2>1. CASE i \in 1..Len(S)
    BY <1>3, <1>5, <2>1 DEF Safe, Checking
  <2>2. ASSUME NEW k \in 1..Len(R), i = Len(S) + k
        PROVE  Earlier(T, i, {"status"}, T[i].rpc)
    BY <1>3, <1>6, <2>2 DEF Safe, Checking
  <2> QED
    BY <1>4, <2>1, <2>2
<1>9. Paired(T)
  <2> SUFFICES ASSUME NEW i \in 1..Len(T), T[i].do = "try"
               PROVE  i < Len(T) /\ T[i + 1].do = "call"
    BY DEF Paired
  <2>1. CASE i \in 1..Len(S)
    <3>1. i < Len(S) /\ S[i + 1].do = "call"
      BY <1>3, <2>1 DEF Safe, Paired
    <3>2. i + 1 \in 1..Len(S)
      BY <1>2, <3>1
    <3> QED
      BY <1>2, <1>3, <3>1, <3>2
  <2>2. ASSUME NEW k \in 1..Len(R), i = Len(S) + k
        PROVE  i < Len(T) /\ T[i + 1].do = "call"
    <3>1. k < Len(R) /\ R[k + 1].do = "call"
      BY <1>3, <2>2 DEF Safe, Paired
    <3>2. k + 1 \in 1..Len(R) /\ Len(S) + (k + 1) = i + 1 /\ i < Len(T)
      BY <1>2, <2>2, <3>1
    <3> QED
      BY <1>3, <3>1, <3>2
  <2> QED
    BY <1>4, <2>1, <2>2
<1> QED
  BY <1>2, <1>7, <1>8, <1>9 DEF Safe, T

(* What is left after the first stage is safe, given what it did. *)
LEMMA SafeTail ==
  ASSUME NEW A, NEW C, NEW S, Safe(S, A, C), S # <<>>, NEW B, NEW D,
         A \subseteq B, C \subseteq D,
         Head(S).do \in {"authz", "self", "try"} => Head(S).rpc \in B,
         Head(S).do = "status" => Head(S).rpc \in D
  PROVE  Safe(Tail(S), B, D)
<1> DEFINE T == Tail(S)
<1>1. S \in Seq(StageRec)
  BY DEF Safe
<1>2. /\ T \in Seq(StageRec) /\ Len(S) \in Nat /\ Len(S) > 0 /\ Len(T) = Len(S) - 1
      /\ \A i \in 1..Len(T) : T[i] = S[i + 1] /\ i + 1 \in 1..Len(S)
      /\ Head(S) = S[1]
  BY <1>1
<1> HIDE DEF T
<1>3. \A dos, m : \A i \in 1..Len(T) :
        Earlier(S, i + 1, dos, m) => Earlier(T, i, dos, m) \/ (S[1].do \in dos /\ S[1].rpc = m)
  <2> TAKE dos, m
  <2> TAKE i \in 1..Len(T)
  <2>1. HAVE Earlier(S, i + 1, dos, m)
  <2>2. PICK j \in 1..(i + 1 - 1) : S[j].do \in dos /\ S[j].rpc = m
    BY <2>1 DEF Earlier
  <2>3. j = 1 \/ (j - 1 \in 1..(i - 1) /\ j - 1 \in 1..Len(T) /\ (j - 1) + 1 = j)
    BY <1>2
  <2>4. CASE j = 1
    BY <2>2, <2>4
  <2>5. CASE j - 1 \in 1..(i - 1) /\ j - 1 \in 1..Len(T) /\ (j - 1) + 1 = j
    BY <1>2, <2>2, <2>5 DEF Earlier
  <2> QED
    BY <2>3, <2>4, <2>5
<1>4. Guarded(T, B)
  <2> SUFFICES ASSUME NEW i \in 1..Len(T), T[i].do \in {"call", "status"}, T[i].rpc \notin B,
                      ~Earlier(T, i, {"authz", "self"}, T[i].rpc)
               PROVE  i > 1 /\ T[i - 1].do = "try" /\ T[i - 1].rpc = T[i].rpc
    BY DEF Guarded
  <2>1. T[i] = S[i + 1] /\ i + 1 \in 1..Len(S)
    BY <1>2
  <2>2. ~Earlier(S, i + 1, {"authz", "self"}, S[i + 1].rpc)
    BY <1>2, <1>3, <2>1
  <2>3. S[i + 1 - 1].do = "try" /\ S[i + 1 - 1].rpc = S[i + 1].rpc
    BY <2>1, <2>2 DEF Safe, Guarded
  <2>4. i # 1
    BY <1>2, <2>1, <2>3
  <2>5. i > 1 /\ i - 1 \in 1..Len(T) /\ (i - 1) + 1 = i + 1 - 1
    BY <1>2, <2>4
  <2>6. T[i - 1] = S[i + 1 - 1]
    BY <1>2, <2>5
  <2> QED
    BY <2>1, <2>3, <2>5, <2>6
<1>5. Checking(T, D)
  <2> SUFFICES ASSUME NEW i \in 1..Len(T), T[i].do = "call", IsWrite(T[i].rpc), T[i].rpc \notin D
               PROVE  Earlier(T, i, {"status"}, T[i].rpc)
    BY DEF Checking
  <2>1. T[i] = S[i + 1] /\ i + 1 \in 1..Len(S)
    BY <1>2
  <2>2. Earlier(S, i + 1, {"status"}, S[i + 1].rpc)
    BY <2>1 DEF Safe, Checking
  <2> QED
    BY <1>2, <1>3, <2>1, <2>2
<1>6. Paired(T)
  <2> SUFFICES ASSUME NEW i \in 1..Len(T), T[i].do = "try"
               PROVE  i < Len(T) /\ T[i + 1].do = "call"
    BY DEF Paired
  <2>1. i + 1 < Len(S) /\ S[i + 1 + 1].do = "call"
    BY <1>2 DEF Safe, Paired
  <2>2. i < Len(T) /\ i + 1 \in 1..Len(T)
    BY <1>2, <2>1
  <2> QED
    BY <1>2, <2>1, <2>2
<1> QED
  BY <1>2, <1>4, <1>5, <1>6 DEF Safe, T

(* What is left when an attempt and its call are left out. *)
LEMMA SafeSkip ==
  ASSUME NEW A, NEW C, NEW S, Safe(S, A, C), S # <<>>, Head(S).do = "try"
  PROVE  /\ 1 < Len(S) /\ S[2].do = "call"
         /\ Safe(SubSeq(S, 3, Len(S)), A, C)
         /\ Len(SubSeq(S, 3, Len(S))) = Len(S) - 2
         /\ \A i \in 1..(Len(S) - 2) : SubSeq(S, 3, Len(S))[i] = S[i + 2]
<1> DEFINE T == SubSeq(S, 3, Len(S))
<1>1. S \in Seq(StageRec) /\ Paired(S) /\ Guarded(S, A) /\ Checking(S, C)
  BY DEF Safe
<1>2. Len(S) \in Nat /\ Len(S) > 0 /\ Head(S) = S[1]
  BY <1>1
<1>3. 1 < Len(S) /\ S[1].do = "try" /\ S[2].do = "call"
  BY <1>1, <1>2 DEF Paired
<1>4. /\ T \in Seq(StageRec) /\ Len(T) = Len(S) - 2
      /\ \A i \in 1..Len(T) : T[i] = S[i + 2] /\ i + 2 \in 1..Len(S)
  <2>1. \A i \in 3..Len(S) : S[i] \in StageRec
    BY <1>1, <1>2
  <2>2. /\ T \in Seq(StageRec)
        /\ Len(T) = IF 3 <= Len(S) THEN Len(S) - 3 + 1 ELSE 0
        /\ \A i \in 1..(Len(S) - 3 + 1) : T[i] = S[3 + i - 1]
    BY <1>2, <2>1, SubSeqProperties
  <2> HIDE DEF T
  <2>3. Len(T) = Len(S) - 2
    <3>1. CASE Len(S) > 2
      BY <1>2, <2>2, <3>1
    <3>2. CASE Len(S) = 2
      BY <2>2, <3>2
    <3>3. Len(S) > 2 \/ Len(S) = 2
      BY <1>2, <1>3
    <3> QED
      BY <3>1, <3>2, <3>3
  <2> QED
    BY <1>2, <2>2, <2>3
<1> HIDE DEF T
<1>5. \A dos \in SUBSET {"authz", "self", "status"} : \A m : \A i \in 1..Len(T) :
        Earlier(S, i + 2, dos, m) => Earlier(T, i, dos, m)
  <2> TAKE dos \in SUBSET {"authz", "self", "status"}
  <2> TAKE m
  <2> TAKE i \in 1..Len(T)
  <2>1. HAVE Earlier(S, i + 2, dos, m)
  <2>2. PICK j \in 1..(i + 2 - 1) : S[j].do \in dos /\ S[j].rpc = m
    BY <2>1 DEF Earlier
  <2>3. j # 1 /\ j # 2
    BY <1>3, <2>2
  <2>4. j - 2 \in 1..(i - 1) /\ j - 2 \in 1..Len(T) /\ (j - 2) + 2 = j
    BY <1>4, <2>3
  <2> QED
    BY <1>4, <2>2, <2>4 DEF Earlier
<1>6. Guarded(T, A)
  <2> SUFFICES ASSUME NEW i \in 1..Len(T), T[i].do \in {"call", "status"}, T[i].rpc \notin A,
                      ~Earlier(T, i, {"authz", "self"}, T[i].rpc)
               PROVE  i > 1 /\ T[i - 1].do = "try" /\ T[i - 1].rpc = T[i].rpc
    BY DEF Guarded
  <2>1. T[i] = S[i + 2] /\ i + 2 \in 1..Len(S)
    BY <1>4
  <2>2. ~Earlier(S, i + 2, {"authz", "self"}, S[i + 2].rpc)
    BY <1>5, <2>1
  <2>3. S[i + 2 - 1].do = "try" /\ S[i + 2 - 1].rpc = S[i + 2].rpc
    BY <1>1, <2>1, <2>2 DEF Guarded
  <2>4. i # 1
    BY <1>3, <2>3
  <2>5. i > 1 /\ i - 1 \in 1..Len(T) /\ (i - 1) + 2 = i + 2 - 1
    BY <1>4, <2>4
  <2>6. T[i - 1] = S[i + 2 - 1]
    BY <1>4, <2>5
  <2> QED
    BY <2>1, <2>3, <2>5, <2>6
<1>7. Checking(T, C)
  <2> SUFFICES ASSUME NEW i \in 1..Len(T), T[i].do = "call", IsWrite(T[i].rpc), T[i].rpc \notin C
               PROVE  Earlier(T, i, {"status"}, T[i].rpc)
    BY DEF Checking
  <2>1. T[i] = S[i + 2] /\ i + 2 \in 1..Len(S)
    BY <1>4
  <2>2. Earlier(S, i + 2, {"status"}, S[i + 2].rpc)
    BY <1>1, <2>1 DEF Checking
  <2> QED
    BY <1>5, <2>1, <2>2
<1>8. Paired(T)
  <2> SUFFICES ASSUME NEW i \in 1..Len(T), T[i].do = "try"
               PROVE  i < Len(T) /\ T[i + 1].do = "call"
    BY DEF Paired
  <2>1. i + 2 < Len(S) /\ S[i + 2 + 1].do = "call"
    BY <1>1, <1>4 DEF Paired
  <2>2. i < Len(T) /\ i + 1 \in 1..Len(T) /\ (i + 1) + 2 = i + 2 + 1
    BY <1>2, <1>4, <2>1
  <2> QED
    BY <1>4, <2>1, <2>2
<1> QED
  BY <1>3, <1>4, <1>6, <1>7, <1>8 DEF Safe, T

(* A handler that asks first still does when a stage is done that asks     *)
(* nothing.                                                                *)
LEMMA AsksRest ==
  ASSUME NEW S, NEW T, NEW n \in Nat, Asks(S), Len(S) \in Nat, n <= Len(S),
         Len(T) = Len(S) - n, \A i \in 1..Len(T) : T[i] = S[i + n],
         \A i \in 1..n : S[i].do \notin {"confirm", "dry"}
  PROVE  Asks(T)
<1> SUFFICES ASSUME NEW i \in 1..Len(T), T[i].do = "call", T[i].rpc \in Prompts
             PROVE  \E j \in 1..(i - 1) : T[j].do \in {"confirm", "dry"}
  BY DEF Asks
<1>1. i + n \in 1..Len(S) /\ T[i] = S[i + n]
  OBVIOUS
<1>2. PICK j \in 1..(i + n - 1) : S[j].do \in {"confirm", "dry"}
  <2> DEFINE k == i + n
  <2>1. k \in 1..Len(S) /\ S[k].do = "call" /\ S[k].rpc \in Prompts
    BY <1>1
  <2> HIDE DEF k
  <2>2. \E j \in 1..(k - 1) : S[j].do \in {"confirm", "dry"}
    BY <2>1 DEF Asks
  <2> QED
    BY <2>2 DEF k
<1>3. j \notin 1..n
  BY <1>2
<1>4. j - n \in 1..(i - 1) /\ j - n \in 1..Len(T) /\ (j - n) + n = j
  BY <1>3
<1> QED
  BY <1>2, <1>4

(* Confirmations before calls, in two sequences one after the other; once  *)
(* the first has asked, the second may call.                               *)
LEMMA AsksConcat ==
  ASSUME NEW S \in Seq(StageRec), NEW R \in Seq(StageRec), Asks(S),
         Asks(R) \/ \E j \in 1..Len(S) : S[j].do \in {"confirm", "dry"}
  PROVE  Asks(S \o R)
<1> DEFINE T == S \o R
<1>1. /\ T \in Seq(StageRec) /\ Len(T) = Len(S) + Len(R) /\ Len(S) \in Nat /\ Len(R) \in Nat
      /\ \A i \in 1..Len(S) : T[i] = S[i]
      /\ \A i \in 1..Len(R) : T[Len(S) + i] = R[i]
  OBVIOUS
<1> HIDE DEF T
<1> SUFFICES ASSUME NEW i \in 1..Len(T), T[i].do = "call", T[i].rpc \in Prompts
             PROVE  \E j \in 1..(i - 1) : T[j].do \in {"confirm", "dry"}
  BY DEF Asks, T
<1>2. CASE i \in 1..Len(S)
  <2>1. PICK j \in 1..(i - 1) : S[j].do \in {"confirm", "dry"}
    BY <1>1, <1>2 DEF Asks
  <2>2. j \in 1..Len(S)
    BY <1>1, <1>2
  <2> QED
    BY <1>1, <2>1, <2>2
<1>3. CASE i \notin 1..Len(S) /\ \E j \in 1..Len(S) : S[j].do \in {"confirm", "dry"}
  <2>1. PICK j \in 1..Len(S) : S[j].do \in {"confirm", "dry"}
    BY <1>3
  <2>2. j \in 1..(i - 1)
    BY <1>1, <1>3
  <2> QED
    BY <1>1, <2>1, <2>2
<1>4. CASE i \notin 1..Len(S) /\ Asks(R)
  <2>1. i - Len(S) \in 1..Len(R) /\ Len(S) + (i - Len(S)) = i
    BY <1>1, <1>4
  <2>2. T[i] = R[i - Len(S)]
    BY <1>1, <2>1
  <2>3. PICK j \in 1..(i - Len(S) - 1) : R[j].do \in {"confirm", "dry"}
    BY <1>4, <2>1, <2>2 DEF Asks
  <2>4. j \in 1..Len(R) /\ Len(S) + j \in 1..(i - 1)
    BY <1>1, <2>1
  <2> QED
    BY <1>1, <2>3, <2>4
<1> QED
  BY <1>2, <1>3, <1>4

-----------------------------------------------------------------------------
(* The handlers. *)

(* A part of a handler of the console that may follow a confirmation, and  *)
(* one that may stand alone.                                               *)
Part(S) == Safe(S, UnauthenticatedMethods, {}) /\ NoDecode(S)
Whole(S) == Part(S) /\ Asks(S)

(* The methods that write the policy of an application. *)
PolicyWrites ==
  {"CreateRole", "CreateBusinessRole", "DeleteRole", "BatchDeleteRole", "ApplyTemplate",
   "ApplyTenantTemplate", "UpsertPermission", "GrantPermission", "RevokePermission",
   "BatchRevokePermission", "AddRoleInheritance", "RemoveRoleInheritance",
   "BatchRemoveRoleInheritance", "BindUserRole", "UnbindUserRole", "BatchUnbindUserRole",
   "UpsertDataPolicy", "DeleteDataPolicy", "BatchDeleteDataPolicy", "ImportAppPolicy"}

(* Only these have a rule that is marked as a write. *)
LEMMA WriteMethods ==
  ASSUME NEW m, IsWrite(m)
  PROVE  m \in PolicyWrites
<1>1. m \in KnownMethods /\ RuleTable[m].isWrite
  BY DEF IsWrite
<1> DEFINE row == CHOOSE row \in RuleRows : m \in row.methods
<1>2. \E r \in RuleRows : m \in r.methods
  BY <1>1 DEF KnownMethods
<1>3. row \in RuleRows /\ m \in row.methods
  BY <1>2
<1>4. row.rule.isWrite
  BY <1>1 DEF RuleTable
<1> HIDE DEF row
<1>5. row \notin AppOtherRules
  BY <1>4 DEF AppOtherRules, Row, Rule
<1>6. row \notin TenantRules
  BY <1>4 DEF TenantRules, Row, Rule
<1>7. row \notin SystemRules
  BY <1>4 DEF SystemRules, Row, Rule
<1>10. row \notin SelfRules
  <2>1. PICK e : SelfRules = {Row(Rule(e, e, FALSE, "self"), {"ListMyTenants"})}
    BY Zenon DEF SelfRules
  <2> QED
    BY <1>4, <2>1 DEF Row, Rule
<1>8. row \in AppWriteRules
  BY <1>3, <1>5, <1>6, <1>7, <1>10 DEF RuleRows
<1>9. \A r \in AppWriteRules : r.methods \subseteq PolicyWrites
  BY SMTT(60) DEF AppWriteRules, PolicyWrites, Row, Rule
<1> QED
  BY <1>3, <1>8, <1>9

(* Parts one after the other. *)
LEMMA WholeConcat ==
  ASSUME NEW S, NEW R, Whole(S), Whole(R)
  PROVE  Whole(S \o R)
<1>1. S \in Seq(StageRec) /\ R \in Seq(StageRec)
  BY DEF Whole, Part, Safe
<1>2. Safe(S \o R, UnauthenticatedMethods, {})
  BY SafeConcat DEF Whole, Part
<1>3. Asks(S \o R)
  BY <1>1, AsksConcat DEF Whole
<1>4. NoDecode(S \o R)
  BY <1>1 DEF Whole, Part, NoDecode
<1> QED
  BY <1>2, <1>3, <1>4 DEF Whole, Part

(* What a stage is. *)
LEMMA StageTypes ==
  /\ \A k \in Kinds : Do(k) \in StageRec /\ Do(k).do = k
  /\ \A k \in Kinds, m \in Methods : Of(k, m) \in StageRec /\ Of(k, m).do = k /\ Of(k, m).rpc = m
<1>1. "" \in Methods
  BY DEF Methods, RpcNames
<1> QED
  BY <1>1 DEF Of, Do, StageRec

(* Short sequences. *)
LEMMA Tuples ==
  ASSUME NEW a \in StageRec, NEW b \in StageRec, NEW c \in StageRec, NEW d \in StageRec
  PROVE  /\ <<a>> \in Seq(StageRec) /\ Len(<<a>>) = 1 /\ <<a>>[1] = a
         /\ <<a, b>> \in Seq(StageRec) /\ Len(<<a, b>>) = 2
         /\ <<a, b>>[1] = a /\ <<a, b>>[2] = b
         /\ <<a, b, c>> \in Seq(StageRec) /\ Len(<<a, b, c>>) = 3
         /\ <<a, b, c>>[1] = a /\ <<a, b, c>>[2] = b /\ <<a, b, c>>[3] = c
         /\ <<a, b, c, d>> \in Seq(StageRec) /\ Len(<<a, b, c, d>>) = 4
         /\ <<a, b, c, d>>[1] = a /\ <<a, b, c, d>>[2] = b
         /\ <<a, b, c, d>>[3] = c /\ <<a, b, c, d>>[4] = d
OBVIOUS

(* The stages that neither check nor call anything. *)
Quiet == {"session", "csrf", "flash", "lookup", "peek"}

(* The pages that call nothing. *)
LEMMA SessionWhole ==
  /\ Whole(Session) /\ Whole(Csrf) /\ Whole(<<Do("flash")>>) /\ Whole(<<>>)
  /\ Whole(TenantOfApp) /\ Whole(TryTenantOfApp)
<1>1. ASSUME NEW S \in Seq(StageRec), \A i \in 1..Len(S) : S[i].do \in Quiet
      PROVE  Whole(S)
  BY <1>1 DEF Quiet, Whole, Part, Safe, Guarded, Checking, Paired, Asks, NoDecode
<1>2. Quiet \subseteq Kinds
  BY DEF Kinds, Quiet
<1>3. \A k \in Quiet : Do(k) \in StageRec /\ Do(k).do = k
  BY <1>2, StageTypes
<1>4. \A k, n \in Quiet : Whole(<<Do(k)>>) /\ Whole(<<Do(k), Do(n)>>)
  <2> TAKE k, n \in Quiet
  <2> DEFINE a == Do(k)
             b == Do(n)
  <2>1. /\ a \in StageRec /\ a.do \in Quiet
        /\ b \in StageRec /\ b.do \in Quiet
    BY <1>3
  <2> HIDE DEF a, b
  <2>2. /\ <<a>> \in Seq(StageRec) /\ Len(<<a>>) = 1 /\ <<a>>[1] = a
        /\ <<a, b>> \in Seq(StageRec) /\ Len(<<a, b>>) = 2 /\ <<a, b>>[1] = a /\ <<a, b>>[2] = b
    BY <2>1, Tuples
  <2>3. Whole(<<a>>)
    <3>1. \A i \in 1..Len(<<a>>) : <<a>>[i].do \in Quiet
      BY <2>1, <2>2
    <3> QED
      BY ONLY <1>1, <2>2, <3>1
  <2>4. Whole(<<a, b>>)
    <3>1. \A i \in 1..2 : i = 1 \/ i = 2
      OBVIOUS
    <3>2. \A i \in 1..Len(<<a, b>>) : <<a, b>>[i].do \in Quiet
      BY <2>1, <2>2, <3>1
    <3> QED
      BY ONLY <1>1, <2>2, <3>2
  <2> QED
    BY <2>3, <2>4 DEF a, b
<1>5. Whole(<<>>)
  <2>1. <<>> \in Seq(StageRec) /\ Len(<<>>) = 0
    OBVIOUS
  <2>2. \A i \in 1..Len(<<>>) : <<>>[i].do \in Quiet
    BY <2>1
  <2> QED
    BY ONLY <1>1, <2>1, <2>2
<1> QED
  BY <1>4, <1>5 DEF Session, Csrf, TenantOfApp, TryTenantOfApp, Quiet

(* A confirmation, and whatever part follows it. *)
LEMMA ConfirmWhole ==
  ASSUME NEW m \in Methods, NEW R, Part(R)
  PROVE  Whole(Confirm(m) \o R)
<1> DEFINE a == Of("confirm", m)
<1>1. a \in StageRec /\ a.do = "confirm"
  BY StageTypes DEF Kinds
<1> HIDE DEF a
<1>2. <<a>> \in Seq(StageRec) /\ Len(<<a>>) = 1 /\ <<a>>[1] = a
  BY <1>1, Tuples
<1>3. Whole(<<a>>)
  BY <1>1, <1>2 DEF Whole, Part, Safe, Guarded, Checking, Paired, Asks, NoDecode
<1>4. Whole(Csrf \o <<a>>)
  BY <1>3, SessionWhole, WholeConcat
<1> DEFINE K == Csrf \o <<a>>
<1>5. K \in Seq(StageRec) /\ Csrf \in Seq(StageRec) /\ R \in Seq(StageRec)
  BY <1>4, SessionWhole DEF Whole, Part, Safe
<1>6. Len(Csrf) + 1 \in 1..Len(K) /\ K[Len(Csrf) + 1] = a
  BY <1>2, <1>5
<1>7. Whole(K)
  BY <1>4
<1> HIDE DEF K
<1>8. Asks(K \o R)
  <2>1. \E j \in 1..Len(K) : K[j].do \in {"confirm", "dry"}
    BY <1>1, <1>6
  <2> QED
    BY <1>5, <1>7, <2>1, AsksConcat DEF Whole
<1>9. Safe(K \o R, UnauthenticatedMethods, {})
  BY <1>7, SafeConcat DEF Whole, Part
<1>10. NoDecode(K \o R)
  BY <1>5, <1>7 DEF Whole, Part, NoDecode
<1> QED
  BY <1>8, <1>9, <1>10 DEF Whole, Part, K, Confirm, a

(* The same without the confirmations. *)
LEMMA PartConcat ==
  ASSUME NEW S, NEW R, Part(S), Part(R)
  PROVE  Part(S \o R)
<1>1. S \in Seq(StageRec) /\ R \in Seq(StageRec)
  BY DEF Part, Safe
<1>2. Safe(S \o R, UnauthenticatedMethods, {})
  BY SafeConcat DEF Part
<1>3. NoDecode(S \o R)
  BY <1>1 DEF Part, NoDecode
<1> QED
  BY <1>2, <1>3 DEF Part

(* A read, authorised just before. *)
LEMMA AskPart ==
  ASSUME NEW m \in Methods, ~IsWrite(m)
  PROVE  Part(Ask(m, m)) /\ (m \notin Prompts => Whole(Ask(m, m)))
<1> DEFINE a == Of("authz", m)
           b == Of("call", m)
<1>1. /\ a \in StageRec /\ a.do = "authz" /\ a.rpc = m
      /\ b \in StageRec /\ b.do = "call" /\ b.rpc = m
  BY StageTypes DEF Kinds
<1> HIDE DEF a, b
<1> DEFINE S == <<a, b>>
<1>2. S \in Seq(StageRec) /\ Len(S) = 2 /\ S[1] = a /\ S[2] = b
  BY <1>1, Tuples
<1> HIDE DEF S
<1>3. \A i \in 1..Len(S) : i = 1 \/ i = 2
  BY <1>2
<1>4. Guarded(S, UnauthenticatedMethods)
  <2>1. Earlier(S, 2, {"authz", "self"}, m)
    BY <1>1, <1>2 DEF Earlier
  <2> QED
    BY <1>1, <1>2, <1>3, <2>1 DEF Guarded
<1>5. Checking(S, {}) /\ Paired(S) /\ NoDecode(S)
  BY <1>1, <1>2, <1>3 DEF Checking, Paired, NoDecode
<1>6. m \notin Prompts => Asks(S)
  BY <1>1, <1>2, <1>3 DEF Asks
<1> QED
  BY <1>2, <1>4, <1>5, <1>6 DEF Part, Whole, Safe, S, a, b, Ask

(* A read the page can do without. *)
LEMMA TryPart ==
  ASSUME NEW m \in Methods, ~IsWrite(m)
  PROVE  Part(Try(m, m)) /\ (m \notin Prompts => Whole(Try(m, m)))
<1> DEFINE a == Of("try", m)
           b == Of("call", m)
<1>1. /\ a \in StageRec /\ a.do = "try" /\ a.rpc = m
      /\ b \in StageRec /\ b.do = "call" /\ b.rpc = m
  BY StageTypes DEF Kinds
<1> HIDE DEF a, b
<1> DEFINE S == <<a, b>>
<1>2. S \in Seq(StageRec) /\ Len(S) = 2 /\ S[1] = a /\ S[2] = b
  BY <1>1, Tuples
<1> HIDE DEF S
<1>3. \A i \in 1..Len(S) : i = 1 \/ i = 2
  BY <1>2
<1>4. Guarded(S, UnauthenticatedMethods)
  BY <1>1, <1>2, <1>3 DEF Guarded
<1>5. Checking(S, {}) /\ Paired(S) /\ NoDecode(S)
  BY <1>1, <1>2, <1>3 DEF Checking, Paired, NoDecode
<1>6. m \notin Prompts => Asks(S)
  BY <1>1, <1>2, <1>3 DEF Asks
<1> QED
  BY <1>2, <1>4, <1>5, <1>6 DEF Part, Whole, Safe, S, a, b, Try

(* What an operator may always ask. *)
LEMMA SelfPart ==
  ASSUME NEW m \in Methods, ~IsWrite(m)
  PROVE  /\ Part(<<Of("self", m), Of("call", m)>>)
         /\ m \notin Prompts => Whole(<<Of("self", m), Of("call", m)>>)
<1> DEFINE a == Of("self", m)
           b == Of("call", m)
<1>1. /\ a \in StageRec /\ a.do = "self" /\ a.rpc = m
      /\ b \in StageRec /\ b.do = "call" /\ b.rpc = m
  BY StageTypes DEF Kinds
<1> HIDE DEF a, b
<1> DEFINE S == <<a, b>>
<1>2. S \in Seq(StageRec) /\ Len(S) = 2 /\ S[1] = a /\ S[2] = b
  BY <1>1, Tuples
<1> HIDE DEF S
<1>3. \A i \in 1..Len(S) : i = 1 \/ i = 2
  BY <1>2
<1>4. Guarded(S, UnauthenticatedMethods)
  <2>1. Earlier(S, 2, {"authz", "self"}, m)
    BY <1>1, <1>2 DEF Earlier
  <2> QED
    BY <1>1, <1>2, <1>3, <2>1 DEF Guarded
<1>5. Checking(S, {}) /\ Paired(S) /\ NoDecode(S)
  BY <1>1, <1>2, <1>3 DEF Checking, Paired, NoDecode
<1>6. m \notin Prompts => Asks(S)
  BY <1>1, <1>2, <1>3 DEF Asks
<1> QED
  BY <1>2, <1>4, <1>5, <1>6 DEF Part, Whole, Safe, S, a, b

(* A write that goes through no doWrite. *)
LEMMA ApplyPart ==
  ASSUME NEW m \in Methods
  PROVE  Part(Apply(m, m)) /\ (m \notin Prompts => Whole(Apply(m, m)))
<1> DEFINE a == Of("authz", m)
           b == Of("status", m)
           c == Of("call", m)
<1>1. /\ a \in StageRec /\ a.do = "authz" /\ a.rpc = m
      /\ b \in StageRec /\ b.do = "status" /\ b.rpc = m
      /\ c \in StageRec /\ c.do = "call" /\ c.rpc = m
  BY StageTypes DEF Kinds
<1> HIDE DEF a, b, c
<1> DEFINE S == <<a, b, c>>
<1>2. S \in Seq(StageRec) /\ Len(S) = 3 /\ S[1] = a /\ S[2] = b /\ S[3] = c
  BY <1>1, Tuples
<1> HIDE DEF S
<1>3. \A i \in 1..Len(S) : i = 1 \/ i = 2 \/ i = 3
  BY <1>2
<1>4. Guarded(S, UnauthenticatedMethods)
  <2>1. Earlier(S, 2, {"authz", "self"}, m) /\ Earlier(S, 3, {"authz", "self"}, m)
    BY <1>1, <1>2 DEF Earlier
  <2> QED
    BY <1>1, <1>2, <1>3, <2>1 DEF Guarded
<1>5. Checking(S, {}) /\ Paired(S) /\ NoDecode(S)
  <2>1. Earlier(S, 3, {"status"}, m)
    BY <1>1, <1>2 DEF Earlier
  <2> QED
    BY <1>1, <1>2, <1>3, <2>1 DEF Checking, Paired, NoDecode
<1>6. m \notin Prompts => Asks(S)
  BY <1>1, <1>2, <1>3 DEF Asks
<1>7. Part(S) /\ (m \notin Prompts => Whole(S))
  BY <1>2, <1>4, <1>5, <1>6 DEF Part, Whole, Safe
<1>8. Part(Csrf \o S) /\ (m \notin Prompts => Whole(Csrf \o S))
  BY <1>7, SessionWhole, PartConcat, WholeConcat DEF Whole
<1> QED
  BY <1>8 DEF S, a, b, c, Apply

(* doWrite. *)
LEMMA DoWritePart ==
  ASSUME NEW m \in Methods
  PROVE  /\ Part(Write(m, m))
         /\ Part(DoWrite(m, m)) /\ (m \notin Prompts => Whole(DoWrite(m, m)))
<1> DEFINE a == Of("authz", m)
           b == Of("status", m)
           c == Of("call", m)
           d == Do("flash")
<1>1. /\ a \in StageRec /\ a.do = "authz" /\ a.rpc = m
      /\ b \in StageRec /\ b.do = "status" /\ b.rpc = m
      /\ c \in StageRec /\ c.do = "call" /\ c.rpc = m
      /\ d \in StageRec /\ d.do = "flash"
  BY StageTypes DEF Kinds
<1> HIDE DEF a, b, c, d
<1> DEFINE S == <<a, b, c, d>>
<1>2. S \in Seq(StageRec) /\ Len(S) = 4 /\ S[1] = a /\ S[2] = b /\ S[3] = c /\ S[4] = d
  BY <1>1, Tuples
<1> HIDE DEF S
<1>3. \A i \in 1..Len(S) : i = 1 \/ i = 2 \/ i = 3 \/ i = 4
  BY <1>2
<1>4. Guarded(S, UnauthenticatedMethods)
  <2>1. Earlier(S, 2, {"authz", "self"}, m) /\ Earlier(S, 3, {"authz", "self"}, m)
    BY <1>1, <1>2 DEF Earlier
  <2> QED
    BY <1>1, <1>2, <1>3, <2>1 DEF Guarded
<1>5. Checking(S, {}) /\ Paired(S) /\ NoDecode(S)
  <2>1. Earlier(S, 3, {"status"}, m)
    BY <1>1, <1>2 DEF Earlier
  <2> QED
    BY <1>1, <1>2, <1>3, <2>1 DEF Checking, Paired, NoDecode
<1>6. m \notin Prompts => Asks(S)
  BY <1>1, <1>2, <1>3 DEF Asks
<1>7. Part(S) /\ (m \notin Prompts => Whole(S))
  BY <1>2, <1>4, <1>5, <1>6 DEF Part, Whole, Safe
<1>8. Part(Csrf \o S) /\ (m \notin Prompts => Whole(Csrf \o S))
  BY <1>7, SessionWhole, PartConcat, WholeConcat DEF Whole
<1> QED
  BY <1>7, <1>8 DEF S, a, b, c, d, Write, DoWrite

(* A call whose answer is shown once. *)
LEMMA ShowPart ==
  ASSUME NEW m \in Methods, ~IsWrite(m)
  PROVE  Part(Show(m, m)) /\ (m \notin Prompts => Whole(Show(m, m)))
BY AskPart, SessionWhole, PartConcat, WholeConcat DEF Whole, Show

(* importPolicyCode: the dry run comes between the checks and the call. *)
LEMMA ImportWhole ==
  ASSUME NEW m \in Methods
  PROVE  Whole(Csrf \o <<Of("authz", m), Of("status", m), Of("dry", m), Of("call", m),
                         Do("flash")>>)
<1> DEFINE a == Of("authz", m)
           b == Of("status", m)
           c == Of("dry", m)
           d == Of("call", m)
           e == Do("flash")
<1>1. /\ a \in StageRec /\ a.do = "authz" /\ a.rpc = m
      /\ b \in StageRec /\ b.do = "status" /\ b.rpc = m
      /\ c \in StageRec /\ c.do = "dry" /\ c.rpc = m
      /\ d \in StageRec /\ d.do = "call" /\ d.rpc = m
      /\ e \in StageRec /\ e.do = "flash"
  BY StageTypes DEF Kinds
<1> HIDE DEF a, b, c, d, e
<1> DEFINE S == <<a, b, c, d, e>>
<1>2. /\ S \in Seq(StageRec) /\ Len(S) = 5
      /\ S[1] = a /\ S[2] = b /\ S[3] = c /\ S[4] = d /\ S[5] = e
  BY <1>1
<1> HIDE DEF S
<1>3. \A i \in 1..Len(S) : i = 1 \/ i = 2 \/ i = 3 \/ i = 4 \/ i = 5
  BY <1>2
<1>4. Guarded(S, UnauthenticatedMethods)
  <2>1. Earlier(S, 2, {"authz", "self"}, m) /\ Earlier(S, 4, {"authz", "self"}, m)
    BY <1>1, <1>2 DEF Earlier
  <2> QED
    BY <1>1, <1>2, <1>3, <2>1 DEF Guarded
<1>5. Checking(S, {}) /\ Paired(S) /\ NoDecode(S)
  <2>1. Earlier(S, 4, {"status"}, m)
    BY <1>1, <1>2 DEF Earlier
  <2> QED
    BY <1>1, <1>2, <1>3, <2>1 DEF Checking, Paired, NoDecode
<1>6. Asks(S)
  BY <1>1, <1>2, <1>3 DEF Asks
<1>7. Whole(S)
  BY <1>2, <1>4, <1>5, <1>6 DEF Part, Whole, Safe
<1> QED
  BY <1>7, SessionWhole, WholeConcat DEF S, a, b, c, d, e

(* The registration calls without a principal. *)
LEMMA RegisterWhole == Whole(<<Of("call", "RegisterTenant")>>)
<1> DEFINE a == Of("call", "RegisterTenant")
<1>1. a \in StageRec /\ a.do = "call" /\ a.rpc = "RegisterTenant"
  <2>1. "call" \in Kinds /\ "RegisterTenant" \in Methods
    BY DEF Kinds, Methods, RpcNames
  <2> QED
    BY <2>1, StageTypes
<1> HIDE DEF a
<1> DEFINE S == <<a>>
<1>2. S \in Seq(StageRec) /\ Len(S) = 1 /\ S[1] = a
  BY <1>1, Tuples
<1> HIDE DEF S
<1>3. Guarded(S, UnauthenticatedMethods)
  BY <1>1, <1>2 DEF Guarded, UnauthenticatedMethods
<1>4. ~IsWrite("RegisterTenant")
  BY WriteMethods DEF PolicyWrites
<1>5. Checking(S, {}) /\ Paired(S) /\ NoDecode(S)
  BY <1>1, <1>2, <1>4 DEF Checking, Paired, NoDecode
<1>6. "RegisterTenant" \notin Prompts
  BY DEF Prompts, ConfirmPrompts
<1>7. Asks(S)
  BY <1>1, <1>2, <1>6 DEF Asks
<1> QED
  BY <1>2, <1>3, <1>5, <1>7 DEF Part, Whole, Safe, S, a

(* The methods that neither write a policy nor have a prompt. *)
ReadMethods == Methods \ (PolicyWrites \cup Prompts)

(* Reads need neither a check of the status nor a confirmation. *)
LEMMA ReadParts ==
  ASSUME NEW m \in ReadMethods
  PROVE  Whole(Ask(m, m)) /\ Whole(Try(m, m)) /\ Whole(Show(m, m)) /\ Whole(DoWrite(m, m))
<1>1. m \in Methods /\ ~IsWrite(m) /\ m \notin Prompts
  BY WriteMethods DEF ReadMethods
<1> QED
  BY <1>1, AskPart, TryPart, ShowPart, DoWritePart

(* Writes that need no confirmation. *)
LEMMA WriteParts ==
  ASSUME NEW m \in Methods \ Prompts
  PROVE  Whole(DoWrite(m, m)) /\ Whole(Apply(m, m))
BY DoWritePart, ApplyPart

(* Whatever is confirmed first. *)
LEMMA ConfirmedParts ==
  ASSUME NEW m \in Methods
  PROVE  /\ Whole(Confirm(m) \o DoWrite(m, m))
         /\ m \notin PolicyWrites => Whole(Confirm(m) \o Show(m, m))
BY ConfirmWhole, DoWritePart, ShowPart, WriteMethods

UngatedNames == {f.name : f \in Ungated}

(* What the console's handlers must be. *)
Handled(route) ==
  Part(route.stages) /\ (route.name \notin UngatedNames => Asks(route.stages))

(* A whole handler is handled, whatever its name. *)
LEMMA WholeHandled == \A name, S : Whole(S) => Handled(Route(name, S))
BY DEF Handled, Route, Whole

(* The reads of the console: their rules mark no write, and confirmPrompts *)
(* does not list them.                                                     *)
LEMMA ReadsOfConsole ==
  {"CreateApplication", "CreateOperator", "ExplainDecision", "ExportAppPolicy",
     "GetApplication", "GetEffectivePermissions", "GetRoleGraph", "GetTenantIdp",
     "GetTenantTemplate", "GetTenantUsage", "InviteMember", "ListAdminRoles",
     "ListApplications", "ListDataPolicies", "ListGrants", "ListMembers", "ListOperators",
     "ListPermissions", "ListRoleInheritances", "ListRoles", "ListTemplates",
     "ListTenantTemplates", "ListUserBindings", "PreviewDataFilter", "QueryAdminAuditLog",
     "QueryAuditLog", "SimulateRoleChange"} \subseteq ReadMethods
BY DEF ReadMethods, Methods, RpcNames, PolicyWrites, Prompts, ConfirmPrompts

(* What is written without a confirmation. *)
LEMMA WritesOfConsole ==
  {"AddRoleInheritance", "ApplyTemplate", "ApplyTenantTemplate", "BindOperatorRole",
     "BindUserRole", "ConfigureTenantIdp", "CreateAdminRole", "CreateBusinessRole",
     "CreateRole", "GrantAdminRole", "GrantPermission", "RevokePermission",
     "SaveAppAsTemplate", "SetOperatorStatus", "UnbindUserRole", "UpsertDataPolicy",
     "UpsertPermission"} \subseteq Methods \ Prompts
BY DEF Methods, RpcNames, Prompts, ConfirmPrompts

(* What is confirmed, and what of it shows its answer. *)
LEMMA ConfirmedOfConsole ==
  /\ {"BatchDeleteDataPolicy", "BatchDeleteRole", "BatchRemoveRoleInheritance",
     "BatchRevokePermission", "BatchUnbindUserRole", "DeleteDataPolicy", "DeleteRole",
     "DeleteTenantIdp", "DeleteTenantTemplate", "RemoveRoleInheritance",
     "ResetOperatorSecret", "RevokeAdminGrant", "RotateApplicationSecret",
     "SetApplicationStatus", "UnbindOperatorRole"} \subseteq Methods
  /\ {"ResetOperatorSecret", "RotateApplicationSecret"} \cap PolicyWrites = {}
BY DEF Methods, RpcNames, PolicyWrites

(* Every handler of the console authorizes what it calls, checks the       *)
(* status before a write, and asks before what has a prompt (but for the   *)
(* one that enables an application).                                       *)
LEMMA ConsoleHandled == \A route \in ConsoleRoutes : Handled(route)
<1> USE ReadsOfConsole, WritesOfConsole, ConfirmedOfConsole, ReadParts, WriteParts,
        ConfirmedParts, SessionWhole, WholeConcat, WholeHandled
<1>1. \A route \in HomeRoutes : Handled(route)
  BY DEF HomeRoutes
<1>28. \A route \in StatusRoutes : Handled(route)
  <2> SUFFICES ASSUME NEW f \in StatusForms PROVE Handled(Route(f.name, SetAppStatus(f.text)))
    BY DEF StatusRoutes
  <2>1. "SetApplicationStatus" \in Methods
    OBVIOUS
  <2>2. CASE f.text = "2"
    BY <2>1, <2>2 DEF SetAppStatus
  <2>3. CASE f.text # "2"
    <3>1. f.name \in UngatedNames
      BY <2>3 DEF UngatedNames, Ungated
    <3>2. Part(SetAppStatus(f.text))
      BY <2>1, <2>3, DoWritePart DEF SetAppStatus
    <3> QED
      BY <3>1, <3>2 DEF Handled, Route
  <2> QED
    BY <2>2, <2>3
<1>2. Whole(<<Of("self", "ListMyTenants"), Of("call", "ListMyTenants")>>)
  <2>1. "ListMyTenants" \in Methods
    BY DEF Methods, RpcNames
  <2>2. ~IsWrite("ListMyTenants")
    BY WriteMethods DEF PolicyWrites
  <2>3. "ListMyTenants" \notin Prompts
    BY DEF Prompts, ConfirmPrompts
  <2> QED
    BY <2>1, <2>2, <2>3, SelfPart
<1>3. \A route \in HomePages : Handled(route)
  BY <1>2 DEF HomePages, TenantUsage
<1>4. \A route \in PolicyCodeRoutes : Handled(route)
  <2>1. "ImportAppPolicy" \in Methods
    BY DEF Methods, RpcNames
  <2> QED
    BY <2>1, ImportWhole DEF PolicyCodeRoutes
<1>5. \A route \in AccountRoutes : Handled(route)
  BY <1>2, RegisterWhole DEF AccountRoutes, TenantUsage
<1>6. \A route \in PeopleRoutes : Handled(route)
  BY DEF PeopleRoutes, PermNameMap, RoleNameMap, DataScopeNotes, AppHasNoBizRoles
<1>7. \A route \in TemplateRoutes : Handled(route)
  BY DEF TemplateRoutes, AppHasNoBizRoles
<1>8. \A route \in RoleRoutes : Handled(route)
  BY DEF RoleRoutes
<1>9. \A route \in PermissionRoutes : Handled(route)
  BY DEF PermissionRoutes
<1>10. \A route \in GrantRoutes : Handled(route)
  BY DEF GrantRoutes
<1>11. \A route \in InheritanceRoutes : Handled(route)
  BY DEF InheritanceRoutes
<1>12. \A route \in BindingRoutes : Handled(route)
  BY DEF BindingRoutes
<1>13. \A route \in BatchRoutes : Handled(route)
  BY DEF BatchRoutes
<1>14. \A route \in EffectiveRoutes : Handled(route)
  BY DEF EffectiveRoutes
<1>15. \A route \in DecisionRoutes : Handled(route)
  BY DEF DecisionRoutes
<1>16. \A route \in DataPolicyRoutes : Handled(route)
  BY DEF DataPolicyRoutes
<1>17. \A route \in SandboxRoutes : Handled(route)
  BY DEF SandboxRoutes
<1>18. \A route \in DeveloperRoutes : Handled(route)
  BY DEF DeveloperRoutes
<1>19. \A route \in AuditRoutes : Handled(route)
  BY DEF AuditRoutes
<1>20. \A route \in UsageRoutes : Handled(route)
  BY DEF UsageRoutes
<1>21. \A route \in OperatorRoutes : Handled(route)
  BY DEF OperatorRoutes
<1>22. \A route \in AdminRoleRoutes : Handled(route)
  BY DEF AdminRoleRoutes
<1>23. \A route \in IdpRoutes : Handled(route)
  BY DEF IdpRoutes
<1>24. \A route \in OpsRoutes : Handled(route)
  BY DEF OpsRoutes
<1>25. \A route \in TenantTemplateRoutes : Handled(route)
  <2>1. "DeleteTenantTemplate" \in Methods
    OBVIOUS
  <2>2. Part(Csrf \o TenantOfApp \o Write("DeleteTenantTemplate", "DeleteTenantTemplate"))
    BY <2>1, DoWritePart, PartConcat DEF Whole
  <2>3. Whole(Confirm("DeleteTenantTemplate") \o
          (Csrf \o TenantOfApp \o Write("DeleteTenantTemplate", "DeleteTenantTemplate")))
    BY <2>1, <2>2, ConfirmWhole
  <2> QED
    BY <2>3 DEF TenantTemplateRoutes
<1>26. \A route \in OnboardingRoutes : Handled(route)
  BY DEF OnboardingRoutes
<1>27. \A route \in RoleGraphRoutes : Handled(route)
  BY DEF RoleGraphRoutes
<1> QED
  BY ONLY <1>1, <1>3, <1>4, <1>5, <1>6, <1>7, <1>8, <1>9, <1>10, <1>11, <1>12, <1>13,
     <1>14, <1>15, <1>16, <1>17, <1>18, <1>19, <1>20, <1>21, <1>22, <1>23, <1>24,
     <1>25, <1>26, <1>27, <1>28 DEF ConsoleRoutes

(* The three checks of the gateway and of the interceptors, in front of    *)
(* every method but the registration.                                      *)
LEMMA RestHandled ==
  ASSUME NEW route, route.rpc \in Methods, route.invoke = route.rpc
  PROVE  /\ Safe(RestStages(route), UnauthenticatedMethods, {})
         /\ DecodesFirst(RestStages(route))
<1> DEFINE m == route.rpc
           x == Do("authn")
           y == Do("decode")
           a == Of("authz", m)
           b == Of("status", m)
           c == Of("call", m)
<1>1. /\ x \in StageRec /\ x.do = "authn" /\ y \in StageRec /\ y.do = "decode"
      /\ a \in StageRec /\ a.do = "authz" /\ a.rpc = m
      /\ b \in StageRec /\ b.do = "status" /\ b.rpc = m
      /\ c \in StageRec /\ c.do = "call" /\ c.rpc = m
  BY StageTypes DEF Kinds
<1>2. RestStages(route) = IF m \in UnauthenticatedMethods THEN <<y, c>> ELSE <<x, y, a, b, c>>
  BY DEF RestStages
<1> HIDE DEF m, x, y, a, b, c
<1>3. CASE m \in UnauthenticatedMethods
  <2> DEFINE S == <<y, c>>
  <2>1. S \in Seq(StageRec) /\ Len(S) = 2 /\ S[1] = y /\ S[2] = c
    BY <1>1, Tuples
  <2>2. RestStages(route) = S
    BY <1>2, <1>3
  <2> HIDE DEF S
  <2>3. \A i \in 1..Len(S) : i = 1 \/ i = 2
    BY <2>1
  <2>4. ~IsWrite(m)
    BY <1>3, WriteMethods DEF PolicyWrites, UnauthenticatedMethods
  <2>5. Guarded(S, UnauthenticatedMethods) /\ Checking(S, {}) /\ Paired(S) /\ DecodesFirst(S)
    BY <1>1, <1>3, <2>1, <2>3, <2>4 DEF Guarded, Checking, Paired, DecodesFirst
  <2> QED
    BY <2>1, <2>2, <2>5 DEF Safe
<1>4. CASE m \notin UnauthenticatedMethods
  <2> DEFINE S == <<x, y, a, b, c>>
  <2>1. /\ S \in Seq(StageRec) /\ Len(S) = 5
        /\ S[1] = x /\ S[2] = y /\ S[3] = a /\ S[4] = b /\ S[5] = c
    BY <1>1
  <2>2. RestStages(route) = S
    BY <1>2, <1>4
  <2> HIDE DEF S
  <2>3. \A i \in 1..Len(S) : i = 1 \/ i = 2 \/ i = 3 \/ i = 4 \/ i = 5
    BY <2>1
  <2>4. /\ Earlier(S, 4, {"authz", "self"}, m) /\ Earlier(S, 5, {"authz", "self"}, m)
        /\ Earlier(S, 5, {"status"}, m)
    BY <1>1, <2>1 DEF Earlier
  <2>5. Guarded(S, UnauthenticatedMethods) /\ Checking(S, {})
    BY <1>1, <2>1, <2>3, <2>4 DEF Guarded, Checking
  <2>6. Paired(S) /\ DecodesFirst(S)
    <3>1. \A j \in 1..(2 - 1) : j = 1
      OBVIOUS
    <3> QED
      BY <1>1, <2>1, <2>3, <3>1 DEF Paired, DecodesFirst
  <2> QED
    BY <2>1, <2>2, <2>5, <2>6 DEF Safe
<1> QED
  BY <1>3, <1>4

(* The same for the handlers of the gRPC service. *)
LEMMA GrpcHandled ==
  ASSUME NEW handler, handler.rpc \in Methods, handler.invoke = handler.rpc
  PROVE  /\ Safe(GrpcStages(handler), UnauthenticatedMethods, {})
         /\ NoDecode(GrpcStages(handler))
<1> DEFINE m == handler.rpc
           x == Do("authn")
           a == Of("authz", m)
           b == Of("status", m)
           c == Of("call", m)
<1>1. /\ x \in StageRec /\ x.do = "authn"
      /\ a \in StageRec /\ a.do = "authz" /\ a.rpc = m
      /\ b \in StageRec /\ b.do = "status" /\ b.rpc = m
      /\ c \in StageRec /\ c.do = "call" /\ c.rpc = m
  BY StageTypes DEF Kinds
<1>2. GrpcStages(handler) = IF m \in UnauthenticatedMethods THEN <<b, c>> ELSE <<x, a, b, c>>
  BY DEF GrpcStages
<1> HIDE DEF m, x, a, b, c
<1>3. CASE m \in UnauthenticatedMethods
  <2> DEFINE S == <<b, c>>
  <2>1. S \in Seq(StageRec) /\ Len(S) = 2 /\ S[1] = b /\ S[2] = c
    BY <1>1, Tuples
  <2>2. GrpcStages(handler) = S
    BY <1>2, <1>3
  <2> HIDE DEF S
  <2>3. \A i \in 1..Len(S) : i = 1 \/ i = 2
    BY <2>1
  <2>4. ~IsWrite(m)
    BY <1>3, WriteMethods DEF PolicyWrites, UnauthenticatedMethods
  <2>5. Guarded(S, UnauthenticatedMethods) /\ Checking(S, {}) /\ Paired(S) /\ NoDecode(S)
    BY <1>1, <1>3, <2>1, <2>3, <2>4 DEF Guarded, Checking, Paired, NoDecode
  <2> QED
    BY <2>1, <2>2, <2>5 DEF Safe
<1>4. CASE m \notin UnauthenticatedMethods
  <2> DEFINE S == <<x, a, b, c>>
  <2>1. /\ S \in Seq(StageRec) /\ Len(S) = 4
        /\ S[1] = x /\ S[2] = a /\ S[3] = b /\ S[4] = c
    BY <1>1, Tuples
  <2>2. GrpcStages(handler) = S
    BY <1>2, <1>4
  <2> HIDE DEF S
  <2>3. \A i \in 1..Len(S) : i = 1 \/ i = 2 \/ i = 3 \/ i = 4
    BY <2>1
  <2>4. /\ Earlier(S, 3, {"authz", "self"}, m) /\ Earlier(S, 4, {"authz", "self"}, m)
        /\ Earlier(S, 4, {"status"}, m)
    BY <1>1, <2>1 DEF Earlier
  <2>5. Guarded(S, UnauthenticatedMethods) /\ Checking(S, {})
    BY <1>1, <2>1, <2>3, <2>4 DEF Guarded, Checking
  <2>6. Paired(S) /\ NoDecode(S)
    BY <1>1, <2>1, <2>3 DEF Paired, NoDecode
  <2> QED
    BY <2>1, <2>2, <2>5, <2>6 DEF Safe
<1> QED
  BY <1>3, <1>4

(* The method that is called is the one the checks are told. *)
Direct(handler) == handler.rpc \in Methods /\ handler.invoke = handler.rpc

Sources == {Path, BodyThenPath, Body, NoId}

(* So it is in every route of the gateway, and the id comes from one of    *)
(* four sources.                                                           *)
LEMMA RestTable == \A route \in RestRoutes : Direct(route) /\ route.from \in Sources
<1>0. RpcNames \subseteq Methods
  BY DEF Methods
<1>1. \A m \in Methods, f \in Sources : Direct(Rest(m, m, f)) /\ Rest(m, m, f).from \in Sources
  BY DEF Direct, Rest
<1>2. Path \in Sources /\ BodyThenPath \in Sources /\ Body \in Sources /\ NoId \in Sources
      /\ Query \in Sources
  BY DEF Sources, Query, Path
<1>3. \A route \in RestRoleRoutes : Direct(route) /\ route.from \in Sources
  BY <1>1, <1>2, <1>0 DEF RestRoleRoutes, RpcNames
<1>4. \A route \in RestGraphRoutes : Direct(route) /\ route.from \in Sources
  BY <1>1, <1>2, <1>0 DEF RestGraphRoutes, RpcNames
<1>5. \A route \in RestDataRoutes : Direct(route) /\ route.from \in Sources
  BY <1>1, <1>2, <1>0 DEF RestDataRoutes, RpcNames
<1>6. \A route \in RestBatchRoutes : Direct(route) /\ route.from \in Sources
  BY <1>1, <1>2, <1>0 DEF RestBatchRoutes, RpcNames
<1>7. \A route \in RestApplicationRoutes : Direct(route) /\ route.from \in Sources
  BY <1>1, <1>2, <1>0 DEF RestApplicationRoutes, RpcNames
<1>8. \A route \in RestOperatorRoutes : Direct(route) /\ route.from \in Sources
  BY <1>1, <1>2, <1>0 DEF RestOperatorRoutes, RpcNames
<1>9. \A route \in RestAdminRoleRoutes : Direct(route) /\ route.from \in Sources
  BY <1>1, <1>2, <1>0 DEF RestAdminRoleRoutes, RpcNames
<1>10. \A route \in RestAccountRoutes : Direct(route) /\ route.from \in Sources
  BY <1>1, <1>2, <1>0 DEF RestAccountRoutes, RpcNames
<1>11. \A route \in RestTemplateRoutes : Direct(route) /\ route.from \in Sources
  BY <1>1, <1>2, <1>0 DEF RestTemplateRoutes, RpcNames
<1>12. \A route \in RestGraphReadRoutes : Direct(route) /\ route.from \in Sources
  BY <1>1, <1>2, <1>0 DEF RestGraphReadRoutes, RpcNames
<1> QED
  BY <1>3, <1>4, <1>5, <1>6, <1>7, <1>8, <1>9, <1>10, <1>11, <1>12 DEF RestRoutes

(* So it is in every handler of the gRPC service. *)
LEMMA GrpcTable == \A handler \in GrpcHandlers : Direct(handler)
<1>0. RpcNames \subseteq Methods
  BY DEF Methods
<1>1. \A m \in Methods : Direct(Grpc(m, m))
  BY DEF Direct, Grpc
<1>2. \A handler \in GrpcRoleHandlers : Direct(handler)
  BY <1>1, <1>0 DEF GrpcRoleHandlers, RpcNames
<1>3. \A handler \in GrpcDataHandlers : Direct(handler)
  BY <1>1, <1>0 DEF GrpcDataHandlers, RpcNames
<1>4. \A handler \in GrpcTenantHandlers : Direct(handler)
  BY <1>1, <1>0 DEF GrpcTenantHandlers, RpcNames
<1>5. \A handler \in GrpcOperatorHandlers : Direct(handler)
  BY <1>1, <1>0 DEF GrpcOperatorHandlers, RpcNames
<1>6. \A handler \in GrpcReadHandlers : Direct(handler)
  BY <1>1, <1>0 DEF GrpcReadHandlers, RpcNames
<1>7. \A handler \in GrpcGraphHandlers : Direct(handler)
  BY <1>1, <1>0 DEF GrpcGraphHandlers, RpcNames
<1>8. \A handler \in GrpcAuditHandlers : Direct(handler)
  BY <1>1, <1>0 DEF GrpcAuditHandlers, RpcNames
<1>9. \A handler \in GrpcBatchHandlers : Direct(handler)
  BY <1>1, <1>0 DEF GrpcBatchHandlers, RpcNames
<1> QED
  BY <1>2, <1>3, <1>4, <1>5, <1>6, <1>7, <1>8, <1>9 DEF GrpcHandlers

-----------------------------------------------------------------------------
(* A request. *)

Fields ==
  {"front", "name", "stages", "from", "sid", "path", "body", "token", "confirmed",
   "target", "principal", "looked", "authorised", "checked", "called"}

RequestType(r) ==
  /\ DOMAIN r = Fields
  /\ r.front \in {"console", "rest", "grpc"}
  /\ r.from \in Sources
  /\ \A c \in r.authorised \cup r.checked \cup r.called : c = <<c[1], r.target>>

Names(mentions) == {c[1] : c \in mentions}

(* What is left of the handler is safe, given what was done so far. *)
RestSafe(r) ==
  /\ Safe(r.stages, UnauthenticatedMethods \cup Names(r.authorised), Names(r.checked))
  /\ DecodesFirst(r.stages)
  /\ ~NoDecode(r.stages) => r.authorised = {} /\ r.checked = {} /\ r.called = {}

MustAsk(r) == r.front = "console" /\ r.name \notin UngatedNames

(* The request carries the confirmed field, or will be stopped for it. *)
RestAsks(r) == MustAsk(r) => r.confirmed \/ Asks(r.stages)

(* What was done so far. *)
DoneWell(r) ==
  /\ Authenticated(r.checked \cup r.called) \subseteq r.authorised
  /\ \A c \in r.called : IsWrite(c[1]) => c \in r.checked
  /\ MustAsk(r) => \A c \in r.called : c[1] \in Prompts => r.confirmed

(* Where the path names the id, that is what is acted on. *)
PathActs(r) == (\E i \in DOMAIN r.from : r.from[i] = "path") => r.target = r.path

Fine(r) == RequestType(r) /\ RestSafe(r) /\ RestAsks(r) /\ DoneWell(r) /\ PathActs(r)

WebInv == req = NoRequest \/ Fine(req)

-----------------------------------------------------------------------------
(* The first stage may be done at once. *)
LEMMA HeadSafe ==
  ASSUME NEW A, NEW C, NEW S, Safe(S, A, C), S # <<>>
  PROVE  /\ Head(S).do \in {"call", "status"} => Head(S).rpc \in A
         /\ Head(S).do = "call" /\ IsWrite(Head(S).rpc) => Head(S).rpc \in C
         /\ Head(S).do = "call" /\ Asks(S) => Head(S).rpc \notin Prompts
<1>1. S \in Seq(StageRec) /\ 1 \in 1..Len(S) /\ Head(S) = S[1]
  BY DEF Safe
<1>2. \A dos, m : ~Earlier(S, 1, dos, m)
  BY DEF Earlier
<1>3. Guarded(S, A) /\ Checking(S, C)
  BY DEF Safe
<1>4. Head(S).do \in {"call", "status"} => Head(S).rpc \in A
  BY <1>1, <1>2, <1>3 DEF Guarded
<1>5. Head(S).do = "call" /\ IsWrite(Head(S).rpc) => Head(S).rpc \in C
  BY <1>1, <1>2, <1>3 DEF Checking
<1>6. Head(S).do = "call" /\ Asks(S) => Head(S).rpc \notin Prompts
  BY <1>1 DEF Asks
<1> QED
  BY <1>4, <1>5, <1>6

(* What is left after the first stage: nothing but the authentication      *)
(* comes before the decoding, and only a confirmation counts as one.       *)
LEMMA TailKeeps ==
  ASSUME NEW S \in Seq(StageRec), S # <<>>, DecodesFirst(S)
  PROVE  /\ DecodesFirst(Tail(S))
         /\ NoDecode(S) => NoDecode(Tail(S))
         /\ Head(S).do # "authn" => NoDecode(Tail(S))
         /\ Asks(S) /\ Head(S).do \notin {"confirm", "dry"} => Asks(Tail(S))
<1> DEFINE T == Tail(S)
<1>1. /\ T \in Seq(StageRec) /\ Len(S) \in Nat /\ Len(S) > 0 /\ Len(T) = Len(S) - 1
      /\ \A i \in 1..Len(T) : T[i] = S[i + 1] /\ i + 1 \in 1..Len(S)
      /\ Head(S) = S[1]
  OBVIOUS
<1> HIDE DEF T
<1>2. DecodesFirst(T)
  <2> SUFFICES ASSUME NEW i \in 1..Len(T), T[i].do = "decode", NEW j \in 1..(i - 1)
               PROVE  T[j].do = "authn"
    BY DEF DecodesFirst
  <2>1. j \in 1..Len(T) /\ j + 1 \in 1..(i + 1 - 1)
    BY <1>1
  <2>2. i + 1 \in 1..Len(S) /\ S[i + 1].do = "decode"
    BY <1>1
  <2>3. S[j + 1].do = "authn"
    BY <2>1, <2>2 DEF DecodesFirst
  <2> QED
    BY <1>1, <2>1, <2>3
<1>3. NoDecode(S) => NoDecode(T)
  BY <1>1 DEF NoDecode
<1>4. Head(S).do # "authn" => NoDecode(T)
  <2> SUFFICES ASSUME NEW i \in 1..Len(T), T[i].do = "decode"
               PROVE  Head(S).do = "authn"
    BY DEF NoDecode
  <2>1. 1 \in 1..(i + 1 - 1)
    BY <1>1
  <2> QED
    BY <1>1, <2>1 DEF DecodesFirst
<1>5. ASSUME Asks(S), Head(S).do \notin {"confirm", "dry"} PROVE Asks(T)
  <2>1. \A i \in 1..1 : S[i].do \notin {"confirm", "dry"}
    BY <1>1, <1>5
  <2>2. 1 \in Nat /\ 1 <= Len(S)
    BY <1>1
  <2> QED
    BY <1>1, <1>5, <2>1, <2>2, AsksRest
<1> QED
  BY <1>2, <1>3, <1>4, <1>5 DEF T

-----------------------------------------------------------------------------
(* A step that leaves everything but the stages and the principal alone. *)
LEMMA PassStep ==
  ASSUME NEW r, NEW q, Fine(r), DOMAIN q = Fields,
         \A f \in Fields \ {"stages", "principal", "looked"} : q[f] = r[f],
         Safe(q.stages, UnauthenticatedMethods \cup Names(r.authorised), Names(r.checked)),
         DecodesFirst(q.stages), NoDecode(r.stages) => NoDecode(q.stages),
         MustAsk(r) /\ ~r.confirmed => Asks(q.stages)
  PROVE  Fine(q)
<1>1. /\ q.front = r.front /\ q.name = r.name /\ q.from = r.from /\ q.path = r.path
      /\ q.confirmed = r.confirmed /\ q.target = r.target
      /\ q.authorised = r.authorised /\ q.checked = r.checked /\ q.called = r.called
  BY DEF Fields
<1>2. RequestType(q)
  BY <1>1 DEF Fine, RequestType
<1>3. RestSafe(q)
  BY <1>1 DEF Fine, RestSafe
<1>4. RestAsks(q)
  BY <1>1 DEF Fine, RestAsks, MustAsk
<1>5. DoneWell(q)
  BY <1>1 DEF Fine, DoneWell, MustAsk
<1>6. PathActs(q)
  BY <1>1 DEF Fine, PathActs
<1> QED
  BY <1>2, <1>3, <1>4, <1>5, <1>6 DEF Fine

(* A stage that authorizes nothing, checks nothing and calls nothing; a    *)
(* confirmation is passed only when it was given.                          *)
LEMMA OnwardsStep ==
  ASSUME NEW r, NEW q, Fine(r), r.stages # <<>>, DOMAIN q = Fields,
         \A f \in Fields \ {"stages", "principal", "looked"} : q[f] = r[f], q.stages = Tail(r.stages),
         Head(r.stages).do \notin {"authz", "self", "try", "status"},
         Head(r.stages).do \in {"confirm", "dry"} => r.confirmed
  PROVE  Fine(q)
<1> DEFINE S == r.stages
           A == UnauthenticatedMethods \cup Names(r.authorised)
           C == Names(r.checked)
<1>1. Safe(S, A, C) /\ DecodesFirst(S) /\ S \in Seq(StageRec)
  BY DEF Fine, RestSafe, Safe
<1>2. Safe(Tail(S), A, C)
  BY <1>1, SafeTail
<1>3. /\ DecodesFirst(Tail(S)) /\ (NoDecode(S) => NoDecode(Tail(S)))
      /\ Asks(S) /\ Head(S).do \notin {"confirm", "dry"} => Asks(Tail(S))
  BY <1>1, TailKeeps
<1>4. MustAsk(r) /\ ~r.confirmed => Asks(Tail(S))
  BY <1>3 DEF Fine, RestAsks
<1> QED
  BY <1>2, <1>3, <1>4, PassStep

(* The pages at the end of a request. *)
LEMMA PageStep ==
  ASSUME NEW r, NEW q, Fine(r), DOMAIN q = Fields, NEW k \in {"take", "set", "clear"},
         \A f \in Fields \ {"stages", "principal", "looked"} : q[f] = r[f], q.stages = <<Do(k)>>
  PROVE  Fine(q)
<1> DEFINE a == Do(k)
<1>1. a \in StageRec /\ a.do = k
  <2>1. k \in Kinds
    BY DEF Kinds
  <2> QED
    BY <2>1, StageTypes
<1> HIDE DEF a
<1> DEFINE S == <<a>>
<1>2. S \in Seq(StageRec) /\ Len(S) = 1 /\ S[1] = a
  BY <1>1, Tuples
<1>3. q.stages = S
  BY DEF a
<1> HIDE DEF S
<1>4. \A A, C : Safe(S, A, C)
  BY <1>1, <1>2 DEF Safe, Guarded, Checking, Paired
<1>5. DecodesFirst(S) /\ NoDecode(S) /\ Asks(S)
  BY <1>1, <1>2 DEF DecodesFirst, NoDecode, Asks
<1> QED
  BY <1>3, <1>4, <1>5, PassStep

(* An attempt that is left out. *)
LEMMA SkipStep ==
  ASSUME NEW r, NEW q, Fine(r), r.stages # <<>>, Head(r.stages).do = "try", DOMAIN q = Fields,
         \A f \in Fields \ {"stages", "principal", "looked"} : q[f] = r[f],
         q.stages = SubSeq(r.stages, 3, Len(r.stages))
  PROVE  Fine(q)
<1> DEFINE S == r.stages
           T == SubSeq(S, 3, Len(S))
           A == UnauthenticatedMethods \cup Names(r.authorised)
           C == Names(r.checked)
<1>1. /\ Safe(S, A, C) /\ DecodesFirst(S) /\ S \in Seq(StageRec)
      /\ S # <<>> /\ Head(S).do = "try"
  BY DEF Fine, RestSafe, Safe
<1>4. q.stages = T
  OBVIOUS
<1> HIDE DEF S, A, C
<1>2. /\ 1 < Len(S) /\ S[2].do = "call" /\ Safe(T, A, C) /\ Len(T) = Len(S) - 2
      /\ \A i \in 1..(Len(S) - 2) : T[i] = S[i + 2]
  BY ONLY <1>1, SafeSkip
<1>3. Len(S) \in Nat /\ S[1].do = "try"
  BY <1>1
<1> HIDE DEF T
<1>5. NoDecode(S)
  <2> SUFFICES ASSUME NEW i \in 1..Len(S), S[i].do = "decode" PROVE FALSE
    BY DEF NoDecode
  <2>1. i # 1
    BY <1>3
  <2>2. 1 \in 1..(i - 1)
    BY <2>1
  <2> QED
    BY <1>1, <1>3, <2>2 DEF DecodesFirst
<1>6. NoDecode(T)
  BY <1>2, <1>3, <1>5 DEF NoDecode
<1>7. DecodesFirst(T)
  BY <1>6 DEF DecodesFirst, NoDecode
<1>8. Asks(S) => Asks(T)
  <2>1. \A i \in 1..2 : i = 1 \/ i = 2
    OBVIOUS
  <2>2. \A i \in 1..2 : S[i].do \notin {"confirm", "dry"}
    BY <1>2, <1>3, <2>1
  <2>3. 2 \in Nat /\ 2 <= Len(S) /\ \A i \in 1..Len(T) : T[i] = S[i + 2]
    BY <1>2, <1>3
  <2> QED
    BY <1>2, <1>3, <2>2, <2>3, AsksRest
<1>9. MustAsk(r) /\ ~r.confirmed => Asks(T)
  BY <1>8 DEF Fine, RestAsks, S
<1> QED
  BY <1>2, <1>4, <1>6, <1>7, <1>9, PassStep DEF A, C, S

(* AuthorizeRule allows: what is left may rely on it. *)
LEMMA AuthorizeStep ==
  ASSUME NEW r, NEW q, Fine(r), r.stages # <<>>, DOMAIN q = Fields,
         Head(r.stages).do \in {"authz", "self", "try"},
         \A f \in Fields \ {"stages", "authorised"} : q[f] = r[f], q.stages = Tail(r.stages),
         q.authorised = r.authorised \cup {<<Head(r.stages).rpc, r.target>>}
  PROVE  Fine(q)
<1> DEFINE S == r.stages
           m == Head(S).rpc
           A == UnauthenticatedMethods \cup Names(r.authorised)
           B == UnauthenticatedMethods \cup Names(q.authorised)
           C == Names(r.checked)
<1>1. /\ q.front = r.front /\ q.name = r.name /\ q.from = r.from /\ q.path = r.path
      /\ q.confirmed = r.confirmed /\ q.target = r.target
      /\ q.checked = r.checked /\ q.called = r.called
  BY DEF Fields
<1>2. Safe(S, A, C) /\ DecodesFirst(S) /\ S \in Seq(StageRec)
  BY DEF Fine, RestSafe, Safe
<1>3. A \subseteq B /\ m \in B
  <2>1. <<m, r.target>> \in q.authorised /\ <<m, r.target>>[1] = m
    OBVIOUS
  <2> QED
    BY <2>1 DEF Names
<1>4. Safe(Tail(S), B, C)
  BY <1>2, <1>3, SafeTail
<1>5. /\ DecodesFirst(Tail(S)) /\ NoDecode(Tail(S))
      /\ Asks(S) => Asks(Tail(S))
  BY <1>2, TailKeeps
<1>6. RequestType(q)
  <2>1. <<m, r.target>> = <<<<m, r.target>>[1], r.target>>
    OBVIOUS
  <2> QED
    BY <1>1, <2>1 DEF Fine, RequestType
<1>7. RestSafe(q)
  BY <1>1, <1>4, <1>5 DEF RestSafe
<1>8. RestAsks(q)
  BY <1>1, <1>5 DEF Fine, RestAsks, MustAsk
<1>9. DoneWell(q)
  BY <1>1 DEF Fine, DoneWell, MustAsk
<1>10. PathActs(q)
  BY <1>1 DEF Fine, PathActs
<1> QED
  BY <1>6, <1>7, <1>8, <1>9, <1>10 DEF Fine

(* What the first stage names was authorised, unless it needs no           *)
(* principal.                                                              *)
LEMMA Mentioned ==
  ASSUME NEW r, Fine(r), NEW m, m \in UnauthenticatedMethods \cup Names(r.authorised),
         m \notin UnauthenticatedMethods
  PROVE  <<m, r.target>> \in r.authorised
<1>1. PICK c \in r.authorised : m = c[1]
  BY DEF Names
<1>2. c = <<c[1], r.target>>
  BY DEF Fine, RequestType
<1> QED
  BY <1>1, <1>2

(* CheckStatusWrite admits. *)
LEMMA CheckStep ==
  ASSUME NEW r, NEW q, Fine(r), r.stages # <<>>, DOMAIN q = Fields,
         Head(r.stages).do = "status",
         \A f \in Fields \ {"stages", "checked"} : q[f] = r[f], q.stages = Tail(r.stages),
         q.checked = r.checked \cup {<<Head(r.stages).rpc, r.target>>}
  PROVE  Fine(q)
<1> DEFINE S == r.stages
           m == Head(S).rpc
           A == UnauthenticatedMethods \cup Names(r.authorised)
           C == Names(r.checked)
           D == Names(q.checked)
<1>1. /\ q.front = r.front /\ q.name = r.name /\ q.from = r.from /\ q.path = r.path
      /\ q.confirmed = r.confirmed /\ q.target = r.target
      /\ q.authorised = r.authorised /\ q.called = r.called
  BY DEF Fields
<1>2. Safe(S, A, C) /\ DecodesFirst(S) /\ S \in Seq(StageRec)
  BY DEF Fine, RestSafe, Safe
<1>3. C \subseteq D /\ m \in D
  <2>1. <<m, r.target>> \in q.checked /\ <<m, r.target>>[1] = m
    OBVIOUS
  <2> QED
    BY <2>1 DEF Names
<1>4. Safe(Tail(S), A, D)
  BY <1>2, <1>3, SafeTail
<1>5. /\ DecodesFirst(Tail(S)) /\ NoDecode(Tail(S))
      /\ Asks(S) => Asks(Tail(S))
  BY <1>2, TailKeeps
<1>6. RequestType(q)
  <2>1. <<m, r.target>> = <<<<m, r.target>>[1], r.target>>
    OBVIOUS
  <2> QED
    BY <1>1, <2>1 DEF Fine, RequestType
<1>7. RestSafe(q)
  BY <1>1, <1>4, <1>5 DEF RestSafe
<1>8. RestAsks(q)
  BY <1>1, <1>5 DEF Fine, RestAsks, MustAsk
<1>9. DoneWell(q)
  <2>1. m \in A
    BY <1>2, HeadSafe
  <2>2. m \notin UnauthenticatedMethods => <<m, r.target>> \in r.authorised
    BY <2>1, Mentioned
  <2>3. <<m, r.target>>[1] = m
    OBVIOUS
  <2>4. Authenticated(q.checked \cup q.called) \subseteq q.authorised
    BY <1>1, <2>2, <2>3 DEF Fine, DoneWell, Authenticated
  <2> QED
    BY <1>1, <2>4 DEF Fine, DoneWell, MustAsk
<1>10. PathActs(q)
  BY <1>1 DEF Fine, PathActs
<1> QED
  BY <1>6, <1>7, <1>8, <1>9, <1>10 DEF Fine

(* The call: it was authorised, a write was checked, and what has a prompt *)
(* was asked about.                                                        *)
LEMMA CallStep ==
  ASSUME NEW r, NEW q, Fine(r), r.stages # <<>>, DOMAIN q = Fields,
         Head(r.stages).do = "call",
         \A f \in Fields \ {"stages", "called"} : q[f] = r[f], q.stages = Tail(r.stages),
         q.called = r.called \cup {<<Head(r.stages).rpc, r.target>>}
  PROVE  Fine(q)
<1> DEFINE S == r.stages
           m == Head(S).rpc
           A == UnauthenticatedMethods \cup Names(r.authorised)
           C == Names(r.checked)
<1>1. /\ q.front = r.front /\ q.name = r.name /\ q.from = r.from /\ q.path = r.path
      /\ q.confirmed = r.confirmed /\ q.target = r.target
      /\ q.authorised = r.authorised /\ q.checked = r.checked
  BY DEF Fields
<1>2. Safe(S, A, C) /\ DecodesFirst(S) /\ S \in Seq(StageRec)
  BY DEF Fine, RestSafe, Safe
<1>3. Safe(Tail(S), A, C)
  BY <1>2, SafeTail
<1>4. /\ DecodesFirst(Tail(S)) /\ NoDecode(Tail(S))
      /\ Asks(S) => Asks(Tail(S))
  BY <1>2, TailKeeps
<1>5. RequestType(q)
  <2>1. <<m, r.target>> = <<<<m, r.target>>[1], r.target>>
    OBVIOUS
  <2> QED
    BY <1>1, <2>1 DEF Fine, RequestType
<1>6. RestSafe(q)
  BY <1>1, <1>3, <1>4 DEF RestSafe
<1>7. RestAsks(q)
  BY <1>1, <1>4 DEF Fine, RestAsks, MustAsk
<1>8. DoneWell(q)
  <2>1. /\ m \in A /\ (IsWrite(m) => m \in C)
        /\ Asks(S) => m \notin Prompts
    BY <1>2, HeadSafe
  <2>2. m \notin UnauthenticatedMethods => <<m, r.target>> \in r.authorised
    BY <2>1, Mentioned
  <2>3. <<m, r.target>>[1] = m
    OBVIOUS
  <2>4. Authenticated(q.checked \cup q.called) \subseteq q.authorised
    BY <1>1, <2>2, <2>3 DEF Fine, DoneWell, Authenticated
  <2>5. IsWrite(m) => <<m, r.target>> \in q.checked
    <3>1. SUFFICES ASSUME m \in C PROVE <<m, r.target>> \in r.checked
      BY <1>1, <2>1
    <3>2. PICK c \in r.checked : m = c[1]
      BY <3>1 DEF Names
    <3>3. c = <<c[1], r.target>>
      BY DEF Fine, RequestType
    <3> QED
      BY <3>2, <3>3
  <2>6. \A c \in q.called : IsWrite(c[1]) => c \in q.checked
    BY <1>1, <2>3, <2>5 DEF Fine, DoneWell
  <2>7. MustAsk(q) => \A c \in q.called : c[1] \in Prompts => q.confirmed
    BY <1>1, <2>1, <2>3 DEF Fine, DoneWell, RestAsks, MustAsk
  <2> QED
    BY <2>4, <2>6, <2>7 DEF DoneWell
<1>9. PathActs(q)
  BY <1>1 DEF Fine, PathActs
<1> QED
  BY <1>5, <1>6, <1>7, <1>8, <1>9 DEF Fine

(* Where the path is a source, it is the last one. *)
LEMMA PathIsLast ==
  ASSUME NEW from \in Sources, \E i \in DOMAIN from : from[i] = "path"
  PROVE  from # <<>> /\ from[Len(from)] = "path"
<1>1. CASE from = Path \/ from = BodyThenPath
  BY <1>1 DEF Path, BodyThenPath
<1>2. CASE from = Body
  BY <1>2 DEF Body
<1>3. CASE from = NoId
  BY <1>3 DEF NoId
<1> QED
  BY <1>1, <1>2, <1>3 DEF Sources

(* The message is decoded: nothing was done for the target it had. *)
LEMMA DecodeStep ==
  ASSUME NEW r, NEW q, Fine(r), r.stages # <<>>, DOMAIN q = Fields,
         Head(r.stages).do = "decode",
         \A f \in Fields \ {"stages", "target"} : q[f] = r[f], q.stages = Tail(r.stages),
         q.target = IF r.from # <<>> /\ r.from[Len(r.from)] = "body" THEN r.body ELSE r.path
  PROVE  Fine(q)
<1> DEFINE S == r.stages
           A == UnauthenticatedMethods \cup Names(r.authorised)
           C == Names(r.checked)
<1>1. /\ q.front = r.front /\ q.name = r.name /\ q.from = r.from /\ q.path = r.path
      /\ q.confirmed = r.confirmed
      /\ q.authorised = r.authorised /\ q.checked = r.checked /\ q.called = r.called
  BY DEF Fields
<1>2. Safe(S, A, C) /\ DecodesFirst(S) /\ S \in Seq(StageRec)
  BY DEF Fine, RestSafe, Safe
<1>3. Safe(Tail(S), A, C)
  BY <1>2, SafeTail
<1>4. /\ DecodesFirst(Tail(S)) /\ NoDecode(Tail(S))
      /\ Asks(S) => Asks(Tail(S))
  BY <1>2, TailKeeps
<1>5. r.authorised = {} /\ r.checked = {} /\ r.called = {}
  <2>1. 1 \in 1..Len(S) /\ S[1].do = "decode"
    BY <1>2
  <2>2. ~NoDecode(S)
    BY <2>1 DEF NoDecode
  <2> QED
    BY <2>2 DEF Fine, RestSafe
<1>6. RequestType(q)
  BY <1>1, <1>5 DEF Fine, RequestType
<1>7. RestSafe(q)
  BY <1>1, <1>3, <1>4 DEF RestSafe
<1>8. RestAsks(q)
  BY <1>1, <1>4 DEF Fine, RestAsks, MustAsk
<1>9. DoneWell(q)
  BY <1>1 DEF Fine, DoneWell, MustAsk
<1>10. PathActs(q)
  <2> SUFFICES ASSUME \E i \in DOMAIN r.from : r.from[i] = "path" PROVE q.target = r.path
    BY <1>1 DEF PathActs
  <2>1. r.from \in Sources
    BY DEF Fine, RequestType
  <2>2. r.from[Len(r.from)] = "path"
    BY <2>1, PathIsLast
  <2> QED
    BY <2>2
<1> QED
  BY <1>6, <1>7, <1>8, <1>9, <1>10 DEF Fine

-----------------------------------------------------------------------------
(* A request that arrives. *)
LEMMA Arrives ==
  ASSUME NEW front \in {"console", "rest", "grpc"}, NEW name, NEW stages, NEW from \in Sources,
         NEW sid, NEW path, NEW body, NEW token, NEW confirmed,
         Safe(stages, UnauthenticatedMethods, {}), DecodesFirst(stages),
         front = "console" /\ name \notin UngatedNames => Asks(stages)
  PROVE  Fine(Request(front, name, stages, from, sid, path, body, token, confirmed))
<1> DEFINE r == Request(front, name, stages, from, sid, path, body, token, confirmed)
<1>1. /\ r.front = front /\ r.name = name /\ r.stages = stages /\ r.from = from
      /\ r.path = path /\ r.confirmed = confirmed
      /\ r.target = path /\ r.authorised = {} /\ r.checked = {} /\ r.called = {}
      /\ DOMAIN r = Fields
  BY DEF Request, Fields
<1> HIDE DEF r
<1>2. Names({}) = {}
  BY DEF Names
<1>3. RequestType(r)
  BY <1>1 DEF RequestType
<1>4. RestSafe(r)
  <2>1. UnauthenticatedMethods \cup {} = UnauthenticatedMethods
    OBVIOUS
  <2> QED
    BY <1>1, <1>2, <2>1 DEF RestSafe
<1>5. RestAsks(r)
  BY <1>1 DEF RestAsks, MustAsk
<1>6. DoneWell(r) /\ PathActs(r)
  BY <1>1 DEF DoneWell, PathActs, Authenticated
<1> QED
  BY <1>3, <1>4, <1>5, <1>6 DEF Fine, r

(* The three ways in. *)
LEMMA RequestStep ==
  ASSUME \/ \E route \in ConsoleRoutes, p \in Apps, token, confirmed \in BOOLEAN :
              ConsoleRequest(route, p, token, confirmed)
         \/ \E route \in RestRoutes, p, b \in Apps : RestRequest(route, p, b)
         \/ \E handler \in GrpcHandlers, b \in Apps : GrpcRequest(handler, b)
  PROVE  Fine(req')
<1>1. Path \in Sources
  BY DEF Sources
<1>2. \A S : NoDecode(S) => DecodesFirst(S)
  BY DEF NoDecode, DecodesFirst
<1>3. ASSUME NEW route \in ConsoleRoutes, NEW p \in Apps, NEW token \in BOOLEAN,
             NEW confirmed \in BOOLEAN, ConsoleRequest(route, p, token, confirmed)
      PROVE  Fine(req')
  <2>1. Handled(route)
    BY ConsoleHandled
  <2>2. /\ Safe(route.stages, UnauthenticatedMethods, {}) /\ DecodesFirst(route.stages)
        /\ route.name \notin UngatedNames => Asks(route.stages)
    BY <1>2, <2>1 DEF Handled, Part
  <2>3. req' = Request("console", route.name, route.stages, Path, cookie, p, p, token, confirmed)
    BY <1>3 DEF ConsoleRequest
  <2> QED
    BY <1>1, <2>2, <2>3, Arrives
<1>4. ASSUME NEW route \in RestRoutes, NEW p \in Apps, NEW b \in Apps, RestRequest(route, p, b)
      PROVE  Fine(req')
  <2>1. route.rpc \in Methods /\ route.invoke = route.rpc /\ route.from \in Sources
    BY RestTable DEF Direct
  <2>2. Safe(RestStages(route), UnauthenticatedMethods, {}) /\ DecodesFirst(RestStages(route))
    BY <2>1, RestHandled
  <2>3. req' = Request("rest", route.rpc, RestStages(route), route.from, NoSid, p, b, FALSE, FALSE)
    BY <1>4 DEF RestRequest
  <2> QED
    BY <2>1, <2>2, <2>3, Arrives
<1>5. ASSUME NEW handler \in GrpcHandlers, NEW b \in Apps, GrpcRequest(handler, b)
      PROVE  Fine(req')
  <2>1. handler.rpc \in Methods /\ handler.invoke = handler.rpc
    BY GrpcTable DEF Direct
  <2>2. Safe(GrpcStages(handler), UnauthenticatedMethods, {}) /\ DecodesFirst(GrpcStages(handler))
    BY <1>2, <2>1, GrpcHandled
  <2>3. req' = Request("grpc", handler.rpc, GrpcStages(handler), Path, NoSid, b, b, FALSE, FALSE)
    BY <1>5 DEF GrpcRequest
  <2> QED
    BY <1>1, <2>2, <2>3, Arrives
<1> QED
  BY <1>3, <1>4, <1>5

(* The stages of a request. *)
LEMMA ServeStep ==
  ASSUME WebInv, ServeConsole \/ ServeAny
  PROVE  WebInv'
<1>1. Busy
  BY DEF ServeConsole, ServeAny, RequireSession, CheckCSRF, RequireConfirm, DryRun, AskSelf,
         Skip, LookupTenant, PeekTenant, SetFlashGet, SetFlash, TakeFlashGet, TakeFlash, Authenticate, Decode, Authorize,
         CheckStatus, Call, Respond, Refuse, At
<1>2. Fine(req) /\ DOMAIN req = Fields
  BY <1>1 DEF WebInv, NoRequest, Busy, Fine, RequestType
<1>3. SUFFICES req' = NoRequest \/ Fine(req')
  BY DEF WebInv
<1> DEFINE On(q) == /\ DOMAIN q = Fields /\ q.stages = Tail(req.stages)
                    /\ \A f \in Fields \ {"stages", "principal", "looked"} : q[f] = req[f]
           Page(q) == /\ DOMAIN q = Fields
                      /\ \E k \in {"take", "set", "clear"} : q.stages = <<Do(k)>>
                      /\ \A f \in Fields \ {"stages", "principal", "looked"} : q[f] = req[f]
<1>4. On(Onwards) /\ On([Onwards EXCEPT !.principal = TRUE])
  BY <1>2 DEF Onwards, Fields
<1>5. \A k \in {"take", "set", "clear"} : Page([req EXCEPT !.stages = <<Do(k)>>])
  BY <1>2 DEF Fields
<1>6. ASSUME Page(req') PROVE Fine(req')
  BY <1>2, <1>6, PageStep
<1>7. ASSUME On(req'), req.stages # <<>>, Stage.do \notin {"authz", "self", "try", "status"},
             Stage.do \in {"confirm", "dry"} => req.confirmed
      PROVE  Fine(req')
  BY <1>2, <1>7, OnwardsStep DEF Stage
<1> HIDE DEF On, Page
<1>8. CASE RequireSession \/ CheckCSRF \/ Authenticate
  BY <1>4, <1>5, <1>6, <1>7, <1>8 DEF RequireSession, CheckCSRF, Authenticate, At, Over
<1>9. CASE RequireConfirm \/ DryRun
  BY <1>4, <1>7, <1>9 DEF RequireConfirm, DryRun, ConfirmedOrAsk, At, Over
<1>17. CASE LookupTenant \/ PeekTenant
  <2> DEFINE seen == [req EXCEPT !.looked = @ \cup {req.target}]
  <2>1. /\ On([seen EXCEPT !.stages = Tail(@)])
        /\ On([Onwards EXCEPT !.looked = @ \cup {req.target}])
        /\ Page([seen EXCEPT !.stages = <<Do("take")>>])
    BY <1>2 DEF On, Page, Onwards, Fields
  <2> HIDE DEF seen
  <2> QED
    BY <1>6, <1>7, <1>17, <2>1 DEF LookupTenant, PeekTenant, At, seen
<1>10. CASE SetFlashGet \/ SetFlash
  BY <1>4, <1>5, <1>6, <1>7, <1>10 DEF SetFlashGet, SetFlash, At
<1>11. CASE TakeFlashGet \/ TakeFlash \/ Respond \/ Refuse
  BY <1>5, <1>6, <1>11 DEF TakeFlashGet, TakeFlash, Respond, Refuse, Over
<1>12. CASE Skip
  <2>1. /\ req.stages # <<>> /\ Head(req.stages).do = "try"
        /\ req' = [req EXCEPT !.stages = SubSeq(req.stages, 3, Len(req.stages))]
    BY <1>12 DEF Skip, At, Stage
  <2>2. /\ DOMAIN req' = Fields /\ req'.stages = SubSeq(req.stages, 3, Len(req.stages))
        /\ \A f \in Fields \ {"stages", "principal", "looked"} : req'[f] = req[f]
    BY <1>2, <2>1 DEF Fields
  <2> QED
    BY <1>2, <2>1, <2>2, SkipStep
<1>13. CASE Authorize \/ AskSelf
  <2>1. /\ req.stages # <<>> /\ Head(req.stages).do \in {"authz", "self", "try"}
        /\ req' = [Onwards EXCEPT !.authorised = @ \cup {Mention}]
    BY <1>13 DEF Authorize, AskSelf, At, Stage
  <2>2. /\ DOMAIN req' = Fields /\ req'.stages = Tail(req.stages)
        /\ req'.authorised = req.authorised \cup {<<Head(req.stages).rpc, req.target>>}
        /\ \A f \in Fields \ {"stages", "authorised"} : req'[f] = req[f]
    BY <1>2, <2>1 DEF Fields, Onwards, Mention, Stage
  <2> QED
    BY <1>2, <2>1, <2>2, AuthorizeStep
<1>14. CASE CheckStatus
  <2>1. /\ req.stages # <<>> /\ Head(req.stages).do = "status"
        /\ req' = [Onwards EXCEPT !.checked = @ \cup {Mention}]
    BY <1>14 DEF CheckStatus, At, Stage
  <2>2. /\ DOMAIN req' = Fields /\ req'.stages = Tail(req.stages)
        /\ req'.checked = req.checked \cup {<<Head(req.stages).rpc, req.target>>}
        /\ \A f \in Fields \ {"stages", "checked"} : req'[f] = req[f]
    BY <1>2, <2>1 DEF Fields, Onwards, Mention, Stage
  <2> QED
    BY <1>2, <2>1, <2>2, CheckStep
<1>15. CASE Call
  <2>1. /\ req.stages # <<>> /\ Head(req.stages).do = "call"
        /\ req' = [Onwards EXCEPT !.called = @ \cup {Mention}]
    BY <1>15 DEF Call, At, Stage
  <2>2. /\ DOMAIN req' = Fields /\ req'.stages = Tail(req.stages)
        /\ req'.called = req.called \cup {<<Head(req.stages).rpc, req.target>>}
        /\ \A f \in Fields \ {"stages", "called"} : req'[f] = req[f]
    BY <1>2, <2>1 DEF Fields, Onwards, Mention, Stage
  <2> QED
    BY <1>2, <2>1, <2>2, CallStep
<1>16. CASE Decode
  <2> DEFINE t == IF req.from # <<>> /\ req.from[Len(req.from)] = "body"
                  THEN req.body ELSE req.path
  <2>1. /\ req.stages # <<>> /\ Head(req.stages).do = "decode"
        /\ req' = [Onwards EXCEPT !.target = t]
    BY <1>16 DEF Decode, At, Stage
  <2>2. /\ DOMAIN req' = Fields /\ req'.stages = Tail(req.stages) /\ req'.target = t
        /\ \A f \in Fields \ {"stages", "target"} : req'[f] = req[f]
    <3> HIDE DEF t
    <3> QED
      BY <1>2, <2>1 DEF Fields, Onwards
  <2>3. req'.target = IF req.from # <<>> /\ req.from[Len(req.from)] = "body"
                      THEN req.body ELSE req.path
    BY <2>2
  <2> HIDE DEF t
  <2> QED
    BY ONLY <1>2, <2>1, <2>2, <2>3, DecodeStep
<1> QED
  BY <1>8, <1>9, <1>10, <1>11, <1>12, <1>13, <1>14, <1>15, <1>16, <1>17
  DEF ServeConsole, ServeAny

-----------------------------------------------------------------------------
(***************************************************************************)
(* The inductive invariant of the front ends: there is no request, or it   *)
(* is fine.                                                                *)
(***************************************************************************)
THEOREM WebInvariance == WebSpec => []WebInv
<1>1. WebInit => WebInv
  BY DEF WebInit, WebInv
<1>2. WebInv /\ [WebNext]_webVars => WebInv'
  <2> SUFFICES ASSUME WebInv, [WebNext]_webVars PROVE WebInv'
    OBVIOUS
  <2>1. ASSUME req' = req PROVE WebInv'
    BY <2>1 DEF WebInv, Fine, RequestType, RestSafe, RestAsks, DoneWell, PathActs, MustAsk,
                NoRequest
  <2>2. CASE UNCHANGED webVars
    BY <2>1, <2>2 DEF webVars
  <2>3. CASE \/ \E s \in Sids : HandleLogin(s) \/ SessionExpires(s)
             \/ HandleLogout
             \/ \E a \in Apps : SetApplicationStatus(a)
    BY <2>1, <2>3 DEF HandleLogin, SessionExpires, HandleLogout, SetApplicationStatus
  <2>4. CASE ServeConsole \/ ServeAny
    BY <2>4, ServeStep
  <2>5. CASE \/ \E route \in ConsoleRoutes, p \in Apps, token, confirmed \in BOOLEAN :
                  ConsoleRequest(route, p, token, confirmed)
             \/ \E route \in RestRoutes, p, b \in Apps : RestRequest(route, p, b)
             \/ \E handler \in GrpcHandlers, b \in Apps : GrpcRequest(handler, b)
    BY <2>5, RequestStep DEF WebInv
  <2> QED
    BY <2>2, <2>3, <2>4, <2>5 DEF WebNext
<1> QED
  BY <1>1, <1>2, PTL DEF WebSpec

(***************************************************************************)
(* Whatever a front end calls on the server, or looks up the status of,    *)
(* AuthorizeRule allowed before, for the same method and the same          *)
(* application or tenant (AuthorisedFirst): none of the handlers of the    *)
(* console, routes of the gateway and methods of the gRPC server is open.  *)
(***************************************************************************)
THEOREM AuthorisedTheorem == WebSpec => []AuthorisedFirst
<1>1. WebInv => AuthorisedFirst
  <2> SUFFICES ASSUME WebInv, Busy
               PROVE  Authenticated(req.checked \cup req.called) \subseteq req.authorised
    BY DEF AuthorisedFirst
  <2>1. Fine(req)
    BY DEF WebInv, Busy, NoRequest
  <2> QED
    BY <2>1 DEF Fine, DoneWell
<1> QED
  BY <1>1, WebInvariance, PTL

(***************************************************************************)
(* Every call that writes the policy of an application was admitted by     *)
(* CheckStatusWrite in the same request (PolicyWritesChecked).             *)
(***************************************************************************)
THEOREM CheckedTheorem == WebSpec => []PolicyWritesChecked
<1>1. WebInv => PolicyWritesChecked
  BY DEF WebInv, Fine, DoneWell, PolicyWritesChecked, Busy, NoRequest
<1> QED
  BY <1>1, WebInvariance, PTL

(***************************************************************************)
(* What confirmPrompts lists, and an import, is called by the console only *)
(* for a request that carries the confirmed field, in every handler and    *)
(* for every form but those that the gate of setAppStatus lets through     *)
(* (AskedBefore).                                                          *)
(***************************************************************************)
THEOREM AskedTheorem == WebSpec => []AskedBefore
<1>1. WebInv => AskedBefore
  BY DEF WebInv, Fine, DoneWell, MustAsk, UngatedNames, Prompts, AskedBefore, Busy, NoRequest
<1> QED
  BY <1>1, WebInvariance, PTL

(***************************************************************************)
(* The gateway acts on the id of the path, whatever the body says, for any *)
(* number of applications and tenants (ActsOnPath).                        *)
(***************************************************************************)
THEOREM PathTheorem == WebSpec => []ActsOnPath
<1>1. WebInv => ActsOnPath
  <2> SUFFICES ASSUME WebInv, Busy, \E i \in DOMAIN req.from : req.from[i] = "path",
                      NEW c \in req.authorised \cup req.called
               PROVE  c[2] = req.path
    BY DEF ActsOnPath
  <2>1. Fine(req)
    BY DEF WebInv, Busy, NoRequest
  <2>2. c = <<c[1], req.target>> /\ req.target = req.path
    BY <2>1 DEF Fine, RequestType, PathActs
  <2> QED
    BY <2>2
<1> QED
  BY <1>1, WebInvariance, PTL
=============================================================================
