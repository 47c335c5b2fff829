---------------------------- MODULE SingleSignOn ----------------------------
(***************************************************************************)
(* Login through a tenant's identity provider: the state that carries a    *)
(* login from its start to its callback (controlplane/console/oidc.go,     *)
(* oidcstate.go), the verification of the ID token (oidc/verify.go), the   *)
(* mapping of its email to an operator and the provisioning of one that is *)
(* not known (controlplane/ssologin, controlplane/store/idp_login.go), all *)
(* of it while administrators configure and delete the provider            *)
(* (controlplane/mgmt/sso.go, controlplane/store/tenant_idp.go) and change *)
(* operators.                                                              *)
(***************************************************************************)
EXTENDS Naturals

CONSTANTS
  Tenants, Domains, Secrets,
  Issuers, Clients, \* what a provider is configured with
  Principals,      \* principals of operators, the emails among them
  Emails,
  States,          \* values of state, each with its nonce
  Callbacks,       \* requests to the callback, each served once
  Admins,          \* requests to configure or delete a provider, each served once
  None,
  MaxChanges       \* bound: changes of operators

ASSUME SSOAssumption ==
  /\ MaxChanges \in Nat
  /\ Emails \subseteq Principals /\ None \notin Secrets \cup Principals

VARIABLES
  idp,             \* tenant_idp: None, or the provider of the tenant
  configured,      \* <<tenant, issuer, client>>, what tenant_idp ever held
  domains,         \* tenant_idp_domain: <<tenant, domain>>
  operators,       \* admin_operator: None, or its email and whether it is active
  members,         \* tenant_membership: <<tenant, principal>>
  states,          \* Redis: the logins under way, and the tenant of each
  started,         \* the states ever used
  callbacks,       \* the callbacks being served
  admins,          \* the administrators' requests being served
  provisioned,     \* <<callback, tenant, principal>>, created at a login
  changes,         \* how often an operator was changed
  opened           \* the sessions created, with the tokens they rest on

vars == <<idp, configured, domains, operators, members, states, started, callbacks,
          admins, provisioned, changes, opened>>

directory == <<operators, members, changes>>
config == <<idp, configured, domains, admins>>

-----------------------------------------------------------------------------
(* Any issuer and any client will do, those of another tenant too. *)
Idp(issuer, client, secret, enabled, jit) ==
  [issuer |-> issuer, client |-> client, secret |-> secret, enabled |-> enabled, jit |-> jit]

Operator(email, active) == [email |-> email, active |-> active]

(* What a token endpoint may answer: a token that the issuer it names      *)
(* signed, or did not, for any client and any login, of today or not, with *)
(* an email that the issuer verified, or did not.                          *)
Tokens ==
  [alg : {"none", "RS256"}, signed : BOOLEAN, iss : Issuers, aud : Clients,
   nonce : States, fresh : BOOLEAN, email : Emails, verified : BOOLEAN]

Idle == [pc |-> "idle"]
Done == [pc |-> "done"]

Init ==
  /\ idp \in [Tenants ->
              [issuer : Issuers, client : Clients, secret : Secrets, enabled : {TRUE}, jit : {TRUE}]
                \cup {None}]
  /\ configured = {<<t, idp[t].issuer, idp[t].client>> : t \in {t \in Tenants : idp[t] # None}}
  /\ \E home \in [Domains -> {t \in Tenants : idp[t] # None} \cup {None}] :
       domains = {x \in Tenants \X Domains : home[x[2]] = x[1]}
  /\ \E email \in [Principals \ Emails -> Emails \cup {None}] :
       operators = [p \in Principals \ Emails |-> Operator(email[p], TRUE)]
  /\ \A p, q \in DOMAIN operators :
       operators[p].email = operators[q].email => p = q \/ operators[p].email = None
  /\ members \in SUBSET (Tenants \X (Principals \ Emails))
  /\ states = {} /\ started = {}
  /\ callbacks = [c \in Callbacks |-> Idle] /\ admins = [a \in Admins |-> Idle]
  /\ provisioned = {} /\ opened = {} /\ changes = 0

EmailUsed(e) == \E p \in DOMAIN operators : operators[p].email = e

-----------------------------------------------------------------------------
(* handleSSOStart: the domain of the email finds the provider, which is    *)
(* reached, and the state is stored for ten minutes.                       *)
HandleSSOStart(s, d) ==
  /\ s \notin started
  /\ \E t \in Tenants :
       /\ <<t, d>> \in domains
       /\ idp[t] # None /\ idp[t].enabled
       /\ states' = states \cup {<<s, t>>}
  /\ started' = started \cup {s}
  /\ UNCHANGED <<config, directory, callbacks, provisioned, opened>>

StateExpires(s) ==
  /\ \E t \in Tenants : <<s, t>> \in states
  /\ states' = {x \in states : x[1] # s}
  /\ UNCHANGED <<config, directory, started, callbacks, provisioned, opened>>

-----------------------------------------------------------------------------
(* The callback. *)

Fail(c) ==
  /\ callbacks[c].pc \notin {"idle", "done"}
  /\ callbacks' = [callbacks EXCEPT ![c] = Done]
  /\ UNCHANGED <<config, directory, states, started, provisioned, opened>>

(* Mutant: the state is read and left to expire. *)
GetOIDCState(c, s) ==
  /\ callbacks[c].pc = "idle"
  /\ \E t \in Tenants :
       /\ <<s, t>> \in states
       /\ callbacks' = [callbacks EXCEPT ![c] = [pc |-> "taken", state |-> s, tenant |-> t]]
  /\ UNCHANGED <<config, directory, states, started, provisioned, opened>>

(* TakeOIDCState: GETDEL. *)
TakeOIDCState(c, s) ==
  /\ callbacks[c].pc = "idle"
  /\ \E t \in Tenants :
       /\ <<s, t>> \in states
       /\ states' = states \ {<<s, t>>}
       /\ callbacks' = [callbacks EXCEPT ![c] = [pc |-> "taken", state |-> s, tenant |-> t]]
  /\ UNCHANGED <<config, directory, started, provisioned, opened>>

(* The provider of the tenant of the state, not of a parameter. *)
ResolveIdPByTenant(c) ==
  LET t == callbacks[c].tenant
  IN  /\ callbacks[c].pc = "taken"
      /\ idp[t] # None /\ idp[t].enabled
      /\ callbacks' = [callbacks EXCEPT
           ![c] = [pc |-> "resolved", state |-> @.state, tenant |-> t, idp |-> idp[t]]]
      /\ UNCHANGED <<config, directory, states, started, provisioned, opened>>

(* Mutant: the audience is not looked at. *)
VerifyAnyAudience(tok, p, nonce) ==
  /\ tok.alg \in {"RS256", "ES256"} /\ tok.signed
  /\ tok.iss = p.issuer /\ tok.fresh
  /\ tok.nonce = nonce

(* VerifyIDToken: algorithm, key, signature, issuer, audience, times,      *)
(* nonce.                                                                  *)
VerifyIDToken(tok, p, nonce) ==
  /\ tok.alg \in {"RS256", "ES256"} /\ tok.signed
  /\ tok.iss = p.issuer /\ tok.aud = p.client /\ tok.fresh
  /\ tok.nonce = nonce

(* Discover, Exchange, FetchJWKS, VerifyIDToken.  The verifier of the      *)
(* state is checked by the provider and not relied on.                     *)
Exchange(c, tok) ==
  LET cb == callbacks[c]
  IN  /\ cb.pc = "resolved"
      /\ VerifyIDToken(tok, cb.idp, cb.state) /\ tok.verified
      /\ callbacks' = [callbacks EXCEPT
           ![c] = [pc |-> "verified", tenant |-> cb.tenant, jit |-> cb.idp.jit, token |-> tok]]
      /\ UNCHANGED <<config, directory, states, started, provisioned, opened>>

Open(c, t, p) ==
  opened' = opened \cup {[by |-> c, tenant |-> t, principal |-> p, token |-> callbacks[c].token]}

(* Mutant: the tenant is not part of the query. *)
OperatorEmailAnyTenant(t, e) ==
  {p \in DOMAIN operators : operators[p].email = e /\ operators[p].active}

OperatorEmailMatch(t, e) ==
  {p \in DOMAIN operators :
     operators[p].email = e /\ operators[p].active /\ <<t, p>> \in members}

(* MatchOperatorForLogin, and the session of the operator it found. *)
MatchOperator(c) ==
  LET cb == callbacks[c]
  IN  /\ cb.pc = "verified"
      /\ \E p \in OperatorEmailMatch(cb.tenant, cb.token.email) : Open(c, cb.tenant, p)
      /\ callbacks' = [callbacks EXCEPT ![c] = Done]
      /\ UNCHANGED <<config, directory, states, started, provisioned>>

(* ProvisionOperatorForLogin: no operator has the email when it looks ... *)
ProvisionCheck(c) ==
  LET cb == callbacks[c]
  IN  /\ cb.pc = "verified" /\ cb.jit
      /\ OperatorEmailMatch(cb.tenant, cb.token.email) = {}
      /\ ~EmailUsed(cb.token.email)
      /\ callbacks' = [callbacks EXCEPT ![c].pc = "provision"]
      /\ UNCHANGED <<config, directory, states, started, provisioned, opened>>

(* Mutant: the insertion takes the operator that is there. *)
InsertJITOperatorOverwriting(e) ==
  operators' = [p \in DOMAIN operators \cup {e} |->
                  IF p = e THEN Operator(e, TRUE) ELSE operators[p]]

(* ... and the unique columns email and principal hold when it inserts. *)
InsertJITOperatorTx(e) ==
  /\ ~EmailUsed(e) /\ e \notin DOMAIN operators
  /\ operators' = [p \in DOMAIN operators \cup {e} |->
                     IF p = e THEN Operator(e, TRUE) ELSE operators[p]]

ProvisionOperatorForLogin(c) ==
  LET cb == callbacks[c]
      e == cb.token.email
  IN  /\ cb.pc = "provision"
      /\ InsertJITOperatorTx(e)
      /\ members' = members \cup {<<cb.tenant, e>>}
      /\ provisioned' = provisioned \cup {<<c, cb.tenant, e>>}
      /\ Open(c, cb.tenant, e)
      /\ callbacks' = [callbacks EXCEPT ![c] = Done]
      /\ UNCHANGED <<config, changes, states, started>>

HandleOIDCCallback(c) ==
  \/ \E s \in States : TakeOIDCState(c, s)
  \/ ResolveIdPByTenant(c)
  \/ \E tok \in Tokens : Exchange(c, tok)
  \/ MatchOperator(c) \/ ProvisionCheck(c) \/ ProvisionOperatorForLogin(c)
  \/ Fail(c)

-----------------------------------------------------------------------------
(* Administrators.  A transaction that has written the row of a tenant's   *)
(* provider holds its lock until it ends.                                  *)

Locked(t) == \E a \in Admins : admins[a].pc = "staged" /\ admins[a].tenant = t

(* ConfigureTenantIdp begins: an empty secret is replaced by the one that  *)
(* is stored, which the first configuration does not have.                 *)
ConfigureBegin(a, t, i, k, secret, ds, enabled, jit) ==
  /\ admins[a].pc = "idle"
  /\ secret = None => idp[t] # None
  /\ admins' = [admins EXCEPT ![a] =
       [pc |-> "read", tenant |-> t, domains |-> ds,
        idp |-> Idp(i, k, IF secret = None THEN idp[t].secret ELSE secret, enabled, jit)]]
  /\ UNCHANGED <<idp, configured, domains, directory, states, started, callbacks, provisioned, opened>>

(* UpsertTenantIdpTx writes the row ... *)
ConfigureUpsert(a) ==
  /\ admins[a].pc = "read"
  /\ ~Locked(admins[a].tenant)
  /\ admins' = [admins EXCEPT ![a].pc = "staged"]
  /\ UNCHANGED <<idp, configured, domains, directory, states, started, callbacks, provisioned, opened>>

ReplacedDomains(t, ds) == {x \in domains : x[1] # t} \cup {<<t, d>> : d \in ds}

(* ... and replaces the domains; one that another tenant has fails it. *)
ConfigureCommit(a) ==
  LET q == admins[a]
  IN  /\ q.pc = "staged"
      /\ \A x \in domains : x[2] \in q.domains => x[1] = q.tenant
      /\ idp' = [idp EXCEPT ![q.tenant] = q.idp]
      /\ configured' = configured \cup {<<q.tenant, q.idp.issuer, q.idp.client>>}
      /\ domains' = ReplacedDomains(q.tenant, q.domains)
      /\ admins' = [admins EXCEPT ![a] = Done]
      /\ UNCHANGED <<directory, states, started, callbacks, provisioned, opened>>

AdminFails(a) ==
  /\ admins[a].pc \notin {"idle", "done"}
  /\ admins' = [admins EXCEPT ![a] = Done]
  /\ UNCHANGED <<idp, configured, domains, directory, states, started, callbacks, provisioned, opened>>

(* DeleteTenantIdpTx: the deletion of the domains finds the rows that are  *)
(* committed when the statement starts; it waits for the transaction that  *)
(* has locked them.                                                        *)
DeleteBegin(a, t) ==
  /\ admins[a].pc = "idle"
  /\ admins' = [admins EXCEPT ![a] =
       [pc |-> "deleting", tenant |-> t, rows |-> {x \in domains : x[1] = t}]]
  /\ UNCHANGED <<idp, configured, domains, directory, states, started, callbacks, provisioned, opened>>

DeleteTenantIdp(a) ==
  LET q == admins[a]
  IN  /\ q.pc = "deleting" /\ ~Locked(q.tenant)
      /\ idp[q.tenant] # None
      /\ domains' = domains \ q.rows
      /\ idp' = [idp EXCEPT ![q.tenant] = None]
      /\ admins' = [admins EXCEPT ![a] = Done]
      /\ UNCHANGED <<configured, directory, states, started, callbacks, provisioned, opened>>

CountChange == changes < MaxChanges /\ changes' = changes + 1

(* CreateOperator: principal and email are unique. *)
CreateOperator(p, e) ==
  /\ p \notin DOMAIN operators /\ (e # None => ~EmailUsed(e))
  /\ operators' = [q \in DOMAIN operators \cup {p} |->
                     IF q = p THEN Operator(e, TRUE) ELSE operators[q]]
  /\ CountChange
  /\ UNCHANGED <<config, members, states, started, callbacks, provisioned, opened>>

(* SetOperatorEmail: email is unique. *)
SetOperatorEmail(p, e) ==
  /\ p \in DOMAIN operators
  /\ e # None => \A q \in DOMAIN operators \ {p} : operators[q].email # e
  /\ operators' = [operators EXCEPT ![p].email = e]
  /\ CountChange
  /\ UNCHANGED <<config, members, states, started, callbacks, provisioned, opened>>

SetOperatorStatus(p, active) ==
  /\ p \in DOMAIN operators
  /\ operators' = [operators EXCEPT ![p].active = active]
  /\ CountChange
  /\ UNCHANGED <<config, members, states, started, callbacks, provisioned, opened>>

(* InviteMember, of an operator that exists or a new one. *)
InviteMember(t, p) ==
  /\ <<t, p>> \notin members
  /\ operators' = [q \in DOMAIN operators \cup {p} |->
                     IF q \in DOMAIN operators THEN operators[q] ELSE Operator(None, TRUE)]
  /\ members' = members \cup {<<t, p>>}
  /\ CountChange
  /\ UNCHANGED <<config, states, started, callbacks, provisioned, opened>>

Configure(a) ==
  \/ \E t \in Tenants, i \in Issuers, k \in Clients, secret \in Secrets \cup {None},
        ds \in SUBSET Domains \ {{}}, enabled, jit \in BOOLEAN :
       ConfigureBegin(a, t, i, k, secret, ds, enabled, jit)
  \/ ConfigureUpsert(a) \/ ConfigureCommit(a) \/ AdminFails(a)
Delete(a) == (\E t \in Tenants : DeleteBegin(a, t)) \/ DeleteTenantIdp(a)
ChangeOperator(p) ==
  \/ \E e \in Emails \cup {None} : CreateOperator(p, e) \/ SetOperatorEmail(p, e)
  \/ \E active \in BOOLEAN : SetOperatorStatus(p, active)
  \/ \E t \in Tenants : InviteMember(t, p)

Next ==
  \/ \E s \in States :
       \/ \E d \in Domains : HandleSSOStart(s, d)
       \/ StateExpires(s)
  \/ \E c \in Callbacks : HandleOIDCCallback(c)
  \/ \E a \in Admins : Configure(a) \/ Delete(a)
  \/ \E p \in Principals : ChangeOperator(p)

Spec == Init /\ [][Next]_vars

-----------------------------------------------------------------------------

(* One login, one session: no token opens two sessions, however often and  *)
(* in whatever callback it is presented (state taken once, nonce           *)
(* compared).                                                              *)
TokenOpensOneSession == \A x, y \in opened : x.token = y.token => x = y

(* A session opened through a tenant's provider is one of a member of that *)
(* tenant (OperatorEmailMatch, ProvisionOperatorForLogin): the provider    *)
(* speaks for no operator whom the tenant has not among its members.  Whom *)
(* it has is its own choice, as InviteMember adds any operator.            *)
SessionOfMember == \A x \in opened : <<x.tenant, x.principal>> \in members

(* A session rests on a token that is valid and whose email is verified,   *)
(* signed by the issuer and for the client that one configuration of the   *)
(* tenant named together, whoever else uses that issuer or that client,    *)
(* and however the configuration changes during the login (VerifyIDToken,  *)
(* ResolveIdPByTenant).                                                    *)
ProviderVouched ==
  \A x \in opened :
    /\ x.token.alg = "RS256" /\ x.token.signed /\ x.token.fresh /\ x.token.verified
    /\ <<x.tenant, x.token.iss, x.token.aud>> \in configured

(* Two logins, of one tenant or of two, cannot both have provisioned one   *)
(* operator, although both may have found its email unused                 *)
(* (InsertJITOperatorTx).                                                  *)
ProvisionedOnce ==
  \A x, y \in provisioned : x[3] = y[3] => x = y
=============================================================================
