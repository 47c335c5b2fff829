------------------------------ MODULE Console ------------------------------
(***************************************************************************)
(* One request of a front end at a time, taken through the stages FrontEnd *)
(* gives its handler: the pipelines of controlplane/console/handler.go,    *)
(* controlplane/restgw/handler.go and the interceptors of                  *)
(* controlplane/mgmt/server.go, over the session store of                  *)
(* controlplane/console/session.go.  What AuthorizeRule decides is         *)
(* AdminAuthz; here it may allow or refuse.  Meanwhile other requests log  *)
(* in and out, sessions expire, and applications are enabled and disabled. *)
(***************************************************************************)
EXTENDS FrontEnd, FiniteSets

CONSTANTS
  Apps,          \* ids of applications and tenants a request may name
  Sids,          \* session ids, each used by one login
  NoSid          \* no cookie

ASSUME NoSidAssumption == NoSid \notin Sids

VARIABLES
  sessions,      \* Redis: id -> "none", "plain", or "flash" with a message
  used,          \* the ids logins have created
  cookie,        \* the id the browser holds
  enabled,       \* the applications that are enabled
  req            \* the request being served

webVars == <<sessions, used, cookie, enabled, req>>

-----------------------------------------------------------------------------
(* A request: the ids its path and its body name, whether it carries the   *)
(* token of the session and the confirmed field, what is left of its       *)
(* handler, and what was done so far (looked: the ids whose application    *)
(* tenantOfApp read).                                                      *)
Request(front, name, stages, from, sid, path, body, token, confirmed) ==
  [front |-> front, name |-> name, stages |-> stages, from |-> from, sid |-> sid,
   path |-> path, body |-> body, token |-> token, confirmed |-> confirmed,
   target |-> path, principal |-> FALSE,
   looked |-> {}, authorised |-> {}, checked |-> {}, called |-> {}]

NoRequest == [front |-> "none", stages |-> <<>>]

Busy == req.front # "none"
Stage == Head(req.stages)
At(do) == Busy /\ req.stages # <<>> /\ Stage.do = do
Onwards == [req EXCEPT !.stages = Tail(@)]
Mention == <<Stage.rpc, req.target>>

(* The calls so far of a request that is over say nothing any more. *)
Over == req' = NoRequest

WebInit ==
  /\ sessions = [s \in Sids |-> "none"]
  /\ used = {} /\ cookie = NoSid
  /\ enabled \in SUBSET Apps
  /\ req = NoRequest

-----------------------------------------------------------------------------
(* A request arrives.  Any POST may carry the confirmed field; the form of *)
(* the confirmation page does.                                             *)
ConsoleRequest(route, p, token, confirmed) ==
  /\ ~Busy
  /\ req' = Request("console", route.name, route.stages, Path, cookie, p, p, token, confirmed)
  /\ UNCHANGED <<sessions, used, cookie, enabled>>

RestRequest(route, p, b) ==
  /\ ~Busy
  /\ req' = Request("rest", route.rpc, RestStages(route), route.from, NoSid, p, b, FALSE, FALSE)
  /\ UNCHANGED <<sessions, used, cookie, enabled>>

GrpcRequest(handler, b) ==
  /\ ~Busy
  /\ req' = Request("grpc", handler.rpc, GrpcStages(handler), Path, NoSid, b, b, FALSE, FALSE)
  /\ UNCHANGED <<sessions, used, cookie, enabled>>

-----------------------------------------------------------------------------
(* The stages. *)

(* requireSession. *)
RequireSession ==
  /\ At("session")
  /\ IF req.sid # NoSid /\ sessions[req.sid] # "none"
     THEN req' = [Onwards EXCEPT !.principal = TRUE]
     ELSE Over
  /\ UNCHANGED <<sessions, used, cookie, enabled>>

(* checkCSRF: a wrong token gets the error page. *)
CheckCSRF ==
  /\ At("csrf")
  /\ req' = IF req.token THEN Onwards
            ELSE [req EXCEPT !.stages = <<Do("take")>>]
  /\ UNCHANGED <<sessions, used, cookie, enabled>>

ConfirmedOrAsk == IF req.confirmed THEN req' = Onwards ELSE Over

(* requireConfirm, past its session and its token: the page it shows       *)
(* leaves the flash message alone.                                         *)
RequireConfirm ==
  /\ At("confirm")
  /\ ConfirmedOrAsk
  /\ UNCHANGED <<sessions, used, cookie, enabled>>

(* An import without the confirmed field reports what it would do, on the  *)
(* page whose form sends it again.                                         *)
DryRun ==
  /\ At("dry")
  /\ ConfirmedOrAsk
  /\ UNCHANGED <<sessions, used, cookie, enabled>>

(* The HMAC of the request holds. *)
Authenticate ==
  /\ At("authn")
  /\ req' = [Onwards EXCEPT !.principal = TRUE]
  /\ UNCHANGED <<sessions, used, cookie, enabled>>

(* Mutant: the body is decoded over what the path said. *)
DecodeBodyLast ==
  /\ At("decode")
  /\ req' = [Onwards EXCEPT
       !.target = IF "body" \in {req.from[i] : i \in DOMAIN req.from} THEN req.body ELSE req.path]
  /\ UNCHANGED <<sessions, used, cookie, enabled>>

(* The message of the call, from the last source to name an id. *)
Decode ==
  /\ At("decode")
  /\ req' = [Onwards EXCEPT
       !.target = IF req.from # <<>> /\ req.from[Len(req.from)] = "body"
                  THEN req.body ELSE req.path]
  /\ UNCHANGED <<sessions, used, cookie, enabled>>

(* tenantOfApp: the row of the application, if there is one, says whose it *)
(* is; without one the handler shows the error page.  The tenant is asked  *)
(* for under the id of its application here.                               *)
LookupTenant ==
  /\ At("lookup")
  /\ LET seen == [req EXCEPT !.looked = @ \cup {req.target}]
     IN  \/ req' = [seen EXCEPT !.stages = Tail(@)]
         \/ req' = [seen EXCEPT !.stages = <<Do("take")>>]
  /\ UNCHANGED <<sessions, used, cookie, enabled>>

(* The same where the page survives: without a row, as after a refusal,    *)
(* the attempt that follows is skipped.                                    *)
PeekTenant ==
  /\ At("peek")
  /\ req' = [Onwards EXCEPT !.looked = @ \cup {req.target}]
  /\ UNCHANGED <<sessions, used, cookie, enabled>>

(* AuthorizeRule, for a principal and a known method. *)
Authorize ==
  /\ At("authz") \/ At("try")
  /\ req.principal /\ Stage.rpc \in KnownMethods
  /\ req' = [Onwards EXCEPT !.authorised = @ \cup {Mention}]
  /\ UNCHANGED <<sessions, used, cookie, enabled>>

(* What a page can do without is left out when it is refused or fails. *)
Skip ==
  /\ At("try")
  /\ req' = [req EXCEPT !.stages = SubSeq(@, 3, Len(@))]
  /\ UNCHANGED <<sessions, used, cookie, enabled>>

(* An operator may always ask for its own tenants: the rule has no check. *)
AskSelf ==
  /\ At("self")
  /\ req.principal
  /\ req' = [Onwards EXCEPT !.authorised = @ \cup {Mention}]
  /\ UNCHANGED <<sessions, used, cookie, enabled>>

IsWrite(rpc) == rpc \in KnownMethods /\ RuleTable[rpc].isWrite

(* CheckStatusWrite. *)
CheckStatus ==
  /\ At("status")
  /\ IsWrite(Stage.rpc) => req.target \in enabled
  /\ req' = [Onwards EXCEPT !.checked = @ \cup {Mention}]
  /\ UNCHANGED <<sessions, used, cookie, enabled>>

(* The call on the server. *)
Call ==
  /\ At("call")
  /\ req' = [Onwards EXCEPT !.called = @ \cup {Mention}]
  /\ UNCHANGED <<sessions, used, cookie, enabled>>

(* The handler is at its end: it redirects, or shows its page. *)
Respond ==
  /\ Busy /\ req.stages = <<>>
  /\ \/ Over
     \/ req.front = "console" /\ req' = [req EXCEPT !.stages = <<Do("take")>>]
  /\ UNCHANGED <<sessions, used, cookie, enabled>>

(* Any stage refuses or fails. *)
Refuse ==
  /\ Busy /\ req.stages # <<>>
  /\ Stage.do \notin {"session", "csrf", "try", "lookup", "peek", "flash", "set", "take", "clear"}
  /\ IF req.front = "console" THEN req' = [req EXCEPT !.stages = <<Do("take")>>] ELSE Over
  /\ UNCHANGED <<sessions, used, cookie, enabled>>

-----------------------------------------------------------------------------
(* The flash message: SetFlash and TakeFlash read the session, and write   *)
(* back what they read.                                                    *)

SetFlashGet ==
  /\ At("flash")
  /\ req' = IF sessions[req.sid] # "none"
            THEN [req EXCEPT !.stages = <<Do("set")>>]
            ELSE Onwards
  /\ UNCHANGED <<sessions, used, cookie, enabled>>

SetFlash ==
  /\ At("set")
  /\ sessions' = [sessions EXCEPT ![req.sid] = "flash"]
  /\ req' = Onwards
  /\ UNCHANGED <<used, cookie, enabled>>

TakeFlashGet ==
  /\ At("take")
  /\ IF req.sid # NoSid /\ sessions[req.sid] = "flash"
     THEN req' = [req EXCEPT !.stages = <<Do("clear")>>]
     ELSE Over
  /\ UNCHANGED <<sessions, used, cookie, enabled>>

TakeFlash ==
  /\ At("clear")
  /\ sessions' = [sessions EXCEPT ![req.sid] = "plain"]
  /\ Over
  /\ UNCHANGED <<used, cookie, enabled>>

-----------------------------------------------------------------------------
(* Other requests. *)

(* handleLoginPost with the operator's secret, or the end of an OIDC login. *)
HandleLogin(s) ==
  /\ s \notin used
  /\ sessions' = [sessions EXCEPT ![s] = "plain"]
  /\ used' = used \cup {s}
  /\ cookie' = s
  /\ UNCHANGED <<enabled, req>>

HandleLogout ==
  /\ cookie # NoSid
  /\ sessions' = [sessions EXCEPT ![cookie] = "none"]
  /\ cookie' = NoSid
  /\ UNCHANGED <<used, enabled, req>>

SessionExpires(s) ==
  /\ sessions[s] # "none"
  /\ sessions' = [sessions EXCEPT ![s] = "none"]
  /\ UNCHANGED <<used, cookie, enabled, req>>

SetApplicationStatus(a) ==
  /\ enabled' = IF a \in enabled THEN enabled \ {a} ELSE enabled \cup {a}
  /\ UNCHANGED <<sessions, used, cookie, req>>

-----------------------------------------------------------------------------
ServeConsole ==
  RequireSession \/ CheckCSRF \/ RequireConfirm \/ DryRun \/ AskSelf \/ Skip
    \/ LookupTenant \/ PeekTenant \/ SetFlashGet \/ SetFlash \/ TakeFlashGet \/ TakeFlash
ServeAny == Authenticate \/ Decode \/ Authorize \/ CheckStatus \/ Call \/ Respond \/ Refuse

WebNext ==
  \/ \E route \in ConsoleRoutes, p \in Apps, token, confirmed \in BOOLEAN :
       ConsoleRequest(route, p, token, confirmed)
  \/ \E route \in RestRoutes, p, b \in Apps : RestRequest(route, p, b)
  \/ \E handler \in GrpcHandlers, b \in Apps : GrpcRequest(handler, b)
  \/ ServeConsole \/ ServeAny
  \/ \E s \in Sids : HandleLogin(s) \/ SessionExpires(s)
  \/ HandleLogout
  \/ \E a \in Apps : SetApplicationStatus(a)

WebSpec == WebInit /\ [][WebNext]_webVars

-----------------------------------------------------------------------------

(* The forms of setAppStatus that its gate does not stop, and those that   *)
(* disable the application.                                                *)
Ungated == {f \in StatusForms : f.text # "2"}
Disabling == {f \in StatusForms : f.status = 2}

Authenticated(mentions) == {c \in mentions : c[1] \notin UnauthenticatedMethods}

(* Whatever a handler calls on the server, and whatever application it     *)
(* looks up for its status, was authorized before, under the same method   *)
(* and for the same application or tenant.  The servers' own methods check *)
(* nothing: a handler that authorizes one method and calls another, or     *)
(* asks for the status first, is open (the order doWrite calls iron,       *)
(* controlplane/console/handler.go).  The rows that tenantOfApp reads are  *)
(* ReadsAuthorised's matter.                                               *)
AuthorisedFirst ==
  Busy => Authenticated(req.checked \cup req.called) \subseteq req.authorised

(* The row of an application is read for a request only once something was *)
(* authorized for that application, so that no answer tells whether it     *)
(* exists (what the order of doWrite is for, controlplane/console/         *)
(* handler.go).  It does not hold: two of the handlers of tenant templates *)
(* call tenantOfApp first.                                                 *)
ReadsAuthorised ==
  Busy => \A x \in req.looked : \E c \in req.authorised : c[2] = x

(* Every call that changes the policy of an application was admitted by    *)
(* CheckStatusWrite for that application in the same request, whichever    *)
(* front end, and also in the handlers that do not go through doWrite.     *)
PolicyWritesChecked ==
  Busy => \A c \in req.called : IsWrite(c[1]) => c \in req.checked

(* A call that has a confirmation prompt (confirmPrompts), and an import,  *)
(* is made by the console only for a request that carries the confirmed    *)
(* field: none of the handlers forgets the gate or calls before it.  The   *)
(* forms of setAppStatus that its gate lets through are ConfirmedDisable's *)
(* matter.                                                                 *)
AskedBefore ==
  Busy /\ req.front = "console" /\ req.name \notin {f.name : f \in Ungated} =>
    \A c \in req.called :
      c[1] \in ConfirmPrompts \cup {"ImportAppPolicy"} => req.confirmed

(* The console disables an application only for a request that carries the *)
(* confirmed field (setAppStatus says that disabling passes the gate,      *)
(* controlplane/console/routes_apps.go).  It does not hold for a form that *)
(* spells the number 2 otherwise, or names it in the query.                *)
ConfirmedDisable ==
  Busy /\ req.name \in {f.name : f \in Disabling} =>
    \A c \in req.called : c[1] = "SetApplicationStatus" => req.confirmed

(* The gateway acts on the application or tenant of the path, whatever id  *)
(* the body carries (the comments of restgw/routes.go: the path overrides  *)
(* the body).                                                              *)
ActsOnPath ==
  Busy /\ req.front = "rest" /\ (\E i \in DOMAIN req.from : req.from[i] = "path") =>
    \A c \in req.authorised \cup req.called : c[2] = req.path
=============================================================================
