----------------------------- MODULE TokenAuth -----------------------------
(***************************************************************************)
(* The JWT authentication of the REST API (cli/api/auth.py,                *)
(* dependencies.py, admin_routes.py and the endpoints of server.py).       *)
(*                                                                         *)
(* A token is a signed payload that only clients keep; the server keeps,   *)
(* in memory and therefore per process, the tokens it issued, the revoked  *)
(* JTIs and the consumed refresh JTIs.  get_current_user is a synchronous  *)
(* dependency and runs in a worker thread; every handler is `async def`    *)
(* without an await and runs alone on the event loop.  A request is thus   *)
(* admitted in one step and handled in a later one, with any other step in *)
(* between, and a handler that shells out to the CLI keeps the event loop  *)
(* until the subprocess ends or times out.  Requests that are refused (401 *)
(* 403, 400) change nothing and appear only as the guards that refuse them.*)
(***************************************************************************)
EXTENDS Naturals, FiniteSets

CONSTANTS
  Subjects,          \* token owners
  Clients,           \* requests that can be in flight at once
  CommandsInUse,     \* command endpoints the clients call
  ScopeRequests,     \* scope lists a login may ask for; {} means "the defaults"
  AccessTTL,         \* ACCESS_TOKEN_EXPIRE_SECONDS, in clock ticks
  RefreshTTL,        \* REFRESH_TOKEN_EXPIRE_SECONDS, in clock ticks
  PersistentSecret,  \* TRUE: ADP_JWT_SECRET is set; FALSE: one secret per process
  MaxTokens,         \* bound: tokens minted in a behaviour
  MaxTime,           \* bound: clock ticks
  MaxBoots,          \* bound: restarts of the server
  None               \* model value: nobody

ASSUME AuthAssumption ==
  /\ AccessTTL \in Nat \ {0} /\ RefreshTTL \in Nat \ {0}
  /\ PersistentSecret \in BOOLEAN
  /\ MaxTokens \in Nat /\ MaxTime \in Nat /\ MaxBoots \in Nat
  /\ None \notin Clients
  /\ CommandsInUse \subseteq {"platform_status", "workspace_list", "workspace_create",
       "workspace_close", "runtime_up", "runtime_down", "runtime_stop", "sync_status", "sync_stop"}

VARIABLES
  now,       \* time.time()
  boot,      \* how many times the server process has been started again
  minted,    \* every token ever handed to a client
  issued,    \* _issued_tokens
  revoked,   \* _revoked_jtis
  consumed,  \* _consumed_refresh_jtis
  req,       \* the requests in flight
  loop,      \* the client whose blocking handler keeps the event loop, or None
  rotated,   \* history: <<redeemed refresh JTI, JTI of the refresh token it bought>>
  grants,    \* history: pairs granted to a subject by login or by an admin
  cut        \* history: subjects revoked in this process and not granted since

store == <<issued, revoked, consumed>>
history == <<rotated, grants, cut>>
vars == <<now, boot, minted, store, req, loop, history>>

-----------------------------------------------------------------------------
(* Scopes are <<family, verb>>, "admin:*" being <<"admin", "*">>. *)

Roles == {"admin", "user"}

AdminScope == <<"admin", "*">>

DefaultScopes(role) ==
  IF role = "admin" THEN {AdminScope}
  ELSE {<<"platform", "read">>, <<"workspace", "read">>, <<"workspace", "write">>,
        <<"runtime", "read">>, <<"runtime", "write">>}

AllScopes == DefaultScopes("admin") \cup DefaultScopes("user")

\* What each endpoint that shells out to the CLI asks for: status, list, create, close, up,
\* down, stop of platform, workspaces, runtimes and sync sessions.
PlatformScope(endpoint) == <<"platform", "read">>
WorkspaceScope(endpoint) ==
  <<"workspace", IF endpoint \in {"workspace_create", "workspace_close"} THEN "write" ELSE "read">>
RuntimeScope(endpoint) == <<"runtime", IF endpoint = "sync_status" THEN "read" ELSE "write">>

CommandScope(endpoint) ==
  CASE endpoint = "platform_status" -> PlatformScope(endpoint)
    [] endpoint \in {"workspace_list", "workspace_create", "workspace_close"} -> WorkspaceScope(endpoint)
    [] OTHER -> RuntimeScope(endpoint)

Token == [jti : Nat, sub : Subjects, role : Roles, scopes : SUBSET AllScopes,
          tt : {"access", "refresh"}, exp : Nat, key : Nat]

\* Mutant: a secret that outlives the process although none was configured.
SecretFixed == 0

\* JWT_SECRET: read from the environment, or generated when the process starts.
Secret == IF PersistentSecret THEN 0 ELSE boot

\* _make_jti: a JTI nobody has seen.
NextJti == Cardinality(minted)

CreateToken(jti, sub, role, scopes, tt, ttl) ==
  [jti |-> jti, sub |-> sub, role |-> role, scopes |-> scopes,
   tt |-> tt, exp |-> now + ttl, key |-> Secret]

CreateAccessToken(jti, sub, role, scopes) ==
  CreateToken(jti, sub, role, scopes, "access", AccessTTL)

CreateRefreshToken(jti, sub, role, scopes) ==
  CreateToken(jti, sub, role, scopes, "refresh", RefreshTTL)

\* Mutant: tokens are recorded although the client is never given the refresh token.
IssuePairRecordOnly(sub, role, scopes) ==
  LET access == CreateAccessToken(NextJti, sub, role, scopes)
  IN  /\ NextJti + 2 <= MaxTokens
      /\ minted' = minted \cup {access}
      /\ issued' = issued \cup {access, CreateRefreshToken(NextJti + 1, sub, role, scopes)}

\* create_access_token followed by create_refresh_token, each of which also
\* appends what it created to _issued_tokens.
IssuePair(sub, role, scopes) ==
  LET pair == {CreateAccessToken(NextJti, sub, role, scopes),
               CreateRefreshToken(NextJti + 1, sub, role, scopes)}
  IN  /\ NextJti + 2 <= MaxTokens
      /\ minted' = minted \cup pair
      /\ issued' = issued \cup pair

\* decode_token returns the payload: signature, expiry, revocation, single use.
DecodeToken(t) ==
  /\ t.key = Secret
  /\ now < t.exp
  /\ t.jti \notin revoked
  /\ t.tt = "refresh" => t.jti \notin consumed

\* get_current_user: refresh tokens do not authenticate a request.
GetCurrentUser(t) == DecodeToken(t) /\ t.tt # "refresh"

\* Mutant: any scope of the family is taken for the one required.
RequireScopeFamily(t, scope) ==
  \/ AdminScope \in t.scopes
  \/ \E granted \in t.scopes : granted[1] = scope[1]

RequireScope(t, scope) ==
  \/ AdminScope \in t.scopes
  \/ scope \in t.scopes
  \/ <<scope[1], "*">> \in t.scopes

RequireAdmin(t) == t.role = "admin" \/ AdminScope \in t.scopes

-----------------------------------------------------------------------------
(* A request names its endpoint and, where it has one, its parameter. *)

Idle == [st |-> "idle", op |-> "none", tok |-> None, arg |-> None]

AdminOps == {"create_token", "revoke_jti", "revoke_subject"}
Ops == {"revoke", "command"} \cup AdminOps

Authorized(t, op, arg) ==
  /\ op = "command" => RequireScope(t, CommandScope(arg))
  /\ op \in AdminOps => RequireAdmin(t)

Args(op) ==
  CASE op = "command"        -> CommandsInUse
    [] op = "create_token"   -> Subjects
    [] op = "revoke_subject" -> Subjects
    [] op = "revoke_jti"     -> {t.jti : t \in minted}
    [] op = "revoke"         -> {None}

\* The dependencies of an endpoint accept the bearer token.
Admit(c, t, op, arg) ==
  /\ req[c].st = "idle"
  /\ GetCurrentUser(t)
  /\ Authorized(t, op, arg)
  /\ req' = [req EXCEPT ![c] = [st |-> "admitted", op |-> op, tok |-> t, arg |-> arg]]
  /\ UNCHANGED <<now, boot, minted, store, loop, history>>

\* The event loop is free and runs the handler of c's request to its end.
Handles(c, op) ==
  /\ loop = None
  /\ req[c].st = "admitted"
  /\ req[c].op = op
  /\ req' = [req EXCEPT ![c] = Idle]

Granted(sub) ==
  /\ grants' = [grants EXCEPT ![sub] = @ + 1]
  /\ cut' = cut \ {sub}
  /\ UNCHANGED rotated

\* The scopes login and admin_create_token put into the pair.
GrantedScopes(role, requested) ==
  IF requested = {} THEN DefaultScopes(role) ELSE requested

\* POST /v1/auth/login with a registered API key.
Login(sub, role, requested) ==
  /\ loop = None
  /\ requested \subseteq DefaultScopes(role)
  /\ IssuePair(sub, role, GrantedScopes(role, requested))
  /\ Granted(sub)
  /\ UNCHANGED <<now, boot, revoked, consumed, req, loop>>

\* Mutant: the redeemed token is not consumed.
RefreshNotConsuming(t) ==
  /\ loop = None
  /\ DecodeToken(t)
  /\ t.tt = "refresh"
  /\ IssuePair(t.sub, t.role, t.scopes)
  /\ rotated' = rotated \cup {<<t.jti, NextJti + 1>>}
  /\ UNCHANGED <<now, boot, revoked, consumed, req, loop, grants, cut>>

\* Mutant: rotation gives the subject the default scopes of its role again.
RefreshWidens(t) ==
  /\ loop = None
  /\ DecodeToken(t)
  /\ t.tt = "refresh"
  /\ consumed' = consumed \cup {t.jti}
  /\ IssuePair(t.sub, t.role, DefaultScopes(t.role))
  /\ rotated' = rotated \cup {<<t.jti, NextJti + 1>>}
  /\ UNCHANGED <<now, boot, revoked, req, loop, grants, cut>>

\* POST /v1/auth/refresh: decode, consume and issue, with no await in between.
Refresh(t) ==
  /\ loop = None
  /\ DecodeToken(t)
  /\ t.tt = "refresh"
  /\ consumed' = consumed \cup {t.jti}
  /\ IssuePair(t.sub, t.role, t.scopes)
  /\ rotated' = rotated \cup {<<t.jti, NextJti + 1>>}
  /\ UNCHANGED <<now, boot, revoked, req, loop, grants, cut>>

\* Mutant: of the access tokens, only the one revoked last is remembered.
RevokeTokenForgetful(jti) ==
  /\ revoked' = {jti}
  /\ consumed' = consumed \cup {u.jti : u \in {x \in issued : x.jti = jti /\ x.tt = "refresh"}}
  /\ UNCHANGED <<now, boot, minted, issued, loop, history>>

\* revoke_token: a refresh token this process issued is also marked consumed.
RevokeToken(jti) ==
  /\ revoked' = revoked \cup {jti}
  /\ consumed' = consumed \cup {u.jti : u \in {x \in issued : x.jti = jti /\ x.tt = "refresh"}}
  /\ UNCHANGED <<now, boot, minted, issued, loop, history>>

\* POST /v1/auth/revoke
Revoke(c) == Handles(c, "revoke") /\ RevokeToken(req[c].tok.jti)

\* DELETE /v1/admin/tokens/{jti}
AdminRevokeToken(c) == Handles(c, "revoke_jti") /\ RevokeToken(req[c].arg)

\* POST /v1/admin/tokens
AdminCreateToken(c, role, requested) ==
  /\ Handles(c, "create_token")
  /\ requested \subseteq DefaultScopes(role)
  /\ IssuePair(req[c].arg, role, GrantedScopes(role, requested))
  /\ Granted(req[c].arg)
  /\ UNCHANGED <<now, boot, revoked, consumed, loop>>

\* Role or scopes are invalid: 400.
AdminCreateRejected(c, role, requested) ==
  /\ Handles(c, "create_token")
  /\ ~(requested \subseteq DefaultScopes(role))
  /\ UNCHANGED <<now, boot, minted, store, loop, history>>

\* Mutant: only the access tokens of the subject are revoked.
AdminRevokeSubjectAccessOnly(c) ==
  /\ Handles(c, "revoke_subject")
  /\ revoked' = revoked \cup {t.jti : t \in {x \in issued : x.sub = req[c].arg /\ x.tt = "access"}}
  /\ cut' = cut \cup {req[c].arg}
  /\ UNCHANGED <<now, boot, minted, issued, consumed, loop, rotated, grants>>

\* DELETE /v1/admin/tokens/subject/{subject}: revoke_token_by_sub
AdminRevokeSubject(c) ==
  /\ Handles(c, "revoke_subject")
  /\ LET own == {t \in issued : t.sub = req[c].arg}
     IN  /\ revoked' = revoked \cup {t.jti : t \in own}
         /\ consumed' = consumed \cup {t.jti : t \in {x \in own : x.tt = "refresh"}}
  /\ cut' = cut \cup {req[c].arg}
  /\ UNCHANGED <<now, boot, minted, issued, loop, rotated, grants>>

\* A platform, workspace, runtime or sync endpoint: _run_adp blocks the event
\* loop while the subprocess runs ...
BeginCommand(c) ==
  /\ loop = None
  /\ req[c].st = "admitted"
  /\ req[c].op = "command"
  /\ req' = [req EXCEPT ![c].st = "running"]
  /\ loop' = c
  /\ UNCHANGED <<now, boot, minted, store, history>>

\* Mutant: the handler of a command never gives the event loop back.
EndCommandStuck(c) ==
  /\ loop = c
  /\ req' = [req EXCEPT ![c] = Idle]
  /\ UNCHANGED <<now, boot, minted, store, loop, history>>

\* ... and until it exits or its timeout kills it.
EndCommand(c) ==
  /\ loop = c
  /\ req' = [req EXCEPT ![c] = Idle]
  /\ loop' = None
  /\ UNCHANGED <<now, boot, minted, store, history>>

Tick ==
  /\ now < MaxTime
  /\ now' = now + 1
  /\ UNCHANGED <<boot, minted, store, req, loop, history>>

\* The server process ends and is started again: module state is lost.
Restart ==
  /\ boot < MaxBoots
  /\ boot' = boot + 1
  /\ issued' = {} /\ revoked' = {} /\ consumed' = {}
  /\ req' = [c \in Clients |-> Idle]
  /\ loop' = None
  /\ cut' = {}
  /\ UNCHANGED <<now, minted, rotated, grants>>

-----------------------------------------------------------------------------
Init ==
  /\ now = 0 /\ boot = 0
  /\ minted = {}
  /\ issued = {} /\ revoked = {} /\ consumed = {}
  /\ req = [c \in Clients |-> Idle]
  /\ loop = None
  /\ rotated = {}
  /\ grants = [s \in Subjects |-> 0]
  /\ cut = {}

Handler(c) ==
  \/ Revoke(c)
  \/ AdminRevokeToken(c)
  \/ \E role \in Roles, requested \in ScopeRequests : AdminCreateToken(c, role, requested)
  \/ \E role \in Roles, requested \in ScopeRequests : AdminCreateRejected(c, role, requested)
  \/ AdminRevokeSubject(c)
  \/ BeginCommand(c)
  \/ EndCommand(c)

Next ==
  \/ \E s \in Subjects, role \in Roles, requested \in ScopeRequests : Login(s, role, requested)
  \/ \E t \in minted : Refresh(t)
  \/ \E c \in Clients, t \in minted, op \in Ops : \E arg \in Args(op) : Admit(c, t, op, arg)
  \/ \E c \in Clients : Handler(c)
  \/ Tick
  \/ Restart

Spec == Init /\ [][Next]_vars

(***************************************************************************)
(* asyncio runs its ready callbacks in FIFO order and every subprocess has *)
(* a timeout, so a request that is ready again and again is handled.       *)
(***************************************************************************)
FairSpec == Spec /\ \A c \in Clients : SF_vars(Handler(c))

-----------------------------------------------------------------------------
\* A request in flight carries a minted token and the parameter its endpoint takes.
RequestOK(r) ==
  /\ r.st \in {"idle", "admitted", "running"}
  /\ r.st # "idle" =>
       /\ r.tok \in minted
       /\ r.op \in Ops
       /\ r.op \in {"create_token", "revoke_subject"} => r.arg \in Subjects
       /\ r.op = "revoke_jti" => r.arg \in Nat

\* Types: the server's store only ever refers to tokens that were minted.
TypeOK ==
  /\ now \in Nat /\ boot \in Nat
  /\ minted \subseteq Token
  /\ issued \subseteq minted
  /\ revoked \subseteq Nat /\ consumed \subseteq Nat
  /\ DOMAIN req = Clients /\ \A c \in Clients : RequestOK(req[c])
  /\ loop \in Clients \cup {None}
  /\ rotated \subseteq Nat \X Nat
  /\ grants \in [Subjects -> Nat]
  /\ cut \subseteq Subjects

(***************************************************************************)
(* server.py:188 "Refresh tokens are single-use".  However requests,       *)
(* rotations, revocations and restarts interleave, a refresh token buys at *)
(* most one pair in its whole life (the process generates its secret).     *)
(***************************************************************************)
SingleUse ==
  \A e, f \in rotated : e[1] = f[1] => e = f

(***************************************************************************)
(* After DELETE /v1/admin/tokens/subject/s no token of s is accepted until *)
(* somebody grants s a new pair: rotation cannot carry a subject over its  *)
(* revocation.                                                             *)
(***************************************************************************)
SubjectStaysRevoked ==
  \A t \in minted : t.sub \in cut => ~DecodeToken(t)

(***************************************************************************)
(* Rotation replaces a refresh token and never multiplies it: a subject    *)
(* has at most as many usable refresh tokens as pairs it was granted.      *)
(***************************************************************************)
RefreshConservation ==
  \A s \in Subjects :
    Cardinality({t \in minted : t.sub = s /\ t.tt = "refresh" /\ DecodeToken(t)}) <= grants[s]

(***************************************************************************)
(* A restart is a complete logout when the secret is generated: no token   *)
(* handed out by an earlier process is accepted, although the revocation   *)
(* and consumption records are gone.                                       *)
(***************************************************************************)
OnlyThisProcessTokens ==
  \A t \in minted : DecodeToken(t) => t \in issued

(***************************************************************************)
(* A command on a workspace, a runtime, a sync session or the platform     *)
(* runs only for a token whose grant, through any number of rotations,     *)
(* included admin:* or, of the family of the command that runs, the verb   *)
(* it asks for or the wildcard, whatever was handled since the request was *)
(* admitted.                                                               *)
(***************************************************************************)
CommandsAreAuthorized ==
  \A c \in Clients :
    req[c].st = "running" =>
      LET asked == CommandScope(req[c].arg)
      IN \E scope \in req[c].tok.scopes :
           scope = AdminScope \/ (scope[1] = asked[1] /\ scope[2] \in {asked[2], "*"})

(***************************************************************************)
(* Every admitted request is answered, although one blocking command at a  *)
(* time keeps the event loop (a restart closes the connection).            *)
(***************************************************************************)
AdmittedIsAnswered ==
  \A c \in Clients : req[c].st = "admitted" ~> req[c].st = "idle"

(***************************************************************************)
(* A token that is no longer accepted - expired, revoked, redeemed, or     *)
(* signed by a process that is gone - is never accepted again: nothing an  *)
(* admin, a client or the clock does brings it back.                       *)
(***************************************************************************)
Revives(t) == ~DecodeToken(t) /\ DecodeToken(t)'

TokensNeverRevive == [][\A t \in minted : ~Revives(t)]_vars

(***************************************************************************)
(* With a configured secret the tokens outlive the records (auth.py:52 and *)
(* auth.py:74): a restart, and nothing else, may bring a token back.       *)
(***************************************************************************)
OnlyRestartRevives == [][boot' = boot => \A t \in minted : ~Revives(t)]_vars

(***************************************************************************)
(* The refresh tokens of all subjects, through logins, rotations, grants,  *)
(* revocations, expiry and restarts, are the tickets of a TicketOffice:    *)
(* one is bought by a grant, or exchanged once and for one of the same     *)
(* subject, role and scopes.                                               *)
(***************************************************************************)
RefreshTokens == {t \in minted : t.tt = "refresh"}
LiveTokens == {t \in RefreshTokens : DecodeToken(t)}

Office == INSTANCE TicketOffice WITH
  handed <- RefreshTokens, live <- LiveTokens, bought <- grants

RefreshTokensAreTickets == Office!Spec

-----------------------------------------------------------------------------
(***************************************************************************)
(* The inductive invariant behind the safety properties: JTIs are fresh,   *)
(* no token is signed with a secret of the future, a redeemed JTI is       *)
(* consumed or belongs to a dead process, the tokens of this process are   *)
(* all on record, and the record of a revoked subject is revoked.          *)
(***************************************************************************)
AuthInv ==
  /\ IsFiniteSet(minted)
  /\ \A t \in minted : t.jti < Cardinality(minted) /\ t.key <= boot
  /\ \A e \in rotated :
       /\ e[1] < Cardinality(minted)
       /\ e[1] \in consumed \/ \A t \in minted : t.jti = e[1] => t.key # Secret
  /\ \A t \in minted : t.key = Secret => t \in issued
  /\ \A t \in issued : t.sub \in cut => t.jti \in revoked
=============================================================================
