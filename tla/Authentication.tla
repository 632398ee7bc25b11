--------------------------- MODULE Authentication ---------------------------
(***************************************************************************)
(* Who a request is from and what that role may do: the authenticators of  *)
(* internal/auth and the policy they answer with.  Nothing here changes    *)
(* while requests are served, so these are operators; Server.tla takes     *)
(* either answer for a request, MCServer compares them with what they are  *)
(* meant to compute.                                                       *)
(*                                                                         *)
(* A key id or a pattern is a sequence of characters, an action a pair of  *)
(* its name and the way it is spelled (upper or lower case).  What the jwt *)
(* library checks is modelled from the options it is given.                *)
(***************************************************************************)
EXTENDS Naturals, SequencesExt

Unauthorized == [role |-> "", keys |-> {}, actions |-> {}]

----------------------------------------------------------------------------
(* Policy *)

matchPattern(pattern, keyID) ==
    \/ pattern = <<"*">>
    \/ IF pattern # <<>> /\ Last(pattern) = "*" THEN IsPrefix(Front(pattern), keyID) ELSE pattern = keyID

IsKeyAllowed(policy, keyID) == \E pattern \in policy.keys : matchPattern(pattern, keyID)

EqualFold(a, b) == a.name = b.name

IsActionAllowed(policy, action) ==
    \E allowed \in policy.actions : allowed.name = "*" \/ EqualFold(allowed, action)

----------------------------------------------------------------------------
(* AppRoleAuthenticator: tokens to roles, roles to policies *)

NewAppRoleAuthenticator == [tokens |-> <<>>, policies |-> <<>>]

Put(map, k, v) == [x \in DOMAIN map \cup {k} |-> IF x = k THEN v ELSE map[x]]

RegisterPolicy(a, roleID, token, policy) ==
    LET others == {t \in DOMAIN a.tokens : a.tokens[t] # roleID}
    IN  [tokens   |-> Put([t \in others |-> a.tokens[t]], token, roleID),
         policies |-> Put(a.policies, roleID, [policy EXCEPT !.role = roleID])]

LookupPolicy(a, roleID) == IF roleID \in DOMAIN a.policies THEN a.policies[roleID] ELSE Unauthorized

Authenticate(a, token) ==
    IF token # "" /\ token \in DOMAIN a.tokens THEN LookupPolicy(a, a.tokens[token]) ELSE Unauthorized

----------------------------------------------------------------------------
(* Signed tokens.  exp and nbf are "none", "past" or "future"; `key` is the key *)
(* the signature was made with.                                                 *)

Families == [RS |-> {"RS256", "RS384", "RS512"}, ES |-> {"ES256", "ES384", "ES512"},
             HS |-> {"HS256", "HS384", "HS512"}, SM |-> {"SM2"}]

\* SM2 is known only to a build with the tag gmsm.
parseSigningMethod(method, gmsm) ==
    \E f \in DOMAIN Families : method \in Families[f] /\ (f = "SM" => gmsm)

\* The configurations NewJWTAuthenticator accepts: HMAC needs a secret, the others the
\* file of a public key of their kind (`keyKind`: what is configured and loads).
NewJWTAuthenticator(cfg, gmsm) ==
    /\ parseSigningMethod(cfg.method, gmsm)
    /\ \E f \in DOMAIN Families : cfg.method \in Families[f] /\ cfg.keyKind = f

\* jwt.Parser.Parse with WithValidMethods, WithIssuer and WithAudience: it looks at
\* the times a token carries, and insists on an expiry only if told to.
Parse(token, methods, expRequired, issuer, audience, key) ==
    /\ token.alg \in methods /\ token.key = key
    /\ token.exp # "past" /\ (expRequired => token.exp # "none")
    /\ token.nbf # "future"
    /\ issuer # "" => token.iss = issuer
    /\ audience # <<>> => audience[1] \in ToSet(token.aud)

matchAudience(tokenAud, configAud) == ToSet(tokenAud) \cap ToSet(configAud) # {}

\* The claim is a string, a list of which the empty and the non-strings are left out,
\* a number, or something else.
extractRoleIDs(claim) ==
    CASE claim.kind \in {"string", "number"} -> claim.roles
      [] claim.kind = "list"                 -> SelectSeq(claim.roles, LAMBDA role : role # "")
      [] OTHER                               -> <<>>

\* JWTAuthenticator.Authenticate: the first role that has a policy counts.
JWTAuthenticate(cfg, store, token) ==
    LET known == SelectSeq(extractRoleIDs(token.claim), LAMBDA role : LookupPolicy(store, role) # Unauthorized)
    IN  IF /\ Parse(token, {cfg.method}, TRUE, cfg.issuer, cfg.audience, cfg.key)
           /\ token.exp # "none"
           /\ cfg.issuer # "" => token.iss = cfg.issuer
           /\ cfg.audience # <<>> => matchAudience(token.aud, cfg.audience)
           /\ known # <<>>
        THEN LookupPolicy(store, known[1])
        ELSE Unauthorized

\* NewK8sAuthenticator; the key set is then fetched.
NewK8sAuthenticator(cfg) == cfg.issuer # "" /\ cfg.audience # <<>> /\ DOMAIN cfg.mapping # {}

audienceMatches(cfg, tokenAud) == matchAudience(tokenAud, cfg.audience)

\* K8sAuthenticator.Authenticate: the service account (namespace and name, "" when the
\* token lacks one of them) is mapped to a policy.
K8sAuthenticate(cfg, token) ==
    IF /\ Parse(token, Families.RS \cup Families.ES, FALSE, cfg.issuer, cfg.audience, cfg.key)
       /\ audienceMatches(cfg, token.aud)
       /\ token.account # "" /\ token.account \in DOMAIN cfg.mapping
    THEN cfg.mapping[token.account]
    ELSE Unauthorized

----------------------------------------------------------------------------
(* How buildClusterMode puts them together *)

NewMemoryPolicyStore == [policies |-> <<>>]

AddPolicy(store, policy) ==
    IF policy.role # "" THEN [policies |-> Put(store.policies, policy.role, policy)] ELSE store

AppRole(roles)    == FoldLeft(LAMBDA a, r : RegisterPolicy(a, r.policy.role, r.token, r.policy),
                              NewAppRoleAuthenticator, roles)
PolicyStore(roles) == FoldLeft(LAMBDA store, r : AddPolicy(store, r.policy), NewMemoryPolicyStore, roles)

\* A configuration that does not panic.
Starts(cfg, gmsm) ==
    /\ cfg.jwt.method # "" => NewJWTAuthenticator(cfg.jwt, gmsm)
    /\ cfg.k8s.enabled => NewK8sAuthenticator(cfg.k8s)
    /\ cfg.roles # <<>> \/ cfg.jwt.method # "" \/ cfg.k8s.enabled

\* The authenticators that are asked, in order: JWT takes the place of AppRole, whose
\* policies it uses; Kubernetes comes after the one or the other.
Chain(cfg) ==
    (CASE cfg.jwt.method # "" -> <<"jwt">>
       [] cfg.jwt.method = "" /\ cfg.roles # <<>> -> <<"approle">>
       [] OTHER -> <<>>)
    \o (IF cfg.k8s.enabled THEN <<"k8s">> ELSE <<>>)

Ask(kind, cfg, token) ==
    CASE kind = "approle" -> Authenticate(AppRole(cfg.roles), token.text)
      [] kind = "jwt"     -> JWTAuthenticate(cfg.jwt, PolicyStore(cfg.roles), token)
      [] kind = "k8s"     -> K8sAuthenticate(cfg.k8s, token)

\* MultiAuthenticator.Authenticate: the first that accepts the token.
MultiAuthenticate(cfg, token) ==
    LET accepting == SelectSeq(Chain(cfg), LAMBDA kind : Ask(kind, cfg, token) # Unauthorized)
    IN  IF accepting = <<>> THEN Unauthorized ELSE Ask(accepting[1], cfg, token)
=============================================================================
