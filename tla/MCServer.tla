------------------------------ MODULE MCServer ------------------------------
EXTENDS Server, FrontEnds, SequencesExt

CONSTANTS r1, r2

MCRequests == {r1, r2}

\* r1 takes every route, r2 those that change the seal meanwhile.
All == UNION {{[via |-> v, name |-> n] : n \in DOMAIN Routes[v]} : v \in DOMAIN Routes}

MCUses == [r \in MCRequests |->
    IF r = r1 THEN All
    ELSE {[via |-> "grpc", name |-> "EmergencySeal"], [via |-> "admin", name |-> "seal"],
          [via |-> "http", name |-> "unseal"]}]

----------------------------------------------------------------------------
(* Authentication *)

Auth == INSTANCE Authentication

Policy(role) == [role |-> role, keys |-> {<<"*">>}, actions |-> {}]
Texts(n) == UNION {[1..k -> {"a", "b", "*"}] : k \in 0..n}

\* A pattern that ends in a star matches what begins with the rest of it, any other
\* one only itself, a star elsewhere included (auth.go: matchPattern).
ASSUME PatternsArePrefixes ==
    \A pattern \in Texts(3), keyID \in Texts(3) :
        Auth!matchPattern(pattern, keyID) <=>
            \/ pattern = keyID
            \/ \E k \in 0..Len(keyID) : pattern = SubSeq(keyID, 1, k) \o <<"*">>

Registrations == {"app", "ops"} \X {"t1", "t2"}

\* After any registrations, a token stands for the role it was last registered with,
\* provided that role has not been given another token since (auth.go: RegisterPolicy).
ASSUME LastRegistrationCounts ==
    \A n \in 0..3 : \A regs \in [1..n -> Registrations] :
        LET a == FoldLeft(LAMBDA b, reg : Auth!RegisterPolicy(b, reg[1], reg[2], Policy("")),
                          Auth!NewAppRoleAuthenticator, regs)
            Stands(t, i) == /\ regs[i][2] = t
                            /\ \A j \in i + 1 .. n : regs[j][2] # t /\ regs[j][1] # regs[i][1]
        IN  \A t \in {"t1", "t2", ""} :
                Auth!Authenticate(a, t) =
                    IF \E i \in 1..n : Stands(t, i)
                    THEN Policy(regs[CHOOSE i \in 1..n : Stands(t, i)][1])
                    ELSE Auth!Unauthorized

Store == [tokens |-> <<>>, policies |-> [role \in {"app", "ops"} |-> Policy(role)]]

Tokens == [alg : {"RS256", "HS256"}, key : {"ours", "other"}, exp : {"none", "past", "future"},
           nbf : {"none", "past", "future"}, iss : {"us", "them"}, aud : {<<>>, <<"kms">>, <<"alt">>, <<"alt", "kms">>},
           account : {"", "ns:app", "ns:x"},
           claim : [kind : {"string", "list", "other"}, roles : {<<"">>, <<"x", "ops">>, <<"ops", "app">>}]]

Configs == [method : {"RS256"}, key : {"ours"}, issuer : {"", "us"},
            audience : {<<>>, <<"kms">>, <<"kms", "alt">>}, mapping : {[a \in {"ns:app"} |-> Policy("app")]}]

\* A token is good for its first role that is known if it was signed with our key and
\* method, has an expiry, is in its time, and comes from the issuer for the first
\* audience, where these are configured: the later ones are of no use
\* (jwt_authenticator.go: Authenticate).
ASSUME JwtAcceptsFirstAudience ==
    \A cfg \in Configs, token \in {t \in Tokens : t.account = ""} :
        Auth!JWTAuthenticate(cfg, Store, token) =
            IF /\ token.alg = "RS256" /\ token.key = "ours" /\ token.exp = "future" /\ token.nbf # "future"
               /\ cfg.issuer \in {"", token.iss}
               /\ cfg.audience # <<>> => Contains(token.aud, "kms")
               /\ token.claim.kind # "other" /\ token.claim.roles # <<"">>
            THEN Policy(IF token.claim.roles[1] = "x" THEN token.claim.roles[2] ELSE token.claim.roles[1])
            ELSE Auth!Unauthorized

\* A service account's token is good under the same conditions, except that it need not
\* have an expiry (k8s_authenticator.go: Authenticate).
ASSUME K8sAcceptsFirstAudience ==
    \A cfg \in {c \in Configs : Auth!NewK8sAuthenticator(c)},
       token \in {t \in Tokens : t.claim = [kind |-> "other", roles |-> <<"">>]} :
        Auth!K8sAuthenticate(cfg, token) =
            IF /\ token.alg = "RS256" /\ token.key = "ours" /\ token.exp # "past" /\ token.nbf # "future"
               /\ token.iss = "us" /\ Contains(token.aud, "kms") /\ token.account = "ns:app"
            THEN Policy("app")
            ELSE Auth!Unauthorized

\* A static token of role "ops", and signed ones of an account and of a role.
Static == [text |-> "t1", alg |-> "none", key |-> "", exp |-> "none", nbf |-> "none", iss |-> "", aud |-> <<>>,
           account |-> "", claim |-> [kind |-> "other", roles |-> <<>>]]
Signed == [Static EXCEPT !.text = "signed", !.alg = "RS256", !.key = "ours", !.exp = "future", !.iss = "us",
                         !.aud = <<"kms">>, !.claim = [kind |-> "list", roles |-> <<"ops">>]]
Account == [Signed EXCEPT !.claim = [kind |-> "other", roles |-> <<>>], !.account = "ns:app"]

Jwt(method)  == [method |-> method, keyKind |-> "RS", key |-> "ours", issuer |-> "us", audience |-> <<"kms">>]
K8s(enabled) == [enabled |-> enabled, key |-> "ours", issuer |-> "us", audience |-> <<"kms">>,
                 mapping |-> [a \in {"ns:app"} |-> Policy("app")]]
Setups == [roles : {<<>>, <<[token |-> "t1", policy |-> Policy("ops")]>>},
           jwt : {Jwt(m) : m \in {"", "RS256", "SM2"}}, k8s : {K8s(e) : e \in BOOLEAN}]

\* With a configuration that starts, a role's static token is good only as long as JWT is
\* not configured as well, a signed role needs the policy of that static role, and a
\* service account is good whatever else is configured
\* (bootstrap.go: buildClusterMode, multi_authenticator.go: Authenticate).
ASSUME JwtReplacesAppRole ==
    \A cfg \in {c \in Setups : Auth!Starts(c, FALSE)} :
        LET roles == cfg.roles # <<>>
            jwt   == cfg.jwt.method # ""
        IN  /\ Auth!MultiAuthenticate(cfg, Static) = IF roles /\ ~jwt THEN Policy("ops") ELSE Auth!Unauthorized
            /\ Auth!MultiAuthenticate(cfg, Signed) = IF roles /\ jwt THEN Policy("ops") ELSE Auth!Unauthorized
            /\ Auth!MultiAuthenticate(cfg, Account) = IF cfg.k8s.enabled THEN Policy("app") ELSE Auth!Unauthorized

=============================================================================
