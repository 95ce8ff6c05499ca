------------------------------ MODULE Discovery ------------------------------
(***************************************************************************)
(* What a server says about itself: the settings it accepts at its start   *)
(* (src/config.py) and the metadata document it derives from the installed *)
(* grants, the installed authentication methods, the clients table and     *)
(* those settings (src/api/metadata.py).                                   *)
(*                                                                         *)
(* A URL is a pair of the issuer and a path.                               *)
(***************************************************************************)
EXTENDS Integers

CONSTANTS
    Issuers,        \* issuer URLs without a trailing slash
    Malformed,      \* what is no issuer: nothing, or a trailing slash
    Scopes,         \* the scopes a registration may allow
    OtherKeys,      \* metadata keys on neither of the lists below
    OverlayValues   \* what a deployment may write for a key

(***************************************************************************)
(* The keys only the code may assert are listed twice: config.py has the   *)
(* list that is enforced, metadata.py the one that is meant.               *)
(***************************************************************************)
DERIVED_KEYS ==
    {"issuer", "token_endpoint", "jwks_uri", "grant_types_supported",
     "response_types_supported", "token_endpoint_auth_methods_supported",
     "code_challenge_methods_supported", "dpop_signing_alg_values_supported",
     "introspection_endpoint", "revocation_endpoint", "scopes_supported"}

\* Mutant: the list of what was there when the check was written.
FirstDerivedKeys ==
    {"issuer", "token_endpoint", "jwks_uri", "grant_types_supported",
     "response_types_supported", "token_endpoint_auth_methods_supported",
     "scopes_supported"}

DerivedMetadataKeys ==
    {"issuer", "token_endpoint", "jwks_uri", "grant_types_supported",
     "response_types_supported", "token_endpoint_auth_methods_supported",
     "code_challenge_methods_supported", "dpop_signing_alg_values_supported",
     "introspection_endpoint", "revocation_endpoint", "scopes_supported"}

\* default_grant_registry() and default_client_auth_registry().
GrantTypes == {"client_credentials", "token-exchange"}

AuthMethods == {"client_secret_post", "private_key_jwt"}

Settings ==
    [issuer: Issuers \cup {Malformed},
     complete: BOOLEAN,     \* an audience and a database URL are given
     access_token_ttl_seconds: Int,
     max_delegation_depth: Int,
     metadata_overlay:
        UNION {[keys -> OverlayValues] :
                  keys \in SUBSET (DERIVED_KEYS \cup DerivedMetadataKeys
                                    \cup OtherKeys)}]

\* Settings.__post_init__ raises no ValueError.
Accepted(s) ==
    /\ s.issuer # Malformed
    /\ s.complete
    /\ s.max_delegation_depth \in 1..10
    /\ s.access_token_ttl_seconds \in 1..3600
    /\ DerivedMetadataKeys \cap DOMAIN s.metadata_overlay = {}

\* What the code asserts of itself.  No installed grant contributes a key of
\* its own, or a response type.
Derived(s, clients) ==
    [issuer |-> s.issuer,
     token_endpoint |-> <<s.issuer, "/oauth/token">>,
     jwks_uri |-> <<s.issuer, "/.well-known/jwks.json">>,
     grant_types_supported |-> GrantTypes,
     response_types_supported |-> {},
     token_endpoint_auth_methods_supported |-> AuthMethods,
     scopes_supported |-> UNION {client.allowed_scopes : client \in clients}]

\* authorization_server_metadata(): the overlay is merged last.
Document(s, clients) ==
    LET derived == Derived(s, clients)
        overlay == s.metadata_overlay
    IN [key \in DOMAIN derived \cup DOMAIN overlay |->
          IF key \in DOMAIN overlay THEN overlay[key] ELSE derived[key]]

-----------------------------------------------------------------------------
(* What there is to describe *)

\* The paths create_app() mounts.
Routes ==
    {"/", "/.well-known/jwks.json", "/.well-known/oauth-authorization-server",
     "/oauth/token"}

\* What the code says of itself under a key of DERIVED_KEYS; nobody has written
\* introspection, revocation, PKCE or DPoP.
Implemented ==
    {"issuer", "token_endpoint", "jwks_uri", "grant_types_supported",
     "response_types_supported", "token_endpoint_auth_methods_supported",
     "scopes_supported"}

\* What a document says under the keys of DERIVED_KEYS is so: its URLs are
\* routes of the server, what it supports is installed, every client's scopes
\* are there, and it claims nothing else.
Describes(document, s, clients) ==
    /\ DERIVED_KEYS \cap DOMAIN document \subseteq Implemented
    /\ document.issuer = s.issuer
    /\ {document.token_endpoint, document.jwks_uri}
          \subseteq {<<s.issuer, path>> : path \in Routes}
    /\ document.grant_types_supported = GrantTypes
    /\ document.token_endpoint_auth_methods_supported = AuthMethods
    /\ \A client \in clients :
          client.allowed_scopes \subseteq document.scopes_supported

=============================================================================
