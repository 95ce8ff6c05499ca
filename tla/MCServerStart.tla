--------------------------- MODULE MCServerStart ---------------------------
(* Small instances of ServerStart for TLC. *)
EXTENDS ServerStart, TLC

CONSTANTS p1, p2, p3, url, a, b, elsewhere

\* A build that ships one migration, and two that ship three.
MCShips == p1 :> 1 @@ p2 :> 3 @@ p3 :> 3

MCBootstrap == [status |-> "active", allowed_scopes |-> {a, b}]

\* The operator narrows the client and suspends it.
MCRewrites == {[status |-> "suspended", allowed_scopes |-> {a}]}

Defaults ==
    [issuer |-> url, complete |-> TRUE, access_token_ttl_seconds |-> 600,
     max_delegation_depth |-> 3, metadata_overlay |-> <<>>]

Overlaid(keys) ==
    [Defaults EXCEPT !.metadata_overlay = [key \in keys |-> elsewhere]]

\* Settings beyond their limits, and overlays: one of keys on neither list (a
\* link, and a capability the lists do not know), two of keys on both.
MCConfigurations ==
    {Overlaid({"service_documentation", "registration_endpoint"}),
     Overlaid({"token_endpoint"}), Overlaid({"introspection_endpoint"}),
     [Defaults EXCEPT !.issuer = Malformed], [Defaults EXCEPT !.complete = FALSE],
     [Defaults EXCEPT !.max_delegation_depth = 11],
     [Defaults EXCEPT !.access_token_ttl_seconds = 0]}

=============================================================================
