-------------------------- MODULE MCTokenIssuance ---------------------------
(* Small instances of TokenIssuance for TLC: two agents with a client each.  *)
EXTENDS TokenIssuanceProperties, TLC

CONSTANTS c1, c2, agent1, agent2, a, b, api, downstream, acme, globex

Client(subject, scopes, audiences, tenant, status) ==
    [subject |-> subject, allowed_scopes |-> scopes,
     allowed_audiences |-> audiences, tenant |-> tenant, status |-> status]

\* One row per client, which no operator changes after writing it.
FixedRegistrations ==
    c1 :> {Client(agent1, {a, b}, {downstream}, acme, "active")}
 @@ c2 :> {Client(agent2, {a}, {downstream}, acme, "active")}

\* The same client rewritten: widened, moved to another account, suspended.
ChurningRegistrations ==
    c1 :> {Client(agent1, {a}, {downstream}, acme, "active"),
           Client(agent1, {a, b}, {downstream}, globex, "active"),
           Client(agent1, {a}, {downstream}, acme, "suspended")}

RootForms(ids, proofs, scopes) ==
    [grant_type: {"client_credentials"}, client_id: ids, proof: proofs,
     scope: scopes, audience: {None}, subject_token: {None},
     actor_token: {None}]

ExchangeForms(ids, proofs, scopes, audiences, tokens) ==
    [grant_type: {"token_exchange"}, client_id: ids, proof: proofs,
     scope: scopes, audience: audiences, subject_token: tokens,
     actor_token: tokens]

\* Honest callers that ask for all they can have, or for less.
DelegationForms ==
    RootForms({c1, c2}, {TRUE}, {{a}, {a, b}})
        \cup ExchangeForms({c1, c2}, {TRUE}, {{}, {a, b}}, {downstream},
                           Requests)

\* Every way a request can go wrong.
AnyForms ==
    RootForms({c1}, BOOLEAN, {{}, {a}, {b}})
        \cup ExchangeForms({c1}, BOOLEAN, {{}, {a}}, {None, downstream},
                           Requests \cup {None})

\* A caller whose registration changes under it.
ChurnForms ==
    RootForms({c1}, {TRUE}, {{}, {a, b}})
        \cup ExchangeForms({c1}, {TRUE}, {{}, {a, b}}, {downstream}, Requests)

RequestSymmetry == Permutations(Requests)

=============================================================================
