--------------------------- MODULE MCControlPlane ---------------------------
(***************************************************************************)
(* Two registrations against an issuer that withdraws its key before it    *)
(* publishes the next, and the deployments that tell the attestors,        *)
(* signers and startup failures apart.                                     *)
(***************************************************************************)
EXTENDS ControlPlane, TLC

CONSTANTS boot, r1, r2, k1, k2

AllCalls == {boot, r1, r2}
Kids  == boot :> k1 @@ r1 :> k1 @@ r2 :> k2
Flawed == boot :> "empty" @@ r1 :> "none" @@ r2 :> "none"
KeySets == <<{k1}, {}, {k2}>>
WithLimit == {"oidc", "spiffe_file"}

Cli(a, s, given) == [attestor |-> a, signer |-> s, backend |-> "memory", given |-> given]
Library(a, s, given) == [binary |-> FALSE, cli |-> Cli(a, s, given)]
Binary(a, s, given) == [binary |-> TRUE, cli |-> Cli(a, s, given)]
Postgres(given) == [binary |-> TRUE, cli |-> [Cli("native", "in_process", given)
                                              EXCEPT !.backend = "postgres"]]

Oidc   == {"oidc_issuer", "oidc_audience"}
Vault  == {"vault_addr", "vault_key", "vault_token_file"}
Azure  == {"azure_vault_url", "azure_key_name"}
Gcp    == {"gcp_key_version"}

Commands ==
    {Library("oidc", "in_process", Oidc),
     Library("oidc", "gcp_kms", Oidc \cup {"oidc_jwks_file"} \cup Gcp),
     Library("spiffe", "azure_kv", {"spiffe_audience", "spiffe_bundle_file"} \cup Azure),
     Library("spiffe", "vault", {"spiffe_audience", "spiffe_socket"} \cup Vault),
     Binary("oidc", "in_process", Oidc),
     Binary("spiffe", "in_process", {"spiffe_audience", "spiffe_socket", "spiffe_bundle_file"}),
     Binary("native", "in_process", {"tls_cert", "tls_key"}),
     Binary("native", "in_process", {"tls_cert"}),
     Binary("native", "in_process", {"anchor_rpc_url", "seed"}),
     Binary("native", "in_process", AnchorFlags),
     Binary("native", "vault", Vault),
     Binary("native", "vault", Vault \cup {"vault_role_id"}),
     Binary("native", "azure_kv", Azure \cup {"azure_key_version"}),
     Postgres(AnchorFlags \cup {"seed", "postgres_url"}),
     Postgres({})}
=============================================================================
