---------------------------- MODULE CommandLine -----------------------------
(***************************************************************************)
(* The control plane's command line: struct Cli of crates/yutha-control-   *)
(* plane/src/main.rs and the functions that turn it into a configuration   *)
(* or refuse it before anything is connected.                              *)
(*                                                                         *)
(* A command line is the attestor, signer and receipt backend it selects   *)
(* and the set of options given.  An option is its name; an option whose   *)
(* value is no good has a name of its own ("bad_seed", "http_issuer").     *)
(***************************************************************************)
EXTENDS Naturals, FiniteSets

Bad == "bad"

TlsOptions == {"tls_cert", "tls_key", "client_ca"}
SpiffeOptions == {"spiffe_socket", "spiffe_bundle_file", "spiffe_audience", "zero_timeout"}
OidcOptions == {"oidc_issuer", "http_issuer", "oidc_audience", "oidc_jwks_uri", "http_jwks_uri",
                "oidc_jwks_file", "hmac_alg", "short_ttl", "day_skew", "allow_insecure_http"}
VaultOptions == {"vault_addr", "vault_key", "vault_token_file", "vault_role_id",
                 "vault_secret_id_file", "empty_secret"}
KmsOptions == {"gcp_key_version", "gcp_key", "azure_vault_url", "http_vault_url",
               "azure_key_name", "azure_key_version"}
AnchorFlags == {"anchor_rpc_url", "anchor_package_id", "anchor_swarm_anchor_id",
                "anchor_sealer_key_file"}
IdentityOptions == {"seed", "bad_seed", "operator_key", "bad_operator_key", "workload",
                    "unknown_workload", "postgres_url"}
Options == TlsOptions \cup SpiffeOptions \cup OidcOptions \cup VaultOptions \cup KmsOptions
           \cup AnchorFlags \cup IdentityOptions

CommandLines == [attestor : {"native", "spiffe", "oidc"},
                 signer : {"in_process", "vault", "gcp_kms", "azure_kv"},
                 backend : {"memory", "postgres"},
                 given : SUBSET Options]
-----------------------------------------------------------------------------
(* main(), before any backend is opened.  Every function takes the options *)
(* given and tells what comes of them.                                     *)

\* BootstrapIdentity::from_seed_hex: key, agent id and swarm id all from the seed.
from_seed_hex(given) ==
    IF "bad_seed" \in given THEN Bad ELSE IF "seed" \in given THEN "derived" ELSE "random"

parse_operator_public_key(given) ==
    IF "bad_operator_key" \in given THEN Bad ELSE IF "operator_key" \in given THEN "key" ELSE "none"

\* All four, or none.
resolve_anchor_config(given) ==
    CASE AnchorFlags \cap given = {} -> "none"
      [] AnchorFlags \subseteq given -> "anchor"
      [] OTHER                       -> Bad

workload_extension_by_name(given) == IF "unknown_workload" \in given THEN Bad ELSE "sources"
-----------------------------------------------------------------------------
(* The attestor. *)

\* SpiffeConfig::validate.
spiffe_validate(given) == "zero_timeout" \notin given

build_spiffe_attestor(given) ==
    LET source == {"spiffe_socket", "spiffe_bundle_file"} \cap given
    IN  IF "spiffe_audience" \notin given \/ ~spiffe_validate(given) THEN Bad
        ELSE CASE source = {"spiffe_socket"}      -> "spiffe_workload"
               [] source = {"spiffe_bundle_file"} -> "spiffe_file"
               [] OTHER                           -> Bad

\* JwksSource::validate and check_url: the URL in use is HTTPS, unless HTTP is allowed.
check_url(given) ==
    "allow_insecure_http" \in given
    \/ IF {"oidc_jwks_uri", "http_jwks_uri"} \cap given # {}
       THEN "http_jwks_uri" \notin given
       ELSE "oidc_jwks_file" \in given \/ "http_issuer" \notin given

\* OidcConfig::validate.
oidc_validate(given) ==
    /\ "http_issuer" \in given => "allow_insecure_http" \in given
    /\ given \cap {"hmac_alg", "short_ttl", "day_skew"} = {}
    /\ check_url(given)

build_oidc_attestor(given) ==
    LET issuer == {"oidc_issuer", "http_issuer"} \cap given
        uri    == {"oidc_jwks_uri", "http_jwks_uri"} \cap given
    IN  IF \/ issuer = {} \/ "oidc_audience" \notin given
           \/ uri # {} /\ "oidc_jwks_file" \in given
           \/ ~oidc_validate(given)
        THEN Bad
        ELSE IF "oidc_jwks_file" \in given THEN "oidc_file" ELSE "oidc"

AttestorArg(cli) ==
    CASE cli.attestor = "native" -> "native"
      [] cli.attestor = "spiffe" -> build_spiffe_attestor(cli.given)
      [] cli.attestor = "oidc"   -> build_oidc_attestor(cli.given)
-----------------------------------------------------------------------------
(* The signer. *)

\* Exactly one way to authenticate, and a secret file that is not empty.
VaultAuth(given) ==
    LET auth == {"vault_token_file", "vault_role_id", "vault_secret_id_file"} \cap given
    IN  /\ auth \in {{"vault_token_file"}, {"vault_role_id", "vault_secret_id_file"}}
        /\ "empty_secret" \notin given

build_vault_signer(given) ==
    IF {"vault_addr", "vault_key"} \subseteq given /\ VaultAuth(given) THEN "vault" ELSE Bad

\* GcpKmsConfig::new insists on a key version, not a key.
build_gcp_kms_signer(given) == IF "gcp_key_version" \in given THEN "gcp" ELSE Bad

\* AzureKvConfig::new insists on HTTPS; the key version is optional.
build_azure_kv_signer(given) ==
    CASE {"azure_vault_url", "azure_key_name"} \subseteq given /\ "http_vault_url" \notin given ->
             IF "azure_key_version" \in given THEN "azure" ELSE "azure_latest"
      [] OTHER -> Bad

SignerArg(cli) ==
    CASE cli.signer = "in_process" -> "inprocess"
      [] cli.signer = "vault"      -> build_vault_signer(cli.given)
      [] cli.signer = "gcp_kms"    -> build_gcp_kms_signer(cli.given)
      [] cli.signer = "azure_kv"   -> build_azure_kv_signer(cli.given)
-----------------------------------------------------------------------------
\* serve_grpc, once everything else is running: a certificate goes with its key.
tls_config(given) ==
    CASE TlsOptions \cap given = {}                 -> "plaintext"
      [] {"tls_cert", "tls_key"} \subseteq given    -> "tls"
      [] OTHER                                      -> Bad

\* What main() refuses before bootstrap_backends.
RefusedEarly(cli) ==
    \/ Bad \in {from_seed_hex(cli.given), parse_operator_public_key(cli.given),
                resolve_anchor_config(cli.given), workload_extension_by_name(cli.given),
                AttestorArg(cli), SignerArg(cli)}
    \/ cli.backend = "postgres" /\ "postgres_url" \notin cli.given
=============================================================================
