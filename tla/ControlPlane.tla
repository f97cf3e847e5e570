---------------------------- MODULE ControlPlane ----------------------------
(***************************************************************************)
(* The control plane's own identity: main() of crates/yutha-control-plane  *)
(* from the command line to serve_grpc, the signers it may be configured   *)
(* with (in process, Vault transit, GCP KMS, Azure Key Vault), and         *)
(* MemoryRegistry::register, which joins an attestor's verdict, the        *)
(* passport store and a receipt signed by that identity.                   *)
(*                                                                         *)
(* Keys are numbered: `kms' is the newest version of the key the signer    *)
(* names, `public' the one it fetched when it connected, `passport' the    *)
(* one in the control plane's registered passport, against which the       *)
(* receipt store verifies every receipt it appends.                        *)
(***************************************************************************)
EXTENDS Attestor, CommandLine

CONSTANTS Deployments,  \* command lines, and programs that embed the library
          Boot,         \* the registration of the bootstrap agent
          MaxRotations  \* bound: rotations of the key at the provider

ASSUME ControlPlaneAssumption ==
    /\ \A d \in Deployments : d.binary \in BOOLEAN /\ d.cli \in CommandLines
    /\ Boot \in Calls /\ Flaw[Boot] = "empty"
    /\ MaxRotations \in Nat

VARIABLES deployment, stage,
          kms, public, passport,
          passports,  \* MemoryPassportStore: the registrations it holds
          receipts,   \* what the receipt store has appended: <<kind, registration, key>>
          reply       \* what register answered

planeVars == <<deployment, stage, kms, public, passport>>
registryVars == <<passports, receipts, reply>>
vars == <<attestorVars, planeVars, registryVars>>

Init ==
    /\ deployment \in Deployments
    /\ stage = IF deployment.binary THEN "flags" ELSE "attestor"
    /\ deployed = "native"
    /\ AttestorInit
    /\ kms = 1 /\ public = 0 /\ passport = 0
    /\ passports = {} /\ receipts = {}
    /\ reply = [c \in Calls |-> "none"]
-----------------------------------------------------------------------------
(* Signers. *)

cli == deployment.cli
signer == SignerArg(cli)

\* What key each backend signs with: the key it generated; the latest version Vault
\* holds; the version named when it connected; for Azure, that too, unless none was named.
inprocess_sign == public
vault_sign == kms
gcp_sign == public
azure_sign == IF signer = "azure" THEN public ELSE kms

sign ==
    CASE signer = "inprocess" -> inprocess_sign
      [] signer = "vault"     -> vault_sign
      [] signer = "gcp"       -> gcp_sign
      [] OTHER                -> azure_sign

\* A provider can be out of reach, deny access or hold a key of the wrong type.
Remote == signer # "inprocess"

\* Signing and appending a receipt can fail on the way to either.
CanFail == Remote \/ cli.backend = "postgres"

\* The provider rotates the key.
RotateKey ==
    /\ Remote /\ kms <= MaxRotations
    /\ kms' = kms + 1
    /\ UNCHANGED <<attestorVars, deployment, stage, public, passport, registryVars>>
-----------------------------------------------------------------------------
(* Startup: any step that fails ends the process. *)

\* Mutants.
RegisterOk_SwallowsAppend(c) ==
    /\ reply[c] = "persisted"
    /\ receipts' = IF sign = passport THEN receipts \cup {<<"register", c, sign>>} ELSE receipts
    /\ reply' = [reply EXCEPT ![c] = "registered"]
    /\ UNCHANGED <<attestorVars, planeVars, passports>>

Reach(next) == stage' = next
Fail(c) == stage' = IF c = Boot THEN "failed" ELSE stage

\* The seed, the operator key, the anchor flags and the workload names.
ParseFlags ==
    /\ stage = "flags"
    /\ Reach(IF Bad \in {from_seed_hex(cli.given), parse_operator_public_key(cli.given),
                         resolve_anchor_config(cli.given),
                         workload_extension_by_name(cli.given)}
             THEN "failed" ELSE "store")
    /\ UNCHANGED <<attestorVars, deployment, kms, public, passport, registryVars>>

\* The in-memory store, or Postgres: a URL, a connection and the migrations.
OpenReceiptStore ==
    /\ stage = "store"
    /\ \/ /\ cli.backend = "postgres" => "postgres_url" \in cli.given
          /\ Reach("attestor")
       \/ cli.backend = "postgres" /\ Reach("failed")
    /\ UNCHANGED <<attestorVars, deployment, kms, public, passport, registryVars>>

\* The attestor is built and connected.
BuildAttestor ==
    /\ stage = "attestor"
    /\ \/ AttestorArg(cli) # Bad /\ connect(AttestorArg(cli)) /\ Reach("signer")
       \/ AttestorArg(cli) # "native" /\ Reach("failed") /\ UNCHANGED attestorVars
    /\ UNCHANGED <<deployment, kms, public, passport, registryVars>>

\* A generated key ...
InProcessSigner ==
    /\ stage = "signer" /\ signer = "inprocess"
    /\ public' = kms
    /\ Reach("passport")
    /\ UNCHANGED <<attestorVars, deployment, kms, passport, registryVars>>

\* ... or a remote one, whose public key is fetched once.
Connect(which) ==
    /\ stage = "signer" /\ cli.signer = which
    /\ \/ signer # Bad /\ public' = kms /\ Reach("passport")
       \/ Reach("failed") /\ UNCHANGED public
    /\ UNCHANGED <<attestorVars, deployment, kms, passport, registryVars>>
VaultConnect == Connect("vault")
GcpKmsConnect == Connect("gcp_kms")
AzureKvConnect == Connect("azure_kv")

\* bootstrap_backends signs the control plane's passport, and stores it if its own
\* signature verifies.
RegisterControlPlane ==
    /\ stage = "passport"
    /\ \/ /\ sign = public
          /\ passport' = public
          /\ Reach(IF deployment.binary THEN "bootstrap" ELSE "serving")
       \/ /\ Remote
          /\ Reach("failed") /\ UNCHANGED passport
    /\ UNCHANGED <<attestorVars, deployment, kms, public, registryVars>>

\* The anchor driver: it needs the seed that fixes the swarm id, a key and a connection.
spawn_anchor_driver ==
    /\ stage = "anchor"
    /\ \/ /\ resolve_anchor_config(cli.given) = "anchor" => from_seed_hex(cli.given) = "derived"
          /\ Reach("serve")
       \/ resolve_anchor_config(cli.given) = "anchor" /\ Reach("failed")
    /\ UNCHANGED <<attestorVars, deployment, kms, public, passport, registryVars>>

\* TLS, then the listening socket.
serve_grpc ==
    /\ stage = "serve"
    /\ \/ tls_config(cli.given) # Bad /\ Reach("serving")
       \/ Reach("failed")
    /\ UNCHANGED <<attestorVars, deployment, kms, public, passport, registryVars>>
-----------------------------------------------------------------------------
(* MemoryRegistry::register, after the checks that Admission models. *)

RegisterBegin(c) ==
    /\ reply[c] = "none"
    /\ stage = IF c = Boot THEN "bootstrap" ELSE "serving"
    /\ reply' = [reply EXCEPT ![c] = "attesting"]
    /\ Goto(V(c), "begin")
    /\ UNCHANGED <<cacheVars, call, verdict, planeVars, passports, receipts>>

\* No verdict: no receipt either.
RegisterUnavailable(c) ==
    /\ reply[c] = "attesting" /\ verdict[c] = "unavailable"
    /\ reply' = [reply EXCEPT ![c] = "unavailable"]
    /\ Fail(c)
    /\ UNCHANGED <<attestorVars, deployment, kms, public, passport, passports, receipts>>

\* A denial is recorded before it is answered; signing and appending may fail silently.
RegisterDeny(c) ==
    /\ reply[c] = "attesting" /\ verdict[c] \in {"rejected", "malformed", "unknown_kid"}
    /\ \/ sign = passport /\ receipts' = receipts \cup {<<"deny", c, sign>>}
       \/ (sign = passport => CanFail) /\ UNCHANGED receipts
    /\ reply' = [reply EXCEPT ![c] = "denied"]
    /\ Fail(c)
    /\ UNCHANGED <<attestorVars, deployment, kms, public, passport, passports>>

RegisterPersist(c) ==
    /\ reply[c] = "attesting" /\ verdict[c] = "accepted"
    /\ passports' = passports \cup {c}
    /\ reply' = [reply EXCEPT ![c] = "persisted"]
    /\ UNCHANGED <<attestorVars, planeVars, receipts>>

\* build_registration_receipt and append: the signature must verify under the passport.
RegisterOk(c) ==
    /\ reply[c] = "persisted" /\ sign = passport
    /\ receipts' = receipts \cup {<<"register", c, sign>>}
    /\ reply' = [reply EXCEPT ![c] = "registered"]
    /\ UNCHANGED <<attestorVars, planeVars, passports>>

\* The signer or the store is unreachable, or the receipt is refused; the passport stays.
RegisterReceiptFails(c) ==
    /\ reply[c] = "persisted"
    /\ reply' = [reply EXCEPT ![c] = IF sign = passport THEN "not_appended" ELSE "refused"]
    /\ sign = passport => CanFail
    /\ Fail(c)
    /\ UNCHANGED <<attestorVars, deployment, kms, public, passport, passports, receipts>>

Bootstrapped ==
    /\ stage = "bootstrap" /\ reply[Boot] = "registered"
    /\ Reach("anchor")
    /\ UNCHANGED <<attestorVars, deployment, kms, public, passport, registryVars>>

Register(c) ==
    RegisterBegin(c) \/ RegisterUnavailable(c) \/ RegisterDeny(c) \/ RegisterPersist(c)
    \/ RegisterOk(c) \/ RegisterReceiptFails(c)

Startup ==
    \/ ParseFlags \/ OpenReceiptStore \/ BuildAttestor
    \/ InProcessSigner \/ VaultConnect \/ GcpKmsConnect \/ AzureKvConnect
    \/ RegisterControlPlane \/ Bootstrapped \/ spawn_anchor_driver \/ serve_grpc

Next ==
    \/ Startup
    \/ stage # "failed" /\ RotateKey
    \/ \E c \in Calls : Register(c)
    \/ stage # "failed" /\ AttestorNext /\ UNCHANGED <<planeVars, registryVars>>

Spec == Init /\ [][Next]_vars
-----------------------------------------------------------------------------
(* Properties. *)

\* A control plane that serves has registered its bootstrap agent, with a receipt that
\* verifies under its own passport: no failure on the way is swallowed (main,
\* bootstrap_backends).  And a command line that is no good leaves nothing behind in
\* the receipt store: whatever main() can tell from the flags it checks before the
\* first registration ("fail fast before any backend is constructed").  The seed an
\* anchor needs and the TLS pair are the exceptions: they are checked after it.
StartupAudited ==
    deployment.binary =>
        /\ stage = "serving" => /\ Boot \in passports
                                /\ <<"register", Boot, passport>> \in receipts
        /\ RefusedEarly(cli) => receipts = {} /\ stage # "serving"

\* No registration is lost because its receipt's signature does not verify under the key
\* the signer reports, which is the one in the control plane's passport, whatever the
\* provider rotates: every signer "MUST return a signature that verifies under
\* [`Signer::public_key`]" (yutha-signer/src/traits.rs, sign_message).
SignaturesVerify == \A c \in Calls : reply[c] # "refused"

\* A control plane whose parts all connect gets its bootstrap agent registered whatever
\* attestor it is given: "the control plane's own passport is always the native path"
\* (main.rs).
BootstrapIsNative == reply[Boot] # "denied"
=============================================================================
