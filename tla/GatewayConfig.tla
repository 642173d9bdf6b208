---------------------------- MODULE GatewayConfig ----------------------------
(***************************************************************************)
(* Which environments the gateway starts in (src/config.rs), and what the  *)
(* constructors called after it ask for once more (WorkerClient::build,    *)
(* catalog_service, ConversationDispatcher::new, A2aAdapter::new).         *)
(*                                                                         *)
(* An environment is a record of its variables, None where one is missing  *)
(* or empty.  A secret is its text with its length and the narrowest of    *)
(* the three alphabets it is written in; an address is named, and a URL    *)
(* is split only where the code judges its parts.                          *)
(***************************************************************************)
EXTENDS ConversationPolicy

CONSTANTS
    Hosts,          \* host names an environment may list
    CanonicalHosts, \* those that are canonical DNS names
    Lower           \* host name -> the same in lower case

ASSUME HostConstants ==
    CanonicalHosts \subseteq Hosts /\ Lower \in [Hosts -> Hosts]

Origins == {"loopback", "service", "cluster", "elsewhere"}
Secrets == [text : STRING, length : Nat, alphabet : {"token", "graphic", "any"}]
TokenUrls == [scheme : {"http", "https", "other"},
              host : {"loopback", "reviewed", "elsewhere", "none"},
              bare : BOOLEAN]   \* neither user, password, query nor fragment

-----------------------------------------------------------------------------
(* GatewayConfig::parse, without Codex *)

TokenUrlFits(url) ==
    /\ url.scheme \in {"http", "https"} /\ url.bare /\ url.host # "none"
    /\ url.scheme = "http" => url.host \in {"loopback", "reviewed"}

\* The names are listed in any case and kept in lower case, and the selected
\* one is looked up as it is written.
HostsFit(hosts, selected) ==
    LET listed == {Lower[h] : h \in hosts}
    IN  listed # {} /\ listed \subseteq CanonicalHosts /\ selected \in listed

ReferenceFits(env) ==
    /\ ~env.retired
    /\ env.origin \in {"loopback", "service", "cluster"}
    /\ env.tokenUrl # None /\ TokenUrlFits(env.tokenUrl)
    /\ env.client = "thought-khoral-agent-gateway"
    /\ env.clientSecret # None /\ env.inboundSecret # None
    /\ env.inboundSecret # env.clientSecret
    /\ env.card \in {"base", "card"}
    /\ HostsFit(env.hosts, env.selected)
    /\ env.poll \in 100..5000

-----------------------------------------------------------------------------
(* CodexConfig::parse *)

InvocationSecretFits(s) == s.length \in 16..4096 /\ s.alphabet \in {"token", "graphic"}
BridgeSecretFits(s) == s.length \in 32..4096 /\ s.alphabet = "token"

\* Mutant: the bridge secret is compared with the invocation secret only.
SecretsDiffer(env) ==
    /\ env.codex.secret \notin {env.clientSecret, env.inboundSecret}
    /\ env.codex.bridgeSecret # env.codex.secret

SecretsDistinct(env) ==
    /\ env.codex.secret \notin {env.clientSecret, env.inboundSecret}
    /\ env.codex.bridgeSecret \notin
         {env.codex.secret, env.clientSecret, env.inboundSecret}

CodexOff(env) == env.codex.enabled \in {None, "false"}

CodexFits(env) ==
    /\ ~env.codex.retired
    /\ \/ CodexOff(env)
       \/ /\ env.codex.enabled = "true"
          /\ env.codex.secret # None /\ InvocationSecretFits(env.codex.secret)
          /\ env.codex.bridgeSecret # None
          /\ BridgeSecretFits(env.codex.bridgeSecret)
          /\ SecretsDistinct(env)
          /\ env.codex.bind = "fixed"
          /\ env.codex.dir = "absolute"
          /\ env.codex.policy # None /\ AdmissionFits(env.codex.policy)

Accepts(env) == ReferenceFits(env) /\ CodexFits(env)

-----------------------------------------------------------------------------
(* The constructors: each has checks of its own *)

\* A2aAdapter::new with the inbound secret, read from the environment again.
AdapterBuilds(env) == env.inboundSecret # None

\* Mutant: the worker client asks for as long a secret as the bridge.
LongSecretBuilds(env) ==
    /\ env.codex.secret.length >= 32 /\ env.codex.secret.length <= 4096
    /\ env.codex.secret.alphabet # "any"

\* WorkerClient::build, called for the mediator and again for the bridge.
WorkerClientBuilds(env) ==
    /\ env.codex.secret.length >= 16 /\ env.codex.secret.length <= 4096
    /\ env.codex.secret.alphabet # "any"

\* ConversationDispatcher::new: the rest of it is up to the file system.
MediatorBuilds(env) == env.codex.dir = "absolute"

\* catalog_service
BridgeBuilds(env) ==
    /\ WorkerClientBuilds(env)
    /\ env.codex.bridgeSecret.length >= 32 /\ env.codex.bridgeSecret.length <= 4096
    /\ env.codex.bridgeSecret.alphabet = "token"
=============================================================================
