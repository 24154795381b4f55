----------------------------- MODULE ApiClient -----------------------------
(***************************************************************************)
(* fake_ipa/ironic_api_client.py and inspector.py, with the token part of  *)
(* fake_agent.py: one boot of an agent talks to Ironic.  It inspects,      *)
(* looks its node up until Ironic knows it, records the agent token of the *)
(* answer and then heartbeats.  Ironic, which is not part of this          *)
(* repository, is what the client takes it for: it speaks tokens from      *)
(* version 1.62 on, hands a node's token out once and masks it afterwards, *)
(* and may be upgraded at any time.                                        *)
(*                                                                         *)
(* Versions are minor versions, the major one being 1.  A wait stands for  *)
(* an attempt and the sleep after it.  What a lookup returns is reduced to *)
(* the token and agent_token_required of its config; the part an agent     *)
(* plays in app.agents is in Lifecycle.                                    *)
(***************************************************************************)
EXTENDS Naturals

CONSTANTS
  Versions,       \* versions Ironic may speak at most
  Token,          \* a token of at least 32 characters
  ShortToken,     \* one that is shorter, which the agent calls invalid
  Masked,         \* '******', for a token that was handed out before
  LookupTimeout,  \* seconds
  Waits,          \* seconds tenacity may wait between two lookups
  None

MIN_IRONIC_VERSION == 31
AGENT_VERSION_IRONIC_VERSION == 36
AGENT_TOKEN_IRONIC_VERSION == 62
MAX_KNOWN_VERSION == 68
RETRY_ATTEMPTS == 5

Tokens == {Token, ShortToken}

Configs == [token : Tokens \cup {Masked, None}, required : BOOLEAN]

Requests ==
  [kind : {"lookup", "heartbeat"}, version : Nat,
   fields : SUBSET {"agent_token", "agent_version"},
   token : Tokens \cup {None}]

ASSUME ApiClientAssumption ==
  /\ Versions \subseteq {v \in Nat : v >= MIN_IRONIC_VERSION}
  /\ LookupTimeout \in Nat
  /\ Waits \subseteq Nat \ {0}
  /\ None \notin Nat
  /\ None \notin Tokens \cup {Masked}
  /\ None \notin Configs
  /\ None \notin Requests
  /\ Masked \notin Tokens
  /\ Token # ShortToken

VARIABLES
  version,        \* Ironic's API version
  requires,       \* Ironic requires agent tokens
  expects,        \* the token Ironic handed out for the node, or None
  faulty,         \* Ironic or the network may fail a request
  boot,           \* where the boot thread is
  attempts,       \* inspections that failed to connect
  waited,         \* seconds since the first lookup, up to LookupTimeout
  api_version,    \* APIClient._ironic_api_version, or None
  config,         \* the config of the lookup's answer, or None
  agent_token,    \* FakeIronicPythonAgent.agent_token
  client_token,   \* APIClient.agent_token
  required,       \* agent_token_required has been set (only ever to True)
  request,        \* the request under way, or None
  accepted        \* Ironic accepted a heartbeat: it has the callback URL

ironicVars == <<version, requires, faulty>>
bootVars == <<attempts, waited, config>>
tokenVars == <<agent_token, client_token, required>>
vars == <<ironicVars, bootVars, tokenVars, expects, boot, api_version,
          request, accepted>>

AtMost(v, bound) == IF v <= bound THEN v ELSE bound

Init ==
  /\ version \in Versions
  /\ requires \in BOOLEAN
  /\ expects \in {None, Token}  \* Token: an earlier boot retrieved it
  /\ faulty = TRUE
  /\ boot \in {"inspect", "lookup"}  \* without a callback URL no inspection
  /\ attempts = 0
  /\ waited = 0
  /\ api_version = None
  /\ config = None
  /\ agent_token = None
  /\ client_token = None
  /\ required = FALSE
  /\ request = None
  /\ accepted = FALSE

(* A step of the boot thread that only moves on. *)
Goto(label) ==
  /\ boot' = label
  /\ UNCHANGED <<ironicVars, bootVars, tokenVars, expects, api_version,
                 request, accepted>>

-----------------------------------------------------------------------------
(* inspect() *)

InspectAgain(last) ==
  /\ boot = "inspect"
  /\ faulty
  /\ attempts' = attempts + 1
  /\ boot' = IF attempts' = last THEN "lookup" ELSE "inspect"
  /\ UNCHANGED <<ironicVars, tokenVars, waited, config, expects, api_version,
                 request, accepted>>

(* Mutant: the ConnectionError that is raised in the end ends the boot. *)
InspectErrorUncaught ==
  /\ boot = "inspect"
  /\ faulty
  /\ attempts' = attempts + 1
  /\ boot' = IF attempts' = RETRY_ATTEMPTS THEN "failed" ELSE "inspect"
  /\ UNCHANGED <<ironicVars, tokenVars, waited, config, expects, api_version,
                 request, accepted>>

(* Mutant: the attempts are counted one too far. *)
InspectOnceMore == InspectAgain(RETRY_ATTEMPTS + 1)

(* Only a ConnectionError is retried; the fifth is raised and boot() goes on *)
(* without an inspection uuid.                                               *)
InspectConnectionError == InspectAgain(RETRY_ATTEMPTS)

(* Answered, refused (a code of 400 or more) or failed in any other way. *)
InspectDone == boot = "inspect" /\ Goto("lookup")

-----------------------------------------------------------------------------
(* Mutant: the discovered version is returned and not kept. *)
GetIronicApiVersionUncached(v) ==
  /\ \/ v = version
     \/ faulty /\ v = MIN_IRONIC_VERSION
  /\ UNCHANGED api_version

(* v may be what _get_ironic_api_version returns: what it has cached, what  *)
(* it discovers and caches, or the fallback when discovery fails.           *)
GetIronicApiVersion(v) ==
  \/ /\ api_version # None
     /\ v = api_version
     /\ UNCHANGED api_version
  \/ /\ api_version = None
     /\ v = version
     /\ api_version' = v
  \/ /\ api_version = None
     /\ faulty
     /\ v = MIN_IRONIC_VERSION
     /\ UNCHANGED api_version

(* lookup_node() *)

DoLookup ==
  /\ boot = "lookup"
  /\ \E v \in Versions \cup {MIN_IRONIC_VERSION} :
       /\ GetIronicApiVersion(v)
       /\ request' = [kind |-> "lookup",
                      version |-> AtMost(v, AGENT_TOKEN_IRONIC_VERSION),
                      token |-> None, fields |-> {}]
  /\ boot' = "asked"
  /\ UNCHANGED <<ironicVars, bootVars, tokenVars, expects, accepted>>

(* Ironic answers a lookup with config c: without tokens before 1.62, later *)
(* with the token it now hands out or with asterisks.                       *)
IronicAnswersLookup(c) ==
  /\ request # None /\ request.kind = "lookup"
  /\ IF request.version < AGENT_TOKEN_IRONIC_VERSION
     THEN /\ c = [token |-> None, required |-> FALSE]
          /\ UNCHANGED expects
     ELSE /\ c.required = requires
          /\ \/ expects # None /\ c.token = Masked /\ UNCHANGED expects
             \/ expects = None /\ c.token \in Tokens /\ expects' = c.token

LookupAnswered ==
  /\ boot = "asked"
  /\ \E c \in Configs : IronicAnswersLookup(c) /\ config' = c
  /\ boot' = "found"
  /\ request' = None
  /\ UNCHANGED <<ironicVars, tokenVars, attempts, waited, api_version,
                 accepted>>

(* Each failure that makes _do_lookup return False: Ironic may never have   *)
(* seen the request, or its answer, with the token, was lost or unreadable. *)
LookupFails ==
  /\ boot = "asked"
  /\ faulty
  /\ \/ UNCHANGED expects
     \/ \E c \in Configs : IronicAnswersLookup(c)
  /\ boot' = "retry"
  /\ request' = None
  /\ UNCHANGED <<ironicVars, bootVars, tokenVars, api_version, accepted>>

(* An answer of a shape nobody expects raises, whatever Ironic did for it:  *)
(* tenacity retries only False.                                             *)
LookupRaises ==
  /\ boot = "asked"
  /\ faulty
  /\ \/ UNCHANGED expects
     \/ \E c \in Configs : IronicAnswersLookup(c)
  /\ boot' = "failed"
  /\ request' = None
  /\ UNCHANGED <<ironicVars, bootVars, tokenVars, api_version, accepted>>

LookupAfterWait ==
  /\ boot = "retry"
  /\ \E w \in Waits : waited' = AtMost(waited + w, LookupTimeout)
  /\ boot' = "lookup"
  /\ UNCHANGED <<ironicVars, tokenVars, attempts, config, expects,
                 api_version, request, accepted>>

(* Mutant: no stop condition, lookups are retried for ever. *)
RetryLookupForever == LookupAfterWait

RetryLookup == waited < LookupTimeout /\ LookupAfterWait

(* stop_after_delay: RetryError becomes LookupNodeError and ends the boot. *)
GiveUp == boot = "retry" /\ waited >= LookupTimeout /\ Goto("failed")

-----------------------------------------------------------------------------
(* process_lookup_data() *)

Record(agentToken, clientToken) ==
  /\ boot = "found"
  /\ agent_token' = agentToken
  /\ client_token' = clientToken
  /\ required' = (required \/ config.required)
  /\ boot' = "joined"
  /\ UNCHANGED <<ironicVars, bootVars, expects, api_version, request,
                 accepted>>

(* Mutant: the asterisks are recorded as a token. *)
RecordTokenMasked ==
  boot = "found" /\ config.token \in {Token, Masked}
                 /\ Record(config.token, config.token)

(* Mutant: the API client gets the token, the agent does not. *)
RecordTokenClientOnly ==
  boot = "found" /\ config.token = Token /\ Record(agent_token, Token)

(* Mutant: the agent gets the token, its API client does not. *)
RecordTokenAgentOnly ==
  boot = "found" /\ config.token = Token /\ Record(Token, client_token)

RecordToken == boot = "found" /\ config.token = Token /\ Record(Token, Token)

(* No token, an invalid one, or a masked one although tokens are required, *)
(* which is logged as likely FATAL: the agent goes on without a token.     *)
KeepNoToken ==
  /\ boot = "found"
  /\ \/ config.token \in {None, ShortToken}
     \/ config.token = Masked /\ config.required
  /\ Record(agent_token, client_token)

(* A masked token makes the code read agent_token_required, which nothing  *)
(* initialises: unless Ironic requires tokens this ends the boot.          *)
MaskedTokenAttributeError ==
  /\ boot = "found"
  /\ config.token = Masked
  /\ ~config.required
  /\ Goto("failed")

(* config has no heartbeat_timeout: KeyError. *)
LookupDataIncomplete == boot = "found" /\ faulty /\ Goto("failed")

(* What validate_agent_token does with the token of a command. *)
ValidateAgentToken(token) ==
  CASE token = None /\ agent_token # None /\ ~required -> "AttributeError"
    [] agent_token = token -> "valid"
    [] OTHER -> "invalid"

-----------------------------------------------------------------------------
(* heartbeat() *)

HeartbeatFields(v) ==
  {f \in {"agent_token", "agent_version"} :
     v >= (IF f = "agent_token" THEN AGENT_TOKEN_IRONIC_VERSION
                                ELSE AGENT_VERSION_IRONIC_VERSION)}

(* A request whose body is made for version v and whose header says h. *)
HeartbeatRequest(v, h) ==
  [kind |-> "heartbeat", version |-> h, fields |-> HeartbeatFields(v),
   token |-> IF v >= AGENT_TOKEN_IRONIC_VERSION THEN client_token ELSE None]

(* Mutant: the header is made from a second call of                        *)
(* _get_ironic_api_version, as in lookups.                                 *)
HeartbeatRediscovers ==
  /\ boot = "joined"
  /\ request = None
  /\ \E v, h \in Versions \cup {MIN_IRONIC_VERSION} :
       /\ \/ api_version # None /\ v = api_version
          \/ api_version = None /\ faulty /\ v = MIN_IRONIC_VERSION
       /\ GetIronicApiVersion(h)
       /\ request' = HeartbeatRequest(v, AtMost(h, AGENT_TOKEN_IRONIC_VERSION))
  /\ UNCHANGED <<ironicVars, bootVars, tokenVars, expects, boot, accepted>>

Heartbeat ==
  /\ boot = "joined"
  /\ request = None
  /\ \E v \in Versions \cup {MIN_IRONIC_VERSION} :
       /\ GetIronicApiVersion(v)
       /\ request' = HeartbeatRequest(v, AtMost(v, MAX_KNOWN_VERSION))
  /\ UNCHANGED <<ironicVars, bootVars, tokenVars, expects, boot, accepted>>

(* Ironic wants the token it handed out, and one at all if it requires it. *)
Rightful ==
  /\ request.token = expects
  /\ requires => expects # None

HeartbeatAccepted ==
  /\ request # None /\ request.kind = "heartbeat"
  /\ Rightful
  /\ accepted' = TRUE
  /\ request' = None
  /\ UNCHANGED <<ironicVars, bootVars, tokenVars, expects, boot, api_version>>

(* HeartbeatConnectionError, HeartbeatConflictError, HeartbeatNotFoundError *)
(* or HeartbeatError, for which the heartbeater has its own ways.           *)
HeartbeatFails ==
  /\ request # None /\ request.kind = "heartbeat"
  /\ faulty \/ ~Rightful
  /\ request' = None
  /\ UNCHANGED <<ironicVars, bootVars, tokenVars, expects, boot, api_version,
                 accepted>>

-----------------------------------------------------------------------------
(* Ironic and the network *)

Upgrade ==
  /\ \E v \in Versions : v > version /\ version' = v
  /\ UNCHANGED <<requires, faulty, bootVars, tokenVars, expects, boot,
                 api_version, request, accepted>>

FaultsEnd ==
  /\ faulty
  /\ faulty' = FALSE
  /\ UNCHANGED <<version, requires, bootVars, tokenVars, expects, boot,
                 api_version, request, accepted>>

ProcessLookupData ==
  RecordToken \/ KeepNoToken \/ MaskedTokenAttributeError \/ LookupDataIncomplete

HeartbeatAnswered == HeartbeatAccepted \/ HeartbeatFails

Next ==
  \/ InspectConnectionError \/ InspectDone
  \/ DoLookup \/ LookupAnswered \/ LookupFails \/ LookupRaises
  \/ RetryLookup \/ GiveUp
  \/ ProcessLookupData
  \/ Heartbeat \/ HeartbeatAnswered
  \/ Upgrade \/ FaultsEnd

Spec == Init /\ [][Next]_vars

(* Steps of the boot thread that wait for nobody are fair.  A request has   *)
(* no timeout, so its answer, a discovery of the version included, is fair  *)
(* only once the faults have ended.                                         *)
FairSpec ==
  /\ Spec
  /\ WF_vars(RetryLookup \/ GiveUp \/ ProcessLookupData)
  /\ WF_vars(DoLookup /\ api_version # None)
  /\ WF_vars(Heartbeat /\ (api_version # None \/ ~faulty))
  /\ WF_vars(HeartbeatAnswered /\ ~faulty)

-----------------------------------------------------------------------------
(* Types; a lookup is under way exactly while the boot thread waits for it, *)
(* and a config is there once one was answered.                             *)
TypeOK ==
  /\ version \in Versions
  /\ requires \in BOOLEAN
  /\ expects \in Tokens \cup {None}
  /\ faulty \in BOOLEAN
  /\ boot \in {"inspect", "lookup", "asked", "retry", "found", "joined",
               "failed"}
  /\ attempts \in 0..RETRY_ATTEMPTS
  /\ waited \in 0..LookupTimeout
  /\ api_version \in Versions \cup {None}
  /\ config \in Configs \cup {None}
  /\ agent_token \in {Token, None}
  /\ client_token \in {Token, None}
  /\ required \in BOOLEAN
  /\ request \in Requests \cup {None}
  /\ accepted \in BOOLEAN
  /\ boot \in {"found", "joined"} => config # None
  /\ (request # None /\ request.kind = "lookup") <=> boot = "asked"
  /\ request # None => boot \in {"asked", "joined"}

(* A heartbeat of an agent that has recorded a token carries it, although   *)
(* heartbeat() decides on the version it discovered or fell back to, and    *)
(* discovery may fail at any time: a token is only handed out to a lookup   *)
(* whose version had been discovered, and a discovered version is kept.     *)
TokenAlwaysSent ==
  (request # None /\ request.kind = "heartbeat" /\ agent_token # None)
     => request.token = agent_token

(* The header of every request names a version that Ironic speaks, upgrades *)
(* and the fallback of _get_ironic_api_version included, and a heartbeat    *)
(* has exactly the fields of the version its header names.                  *)
HeaderSupported ==
  request # None =>
    /\ request.version <= version
    /\ request.kind = "heartbeat" =>
         request.fields = HeartbeatFields(request.version)

(* Once Ironic accepted a heartbeat it sends commands with the token it     *)
(* expects, or with none: validate_agent_token then lets them pass, neither *)
(* refusing nor raising, whatever was lost, masked or upgraded before.      *)
AcceptedAgentObeys == accepted => ValidateAgentToken(expects) = "valid"

(* The client and the agent keep the promise of TokenHandshake: the token   *)
(* they work with is the one Ironic handed out, though answers get lost.    *)
Handshake == INSTANCE TokenHandshake WITH
  Tokens <- Tokens,
  holds <- agent_token,
  stage <- CASE boot = "joined" -> "ready"
             [] boot = "failed" -> "failed"
             [] OTHER -> "looking"

HandshakeSpec == Handshake!Spec

(* A boot comes to an end, with the agent heartbeating or with an error, as *)
(* lookup_node gives up in time, unless a request stays unanswered: an      *)
(* inspection, a lookup or the discovery of the version before it.          *)
WaitsForAnswer ==
  \/ boot \in {"inspect", "asked"}
  \/ boot = "lookup" /\ api_version = None

BootEnds == <>(boot \in {"joined", "failed"}) \/ <>[]WaitsForAnswer

(* Whatever comes of its inspection, a failed one included, a boot goes on  *)
(* and asks Ironic for its node, unless a request stays unanswered: boot()  *)
(* catches what inspect() raises ("proceeding with lookup").                *)
InspectionNeverStopsBoot ==
  (boot = "inspect" ~> boot = "asked") \/ <>[]WaitsForAnswer

(* An agent that joined with the token Ironic expects is accepted in the    *)
(* end, provided the faults do end: none of what went wrong before, a       *)
(* failed discovery or an upgrade in between, sticks.                       *)
AcceptedInTheEnd ==
  (/\ boot = "joined" /\ ~faulty
   /\ agent_token = expects
   /\ requires => expects # None) ~> accepted
=============================================================================
