-------------------------- MODULE ApiClientProofs --------------------------
(***************************************************************************)
(* Proofs about ApiClient for any versions, tokens and waits: however      *)
(* lookups and discoveries fail and whenever Ironic is upgraded, an agent  *)
(* that recorded a token works with the one Ironic expects.                *)
(***************************************************************************)
EXTENDS ApiClient, TLAPS

(* The fifth failure to connect is the last one. *)
StillTrying == boot = "inspect" => attempts < RETRY_ATTEMPTS

(* A version that is cached is one that Ironic has spoken. *)
VersionKnown == api_version # None => api_version <= version

(* A lookup names a version with tokens only once that version is cached.   *)
LookupUnderWay ==
  (request # None /\ request.kind = "lookup") =>
    /\ request.version <= version
    /\ request.version >= AGENT_TOKEN_IRONIC_VERSION =>
         api_version # None /\ api_version >= AGENT_TOKEN_IRONIC_VERSION

(* Where a token is, Ironic expects it and the cached version has tokens.   *)
TokenFound ==
  (boot = "found" /\ config.token \in Tokens) =>
    /\ expects = config.token
    /\ api_version # None /\ api_version >= AGENT_TOKEN_IRONIC_VERSION

TokenRecorded ==
  /\ client_token = agent_token
  /\ agent_token # None =>
       /\ boot = "joined"
       /\ expects = agent_token
       /\ api_version # None /\ api_version >= AGENT_TOKEN_IRONIC_VERSION

HeartbeatUnderWay ==
  (request # None /\ request.kind = "heartbeat") =>
    /\ request.version <= version
    /\ request.fields = HeartbeatFields(request.version)
    /\ request.token = agent_token

AcceptedRightly == accepted => boot = "joined" /\ expects = agent_token

ApiInv ==
  /\ TypeOK /\ StillTrying /\ VersionKnown /\ LookupUnderWay /\ TokenFound
  /\ TokenRecorded /\ HeartbeatUnderWay /\ AcceptedRightly

-----------------------------------------------------------------------------
LEMMA VersionsAreNat ==
  ASSUME NEW v \in Versions
  PROVE  v \in Nat /\ v >= MIN_IRONIC_VERSION /\ v # None
BY ApiClientAssumption DEF ApiClientAssumption

LEMMA TokensDiffer ==
  /\ Token # None /\ Token # Masked /\ Token # ShortToken
  /\ None # Masked /\ ShortToken # Masked /\ ShortToken # None
BY ApiClientAssumption DEF ApiClientAssumption, Tokens

(* Whatever _get_ironic_api_version returns is a version Ironic speaks, and *)
(* one with tokens is kept.                                                 *)
LEMMA ReturnedVersion ==
  ASSUME ApiInv, NEW v, GetIronicApiVersion(v)
  PROVE  /\ v \in Nat /\ v <= version
         /\ version \in Nat
         /\ api_version' \in Versions \cup {None}
         /\ api_version' # None => api_version' <= version
         /\ api_version # None => v = api_version /\ api_version' = api_version
         /\ v >= AGENT_TOKEN_IRONIC_VERSION => api_version' = v /\ api_version' # None
<1> USE DEF ApiInv
<1>1. version \in Versions /\ api_version \in Versions \cup {None}
  BY DEF TypeOK
<1>2. version \in Nat /\ version >= MIN_IRONIC_VERSION /\ version # None
  BY <1>1, VersionsAreNat
<1>3. CASE api_version # None
  <2>1. v = api_version /\ api_version' = api_version
    BY <1>3 DEF GetIronicApiVersion
  <2>2. QED BY <1>1, <1>2, <1>3, <2>1, VersionsAreNat DEF VersionKnown
<1>4. CASE api_version = None /\ v = version /\ api_version' = v
  BY <1>1, <1>2, <1>4
<1>5. CASE api_version = None /\ v = MIN_IRONIC_VERSION /\ api_version' = api_version
  BY <1>1, <1>2, <1>5 DEF MIN_IRONIC_VERSION, AGENT_TOKEN_IRONIC_VERSION
<1>6. QED BY <1>3, <1>4, <1>5 DEF GetIronicApiVersion

(* Cutting the version down for the header does not change which fields the *)
(* version has.                                                             *)
LEMMA HeaderFields ==
  ASSUME NEW v \in Nat
  PROVE  /\ AtMost(v, MAX_KNOWN_VERSION) \in Nat
         /\ AtMost(v, MAX_KNOWN_VERSION) <= v
         /\ HeartbeatFields(AtMost(v, MAX_KNOWN_VERSION)) = HeartbeatFields(v)
<1>1. /\ AtMost(v, MAX_KNOWN_VERSION) \in Nat
      /\ AtMost(v, MAX_KNOWN_VERSION) <= v
      /\ AtMost(v, MAX_KNOWN_VERSION) >= AGENT_TOKEN_IRONIC_VERSION
           <=> v >= AGENT_TOKEN_IRONIC_VERSION
      /\ AtMost(v, MAX_KNOWN_VERSION) >= AGENT_VERSION_IRONIC_VERSION
           <=> v >= AGENT_VERSION_IRONIC_VERSION
  BY DEF AtMost, MAX_KNOWN_VERSION, AGENT_TOKEN_IRONIC_VERSION,
         AGENT_VERSION_IRONIC_VERSION
<1> DEFINE Least(f) == IF f = "agent_token" THEN AGENT_TOKEN_IRONIC_VERSION
                                            ELSE AGENT_VERSION_IRONIC_VERSION
<1>2. \A f : AtMost(v, MAX_KNOWN_VERSION) >= Least(f) <=> v >= Least(f)
  BY <1>1
<1>3. HeartbeatFields(AtMost(v, MAX_KNOWN_VERSION)) = HeartbeatFields(v)
  BY <1>2 DEF HeartbeatFields
<1>4. QED BY <1>1, <1>3

(* What Ironic answers a lookup with: a token that it expects from then on, *)
(* and only if the request named a version that has tokens.                 *)
LEMMA AnsweredConfig ==
  ASSUME ApiInv, NEW c \in Configs, IronicAnswersLookup(c)
  PROVE  /\ expects' \in Tokens \cup {None}
         /\ expects # None => expects' = expects
         /\ c.token \in Tokens =>
              /\ expects' = c.token
              /\ api_version # None
              /\ api_version >= AGENT_TOKEN_IRONIC_VERSION
<1> USE DEF ApiInv
<1>1. request # None /\ request.kind = "lookup" /\ request.version \in Nat
  BY DEF IronicAnswersLookup, TypeOK, Requests
<1>2. None \notin Tokens /\ Masked \notin Tokens
  BY TokensDiffer DEF Tokens
<1>3. CASE request.version < AGENT_TOKEN_IRONIC_VERSION
  BY <1>2, <1>3 DEF IronicAnswersLookup, TypeOK
<1>4. CASE ~(request.version < AGENT_TOKEN_IRONIC_VERSION)
  <2>1. api_version # None /\ api_version >= AGENT_TOKEN_IRONIC_VERSION
    BY <1>1, <1>4 DEF LookupUnderWay, AGENT_TOKEN_IRONIC_VERSION
  <2>2. \/ expects # None /\ c.token = Masked /\ expects' = expects
        \/ expects = None /\ c.token \in Tokens /\ expects' = c.token
    BY <1>4 DEF IronicAnswersLookup
  <2>3. QED BY <1>2, <2>1, <2>2 DEF TypeOK
<1>5. QED BY <1>3, <1>4

-----------------------------------------------------------------------------
LEMMA InitApiInv == Init => ApiInv
<1> SUFFICES ASSUME Init PROVE ApiInv
  OBVIOUS
<1>1. attempts \in 0..RETRY_ATTEMPTS /\ waited \in 0..LookupTimeout
  BY ApiClientAssumption DEF Init, ApiClientAssumption, RETRY_ATTEMPTS
<1>2. TypeOK
  BY <1>1 DEF Init, TypeOK, Tokens
<1>3. QED
  BY <1>2 DEF Init, ApiInv, StillTrying, RETRY_ATTEMPTS, VersionKnown, LookupUnderWay, TokenFound,
              TokenRecorded, HeartbeatUnderWay, AcceptedRightly

(* The steps before a lookup is sent and the waits between lookups. *)
LEMMA WaitApiInv ==
  ASSUME ApiInv,
         InspectConnectionError \/ InspectDone \/ RetryLookup \/ GiveUp
  PROVE  ApiInv'
<1> USE DEF ApiInv, ironicVars, bootVars, tokenVars
<1>1. /\ UNCHANGED <<version, requires, faulty, config, agent_token, client_token,
                     required, expects, api_version, request, accepted>>
      /\ boot \in {"inspect", "retry"} /\ boot' \in {"inspect", "lookup", "failed"}
  BY DEF InspectConnectionError, InspectAgain, InspectDone, RetryLookup,
         LookupAfterWait, GiveUp, Goto
<1>2. attempts' \in 0..RETRY_ATTEMPTS /\ StillTrying'
  <2>1. CASE InspectConnectionError
    BY <2>1 DEF InspectConnectionError, InspectAgain, TypeOK, StillTrying, RETRY_ATTEMPTS
  <2>2. CASE ~InspectConnectionError
    BY <2>2 DEF InspectDone, RetryLookup, LookupAfterWait, GiveUp, Goto, TypeOK, StillTrying
  <2>3. QED BY <2>1, <2>2
<1>3. waited' \in 0..LookupTimeout
  <2>1. CASE RetryLookup
    BY <2>1, ApiClientAssumption
       DEF RetryLookup, LookupAfterWait, AtMost, TypeOK, ApiClientAssumption
  <2>2. CASE ~RetryLookup
    BY <2>2 DEF InspectConnectionError, InspectAgain, InspectDone, GiveUp, Goto, TypeOK
  <2>3. QED BY <2>1, <2>2
<1>4. TypeOK'
  BY <1>1, <1>2, <1>3 DEF TypeOK
<1>5. QED
  BY <1>1, <1>2, <1>4 DEF VersionKnown, LookupUnderWay, TokenFound, TokenRecorded,
                          HeartbeatUnderWay, AcceptedRightly

LEMMA DoLookupApiInv == ASSUME ApiInv, DoLookup PROVE ApiInv'
<1> USE DEF ApiInv, ironicVars, bootVars, tokenVars
<1>1. PICK v \in Versions \cup {MIN_IRONIC_VERSION} :
        /\ GetIronicApiVersion(v)
        /\ request' = [kind |-> "lookup",
                       version |-> AtMost(v, AGENT_TOKEN_IRONIC_VERSION),
                       token |-> None, fields |-> {}]
  BY DEF DoLookup
<1>2. /\ UNCHANGED <<ironicVars, bootVars, tokenVars, expects, accepted>>
      /\ boot = "lookup" /\ boot' = "asked"
  BY DEF DoLookup
<1>3. /\ v \in Nat /\ v <= version /\ version \in Nat
      /\ api_version' \in Versions \cup {None}
      /\ api_version' # None => api_version' <= version
      /\ v >= AGENT_TOKEN_IRONIC_VERSION => api_version' = v /\ api_version' # None
  BY <1>1, ReturnedVersion
<1>4. /\ request'.version \in Nat /\ request'.version <= v
      /\ request'.version >= AGENT_TOKEN_IRONIC_VERSION => v >= AGENT_TOKEN_IRONIC_VERSION
      /\ request'.kind = "lookup"
  BY <1>1, <1>3 DEF AtMost, AGENT_TOKEN_IRONIC_VERSION
<1>5. request' \in Requests /\ request' # None
  BY <1>1, <1>4, ApiClientAssumption DEF Requests, ApiClientAssumption
<1>6. TypeOK'
  BY <1>2, <1>3, <1>4, <1>5 DEF TypeOK
<1>7. VersionKnown' /\ LookupUnderWay' /\ HeartbeatUnderWay'
  BY <1>2, <1>3, <1>4 DEF VersionKnown, LookupUnderWay, HeartbeatUnderWay
<1>8. TokenFound' /\ TokenRecorded' /\ AcceptedRightly' /\ StillTrying'
  BY <1>2 DEF TokenFound, TokenRecorded, AcceptedRightly, StillTrying
<1>9. QED BY <1>6, <1>7, <1>8

(* Every end of a lookup, and what it may have made Ironic hand out.        *)
LEMMA AnswerApiInv ==
  ASSUME ApiInv, LookupAnswered \/ LookupFails \/ LookupRaises
  PROVE  ApiInv'
<1> USE DEF ApiInv, ironicVars, bootVars, tokenVars
<1>1. /\ boot = "asked" /\ request' = None
      /\ UNCHANGED <<ironicVars, tokenVars, attempts, waited, api_version, accepted>>
  BY DEF LookupAnswered, LookupFails, LookupRaises
<1>2. agent_token = None /\ client_token = None /\ ~accepted
  BY <1>1 DEF TokenRecorded, AcceptedRightly, TypeOK
<1>3. CASE LookupAnswered
  <2>1. PICK c \in Configs : IronicAnswersLookup(c) /\ config' = c
    BY <1>3 DEF LookupAnswered
  <2>2. boot' = "found" /\ c # None
    BY <1>3, ApiClientAssumption DEF LookupAnswered, ApiClientAssumption
  <2>3. /\ expects' \in Tokens \cup {None}
        /\ c.token \in Tokens => /\ expects' = c.token
                                 /\ api_version # None
                                 /\ api_version >= AGENT_TOKEN_IRONIC_VERSION
    BY <2>1, AnsweredConfig
  <2>4. TypeOK'
    BY <1>1, <2>1, <2>2, <2>3 DEF TypeOK
  <2>5. QED
    BY <1>1, <1>2, <2>1, <2>2, <2>3, <2>4
       DEF StillTrying, VersionKnown, LookupUnderWay, TokenFound, TokenRecorded,
           HeartbeatUnderWay, AcceptedRightly
<1>4. CASE LookupFails \/ LookupRaises
  <2>1. boot' \in {"retry", "failed"} /\ config' = config
    BY <1>4 DEF LookupFails, LookupRaises
  <2>2. expects' \in Tokens \cup {None}
    BY <1>4, AnsweredConfig DEF LookupFails, LookupRaises, TypeOK
  <2>3. TypeOK'
    BY <1>1, <2>1, <2>2 DEF TypeOK
  <2>4. QED
    BY <1>1, <1>2, <2>1, <2>2, <2>3
       DEF StillTrying, VersionKnown, LookupUnderWay, TokenFound, TokenRecorded,
           HeartbeatUnderWay, AcceptedRightly
<1>5. QED BY <1>3, <1>4

(* process_lookup_data, with and without a token.                           *)
LEMMA RecordApiInv == ASSUME ApiInv, ProcessLookupData PROVE ApiInv'
<1> USE DEF ApiInv, ironicVars, bootVars, tokenVars
<1>1. /\ boot = "found" /\ boot' \in {"joined", "failed"}
      /\ UNCHANGED <<ironicVars, bootVars, expects, api_version, request, accepted>>
  BY DEF ProcessLookupData, RecordToken, KeepNoToken, Record,
         MaskedTokenAttributeError, LookupDataIncomplete, Goto
<1>2. agent_token = None /\ client_token = None /\ ~accepted /\ request = None
      /\ config \in Configs
  BY <1>1 DEF TokenRecorded, AcceptedRightly, TypeOK
<1>3. CASE RecordToken
  <2>1. agent_token' = Token /\ client_token' = Token /\ boot' = "joined"
        /\ config.token = Token /\ required' = (required \/ config.required)
    BY <1>3 DEF RecordToken, Record
  <2>2. expects = Token /\ api_version # None /\ api_version >= AGENT_TOKEN_IRONIC_VERSION
    BY <1>1, <2>1 DEF TokenFound, Tokens
  <2>3. TypeOK'
    BY <1>1, <1>2, <2>1 DEF TypeOK, Configs
  <2>4. QED
    BY <1>1, <1>2, <2>1, <2>2, <2>3
       DEF StillTrying, VersionKnown, LookupUnderWay, TokenFound, TokenRecorded,
           HeartbeatUnderWay, AcceptedRightly
<1>4. CASE KeepNoToken \/ MaskedTokenAttributeError \/ LookupDataIncomplete
  <2>1. /\ agent_token' = None /\ client_token' = None
        /\ required' \in {required, required \/ config.required}
    BY <1>2, <1>4 DEF KeepNoToken, Record, MaskedTokenAttributeError,
                      LookupDataIncomplete, Goto
  <2>2. TypeOK'
    BY <1>1, <1>2, <2>1 DEF TypeOK, Configs
  <2>3. QED
    BY <1>1, <1>2, <2>1, <2>2
       DEF StillTrying, VersionKnown, LookupUnderWay, TokenFound, TokenRecorded,
           HeartbeatUnderWay, AcceptedRightly
<1>5. QED BY <1>3, <1>4 DEF ProcessLookupData

(* A heartbeat carries the token, since the version of a recorded one is    *)
(* cached and cannot fall back.                                             *)
LEMMA HeartbeatApiInv == ASSUME ApiInv, Heartbeat PROVE ApiInv'
<1> USE DEF ApiInv, ironicVars, bootVars, tokenVars
<1>1. PICK v \in Versions \cup {MIN_IRONIC_VERSION} :
        /\ GetIronicApiVersion(v)
        /\ request' = HeartbeatRequest(v, AtMost(v, MAX_KNOWN_VERSION))
  BY DEF Heartbeat
<1>2. /\ boot = "joined"
      /\ UNCHANGED <<ironicVars, bootVars, tokenVars, expects, boot, accepted>>
  BY DEF Heartbeat
<1>3. /\ v \in Nat /\ v <= version /\ version \in Nat
      /\ api_version' \in Versions \cup {None}
      /\ api_version' # None => api_version' <= version
      /\ api_version # None => v = api_version /\ api_version' = api_version
  BY <1>1, ReturnedVersion
<1>4. /\ AtMost(v, MAX_KNOWN_VERSION) \in Nat
      /\ AtMost(v, MAX_KNOWN_VERSION) <= version
      /\ HeartbeatFields(AtMost(v, MAX_KNOWN_VERSION)) = HeartbeatFields(v)
  BY <1>3, HeaderFields
<1>5. /\ request'.kind = "heartbeat"
      /\ request'.version = AtMost(v, MAX_KNOWN_VERSION)
      /\ request'.fields = HeartbeatFields(v)
      /\ request'.token = IF v >= AGENT_TOKEN_IRONIC_VERSION THEN client_token ELSE None
  BY <1>1 DEF HeartbeatRequest
<1>6. request'.token = agent_token
  <2>1. CASE agent_token = None
    BY <1>5, <2>1 DEF TokenRecorded
  <2>2. CASE agent_token # None
    BY <1>3, <1>5, <2>2 DEF TokenRecorded
  <2>3. QED BY <2>1, <2>2
<1>7. request' \in Requests
  <2>1. HeartbeatFields(v) \subseteq {"agent_token", "agent_version"}
    BY DEF HeartbeatFields
  <2>2. request'.token \in Tokens \cup {None}
    BY <1>6 DEF TypeOK, Tokens
  <2>3. QED BY <1>1, <1>4, <1>5, <2>1, <2>2 DEF HeartbeatRequest, Requests
<1>8. request' # None
  BY <1>7, ApiClientAssumption DEF ApiClientAssumption
<1>9. TypeOK'
  BY <1>2, <1>3, <1>5, <1>7, <1>8 DEF TypeOK
<1>10. HeartbeatUnderWay' /\ LookupUnderWay' /\ VersionKnown'
  BY <1>2, <1>3, <1>4, <1>5, <1>6 DEF HeartbeatUnderWay, LookupUnderWay, VersionKnown
<1>11. TokenRecorded' /\ TokenFound' /\ AcceptedRightly' /\ StillTrying'
  BY <1>2, <1>3 DEF TokenRecorded, TokenFound, AcceptedRightly, StillTrying
<1>12. QED BY <1>9, <1>10, <1>11

LEMMA HeartbeatAnsweredApiInv == ASSUME ApiInv, HeartbeatAnswered PROVE ApiInv'
<1> USE DEF ApiInv, ironicVars, bootVars, tokenVars
<1>1. /\ request # None /\ request.kind = "heartbeat" /\ request' = None
      /\ UNCHANGED <<ironicVars, bootVars, tokenVars, expects, boot, api_version>>
      /\ accepted' = accepted \/ (accepted' = TRUE /\ request.token = expects)
  BY DEF HeartbeatAnswered, HeartbeatAccepted, HeartbeatFails, Rightful
<1>2. boot = "joined" /\ request.token = agent_token
  BY <1>1 DEF TypeOK, HeartbeatUnderWay, Requests
<1>3. TypeOK'
  BY <1>1, <1>2 DEF TypeOK
<1>4. AcceptedRightly'
  BY <1>1, <1>2 DEF AcceptedRightly
<1>5. QED
  BY <1>1, <1>3, <1>4 DEF StillTrying, VersionKnown, LookupUnderWay, TokenFound,
                          TokenRecorded, HeartbeatUnderWay

(* Ironic is upgraded, never downgraded, and the faults end.                *)
LEMMA IronicApiInv == ASSUME ApiInv, Upgrade \/ FaultsEnd PROVE ApiInv'
<1> USE DEF ApiInv, ironicVars, bootVars, tokenVars
<1>1. UNCHANGED <<requires, bootVars, tokenVars, expects, boot, api_version, request,
                  accepted>>
  BY DEF Upgrade, FaultsEnd
<1>2. /\ version' \in Versions /\ version \in Nat /\ version' \in Nat
      /\ version <= version' /\ faulty' \in BOOLEAN
  <2>1. version \in Versions /\ version \in Nat /\ faulty \in BOOLEAN
    BY VersionsAreNat DEF TypeOK
  <2>2. CASE Upgrade
    <3>1. PICK v \in Versions : v > version /\ version' = v
      BY <2>2 DEF Upgrade
    <3>2. v \in Nat
      BY VersionsAreNat
    <3>3. QED BY <2>1, <2>2, <3>1, <3>2 DEF Upgrade
  <2>3. CASE FaultsEnd
    <3>1. version' = version /\ faulty' = FALSE
      BY <2>3 DEF FaultsEnd
    <3>2. version <= version
      BY <2>1
    <3>3. QED BY <2>1, <3>1, <3>2
  <2>4. QED BY <2>2, <2>3
<1>3. TypeOK'
  BY <1>1, <1>2 DEF TypeOK
<1>4. VersionKnown'
  BY <1>1, <1>2, VersionsAreNat DEF VersionKnown, TypeOK
<1>5. LookupUnderWay' /\ HeartbeatUnderWay'
  <2>1. request # None => request.version \in Nat
    BY DEF TypeOK, Requests
  <2>2. QED BY <1>1, <1>2, <2>1 DEF LookupUnderWay, HeartbeatUnderWay
<1>6. QED
  BY <1>1, <1>3, <1>4, <1>5 DEF StillTrying, TokenFound, TokenRecorded, AcceptedRightly

LEMMA NextApiInv == ApiInv /\ [Next]_vars => ApiInv'
<1> SUFFICES ASSUME ApiInv, [Next]_vars PROVE ApiInv'
  OBVIOUS
<1>1. CASE InspectConnectionError \/ InspectDone \/ RetryLookup \/ GiveUp
  BY <1>1, WaitApiInv
<1>2. CASE DoLookup
  BY <1>2, DoLookupApiInv
<1>3. CASE LookupAnswered \/ LookupFails \/ LookupRaises
  BY <1>3, AnswerApiInv
<1>4. CASE ProcessLookupData
  BY <1>4, RecordApiInv
<1>5. CASE Heartbeat \/ HeartbeatAnswered
  BY <1>5, HeartbeatApiInv, HeartbeatAnsweredApiInv
<1>6. CASE Upgrade \/ FaultsEnd
  BY <1>6, IronicApiInv
<1>7. CASE UNCHANGED vars
  BY <1>7 DEF vars, ironicVars, bootVars, tokenVars, ApiInv, TypeOK, StillTrying,
     VersionKnown, LookupUnderWay, TokenFound, TokenRecorded, HeartbeatUnderWay,
     AcceptedRightly
<1>8. QED BY <1>1, <1>2, <1>3, <1>4, <1>5, <1>6, <1>7 DEF Next

LEMMA ApiInvHolds == Spec => []ApiInv
BY InitApiInv, NextApiInv, PTL DEF Spec

-----------------------------------------------------------------------------
(* The types of one boot and of its requests, for any versions and waits: a *)
(* lookup is under way exactly while the boot thread waits for it.          *)
THEOREM ApiTypeCorrect == Spec => []TypeOK
<1>1. ApiInv => TypeOK
  BY DEF ApiInv
<1>2. QED BY <1>1, ApiInvHolds, PTL

(* No heartbeat of an agent that recorded a token goes without it.          *)
THEOREM TokenIsSent == Spec => []TokenAlwaysSent
<1>1. ApiInv => TokenAlwaysSent
  BY DEF ApiInv, HeartbeatUnderWay, TokenAlwaysSent
<1>2. QED BY <1>1, ApiInvHolds, PTL

(* The header of every request is supported by Ironic, and the body of a    *)
(* heartbeat is the one of its header.                                      *)
THEOREM HeadersAreSupported == Spec => []HeaderSupported
<1>1. ApiInv => HeaderSupported
  BY DEF ApiInv, HeartbeatUnderWay, LookupUnderWay, HeaderSupported, TypeOK, Requests
<1>2. QED BY <1>1, ApiInvHolds, PTL

(* validate_agent_token accepts what Ironic sends an agent it accepted.     *)
THEOREM AcceptedAgentsObey == Spec => []AcceptedAgentObeys
<1>1. ApiInv => AcceptedAgentObeys
  BY DEF ApiInv, AcceptedRightly, AcceptedAgentObeys, ValidateAgentToken
<1>2. QED BY <1>1, ApiInvHolds, PTL

-----------------------------------------------------------------------------
LEMMA InitHandshake == Init => Handshake!Init
BY DEF Init, Handshake!Init, Tokens

(* Every step of the client is a step of the handshake or none.             *)
LEMMA NextHandshake ==
  ASSUME ApiInv, [Next]_vars
  PROVE  [Handshake!Next]_(Handshake!vars)
<1> USE DEF ApiInv, ironicVars, bootVars, tokenVars
<1>1. CASE InspectConnectionError \/ InspectDone \/ RetryLookup \/ DoLookup
  <2>1. /\ boot \in {"inspect", "lookup", "retry"} /\ boot' \in {"inspect", "lookup", "asked"}
        /\ UNCHANGED <<agent_token, expects, accepted>>
    BY <1>1 DEF InspectConnectionError, InspectAgain, InspectDone, RetryLookup,
       LookupAfterWait, DoLookup, Goto
  <2>2. QED BY <2>1 DEF Handshake!vars
<1>2. CASE GiveUp \/ LookupRaises \/ MaskedTokenAttributeError \/ LookupDataIncomplete
  <2>1. /\ boot \in {"asked", "retry", "found"} /\ boot' = "failed"
        /\ UNCHANGED <<agent_token, accepted>>
    BY <1>2 DEF GiveUp, LookupRaises, MaskedTokenAttributeError, LookupDataIncomplete, Goto
  <2>2. UNCHANGED expects \/ (expects = None /\ expects' \in Tokens)
    BY <1>2, AnsweredConfig
       DEF GiveUp, LookupRaises, MaskedTokenAttributeError, LookupDataIncomplete, Goto, TypeOK
  <2>3. Handshake!Fail
    BY <2>1, <2>2 DEF Handshake!Fail
  <2>4. QED BY <2>3 DEF Handshake!Next
<1>3. CASE LookupAnswered \/ LookupFails
  <2>1. /\ boot = "asked" /\ boot' \in {"found", "retry"}
        /\ UNCHANGED <<agent_token, accepted>>
    BY <1>3 DEF LookupAnswered, LookupFails
  <2>2. expects' = expects \/ (expects = None /\ expects' \in Tokens)
    BY <1>3, AnsweredConfig DEF LookupAnswered, LookupFails, TypeOK
  <2>3. CASE expects' = expects
    BY <2>1, <2>3 DEF Handshake!vars
  <2>4. CASE expects = None /\ expects' \in Tokens
    <3>1. Handshake!HandOut
      BY <2>1, <2>4 DEF Handshake!HandOut
    <3>2. QED BY <3>1 DEF Handshake!Next
  <2>5. QED BY <2>2, <2>3, <2>4
<1>4. CASE RecordToken \/ KeepNoToken
  <2>1. /\ boot = "found" /\ boot' = "joined" /\ UNCHANGED <<expects, accepted>>
    BY <1>4 DEF RecordToken, KeepNoToken, Record
  <2>2. agent_token' \in {None, expects}
    BY <1>4, <2>1 DEF RecordToken, KeepNoToken, Record, TokenFound, TokenRecorded, Tokens
  <2>3. Handshake!Finish
    BY <2>1, <2>2 DEF Handshake!Finish
  <2>4. QED BY <2>3 DEF Handshake!Next
<1>5. CASE HeartbeatAccepted
  <2>1. /\ boot = "joined" /\ boot' = boot /\ accepted' = TRUE
        /\ UNCHANGED <<agent_token, expects>>
        /\ agent_token = expects
    BY <1>5 DEF HeartbeatAccepted, Rightful, HeartbeatUnderWay, TypeOK, Requests
  <2>2. Handshake!Accept
    BY <2>1 DEF Handshake!Accept
  <2>3. QED BY <2>2 DEF Handshake!Next
<1>6. CASE Heartbeat \/ HeartbeatFails \/ Upgrade \/ FaultsEnd \/ UNCHANGED vars
  <2>1. UNCHANGED <<boot, agent_token, expects, accepted>>
    BY <1>6 DEF Heartbeat, HeartbeatFails, Upgrade, FaultsEnd, vars
  <2>2. QED BY <2>1 DEF Handshake!vars
<1>7. QED
  BY <1>1, <1>2, <1>3, <1>4, <1>5, <1>6 DEF Next, ProcessLookupData, HeartbeatAnswered

(* Boots of the client keep the promise of TokenHandshake, for any Ironic   *)
(* that answers as assumed and any loss of its answers.                     *)
THEOREM KeepsHandshake == Spec => HandshakeSpec
BY InitHandshake, NextHandshake, ApiInvHolds, PTL DEF Spec, HandshakeSpec, Handshake!Spec

-----------------------------------------------------------------------------
(* The boot thread comes to an end: the part of BootEnds that needs no      *)
(* fairness.                                                                *)

(* A bound on the steps that are left: three for each lookup, of which      *)
(* every wait takes away at least one second.                               *)
StepsLeft ==
  LET rounds == 3 * (LookupTimeout - waited)
  IN  CASE boot = "inspect" -> rounds + 4 + (RETRY_ATTEMPTS - attempts)
        [] boot = "lookup"  -> rounds + 3
        [] boot = "asked"   -> rounds + 2
        [] boot = "retry"   -> rounds + 1
        [] boot = "found"   -> 1
        [] OTHER            -> 0

BootMoves == boot' # boot \/ attempts' # attempts

LEMMA StepsLeftRange ==
  ASSUME TypeOK
  PROVE  StepsLeft \in 0..(3 * LookupTimeout + 9)
<1>1. /\ waited \in 0..LookupTimeout /\ LookupTimeout \in Nat
      /\ attempts \in 0..5
  BY ApiClientAssumption DEF ApiClientAssumption, TypeOK, RETRY_ATTEMPTS
<1>2. QED BY <1>1 DEF StepsLeft, TypeOK, RETRY_ATTEMPTS

LEMMA NextStepsLeft ==
  ASSUME ApiInv, [Next]_vars, BootMoves
  PROVE  StepsLeft' < StepsLeft
<1> DEFINE rounds == 3 * (LookupTimeout - waited)
<1>1. /\ waited \in Nat /\ waited <= LookupTimeout /\ LookupTimeout \in Nat
      /\ attempts \in Nat /\ attempts <= 5 /\ RETRY_ATTEMPTS = 5
  BY ApiClientAssumption DEF ApiInv, ApiClientAssumption, TypeOK, RETRY_ATTEMPTS
<1>2. CASE InspectConnectionError
  BY <1>1, <1>2 DEF InspectConnectionError, InspectAgain, StepsLeft
<1>3. CASE InspectDone \/ GiveUp \/ MaskedTokenAttributeError \/ LookupDataIncomplete
  BY <1>1, <1>3 DEF InspectDone, GiveUp, MaskedTokenAttributeError,
     LookupDataIncomplete, Goto, bootVars, StepsLeft
<1>4. CASE DoLookup \/ LookupFails \/ LookupRaises
  BY <1>1, <1>4 DEF DoLookup, LookupFails, LookupRaises, bootVars, StepsLeft
<1>5. CASE LookupAnswered
  BY <1>1, <1>5 DEF LookupAnswered, StepsLeft
<1>6. CASE RetryLookup
  <2>1. PICK w \in Waits : waited' = AtMost(waited + w, LookupTimeout)
    BY <1>6 DEF RetryLookup, LookupAfterWait
  <2>2. w \in Nat /\ w >= 1
    BY ApiClientAssumption DEF ApiClientAssumption
  <2>3. waited' \in Nat /\ waited' <= LookupTimeout /\ waited' >= waited + 1
    BY <1>1, <1>6, <2>1, <2>2 DEF AtMost, RetryLookup
  <2>4. boot = "retry" /\ boot' = "lookup"
    BY <1>6 DEF RetryLookup, LookupAfterWait
  <2>5. QED BY <1>1, <2>3, <2>4 DEF StepsLeft
<1>7. CASE RecordToken \/ KeepNoToken
  BY <1>1, <1>7 DEF RecordToken, KeepNoToken, Record, StepsLeft
<1>8. CASE Heartbeat \/ HeartbeatAnswered \/ Upgrade \/ FaultsEnd \/ UNCHANGED vars
  BY <1>8 DEF Heartbeat, HeartbeatAnswered, HeartbeatAccepted, HeartbeatFails,
     Upgrade, FaultsEnd, bootVars, vars, BootMoves
<1>9. QED
  BY <1>2, <1>3, <1>4, <1>5, <1>6, <1>7, <1>8 DEF Next, ProcessLookupData

(* Whatever Ironic answers and whichever waits tenacity draws, the boot     *)
(* thread takes at most 3 * LookupTimeout + 9 steps: each takes one off a   *)
(* bound that is never negative.                                            *)
THEOREM BootIsBounded ==
  Spec => /\ [](StepsLeft \in 0..(3 * LookupTimeout + 9))
          /\ [][BootMoves => StepsLeft' < StepsLeft]_vars
<1>1. ApiInv => StepsLeft \in 0..(3 * LookupTimeout + 9)
  BY StepsLeftRange DEF ApiInv
<1>2. ApiInv /\ [Next]_vars => [BootMoves => StepsLeft' < StepsLeft]_vars
  BY NextStepsLeft
<1>3. QED BY <1>1, <1>2, ApiInvHolds, PTL DEF Spec
=============================================================================
