-------------------------- MODULE MCCryptography --------------------------
(***************************************************************************)
(* Small instances of the cryptography around the provider runtime.  Its   *)
(* parts share no state, so a behaviour is checked of one part at a time.  *)
(***************************************************************************)
EXTENDS MCProviderLedgerBinding, Cryptography

CONSTANTS keyA, keyB, persistedA, persistedB, recordA, recordB, fork, provider, otherProvider,
  opA, opB, ctxA, ctxB, now, later

VARIABLE service

CallOnKeyA ==
  [contract |-> "KEY_MANAGEMENT", implementation |-> "AWS_KMS", enabled |-> TRUE,
   operation |-> "ROTATE_KEY", resource |-> keyA]

MCVars == <<service, cryptographyVars>>

MCInit ==
  /\ service \in {"binding", "attestation", "call", "key"}
  /\ CryptographyInit
  /\ service # "call" => request = [c \in Calls |-> CallOnKeyA]

MCNext ==
  /\ UNCHANGED service
  /\ \/ service = "binding" /\ BindingStep
     \/ service = "attestation" /\ AttestationStep
     \/ service = "call" /\ CallStep
     \/ service = "key" /\ KeyStep

MCSpec == MCInit /\ [][MCNext]_MCVars

MCSymmetry ==
  BinderSymmetry \union Permutations(Slots) \union Permutations(Cases)

----------------------------------------------------------------------------
(* Attestation: the rotation of one key of acme and the activation of one  *)
(* of beta, each once as it should be and once for every way in which it   *)
(* may not be.                                                             *)
artifactA == [id |-> "wrapped", digest |-> "one", complete |-> TRUE]
artifactB == [id |-> "wrapped", digest |-> "two", complete |-> TRUE]
incomplete == [artifactA EXCEPT !.complete = FALSE]

RotationOfA ==
  [bound |-> TRUE, verified |-> TRUE, persistence |-> persistedA, chain |-> recordA,
   provider |-> provider, resource |-> keyA, operation |-> "ROTATE_KEY", tenant |-> acme,
   company |-> acme, context |-> ctxA]

ActivationOfB ==
  [RotationOfA EXCEPT !.persistence = persistedB, !.chain = recordB, !.resource = keyB,
                      !.operation = "ACTIVATE_NEW_KEY", !.tenant = beta, !.company = beta,
                      !.context = None]

MCRuntimes ==
  { RotationOfA, ActivationOfB,
    [RotationOfA EXCEPT !.chain = fork],
    [RotationOfA EXCEPT !.bound = FALSE],
    [RotationOfA EXCEPT !.verified = FALSE],
    [RotationOfA EXCEPT !.persistence = None],
    [RotationOfA EXCEPT !.chain = None],
    [RotationOfA EXCEPT !.tenant = None] }

ObservedA ==
  [observed |-> TRUE, id |-> opA, context |-> ctxA, kind |-> "ROTATE_KEY",
   provider |-> provider, operation |-> "ROTATE_KEY", resource |-> keyA, key |-> keyA,
   tenant |-> acme, input |-> artifactA, output |-> artifactA, note |-> now]

ObservedB ==
  [ObservedA EXCEPT !.id = opB, !.context = ctxB, !.kind = "OTHER_CRYPTOGRAPHIC_OPERATION",
                    !.operation = "ACTIVATE_NEW_KEY", !.resource = keyB, !.key = keyB,
                    !.tenant = beta, !.input = None]

MCObservations ==
  { ObservedA, ObservedB,
    [ObservedA EXCEPT !.note = later],
    [ObservedA EXCEPT !.observed = FALSE],
    [ObservedA EXCEPT !.id = None],
    [ObservedA EXCEPT !.context = None],
    [ObservedA EXCEPT !.context = ctxB],
    [ObservedA EXCEPT !.kind = "REWRAP_KEY"],
    [ObservedA EXCEPT !.provider = otherProvider],
    [ObservedA EXCEPT !.key = None],
    [ObservedA EXCEPT !.key = keyB],
    [ObservedA EXCEPT !.tenant = beta],
    [ObservedA EXCEPT !.input = None, !.output = None],
    [ObservedA EXCEPT !.output = artifactB],
    [ObservedA EXCEPT !.input = incomplete] }

(* One side at least as it should be.                                      *)
MCPresented ==
  (MCRuntimes \X {ObservedA}) \union ({RotationOfA} \X MCObservations)
    \union {<<ActivationOfB, ObservedB>>, <<RotationOfA, ObservedB>>}

----------------------------------------------------------------------------
(* A call of a supported provider, of one that belongs to another          *)
(* contract, and of one that is disabled.                                  *)
MCCallRequests ==
  {CallOnKeyA, [CallOnKeyA EXCEPT !.implementation = "ON_PREMISE_HSM"],
   [CallOnKeyA EXCEPT !.enabled = FALSE]}

----------------------------------------------------------------------------
(* One key, the operations that move it through its lifecycle, and         *)
(* rotations with at most one thing wrong.                                 *)
Request(operation, role) ==
  [operation |-> operation, authorityRole |-> role, approvalProvided |-> TRUE]

MCQuestions ==
  { Request("CREATE_KEY", "KEY_CREATOR"), Request("ROTATE_KEY", "KEY_OWNER"),
    Request("REVOKE_KEY", "KEY_CUSTODIAN"), Request("DISABLE_KEY", "KEY_CUSTODIAN"),
    Request("ENABLE_KEY", "KEY_OWNER"), Request("TRANSFER_OWNERSHIP", "KEY_CUSTODIAN"),
    [Request("ROTATE_KEY", "AUTHORITY_OWNER") EXCEPT !.approvalProvided = FALSE] }

GoodRotation ==
  [governanceRequest |-> [authority |-> "PRIMARY_AUTHORITY", trigger |-> "KEY_COMPROMISE"],
   mechanismRequest |-> [mechanism |-> "KEY_REWRAP", wrappingOperation |-> "REWRAP_KEY"],
   infrastructureProvisioningRequest |->
     [resource |-> "KEY_ROTATION_INFRASTRUCTURE", infrastructureClass |-> "HSM"],
   accessDecision |-> TRUE, usageDecision |-> TRUE, recoveryDecision |-> TRUE,
   evidenceId |-> "evidence"]

MCRotationInputs ==
  { GoodRotation,
    [GoodRotation EXCEPT !.governanceRequest.authority = "OTHER_AUTHORITY"],
    [GoodRotation EXCEPT !.governanceRequest.trigger = "OTHER_TRIGGER"],
    [GoodRotation EXCEPT !.governanceRequest.trigger = "SCHEDULED_ROTATION"],
    [GoodRotation EXCEPT !.mechanismRequest.mechanism = "OTHER_MECHANISM"],
    [GoodRotation EXCEPT !.mechanismRequest.wrappingOperation = "OTHER_OPERATION"],
    [GoodRotation EXCEPT !.infrastructureProvisioningRequest.resource = "ENCRYPTED_STORAGE"],
    [GoodRotation EXCEPT !.infrastructureProvisioningRequest.infrastructureClass = "OTHER_CLASS"],
    [GoodRotation EXCEPT !.accessDecision = FALSE],
    [GoodRotation EXCEPT !.usageDecision = FALSE],
    [GoodRotation EXCEPT !.recoveryDecision = FALSE],
    [GoodRotation EXCEPT !.evidenceId = None] }

(* Every class with every authority, and the rest with one thing wrong.    *)
Sealed(class, authority, approval) ==
  [payloadClass |-> class, authority |-> authority, approvalProvided |-> approval,
   class |-> "MANAGED_KMS", control |-> "ROLE_BASED_ACCESS_CONTROL", algorithm |-> "AES",
   payload |-> <<1>>]

GoodEncryption == Sealed("SECRET", "PRINCIPAL", TRUE)

MCEncryptions ==
  { Sealed(c, authorityRequired[d], approval) :
      c \in ProtectedPayloadClass \union {"OTHER"}, d \in {"OAG", "SECRET", "TENANT_DATA"},
      approval \in BOOLEAN }
  \union { [GoodEncryption EXCEPT !.class = "LOCAL_DISK"],
           [GoodEncryption EXCEPT !.control = "NO_CONTROL"],
           [GoodEncryption EXCEPT !.algorithm = "DES"],
           [GoodEncryption EXCEPT !.payload = << >>] }
=============================================================================
