---------------------------- MODULE Cryptography ----------------------------
(***************************************************************************)
(* The cryptography around the provider runtime, in one piece: bindings of *)
(* runtime facts to the chain (P9U), attestations of bound operations      *)
(* (P9V, P9W), provider calls (P9H to P9J), and the governance of keys and *)
(* of what is encrypted with them (P9C to P9G).  The parts share no state: *)
(* nothing in the code hands one's results to another.                     *)
(***************************************************************************)
EXTENDS ProviderLedgerBinding, ProviderAttestation, ProviderCall, KeyGovernance,
  PayloadEncryption

CryptographyInit == Init /\ AttestationInit /\ CallInit /\ KeyInit

BindingStep == Next /\ UNCHANGED <<attestationVars, callVars, keyVars>>

AttestationStep == AttestationNext /\ UNCHANGED <<vars, callVars, keyVars>>

CallStep == CallNext /\ UNCHANGED <<vars, attestationVars, keyVars>>

KeyStep == KeyNext /\ UNCHANGED <<vars, attestationVars, callVars>>

CryptographyNext == BindingStep \/ AttestationStep \/ CallStep \/ KeyStep

cryptographyVars == <<vars, attestationVars, callVars, keyVars>>

CryptographySpec == CryptographyInit /\ [][CryptographyNext]_cryptographyVars

----------------------------------------------------------------------------
(* Properties.                                                             *)

(* The type invariants of the four parts: the fields every result type of  *)
(* P9C to P9W declares are there, with values of their types.              *)
CryptographyTypeOK == TypeOK /\ AttestationTypeOK /\ CallTypeOK /\ KeyTypeOK

(* A rotation is completed, and a payload counts as encrypted, exactly     *)
(* when all that the policies of keys and of encryption ask for is there.  *)
OnlyAsGoverned == CompletedWhenAllAgree /\ EncryptedAsGoverned
=============================================================================
