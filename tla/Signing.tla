------------------------------- MODULE Signing -------------------------------
(***************************************************************************)
(* services/signer.ts and the two ways execution-service.ts sends with it: *)
(* the key AWS KMS signs with, which may be rotated or disabled while the  *)
(* agent runs, the address derived from it, and what becomes of the        *)
(* signature before it is broadcast.                                       *)
(*                                                                         *)
(* A signature is [key, s, parity]: s in 1 .. N - 1 and the parity of the  *)
(* curve point say which public key it recovers to.  The same signature    *)
(* with N - s recovers to the same key with the other parity, and only the *)
(* one with the lower s is accepted by the chain.                          *)
(***************************************************************************)
EXTENDS Integers

CONSTANTS
    N,               \* SECP256K1_N, an odd number
    Keys,            \* keys KMS may hold under the key id
    AgentKey,        \* the key whose address is MANAGED_SIGNER_ADDRESS
    NoKey            \* KMS's key is disabled

ASSUME SigningAssumption == N \in Nat /\ N % 2 = 1 /\ N > 2 /\ AgentKey \in Keys

VARIABLES
    signerMode,      \* SIGNER_MODE
    kmsKey,          \* what the key id stands for now
    resolvedKey,     \* resolvedKmsAddress, as its key
    signerStage,     \* "created", "healthy" or "failed"
    kmsAnswer,       \* the signature under way, or NoAnswer
    broadcast        \* transactions sent: who they recover to, their s, and the URL

signingVars == <<signerMode, kmsKey, resolvedKey, signerStage, kmsAnswer, broadcast>>

NoAnswer == [key |-> NoKey, s |-> 0, parity |-> 0]
HalfN == N \div 2

SigningInit ==
    /\ signerMode \in {"local", "managed"}
    /\ kmsKey \in Keys \cup {NoKey} /\ resolvedKey = NoKey
    /\ signerStage = "created" /\ kmsAnswer = NoAnswer /\ broadcast = {}

\* External: recovery of a public key from a signature, its s possibly replaced.
Recover(signature, s, parity) ==
    IF \/ s = signature.s /\ parity = signature.parity
       \/ s = N - signature.s /\ parity = 1 - signature.parity
    THEN signature.key ELSE NoKey

\* External: what KMS may answer with a key; an s of 0 or N stands for one out of range
\* or a DER blob that does not parse.
KmsSignatures(key) == [key : {key}, s : 0 .. N, parity : {0, 1}]

\* parseDerEcdsaSignature and the checks of canonicalizeSignature
WellFormed(signature) == signature.s > 0 /\ signature.s < N

CanonicalS(signature) == IF signature.s > HalfN THEN N - signature.s ELSE signature.s

\* Mutant: the parity is taken on trust.
AnyParity(signature) == {signature.parity}

\* The parities signTransactionDigest finds to recover to this.address.
ParitiesOf(signature) ==
    {parity \in {0, 1} : Recover(signature, CanonicalS(signature), parity) = AgentKey}

\* signTransactionDigest succeeds.
Signs(signature) == WellFormed(signature) /\ ParitiesOf(signature) # {}

\* External: the key is rotated behind its alias, disabled or enabled.
RotateKey ==
    /\ \E key \in Keys \cup {NoKey} : kmsKey' = key
    /\ UNCHANGED <<signerMode, resolvedKey, signerStage, kmsAnswer, broadcast>>

\* healthCheck at startup, and in verify-kms-signer.ts: the key is enabled, its address
\* is the one configured, and a signature by it recovers to that address.
HealthCheck ==
    /\ signerStage = "created"
    /\ LET resolved == IF resolvedKey = NoKey THEN kmsKey ELSE resolvedKey
       IN  \/ /\ signerMode = "local"
              /\ signerStage' = "healthy" /\ UNCHANGED resolvedKey
           \/ /\ signerMode = "managed" /\ kmsKey # NoKey
              /\ resolvedKey' = resolved
              /\ \E signature \in KmsSignatures(kmsKey) :
                    signerStage' = IF resolved = AgentKey /\ Signs(signature)
                                   THEN "healthy" ELSE "failed"
           \/ /\ signerMode = "managed"
              /\ signerStage' = "failed" /\ UNCHANGED resolvedKey
    /\ UNCHANGED <<signerMode, kmsKey, kmsAnswer, broadcast>>

\* The process is started again; the cached address is lost.
Restart ==
    /\ signerStage # "created"
    /\ signerStage' = "created" /\ resolvedKey' = NoKey /\ kmsAnswer' = NoAnswer
    /\ UNCHANGED <<signerMode, kmsKey, broadcast>>

\* submitManagedSignedTransaction, up to KMS's answer.
AskKms ==
    /\ signerMode = "managed" /\ signerStage = "healthy" /\ kmsAnswer = NoAnswer
    /\ kmsKey # NoKey
    /\ kmsAnswer' \in KmsSignatures(kmsKey)
    /\ UNCHANGED <<signerMode, kmsKey, resolvedKey, signerStage, broadcast>>

\* The rest of it: the first parity that fits goes into v and the transaction to the
\* private URL, or nothing is sent and the swap has failed.
SendManaged ==
    /\ kmsAnswer # NoAnswer
    /\ IF ~Signs(kmsAnswer) THEN UNCHANGED broadcast
       ELSE LET parity == CHOOSE p \in ParitiesOf(kmsAnswer) : TRUE
                s == CanonicalS(kmsAnswer)
            IN  broadcast' = broadcast \cup
                   {[from |-> Recover(kmsAnswer, s, parity), s |-> s, url |-> "private"]}
    /\ kmsAnswer' = NoAnswer
    /\ UNCHANGED <<signerMode, kmsKey, resolvedKey, signerStage>>

\* submitLocalTransaction, and executeBurnTransfer, which throws with a managed signer.
SendLocal ==
    /\ signerMode = "local" /\ signerStage = "healthy"
    /\ \E s \in 1 .. HalfN :
          broadcast' = broadcast \cup {[from |-> AgentKey, s |-> s, url |-> "public"]}
    /\ UNCHANGED <<signerMode, kmsKey, resolvedKey, signerStage, kmsAnswer>>

SigningNext == RotateKey \/ HealthCheck \/ Restart \/ AskKms \/ SendManaged \/ SendLocal

SigningSpec == SigningInit /\ [][SigningNext]_signingVars

-----------------------------------------------------------------------------
\* What is broadcast recovers to the agent's own address and has the low s the chain
\* asks for, though KMS answers with either s and no parity and its key may have been
\* rotated since the health check; and what KMS signed goes to the private URL only.
BroadcastIsOurs ==
    \A t \in broadcast :
        /\ t.from = AgentKey
        /\ t.s <= N - t.s
        /\ signerMode = "managed" => t.url = "private"
=============================================================================
