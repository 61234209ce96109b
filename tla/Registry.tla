------------------------------ MODULE Registry ------------------------------
(***************************************************************************)
(* The on-chain program: a registry account for each authority and scheme, *)
(* and one account for each proof a registry has accepted.                 *)
(*                                                                         *)
(* An instruction is one action: the runtime executes it alone and undoes  *)
(* all of it when it returns an error, so one that fails changes nothing   *)
(* and is not an action.  Each action's guard is every check that Anchor   *)
(* makes for the accounts context and every check of the handler.          *)
(*                                                                         *)
(* A program-derived address is the tuple of seeds it is derived from.  A  *)
(* digest is the record of what is hashed into it (every variable-length   *)
(* part is length-prefixed, and no scheme tag is a prefix of another).     *)
(***************************************************************************)
EXTENDS Integers, FiniteSets, Functions

CONSTANTS
    Authorities,   \* keys that own registries
    Sponsors,      \* other wallets, that may pay for an accepted proof
    SchemeBytes,   \* values of the scheme argument
    Components,    \* what a proof is hashed from: u, commitments, public input
    StepCounts,    \* values of the steps argument
    MaxU64,        \* the largest proof count
    MaxSlot,       \* bound: slots the clock runs through
    RegistryRent,  \* lamports that make a registry account rent-exempt
    ProofRent,     \* lamports that make an accepted-proof account rent-exempt
    Funds,         \* bound: lamports each wallet starts with
    ZeroDigest,    \* [0u8; 32], the digest of no proof
    NoAccount      \* at an address where no account exists

Wallets == Authorities \cup Sponsors

\* scheme_from_u8 is Some for these bytes.
Schemes == {0, 1, 2}
SchemeFromU8(scheme) ==
    CASE scheme = 0 -> "nova"
      [] scheme = 1 -> "supernova"
      [] scheme = 2 -> "hypernova"

\* Mutant: the digest leaves the scheme out.
ProofDigestUnbound(scheme, components) ==
    [scheme |-> SchemeFromU8(0), components |-> components]

\* proof_digest
ProofDigest(scheme, components) ==
    [scheme |-> SchemeFromU8(scheme), components |-> components]

Digests == [scheme : {"nova", "supernova", "hypernova"}, components : Components]

ASSUME RegistryAssumption ==
    /\ MaxU64 \in Nat \ {0} /\ MaxSlot \in Nat
    /\ RegistryRent \in Nat /\ ProofRent \in Nat /\ Funds \in Nat
    /\ ZeroDigest \notin Digests
    /\ IsFiniteSet(Authorities) /\ IsFiniteSet(Sponsors)

\* The registry PDA, derived from the authority and the scheme byte.
RegistryPda(authority, scheme) == <<authority, scheme>>
Keys == Authorities \X SchemeBytes

RegistryAccount ==
    [authority : Authorities, scheme : SchemeBytes, proof_count : 0 .. MaxU64,
     latest_digest : Digests \cup {ZeroDigest}]

\* The accepted-proof PDA is derived from the registry and the digest fields.
AcceptedProof ==
    [registry : Keys, digest : Digests, accepted_slot : 0 .. MaxSlot, steps : StepCounts]

ASSUME AddressAssumption == NoAccount \notin RegistryAccount

VARIABLES
    registries,  \* the registry account at every key
    accepted,    \* the set of accepted-proof accounts
    lamports,    \* the balance of every wallet
    slot,        \* the clock
    inherited    \* history: proofs already recorded under a key when it was last opened

vars == <<registries, accepted, lamports, slot, inherited>>

IsOpen(key) == registries[key] # NoAccount
RecordsOf(key) == {record \in accepted : record.registry = key}

TypeOK ==
    /\ registries \in [Keys -> RegistryAccount \cup {NoAccount}]
    /\ \A key \in Keys : IsOpen(key) =>
          RegistryPda(registries[key].authority, registries[key].scheme) = key
    /\ accepted \in SUBSET AcceptedProof /\ IsFiniteSet(accepted)
    /\ lamports \in [Wallets -> Nat]
    /\ slot \in 0 .. MaxSlot
    /\ inherited \in [Keys -> Nat]

----------------------------------------------------------------------------
Init ==
    /\ registries = [key \in Keys |-> NoAccount]
    /\ accepted = {}
    /\ lamports = [wallet \in Wallets |-> Funds]
    /\ slot = 0
    /\ inherited = [key \in Keys |-> 0]

\* Mutant: the handler forgets to store the scheme, and the new account is zeroed.
InitRegistryUnset(authority, scheme) ==
    LET key == RegistryPda(authority, scheme)
    IN  /\ ~IsOpen(key)
        /\ scheme \in Schemes
        /\ lamports[authority] >= RegistryRent
        /\ registries' = [registries EXCEPT ![key] =
                            [authority |-> authority, scheme |-> 0,
                             proof_count |-> 0, latest_digest |-> ZeroDigest]]
        /\ lamports' = [lamports EXCEPT ![authority] = @ - RegistryRent]
        /\ inherited' = [inherited EXCEPT ![key] = Cardinality(RecordsOf(key))]
        /\ UNCHANGED <<accepted, slot>>

\* init_registry: Anchor creates the account, which fails when it exists or the
\* authority cannot pay its rent; the handler refuses an unknown scheme byte.
InitRegistry(authority, scheme) ==
    LET key == RegistryPda(authority, scheme)
    IN  /\ ~IsOpen(key)
        /\ scheme \in Schemes
        /\ lamports[authority] >= RegistryRent
        /\ registries' = [registries EXCEPT ![key] =
                            [authority |-> authority, scheme |-> scheme,
                             proof_count |-> 0, latest_digest |-> ZeroDigest]]
        /\ lamports' = [lamports EXCEPT ![authority] = @ - RegistryRent]
        /\ inherited' = [inherited EXCEPT ![key] = Cardinality(RecordsOf(key))]
        /\ UNCHANGED <<accepted, slot>>

\* Mutants: the counter wraps; the tip is written only once.
AcceptingWraps(registry, digest) ==
    [registry EXCEPT !.proof_count = (@ + 1) % (MaxU64 + 1), !.latest_digest = digest]

AcceptingOnce(registry, digest) ==
    [registry EXCEPT !.proof_count = IF @ < MaxU64 THEN @ + 1 ELSE @,
                     !.latest_digest = IF @ = ZeroDigest THEN digest ELSE @]

\* What accept_proof writes into the registry account.
Accepting(registry, digest) ==
    [registry EXCEPT !.proof_count = IF @ < MaxU64 THEN @ + 1 ELSE @,
                     !.latest_digest = digest]

\* Mutant: `payer = authority`, as init_registry has it.
AcceptProofOnAuthority(authority, key, payer, components, claimed, steps) ==
    /\ IsOpen(key)
    /\ registries[key].authority = authority
    /\ RegistryPda(authority, registries[key].scheme) = key
    /\ registries[key].scheme \in Schemes
    /\ ProofDigest(registries[key].scheme, components) = claimed
    /\ \A record \in RecordsOf(key) : record.digest # claimed
    /\ lamports[authority] >= ProofRent
    /\ registries' = [registries EXCEPT ![key] = Accepting(@, claimed)]
    /\ accepted' = accepted \cup
                     {[registry |-> key, digest |-> claimed,
                       accepted_slot |-> slot, steps |-> steps]}
    /\ lamports' = [lamports EXCEPT ![authority] = @ - ProofRent]
    /\ UNCHANGED <<slot, inherited>>

\* accept_proof: the registry must be the signer's, no account may exist at the
\* proof's address, and the claimed digest must be the recomputed one.  The
\* payer, not the authority, pays for the new account.
AcceptProof(authority, key, payer, components, claimed, steps) ==
    /\ IsOpen(key)
    /\ registries[key].authority = authority
    /\ RegistryPda(authority, registries[key].scheme) = key
    /\ registries[key].scheme \in Schemes
    /\ ProofDigest(registries[key].scheme, components) = claimed
    /\ \A record \in RecordsOf(key) : record.digest # claimed
    /\ lamports[payer] >= ProofRent
    /\ registries' = [registries EXCEPT ![key] = Accepting(@, claimed)]
    /\ accepted' = accepted \cup
                     {[registry |-> key, digest |-> claimed,
                       accepted_slot |-> slot, steps |-> steps]}
    /\ lamports' = [lamports EXCEPT ![payer] = @ - ProofRent]
    /\ UNCHANGED <<slot, inherited>>

\* Mutants: closing gives nothing back; closing takes the proofs along.
CloseRegistryKeepsRent(authority, key) ==
    /\ IsOpen(key)
    /\ registries[key].authority = authority
    /\ registries' = [registries EXCEPT ![key] = NoAccount]
    /\ UNCHANGED <<accepted, lamports, slot, inherited>>

CloseRegistryPurges(authority, key) ==
    /\ IsOpen(key)
    /\ registries[key].authority = authority
    /\ registries' = [registries EXCEPT ![key] = NoAccount]
    /\ accepted' = accepted \ RecordsOf(key)
    /\ lamports' = [lamports EXCEPT ![authority] = @ + RegistryRent]
    /\ UNCHANGED <<slot, inherited>>

\* close_registry: only the registry account goes, and its rent goes back to
\* the authority.  The accounts of its proofs stay.
CloseRegistry(authority, key) ==
    /\ IsOpen(key)
    /\ registries[key].authority = authority
    /\ RegistryPda(authority, registries[key].scheme) = key
    /\ registries' = [registries EXCEPT ![key] = NoAccount]
    /\ lamports' = [lamports EXCEPT ![authority] = @ + RegistryRent]
    /\ UNCHANGED <<accepted, slot, inherited>>

\* The cluster's clock.
Tick ==
    /\ slot < MaxSlot
    /\ slot' = slot + 1
    /\ UNCHANGED <<registries, accepted, lamports, inherited>>

Next ==
    \/ \E authority \in Authorities, scheme \in SchemeBytes : InitRegistry(authority, scheme)
    \/ \E authority \in Authorities, key \in Keys, payer \in Wallets,
          components \in Components, claimed \in Digests, steps \in StepCounts :
            AcceptProof(authority, key, payer, components, claimed, steps)
    \/ \E authority \in Authorities, key \in Keys : CloseRegistry(authority, key)
    \/ Tick

Spec == Init /\ [][Next]_vars

----------------------------------------------------------------------------
AtMost(n, bound) == IF n < bound THEN n ELSE bound

\* The counter of an open registry is the number of proofs recorded since it
\* was opened, up to saturation, however often its address was closed and
\* opened before and whatever was recorded then.
CountMatchesRecords ==
    \A key \in Keys : IsOpen(key) =>
        registries[key].proof_count =
            AtMost(Cardinality(RecordsOf(key)) - inherited[key], MaxU64)

\* The same, as the account's comment has it: "Number of proofs accepted so
\* far" (onchain/src/lib.rs:183).
CountIsProofsAccepted ==
    \A key \in Keys : IsOpen(key) =>
        registries[key].proof_count = AtMost(Cardinality(RecordsOf(key)), MaxU64)

\* latest_digest is the tip of the log: it names a recorded proof of this
\* registry, no other of which is newer, and it is zero only before the first
\* proof since the registry was opened.
TipIsNewest ==
    \A key \in Keys : IsOpen(key) =>
        LET registry == registries[key]
        IN  IF registry.proof_count = 0
            THEN registry.latest_digest = ZeroDigest
            ELSE \E tip \in RecordsOf(key) :
                    /\ tip.digest = registry.latest_digest
                    /\ \A record \in RecordsOf(key) :
                          record.accepted_slot <= tip.accepted_slot

\* Every recorded digest is one the program recomputed, under the scheme of
\* the registry it is recorded in: no proof of one scheme is ever recorded
\* under another, whether or not the registry is still open.
RecordsBindScheme ==
    \A record \in accepted :
        /\ record.registry[2] \in Schemes
        /\ record.digest.scheme = SchemeFromU8(record.registry[2])

\* No lamports are lost or made: closing a registry gives back exactly what
\* opening it took, and what a proof's account took stays in it.
LamportsConserved ==
    SumFunction(lamports)
      + RegistryRent * Cardinality({key \in Keys : IsOpen(key)})
      + ProofRent * Cardinality(accepted)
    = Funds * Cardinality(Wallets)

----------------------------------------------------------------------------
\* The program implements the log, whose entries are the accepted-proof
\* accounts: their steps and slots included.
Log == INSTANCE ProofLog WITH
    Registries <- Keys,
    Entries    <- AcceptedProof,
    open       <- {key \in Keys : IsOpen(key)},
    entries    <- accepted

KeepsLog == Log!Spec
============================================================================
