------------------------------- MODULE Client -------------------------------
(***************************************************************************)
(* The TypeScript SDK at work against the on-chain program: calls of       *)
(* submitProof, with their awaits, the transactions they sign, a cluster   *)
(* that lands those late, once or never, and reads by fetchRegistry, while *)
(* authorities open and close registries.                                  *)
(*                                                                         *)
(* The SDK derives a registry's address from the scheme's tag.  Clients of *)
(* other makes, Anchor's generated one for instance, derive it from the    *)
(* scheme byte as the program does; in all else they are taken to behave   *)
(* like this one.  A call says which of the two it is.                     *)
(*                                                                         *)
(* External are web3.js, the RPC node and the runtime.  Transactions that  *)
(* fail on the cluster change nothing and are like lost ones; fees are     *)
(* left out.                                                               *)
(***************************************************************************)
EXTENDS Registry, Sequences

CONSTANTS
    Calls,        \* calls of submitProof
    Submissions,  \* their arguments
    Validity,     \* slots for which a blockhash is good
    Expired       \* bound: a slot by which every signed transaction has expired

ASSUME ClientAssumption ==
    /\ Validity \in Nat
    /\ Expired \in 0 .. MaxSlot
    /\ \A s \in Submissions :
          /\ s.authority \in Authorities /\ s.payer \in Wallets
          /\ s.scheme \in Schemes /\ s.components \in Components
          /\ s.steps \in StepCounts /\ s.seed \in {"tag", "byte"}

\* deriveRegistryPda.  A tag is longer than a byte: no address derived from a
\* tag is one that the program derives.
DeriveRegistryPda(authority, scheme, seed) ==
    IF seed = "byte" THEN RegistryPda(authority, scheme)
    ELSE <<authority, "tag", SchemeFromU8(scheme)>>

\* Mutant: the scheme's tag is left out.
ProofDigestTagless(scheme, components) ==
    [scheme |-> SchemeFromU8(0), components |-> components]

\* proofDigest, the client's copy of the program's proof_digest.
ClientDigest(scheme, components) ==
    [scheme |-> SchemeFromU8(scheme), components |-> components]

\* acceptProofIx: the accounts and the data of the instruction.
AcceptProofIx(s) ==
    [authority |-> s.authority, payer |-> s.payer,
     registry |-> DeriveRegistryPda(s.authority, s.scheme, s.seed),
     components |-> s.components, claimed |-> ClientDigest(s.scheme, s.components),
     steps |-> s.steps]

VARIABLES
    calls,    \* where every call is
    network,  \* the signed transactions that have reached an RPC node
    landed,   \* those that the cluster has executed with success
    seen      \* what the latest fetchRegistry returned

clientVars == <<calls, network, landed, seen>>
allVars == <<vars, clientVars>>

Idle == [phase |-> "idle"]
Failed == [phase |-> "failed"]
Asking(s) == [phase |-> "asking", args |-> s]

\* A transaction is its content: two with the same are the same transaction.
Transactions == {[ix |-> AcceptProofIx(s), expiry |-> n] : s \in Submissions, n \in 0 .. MaxSlot}

CallStates ==
    {Idle, Failed} \cup {Asking(s) : s \in Submissions}
      \cup [phase : {"sending", "returned", "threw"}, tx : Transactions]

ClientInit ==
    /\ Init
    /\ calls = [k \in Calls |-> Idle]
    /\ network = {}
    /\ landed = {}
    /\ seen = NoAccount

To(k, state) == calls' = [calls EXCEPT ![k] = state]

\* submitProof up to its first await.
Submit(k) ==
    /\ calls[k] = Idle
    /\ \E s \in Submissions : To(k, Asking(s))
    /\ UNCHANGED <<vars, network, landed, seen>>

\* Mutant: a transaction that never expires, as with a durable nonce.
SignedDurably(k) ==
    To(k, [phase |-> "sending",
           tx |-> [ix |-> AcceptProofIx(calls[k].args), expiry |-> MaxSlot]])

\* The transaction a call signs once it has a blockhash, which may have aged.
Signed(k) ==
    \E expiry \in slot .. slot + Validity :
        To(k, [phase |-> "sending",
               tx |-> [ix |-> AcceptProofIx(calls[k].args), expiry |-> expiry]])

\* From the first await to the second.
Sign(k) ==
    /\ calls[k].phase = "asking"
    /\ slot + Validity < Expired
    /\ Signed(k)
    /\ UNCHANGED <<vars, network, landed, seen>>

\* getLatestBlockhash throws, and so does submitProof.
NoBlockhash(k) ==
    /\ calls[k].phase = "asking"
    /\ To(k, Failed)
    /\ UNCHANGED <<vars, network, landed, seen>>

\* sendRawTransaction: the call returns only if the transaction was accepted,
\* but may also throw when it was, because the answer was lost.  Whatever the
\* outcome, nobody sends this transaction again.
Send(k) ==
    /\ calls[k].phase = "sending"
    /\ \/ /\ network' = network \cup {calls[k].tx}
          /\ \E phase \in {"returned", "threw"} : To(k, [calls[k] EXCEPT !.phase = phase])
       \/ /\ To(k, [calls[k] EXCEPT !.phase = "threw"])
          /\ UNCHANGED network
    /\ UNCHANGED <<vars, landed, seen>>

\* The cluster executes a transaction in time and at most once.  The program's
\* own checks are those of AcceptProof.
Land(tx) ==
    /\ tx \in network \ landed
    /\ slot <= tx.expiry
    /\ tx.ix.registry \in Keys
    /\ AcceptProof(tx.ix.authority, tx.ix.registry, tx.ix.payer, tx.ix.components,
                   tx.ix.claimed, tx.ix.steps)
    /\ landed' = landed \cup {tx}
    /\ UNCHANGED <<calls, network, seen>>

\* fetchRegistry.
Fetch(authority, scheme, seed) ==
    LET pda == DeriveRegistryPda(authority, scheme, seed)
    IN  /\ seen' = IF pda \in Keys THEN registries[pda] ELSE NoAccount
        /\ UNCHANGED <<vars, calls, network, landed>>

\* What goes on without submitProof.
Elsewhere ==
    /\ \/ \E authority \in Authorities, scheme \in SchemeBytes : InitRegistry(authority, scheme)
       \/ \E authority \in Authorities, key \in Keys : CloseRegistry(authority, key)
       \/ Tick
    /\ UNCHANGED clientVars

Proceed(k) == Sign(k) \/ NoBlockhash(k) \/ Send(k)

ClientNext ==
    \/ \E k \in Calls : Submit(k) \/ Proceed(k)
    \/ \E tx \in network : Land(tx)
    \/ \E authority \in Authorities, scheme \in Schemes \cap SchemeBytes, seed \in {"tag", "byte"} :
          Fetch(authority, scheme, seed)
    \/ Elsewhere

ClientSpec == ClientInit /\ [][ClientNext]_allVars

\* Awaits are answered, if only by an error, and time goes by.  Nothing makes
\* the cluster take a transaction.
FairClientSpec ==
    /\ ClientSpec
    /\ \A k \in Calls : WF_allVars(Proceed(k))
    /\ WF_allVars(Tick /\ UNCHANGED clientVars)

----------------------------------------------------------------------------
\* Proofs are recorded one transaction each: whatever is lost or thrown, and
\* however often a proof is submitted again, by another payer, with another
\* step count or after its registry was closed and opened again, no two
\* transactions for one proof of one registry both land, and every record was
\* asked for.
OneRecordEach ==
    /\ \A t1, t2 \in landed :
          (t1.ix.registry = t2.ix.registry /\ t1.ix.claimed = t2.ix.claimed) => t1 = t2
    /\ \A record \in accepted : \E tx \in landed :
          /\ tx.ix.registry = record.registry /\ tx.ix.claimed = record.digest
          /\ tx.ix.steps = record.steps /\ record.accepted_slot <= tx.expiry

\* A wallet has paid for the registries that it opened and has not closed, and
\* once for each transaction it signed as payer that was recorded: not for one
\* that was lost, that expired or that came second to a resubmission by another
\* payer, nor for what others record in its registries.
PaidForBy(wallet) ==
    RegistryRent * Cardinality({key \in Keys : IsOpen(key) /\ key[1] = wallet})
      + ProofRent * Cardinality({tx \in landed : tx.ix.payer = wallet})

PayersPayOnce ==
    \A wallet \in Wallets : lamports[wallet] = Funds - PaidForBy(wallet)

\* The digest a client computes is the one the program recomputes from what
\* the transaction carries and the scheme the registry stores when it arrives,
\* however late that is: DigestMismatch never happens.
DigestsMatch ==
    \A tx \in network :
        (tx.ix.registry \in Keys /\ IsOpen(tx.ix.registry)) =>
            ProofDigest(registries[tx.ix.registry].scheme, tx.ix.components) = tx.ix.claimed

\* What a client once read stays true of the log, whatever happens to the
\* registry after the read: the digest it saw is recorded, and there are at
\* least as many records as were counted.
ReadsStayTrue ==
    seen # NoAccount =>
        LET records == RecordsOf(RegistryPda(seen.authority, seen.scheme))
        IN  /\ seen.latest_digest # ZeroDigest =>
                  \E record \in records : record.digest = seen.latest_digest
            /\ seen.proof_count <= Cardinality(records)

\* Every call returns or throws, and from some time on its outcome is certain:
\* its proof is recorded, or its transaction can no longer land.  A caller who
\* waits that long can tell by looking, although the call did not confirm.
Certain(k) ==
    \/ calls[k].phase = "failed"
    \/ /\ calls[k].phase \in {"returned", "threw"}
       /\ calls[k].tx \in landed \/ slot > calls[k].tx.expiry

OutcomesSettle == \A k \in Calls : calls[k].phase # "idle" ~> Certain(k)

\* The SDK names the accounts the program expects (client.ts:13-15: it "pins
\* the program ID and the PDA derivations so the SDK and the Rust side cannot
\* drift"): a transaction to an authority's open registry of its own scheme
\* carries that registry's address.
InstructionsNameTheRegistry ==
    \A tx \in network : \A key \in Keys :
        (/\ IsOpen(key) /\ registries[key].authority = tx.ix.authority
         /\ SchemeFromU8(registries[key].scheme) = tx.ix.claimed.scheme)
        => tx.ix.registry = key
============================================================================
