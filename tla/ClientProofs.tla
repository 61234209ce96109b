---------------------------- MODULE ClientProofs ----------------------------
(***************************************************************************)
(* What holds of clients and program together, for any authorities,        *)
(* submissions and number of calls: every behaviour is one of Registry, so *)
(* its theorems carry over, and a proof is recorded by one transaction     *)
(* only, whatever the network does.                                        *)
(***************************************************************************)
EXTENDS Client, RegistryProofs

\* What calls, transactions and reads are; the other invariants rest on it.
ClientTypeOK ==
    /\ TypeOK
    /\ calls \in [Calls -> CallStates]
    /\ landed \subseteq network /\ network \subseteq Transactions
    /\ seen = NoAccount \/ seen \in RegistryAccount

\* A call in either of its two awaits knows what it needs for the next step.
LEMMA AskingHasArgs ==
    ASSUME NEW c \in CallStates, c.phase = "asking"
    PROVE  c.args \in Submissions
BY DEF CallStates, Idle, Failed, Asking

LEMMA SendingHasTx ==
    ASSUME NEW c \in CallStates, c.phase = "sending"
    PROVE  /\ c.tx \in Transactions
           /\ \A phase \in {"returned", "threw"} : [c EXCEPT !.phase = phase] \in CallStates
<1>1. c \in [phase : {"sending", "returned", "threw"}, tx : Transactions]
  BY DEF CallStates, Idle, Failed, Asking
<1> QED
  BY <1>1 DEF CallStates

\* What a transaction asks for is an instance of accept_proof.
LEMMA TransactionTypes ==
    ASSUME NEW tx \in Transactions
    PROVE  /\ tx.ix.authority \in Authorities /\ tx.ix.payer \in Wallets
           /\ tx.ix.components \in Components /\ tx.ix.claimed \in Digests
           /\ tx.ix.steps \in StepCounts
<1>1. PICK s \in Submissions, n \in 0 .. MaxSlot : tx = [ix |-> AcceptProofIx(s), expiry |-> n]
  BY DEF Transactions
<1>2. ClientDigest(s.scheme, s.components) \in Digests
  BY ClientAssumption DEF ClientDigest, Digests, SchemeFromU8, Schemes
<1> QED
  BY <1>1, <1>2, ClientAssumption DEF AcceptProofIx

\* A client's step is a step of the program or leaves the program alone.
LEMMA ClientStep == ClientTypeOK /\ [ClientNext]_allVars => [Next]_vars
<1> SUFFICES ASSUME ClientTypeOK, [ClientNext]_allVars PROVE [Next]_vars
  OBVIOUS
<1>1. ASSUME NEW k \in Calls, Submit(k) \/ Proceed(k) PROVE UNCHANGED vars
  BY <1>1 DEF Submit, Proceed, Sign, NoBlockhash, Send
<1>2. ASSUME NEW tx \in network, Land(tx) PROVE Next
  <2>1. tx \in Transactions
    BY DEF ClientTypeOK
  <2> QED
    BY <1>2, <2>1, TransactionTypes DEF Land, Next
<1>3. ASSUME NEW authority, NEW scheme, NEW seed, Fetch(authority, scheme, seed)
      PROVE  UNCHANGED vars
  BY <1>3 DEF Fetch
<1>4. CASE Elsewhere
  BY <1>4 DEF Elsewhere, Next
<1>5. CASE UNCHANGED allVars
  BY <1>5 DEF allVars
<1> QED
  BY <1>1, <1>2, <1>3, <1>4, <1>5 DEF ClientNext

LEMMA ClientNextType == ClientTypeOK /\ [ClientNext]_allVars => ClientTypeOK'
<1> SUFFICES ASSUME ClientTypeOK, [ClientNext]_allVars PROVE ClientTypeOK'
  OBVIOUS
<1>0. /\ TypeOK /\ calls \in [Calls -> CallStates]
      /\ landed \subseteq network /\ network \subseteq Transactions
      /\ seen = NoAccount \/ seen \in RegistryAccount
  BY DEF ClientTypeOK
<1>1. TypeOK'
  BY <1>0, ClientStep, NextType
<1>2. ASSUME NEW k \in Calls, Submit(k) PROVE ClientTypeOK'
  BY <1>0, <1>1, <1>2 DEF Submit, To, CallStates, ClientTypeOK
<1>3. ASSUME NEW k \in Calls, Sign(k) PROVE ClientTypeOK'
  <2>1. calls[k].args \in Submissions
    BY <1>0, <1>3, AskingHasArgs DEF Sign
  <2>2. PICK expiry \in slot .. slot + Validity :
           To(k, [phase |-> "sending",
                  tx |-> [ix |-> AcceptProofIx(calls[k].args), expiry |-> expiry]])
    BY <1>3 DEF Sign, Signed
  <2>3. expiry \in 0 .. MaxSlot
    BY <1>0, <1>3, ClientAssumption, RegistryAssumption DEF TypeOK, Sign
  <2>4. [ix |-> AcceptProofIx(calls[k].args), expiry |-> expiry] \in Transactions
    BY <2>1, <2>3 DEF Transactions
  <2>5. calls' \in [Calls -> CallStates]
    BY <1>0, <2>2, <2>4 DEF To, CallStates
  <2> QED
    BY <1>0, <1>1, <1>3, <2>5 DEF Sign, ClientTypeOK
<1>4. ASSUME NEW k \in Calls, NoBlockhash(k) PROVE ClientTypeOK'
  BY <1>0, <1>1, <1>4 DEF NoBlockhash, To, CallStates, ClientTypeOK
<1>5. ASSUME NEW k \in Calls, Send(k) PROVE ClientTypeOK'
  <2>1. /\ calls[k].tx \in Transactions
        /\ \A phase \in {"returned", "threw"} :
              [calls[k] EXCEPT !.phase = phase] \in CallStates
    BY <1>0, <1>5, SendingHasTx DEF Send
  <2>2. calls' \in [Calls -> CallStates]
    BY <1>0, <1>5, <2>1 DEF Send, To
  <2> QED
    BY <1>0, <1>1, <1>5, <2>1, <2>2 DEF Send, ClientTypeOK
<1>6. ASSUME NEW tx \in network, Land(tx) PROVE ClientTypeOK'
  BY <1>0, <1>1, <1>6 DEF Land, ClientTypeOK
<1>7. ASSUME NEW authority, NEW scheme, NEW seed, Fetch(authority, scheme, seed)
      PROVE  ClientTypeOK'
  <2>1. \A pda \in Keys : registries[pda] = NoAccount \/ registries[pda] \in RegistryAccount
    BY <1>0 DEF TypeOK
  <2>2. seen' = NoAccount \/ seen' \in RegistryAccount
    BY <1>7, <2>1 DEF Fetch
  <2> QED
    BY <1>0, <1>1, <1>7, <2>2 DEF Fetch, ClientTypeOK
<1>8. CASE UNCHANGED clientVars
  BY <1>0, <1>1, <1>8 DEF clientVars, ClientTypeOK
<1> QED
  BY <1>2, <1>3, <1>4, <1>5, <1>6, <1>7, <1>8 DEF ClientNext, Proceed, Elsewhere, allVars

\* Calls, transactions and reads keep their shape, and the program its types,
\* with the clients' transactions as its only proofs.
THEOREM ClientTypeCorrect == ClientSpec => []ClientTypeOK
<1>1. ClientInit => ClientTypeOK
  BY InitType DEF ClientInit, ClientTypeOK, CallStates
<1> QED
  BY <1>1, ClientNextType, PTL DEF ClientSpec

\* Clients make the program do nothing that Registry does not do: all that is
\* proved of Registry holds of it in their company.
THEOREM RegistryUnderClients == ClientSpec => Spec
<1>1. ClientInit => Init
  BY DEF ClientInit
<1> QED
  BY <1>1, ClientStep, ClientTypeCorrect, PTL DEF ClientSpec, Spec

----------------------------------------------------------------------------
\* OneRecordEach is inductive together with its converse: what has landed is
\* recorded, and stays so when its registry goes.
Recorded ==
    \A tx \in landed : \E record \in accepted :
        record.registry = tx.ix.registry /\ record.digest = tx.ix.claimed

LEMMA LandKeepsOne ==
    ASSUME Recorded, OneRecordEach, NEW tx \in network, Land(tx)
    PROVE  Recorded' /\ OneRecordEach'
<1> DEFINE record == NewRecord(tx.ix.registry, tx.ix.claimed, tx.ix.steps)
<1>1. accepted' = accepted \cup {record} /\ landed' = landed \cup {tx} /\ slot <= tx.expiry
  BY DEF Land, AcceptProof, NewRecord
<1>2. /\ record.registry = tx.ix.registry /\ record.digest = tx.ix.claimed
      /\ record.steps = tx.ix.steps /\ record.accepted_slot = slot
  BY DEF NewRecord
<1>3. \A old \in accepted : ~(old.registry = tx.ix.registry /\ old.digest = tx.ix.claimed)
  BY DEF Land, AcceptProof, RecordsOf
<1> HIDE DEF record
<1>4. Recorded'
  BY <1>1, <1>2 DEF Recorded
<1>5. \A t \in landed : ~(t.ix.registry = tx.ix.registry /\ t.ix.claimed = tx.ix.claimed)
  BY <1>3 DEF Recorded
<1>6. \A t1, t2 \in landed' :
         (t1.ix.registry = t2.ix.registry /\ t1.ix.claimed = t2.ix.claimed) => t1 = t2
  BY <1>1, <1>5 DEF OneRecordEach
<1>7. \A r \in accepted' : \E t \in landed' :
         /\ t.ix.registry = r.registry /\ t.ix.claimed = r.digest
         /\ t.ix.steps = r.steps /\ r.accepted_slot <= t.expiry
  BY <1>1, <1>2 DEF OneRecordEach
<1> QED
  BY <1>4, <1>6, <1>7 DEF OneRecordEach

LEMMA NextOne ==
    Recorded /\ OneRecordEach /\ [ClientNext]_allVars => Recorded' /\ OneRecordEach'
<1> SUFFICES ASSUME Recorded, OneRecordEach, [ClientNext]_allVars
             PROVE  Recorded' /\ OneRecordEach'
  OBVIOUS
<1>1. CASE UNCHANGED <<accepted, landed>>
  BY <1>1 DEF Recorded, OneRecordEach
<1>2. CASE \E tx \in network : Land(tx)
  BY <1>2, LandKeepsOne
<1>3. CASE \E k \in Calls : Submit(k) \/ Proceed(k)
  BY <1>1, <1>3 DEF Submit, Proceed, Sign, NoBlockhash, Send, vars
<1>4. ASSUME NEW authority, NEW scheme, NEW seed, Fetch(authority, scheme, seed)
      PROVE  UNCHANGED <<accepted, landed>>
  BY <1>4 DEF Fetch, vars
<1>5. CASE Elsewhere
  BY <1>1, <1>5 DEF Elsewhere, InitRegistry, CloseRegistry, Tick, clientVars
<1> QED
  BY <1>1, <1>2, <1>3, <1>4, <1>5 DEF ClientNext, allVars, vars, clientVars

\* However a proof is submitted, lost and submitted again, one transaction
\* records it.
THEOREM OneRecord == ClientSpec => []OneRecordEach
<1>1. ClientInit => Recorded /\ OneRecordEach
  BY DEF ClientInit, Init, Recorded, OneRecordEach
<1> QED
  BY <1>1, NextOne, PTL DEF ClientSpec

----------------------------------------------------------------------------
\* PayersPayOnce counts open registries and landed transactions, so both must be
\* finitely many, although Submissions and SchemeBytes need not be finite.
OpenedBy(wallet) == {key \in Keys : IsOpen(key) /\ key[1] = wallet}
PaidBy(wallet) == {tx \in landed : tx.ix.payer = wallet}

PaidInv ==
    \A wallet \in Wallets :
        /\ IsFiniteSet(OpenedBy(wallet)) /\ IsFiniteSet(PaidBy(wallet))
        /\ lamports[wallet] = Funds - (RegistryRent * Cardinality(OpenedBy(wallet))
                                         + ProofRent * Cardinality(PaidBy(wallet)))

\* A rent more or less moves a sum by that rent.
LEMMA OneMore ==
    ASSUME NEW rent \in Nat, NEW n \in Int
    PROVE  rent * (n + 1) = rent * n + rent /\ rent * (n - 1) = rent * n - rent
OBVIOUS

LEMMA InitPaid == Init /\ landed = {} => PaidInv
<1> SUFFICES ASSUME Init, landed = {}, NEW wallet \in Wallets
             PROVE  /\ IsFiniteSet(OpenedBy(wallet)) /\ IsFiniteSet(PaidBy(wallet))
                    /\ lamports[wallet]
                         = Funds - (RegistryRent * Cardinality(OpenedBy(wallet))
                                     + ProofRent * Cardinality(PaidBy(wallet)))
  BY DEF PaidInv
<1>1. OpenedBy(wallet) = {} /\ PaidBy(wallet) = {}
  BY DEF Init, OpenedBy, PaidBy, IsOpen
<1> QED
  BY <1>1, FS_EmptySet, RegistryAssumption DEF Init

LEMMA NextPaid == ClientTypeOK /\ PaidInv /\ [ClientNext]_allVars => PaidInv'
<1> SUFFICES ASSUME ClientTypeOK, PaidInv, [ClientNext]_allVars, NEW wallet \in Wallets
             PROVE  /\ IsFiniteSet(OpenedBy(wallet)') /\ IsFiniteSet(PaidBy(wallet)')
                    /\ lamports'[wallet]
                         = Funds - (RegistryRent * Cardinality(OpenedBy(wallet)')
                                     + ProofRent * Cardinality(PaidBy(wallet)'))
  BY DEF PaidInv
<1> DEFINE opened == Cardinality(OpenedBy(wallet))
           paid == Cardinality(PaidBy(wallet))
           Left(n, m) == Funds - (RegistryRent * n + ProofRent * m)
<1>0. /\ TypeOK /\ network \subseteq Transactions
      /\ lamports \in [Wallets -> Nat]
      /\ RegistryRent \in Nat /\ ProofRent \in Nat /\ Funds \in Nat
  BY RegistryAssumption DEF ClientTypeOK, TypeOK
<1>1. /\ IsFiniteSet(OpenedBy(wallet)) /\ IsFiniteSet(PaidBy(wallet))
      /\ lamports[wallet] = Left(opened, paid)
  BY DEF PaidInv
<1>2. opened \in Nat /\ paid \in Nat
  BY <1>1, FS_CardinalityType
<1>3. /\ Left(opened + 1, paid) = Left(opened, paid) - RegistryRent
      /\ Left(opened - 1, paid) = Left(opened, paid) + RegistryRent
      /\ Left(opened, paid + 1) = Left(opened, paid) - ProofRent
  <2> HIDE DEF opened, paid
  <2>1. RegistryRent * opened \in Int /\ ProofRent * paid \in Int
    BY <1>0, <1>2
  <2>2. /\ RegistryRent * (opened + 1) = RegistryRent * opened + RegistryRent
        /\ RegistryRent * (opened - 1) = RegistryRent * opened - RegistryRent
        /\ ProofRent * (paid + 1) = ProofRent * paid + ProofRent
    BY <1>0, <1>2, OneMore
  <2> QED
    BY <1>0, <2>1, <2>2
<1>4. CASE UNCHANGED <<registries, lamports, landed>>
  BY <1>1, <1>4 DEF OpenedBy, PaidBy, IsOpen
<1>5. ASSUME NEW authority \in Authorities, NEW scheme \in SchemeBytes,
             InitRegistry(authority, scheme), UNCHANGED landed
      PROVE  /\ IsFiniteSet(OpenedBy(wallet)') /\ IsFiniteSet(PaidBy(wallet)')
             /\ lamports'[wallet] = Left(Cardinality(OpenedBy(wallet)'),
                                         Cardinality(PaidBy(wallet)'))
  <2> DEFINE key == RegistryPda(authority, scheme)
  <2>1. /\ key \in Keys /\ key[1] = authority /\ ~IsOpen(key) /\ IsOpen(key)'
        /\ \A k \in Keys \ {key} : registries'[k] = registries[k]
    BY <1>0, <1>5, InitEffect DEF RegistryPda
  <2>2. lamports' = [lamports EXCEPT ![authority] = @ - RegistryRent]
    BY <1>5 DEF InitRegistry
  <2> HIDE DEF key, Left
  <2>3. PaidBy(wallet)' = PaidBy(wallet)
    BY <1>5 DEF PaidBy
  <2>4. CASE wallet = authority
    <3>1. OpenedBy(wallet)' = OpenedBy(wallet) \cup {key} /\ key \notin OpenedBy(wallet)
      BY <2>1, <2>4 DEF OpenedBy, IsOpen
    <3>2. IsFiniteSet(OpenedBy(wallet)') /\ Cardinality(OpenedBy(wallet)') = opened + 1
      BY <1>1, <3>1, FS_AddElement
    <3>3. lamports'[wallet] = lamports[wallet] - RegistryRent
      BY <1>0, <2>2, <2>4
    <3> QED
      BY <1>1, <1>3, <2>3, <3>2, <3>3
  <2>5. CASE wallet # authority
    <3>1. OpenedBy(wallet)' = OpenedBy(wallet)
      BY <2>1, <2>5 DEF OpenedBy, IsOpen
    <3> QED
      BY <1>0, <1>1, <2>2, <2>3, <2>5, <3>1
  <2> QED
    BY <2>4, <2>5
<1>6. ASSUME NEW authority \in Authorities, NEW key \in Keys, CloseRegistry(authority, key),
             UNCHANGED landed
      PROVE  /\ IsFiniteSet(OpenedBy(wallet)') /\ IsFiniteSet(PaidBy(wallet)')
             /\ lamports'[wallet] = Left(Cardinality(OpenedBy(wallet)'),
                                         Cardinality(PaidBy(wallet)'))
  <2>1. /\ key[1] = authority /\ IsOpen(key) /\ ~IsOpen(key)'
        /\ \A k \in Keys \ {key} : registries'[k] = registries[k]
    <3>1. key = <<authority, registries[key].scheme>>
      BY <1>6 DEF CloseRegistry, RegistryPda
    <3> QED
      BY <1>0, <1>6, <3>1, CloseEffect
  <2>2. lamports' = [lamports EXCEPT ![authority] = @ + RegistryRent]
    BY <1>6 DEF CloseRegistry
  <2> HIDE DEF Left
  <2>3. PaidBy(wallet)' = PaidBy(wallet)
    BY <1>6 DEF PaidBy
  <2>4. CASE wallet = authority
    <3>1. OpenedBy(wallet)' = OpenedBy(wallet) \ {key} /\ key \in OpenedBy(wallet)
      BY <2>1, <2>4 DEF OpenedBy, IsOpen
    <3>2. IsFiniteSet(OpenedBy(wallet)') /\ Cardinality(OpenedBy(wallet)') = opened - 1
      BY <1>1, <3>1, FS_RemoveElement
    <3>3. lamports'[wallet] = lamports[wallet] + RegistryRent
      BY <1>0, <2>2, <2>4
    <3> QED
      BY <1>1, <1>3, <2>3, <3>2, <3>3
  <2>5. CASE wallet # authority
    <3>1. OpenedBy(wallet)' = OpenedBy(wallet)
      BY <2>1, <2>5 DEF OpenedBy, IsOpen
    <3> QED
      BY <1>0, <1>1, <2>2, <2>3, <2>5, <3>1
  <2> QED
    BY <2>4, <2>5
<1>7. ASSUME NEW tx \in network, Land(tx)
      PROVE  /\ IsFiniteSet(OpenedBy(wallet)') /\ IsFiniteSet(PaidBy(wallet)')
             /\ lamports'[wallet] = Left(Cardinality(OpenedBy(wallet)'),
                                         Cardinality(PaidBy(wallet)'))
  <2> DEFINE key == tx.ix.registry
  <2>1. /\ tx.ix.payer \in Wallets /\ tx.ix.authority \in Authorities
        /\ tx.ix.components \in Components /\ tx.ix.claimed \in Digests
        /\ tx.ix.steps \in StepCounts
    BY <1>0, TransactionTypes
  <2>2. /\ key \in Keys /\ landed' = landed \cup {tx} /\ tx \notin landed
        /\ lamports' = [lamports EXCEPT ![tx.ix.payer] = @ - ProofRent]
        /\ AcceptProof(tx.ix.authority, key, tx.ix.payer, tx.ix.components,
                       tx.ix.claimed, tx.ix.steps)
    BY <1>7 DEF Land, AcceptProof
  <2>3. /\ IsOpen(key) /\ IsOpen(key)'
        /\ \A k \in Keys \ {key} : registries'[k] = registries[k]
    BY <1>0, <2>1, <2>2, AcceptEffect
  <2> HIDE DEF key, Left
  <2>4. OpenedBy(wallet)' = OpenedBy(wallet)
    BY <2>2, <2>3 DEF OpenedBy, IsOpen
  <2>5. CASE wallet = tx.ix.payer
    <3>1. PaidBy(wallet)' = PaidBy(wallet) \cup {tx} /\ tx \notin PaidBy(wallet)
      BY <2>2, <2>5 DEF PaidBy
    <3>2. IsFiniteSet(PaidBy(wallet)') /\ Cardinality(PaidBy(wallet)') = paid + 1
      BY <1>1, <3>1, FS_AddElement
    <3>3. lamports'[wallet] = lamports[wallet] - ProofRent
      BY <1>0, <2>2, <2>5
    <3> QED
      BY <1>1, <1>3, <2>4, <3>2, <3>3
  <2>6. CASE wallet # tx.ix.payer
    <3>1. PaidBy(wallet)' = PaidBy(wallet)
      BY <2>2, <2>6 DEF PaidBy
    <3> QED
      BY <1>0, <1>1, <2>2, <2>4, <2>6, <3>1
  <2> QED
    BY <2>5, <2>6
<1>8. CASE Elsewhere
  BY <1>4, <1>5, <1>6, <1>8 DEF Elsewhere, Tick, clientVars
<1>9. CASE \E k \in Calls : Submit(k) \/ Proceed(k)
  BY <1>4, <1>9 DEF Submit, Proceed, Sign, NoBlockhash, Send, vars
<1>10. ASSUME NEW authority, NEW scheme, NEW seed, Fetch(authority, scheme, seed)
       PROVE  UNCHANGED <<registries, lamports, landed>>
  BY <1>10 DEF Fetch, vars
<1>11. CASE UNCHANGED allVars
  BY <1>4, <1>11 DEF allVars, vars, clientVars
<1> QED
  BY <1>4, <1>7, <1>8, <1>9, <1>10, <1>11 DEF ClientNext

\* Whoever submits, loses or resubmits what, a wallet pays once for each of its
\* transactions that is recorded and gets back the rent of what it closes.
THEOREM PayOnce == ClientSpec => []PayersPayOnce
<1>1. ClientInit => PaidInv
  BY InitPaid DEF ClientInit
<1>2. PaidInv => PayersPayOnce
  BY DEF PaidInv, PayersPayOnce, PaidForBy, OpenedBy, PaidBy
<1> QED
  BY <1>1, <1>2, NextPaid, ClientTypeCorrect, PTL DEF ClientSpec

----------------------------------------------------------------------------
\* An address in Keys is one that was derived from the scheme byte.
LEMMA TagIsNoKey ==
    ASSUME NEW authority, NEW scheme
    PROVE  DeriveRegistryPda(authority, scheme, "tag") \notin Keys
BY DEF DeriveRegistryPda, Keys

\* The client's digest is the program's, whatever has become of the registry.
THEOREM Digest == ClientSpec => []DigestsMatch
<1>1. ClientTypeOK => DigestsMatch
  <2> SUFFICES ASSUME ClientTypeOK, NEW tx \in network,
                      tx.ix.registry \in Keys, IsOpen(tx.ix.registry)
               PROVE  ProofDigest(registries[tx.ix.registry].scheme, tx.ix.components)
                        = tx.ix.claimed
    BY DEF DigestsMatch
  <2>1. PICK s \in Submissions, n \in 0 .. MaxSlot :
           tx = [ix |-> AcceptProofIx(s), expiry |-> n]
    BY DEF ClientTypeOK, Transactions
  <2>2. /\ tx.ix.registry = DeriveRegistryPda(s.authority, s.scheme, s.seed)
        /\ tx.ix.claimed = ClientDigest(s.scheme, s.components)
        /\ tx.ix.components = s.components
    BY <2>1 DEF AcceptProofIx
  <2>3. s.seed = "byte"
    BY <2>2, TagIsNoKey, ClientAssumption
  <2>4. tx.ix.registry = <<s.authority, s.scheme>>
    BY <2>2, <2>3 DEF DeriveRegistryPda, RegistryPda
  <2>5. RegistryPda(registries[tx.ix.registry].authority, registries[tx.ix.registry].scheme)
          = tx.ix.registry
    BY DEF ClientTypeOK, TypeOK
  <2>6. registries[tx.ix.registry].scheme = s.scheme
    BY <2>4, <2>5 DEF RegistryPda
  <2> QED
    BY <2>2, <2>6 DEF ProofDigest, ClientDigest
<1> QED
  BY <1>1, ClientTypeCorrect, PTL

----------------------------------------------------------------------------
\* The log only grows.
LEMMA LogGrows == [Next]_vars => accepted \subseteq accepted'
BY DEF Next, InitRegistry, AcceptProof, CloseRegistry, Tick, vars

\* ReadsStayTrue of an account, with the account as a parameter.
StaysTrue(account) ==
    LET records == RecordsOf(RegistryPda(account.authority, account.scheme))
    IN  /\ account.latest_digest # ZeroDigest =>
              \E record \in records : record.digest = account.latest_digest
        /\ account.proof_count <= Cardinality(records)

\* What is read is true when it is read.
LEMMA ReadIsTrue ==
    ASSUME TypeOK, CounterInv, TipIsNewest, NEW key \in Keys, IsOpen(key)
    PROVE  StaysTrue(registries[key])
<1> DEFINE account == registries[key]
           records == RecordsOf(key)
<1>1. account \in RegistryAccount /\ RegistryPda(account.authority, account.scheme) = key
  BY DEF TypeOK, IsOpen
<1>2. Cardinality(records) \in Nat
  BY RecordsFinite
<1>3. account.proof_count <= Cardinality(records)
  <2>1. /\ inherited[key] \in 0 .. Cardinality(records)
        /\ account.proof_count = AtMost(Cardinality(records) - inherited[key], MaxU64)
    BY DEF CounterInv
  <2> QED
    BY <1>2, <2>1, RegistryAssumption DEF AtMost
<1>4. account.latest_digest # ZeroDigest =>
         \E record \in records : record.digest = account.latest_digest
  BY DEF TipIsNewest
<1> QED
  BY <1>1, <1>3, <1>4 DEF StaysTrue

\* What was true of the log stays true as the log grows.
LEMMA GrowthKeepsTrue ==
    ASSUME TypeOK, TypeOK', accepted \subseteq accepted',
           NEW account \in RegistryAccount, StaysTrue(account)
    PROVE  StaysTrue(account)'
<1> DEFINE key == RegistryPda(account.authority, account.scheme)
<1>1. key \in Keys /\ account.proof_count \in Nat
  BY RegistryAssumption DEF RegistryAccount, RegistryPda, Keys
<1>2. RecordsOf(key) \subseteq RecordsOf(key)'
  BY DEF RecordsOf
<1>3. IsFiniteSet(RecordsOf(key)') /\ Cardinality(RecordsOf(key)') \in Nat
  <2>1. RecordsOf(key)' \subseteq accepted' /\ IsFiniteSet(accepted')
    BY DEF RecordsOf, TypeOK
  <2> QED
    BY <2>1, FS_Subset, FS_CardinalityType
<1>4. Cardinality(RecordsOf(key)) <= Cardinality(RecordsOf(key)')
  BY <1>2, <1>3, FS_Subset
<1>5. Cardinality(RecordsOf(key)) \in Nat
  BY <1>1, RecordsFinite
<1> QED
  BY <1>1, <1>2, <1>3, <1>4, <1>5 DEF StaysTrue

LEMMA NextReads ==
    /\ ClientTypeOK /\ ClientTypeOK' /\ CounterInv /\ TipIsNewest /\ ReadsStayTrue
    /\ [ClientNext]_allVars
    => ReadsStayTrue'
<1> SUFFICES ASSUME ClientTypeOK, ClientTypeOK', CounterInv, TipIsNewest, ReadsStayTrue,
                    [ClientNext]_allVars
             PROVE  ReadsStayTrue'
  OBVIOUS
<1>1. accepted \subseteq accepted'
  BY ClientStep, LogGrows
<1>2. /\ ReadsStayTrue <=> (seen # NoAccount => StaysTrue(seen))
      /\ ReadsStayTrue' <=> (seen' # NoAccount => StaysTrue(seen)')
  BY DEF ReadsStayTrue, StaysTrue
<1>3. CASE UNCHANGED seen
  <2> SUFFICES ASSUME seen # NoAccount PROVE StaysTrue(seen)'
    BY <1>2, <1>3
  <2>1. seen \in RegistryAccount /\ StaysTrue(seen)
    BY <1>2 DEF ClientTypeOK
  <2>2. \A account \in RegistryAccount : StaysTrue(account) => StaysTrue(account)'
    BY <1>1, GrowthKeepsTrue DEF ClientTypeOK
  <2> QED
    BY <1>3, <2>1, <2>2 DEF StaysTrue
<1>4. ASSUME NEW authority, NEW scheme, NEW seed, Fetch(authority, scheme, seed)
      PROVE  ReadsStayTrue'
  <2> DEFINE pda == DeriveRegistryPda(authority, scheme, seed)
  <2>1. UNCHANGED vars
    BY <1>4 DEF Fetch
  <2>2. seen' = NoAccount \/ (pda \in Keys /\ IsOpen(pda) /\ seen' = registries[pda])
    BY <1>4 DEF Fetch, IsOpen
  <2> HIDE DEF pda
  <2>3. CASE pda \in Keys /\ IsOpen(pda) /\ seen' = registries[pda]
    <3>1. StaysTrue(registries[pda])
      BY <2>3, ReadIsTrue DEF ClientTypeOK
    <3> QED
      BY <2>1, <2>3, <3>1 DEF ReadsStayTrue, StaysTrue, RecordsOf, vars
  <2> QED
    BY <1>2, <2>2, <2>3
<1> QED
  BY <1>3, <1>4 DEF ClientNext, Submit, Proceed, Sign, NoBlockhash, Send, Land, Elsewhere,
                    clientVars, allVars

\* A digest that was read as the tip is recorded forever after, and the log
\* never has fewer records than a read has counted.
THEOREM Reads == ClientSpec => []ReadsStayTrue
<1>1. ClientInit => ReadsStayTrue
  BY DEF ClientInit, ReadsStayTrue
<1>2. Spec => []CounterInv
  <2>1. Init => CounterInv
    BY DEF Init, CounterInv, IsOpen
  <2> QED
    BY <2>1, NextCounter, TypeCorrect, PTL DEF Spec
<1> QED
  BY <1>1, <1>2, NextReads, Tip, RegistryUnderClients, ClientTypeCorrect, PTL DEF ClientSpec
============================================================================
