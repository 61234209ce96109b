--------------------------- MODULE RegistryProofs ---------------------------
(***************************************************************************)
(* What holds of the on-chain program for any authorities, wallets and     *)
(* proofs: its types, its counter, its tip, the scheme of what it records, *)
(* its lamports, and that it implements ProofLog.                          *)
(***************************************************************************)
EXTENDS Registry, InductionTheorems

\* The record accept_proof adds.
NewRecord(key, claimed, steps) ==
    [registry |-> key, digest |-> claimed, accepted_slot |-> slot, steps |-> steps]

\* An account after accept_proof, field by field.
LEMMA UpdatedAccount ==
    ASSUME NEW old \in RegistryAccount, NEW count, NEW digest
    PROVE  [old EXCEPT !.proof_count = count, !.latest_digest = digest]
           = [authority |-> old.authority, scheme |-> old.scheme,
              proof_count |-> count, latest_digest |-> digest]
<1>1. old = [authority |-> old.authority, scheme |-> old.scheme,
             proof_count |-> old.proof_count, latest_digest |-> old.latest_digest]
  BY DEF RegistryAccount
<1>2. DOMAIN old = {"authority", "scheme", "proof_count", "latest_digest"}
  BY DEF RegistryAccount
<1> DEFINE new == [old EXCEPT !.proof_count = count, !.latest_digest = digest]
<1>3. DOMAIN new = {"authority", "scheme", "proof_count", "latest_digest"}
  BY <1>2
<1>4. /\ new.authority = old.authority /\ new.scheme = old.scheme
      /\ new.proof_count = count /\ new.latest_digest = digest
  BY <1>2
<1>5. new = [f \in DOMAIN new |-> new[f]]
  OBVIOUS
<1> HIDE DEF new
<1>6. new = [authority |-> old.authority, scheme |-> old.scheme,
             proof_count |-> count, latest_digest |-> digest]
  BY <1>3, <1>4, <1>5
<1> QED
  BY <1>6 DEF new

LEMMA InitType == Init => TypeOK
<1> SUFFICES ASSUME Init PROVE TypeOK
  OBVIOUS
<1>1. registries \in [Keys -> RegistryAccount \cup {NoAccount}] /\ \A key \in Keys : ~IsOpen(key)
  BY DEF Init, IsOpen
<1>2. accepted \in SUBSET AcceptedProof /\ IsFiniteSet(accepted)
  BY FS_EmptySet DEF Init
<1> QED
  BY <1>1, <1>2, RegistryAssumption DEF Init, TypeOK

LEMMA NextType == TypeOK /\ [Next]_vars => TypeOK'
<1> SUFFICES ASSUME TypeOK, [Next]_vars PROVE TypeOK'
  OBVIOUS
<1>0. /\ registries \in [Keys -> RegistryAccount \cup {NoAccount}]
      /\ \A key \in Keys : IsOpen(key) =>
            RegistryPda(registries[key].authority, registries[key].scheme) = key
      /\ accepted \in SUBSET AcceptedProof /\ IsFiniteSet(accepted)
      /\ lamports \in [Wallets -> Nat] /\ slot \in 0 .. MaxSlot
      /\ inherited \in [Keys -> Nat]
  BY DEF TypeOK
<1>1. ASSUME NEW authority \in Authorities, NEW scheme \in SchemeBytes,
             InitRegistry(authority, scheme)
      PROVE  TypeOK'
  <2> DEFINE key == RegistryPda(authority, scheme)
             account == [authority |-> authority, scheme |-> scheme,
                         proof_count |-> 0, latest_digest |-> ZeroDigest]
  <2>1. key \in Keys
    BY DEF RegistryPda, Keys
  <2>2. account \in RegistryAccount
    BY RegistryAssumption DEF RegistryAccount
  <2>3. registries' = [registries EXCEPT ![key] = account]
    BY <1>1 DEF InitRegistry
  <2>4. RegistryPda(account.authority, account.scheme) = key
    OBVIOUS
  <2> HIDE DEF account
  <2>5. registries' \in [Keys -> RegistryAccount \cup {NoAccount}]
    BY <1>0, <2>1, <2>2, <2>3
  <2>6. \A k \in Keys : IsOpen(k)' =>
           RegistryPda(registries'[k].authority, registries'[k].scheme) = k
    BY <1>0, <2>1, <2>3, <2>4 DEF IsOpen
  <2>7. RecordsOf(key) \subseteq accepted
    BY DEF RecordsOf
  <2>8. Cardinality(RecordsOf(key)) \in Nat
    BY <1>0, <2>7, FS_Subset, FS_CardinalityType
  <2>9. inherited' \in [Keys -> Nat]
    BY <1>0, <1>1, <2>8 DEF InitRegistry
  <2>10. lamports' \in [Wallets -> Nat]
    BY <1>0, <1>1, RegistryAssumption DEF InitRegistry, Wallets
  <2> QED
    BY <1>0, <1>1, <2>5, <2>6, <2>9, <2>10 DEF InitRegistry, TypeOK
<1>2. ASSUME NEW authority \in Authorities, NEW key \in Keys, NEW payer \in Wallets,
             NEW components \in Components, NEW claimed \in Digests, NEW steps \in StepCounts,
             AcceptProof(authority, key, payer, components, claimed, steps)
      PROVE  TypeOK'
  <2> DEFINE old == registries[key]
             count == IF old.proof_count < MaxU64 THEN old.proof_count + 1 ELSE old.proof_count
             account == [old EXCEPT !.proof_count = count, !.latest_digest = claimed]
             record == NewRecord(key, claimed, steps)
  <2>1. old \in RegistryAccount
    BY <1>0, <1>2 DEF AcceptProof, IsOpen
  <2>2. account \in RegistryAccount /\ account.authority = old.authority
        /\ account.scheme = old.scheme
    <3>1. old.authority \in Authorities /\ old.scheme \in SchemeBytes
          /\ old.proof_count \in 0 .. MaxU64
      BY <2>1 DEF RegistryAccount
    <3>2. count \in 0 .. MaxU64
      BY <3>1, RegistryAssumption
    <3> HIDE DEF count, old
    <3>3. account = [authority |-> old.authority, scheme |-> old.scheme,
                     proof_count |-> count, latest_digest |-> claimed]
      BY <2>1, UpdatedAccount
    <3> HIDE DEF account
    <3> QED
      BY <3>1, <3>2, <3>3 DEF RegistryAccount
  <2>3. registries' = [registries EXCEPT ![key] = account]
    BY <1>0, <1>2, <2>1 DEF AcceptProof, Accepting
  <2>4. RegistryPda(account.authority, account.scheme) = key
    BY <1>0, <1>2, <2>2 DEF AcceptProof
  <2> HIDE DEF account
  <2>5. registries' \in [Keys -> RegistryAccount \cup {NoAccount}]
    BY <1>0, <2>2, <2>3
  <2>6. \A k \in Keys : IsOpen(k)' =>
           RegistryPda(registries'[k].authority, registries'[k].scheme) = k
    BY <1>0, <2>3, <2>4 DEF IsOpen
  <2>7. accepted' = accepted \cup {record} /\ record \in AcceptedProof
    BY <1>0, <1>2 DEF AcceptProof, AcceptedProof, NewRecord
  <2>8. accepted' \in SUBSET AcceptedProof /\ IsFiniteSet(accepted')
    BY <1>0, <2>7, FS_AddElement
  <2>9. lamports' \in [Wallets -> Nat]
    BY <1>0, <1>2, RegistryAssumption DEF AcceptProof
  <2> QED
    BY <1>0, <1>2, <2>5, <2>6, <2>8, <2>9 DEF AcceptProof, TypeOK
<1>3. ASSUME NEW authority \in Authorities, NEW key \in Keys, CloseRegistry(authority, key)
      PROVE  TypeOK'
  <2>1. registries' \in [Keys -> RegistryAccount \cup {NoAccount}]
    BY <1>0, <1>3 DEF CloseRegistry
  <2>2. \A k \in Keys : IsOpen(k)' =>
           RegistryPda(registries'[k].authority, registries'[k].scheme) = k
    BY <1>0, <1>3 DEF CloseRegistry, IsOpen
  <2>3. lamports' \in [Wallets -> Nat]
    BY <1>0, <1>3, RegistryAssumption DEF CloseRegistry, Wallets
  <2> QED
    BY <1>0, <1>3, <2>1, <2>2, <2>3 DEF CloseRegistry, TypeOK
<1>4. CASE Tick
  BY <1>0, <1>4, RegistryAssumption DEF Tick, TypeOK, IsOpen
<1>5. CASE UNCHANGED vars
  BY <1>0, <1>5 DEF vars, TypeOK, IsOpen
<1> QED
  BY <1>1, <1>2, <1>3, <1>4, <1>5 DEF Next

\* Every account is one the program's types allow, and it lives at the address
\* its own authority and scheme derive.
THEOREM TypeCorrect == Spec => []TypeOK
BY InitType, NextType, PTL DEF Spec

----------------------------------------------------------------------------
(* What each instruction does to the accounts of every registry.           *)

\* A record belongs to the registry it names, and to no other.
LEMMA InitEffect ==
    ASSUME TypeOK, NEW authority \in Authorities, NEW scheme \in SchemeBytes,
           InitRegistry(authority, scheme)
    PROVE  LET key == RegistryPda(authority, scheme)
           IN  /\ key \in Keys /\ ~IsOpen(key) /\ IsOpen(key)'
               /\ registries'[key].proof_count = 0
               /\ registries'[key].latest_digest = ZeroDigest
               /\ inherited'[key] = Cardinality(RecordsOf(key))
               /\ \A k \in Keys \ {key} : registries'[k] = registries[k]
                                        /\ inherited'[k] = inherited[k]
               /\ accepted' = accepted
<1> DEFINE key == RegistryPda(authority, scheme)
           account == [authority |-> authority, scheme |-> scheme,
                       proof_count |-> 0, latest_digest |-> ZeroDigest]
<1>1. key \in Keys
  BY DEF RegistryPda, Keys
<1>2. account \in RegistryAccount
  BY RegistryAssumption DEF RegistryAccount
<1>3. account # NoAccount
  BY <1>2, AddressAssumption
<1> QED
  BY <1>1, <1>3 DEF InitRegistry, IsOpen, TypeOK

LEMMA AcceptEffect ==
    ASSUME TypeOK, NEW authority \in Authorities, NEW key \in Keys, NEW payer \in Wallets,
           NEW components \in Components, NEW claimed \in Digests, NEW steps \in StepCounts,
           AcceptProof(authority, key, payer, components, claimed, steps)
    PROVE  LET record == NewRecord(key, claimed, steps)
           IN  /\ record \in AcceptedProof /\ record \notin accepted
               /\ accepted' = accepted \cup {record}
               /\ RecordsOf(key)' = RecordsOf(key) \cup {record}
               /\ \A k \in Keys \ {key} : registries'[k] = registries[k]
                                        /\ RecordsOf(k)' = RecordsOf(k)
               /\ IsOpen(key) /\ IsOpen(key)'
               /\ registries[key].proof_count \in 0 .. MaxU64
               /\ registries'[key].proof_count =
                      (IF registries[key].proof_count < MaxU64
                       THEN registries[key].proof_count + 1 ELSE registries[key].proof_count)
               /\ registries'[key].latest_digest = claimed
               /\ claimed = ProofDigest(registries[key].scheme, components)
               /\ registries[key].scheme = key[2] /\ registries[key].scheme \in Schemes
               /\ inherited' = inherited /\ slot' = slot
<1> DEFINE record == NewRecord(key, claimed, steps)
<1>1. /\ registries \in [Keys -> RegistryAccount \cup {NoAccount}]
      /\ accepted \in SUBSET AcceptedProof /\ slot \in 0 .. MaxSlot
      /\ IsOpen(key) /\ registries[key] \in RegistryAccount
  BY DEF TypeOK, AcceptProof, IsOpen
<1>2. record \in AcceptedProof /\ accepted' = accepted \cup {record}
  BY <1>1 DEF AcceptProof, AcceptedProof, NewRecord
<1>3. record.registry = key /\ record.digest = claimed
  BY DEF NewRecord
<1>4. record \notin accepted
  BY <1>3 DEF AcceptProof, RecordsOf
<1> HIDE DEF record
<1>5. RecordsOf(key)' = RecordsOf(key) \cup {record}
  BY <1>2, <1>3 DEF RecordsOf
<1>6. \A k \in Keys \ {key} : RecordsOf(k)' = RecordsOf(k)
  BY <1>2, <1>3 DEF RecordsOf
<1>7. registries'[key] = [registries[key] EXCEPT
                            !.proof_count = IF @ < MaxU64 THEN @ + 1 ELSE @,
                            !.latest_digest = claimed]
      /\ \A k \in Keys \ {key} : registries'[k] = registries[k]
  BY <1>1 DEF AcceptProof, Accepting
<1>8. /\ registries[key].proof_count \in 0 .. MaxU64
      /\ registries'[key].latest_digest = claimed
      /\ registries'[key].proof_count =
            (IF registries[key].proof_count < MaxU64
             THEN registries[key].proof_count + 1 ELSE registries[key].proof_count)
      /\ registries'[key].authority = registries[key].authority
  BY <1>1, <1>7 DEF RegistryAccount
<1>9. IsOpen(key)'
  <2>1. registries'[key] \in RegistryAccount
    <3>1. registries'[key] = [authority |-> registries[key].authority,
                              scheme |-> registries[key].scheme,
                              proof_count |-> registries'[key].proof_count,
                              latest_digest |-> claimed]
      BY <1>1, <1>7, <1>8 DEF RegistryAccount
    <3>2. registries'[key].proof_count \in 0 .. MaxU64
      BY <1>8, RegistryAssumption
    <3>3. registries[key].authority \in Authorities /\ registries[key].scheme \in SchemeBytes
      BY <1>1 DEF RegistryAccount
    <3> QED
      BY <3>1, <3>2, <3>3 DEF RegistryAccount
  <2> QED
    BY <2>1, AddressAssumption DEF IsOpen
<1>10. /\ claimed = ProofDigest(registries[key].scheme, components)
       /\ registries[key].scheme \in Schemes
       /\ <<authority, registries[key].scheme>> = key
       /\ inherited' = inherited /\ slot' = slot
  BY DEF AcceptProof, RegistryPda
<1>11. registries[key].scheme = key[2]
  BY <1>10
<1> QED
  BY <1>1, <1>2, <1>4, <1>5, <1>6, <1>7, <1>8, <1>9, <1>10, <1>11 DEF record

LEMMA CloseEffect ==
    ASSUME TypeOK, NEW authority \in Authorities, NEW key \in Keys,
           CloseRegistry(authority, key)
    PROVE  /\ IsOpen(key) /\ ~IsOpen(key)'
           /\ \A k \in Keys \ {key} : registries'[k] = registries[k]
           /\ accepted' = accepted /\ inherited' = inherited /\ slot' = slot
BY DEF CloseRegistry, IsOpen, TypeOK

----------------------------------------------------------------------------
(* The counter.                                                            *)

\* The counter does not say how many proofs were inherited; the induction needs
\* to know that they are all still there.
CounterInv ==
    \A key \in Keys : IsOpen(key) =>
        /\ inherited[key] \in 0 .. Cardinality(RecordsOf(key))
        /\ registries[key].proof_count =
              AtMost(Cardinality(RecordsOf(key)) - inherited[key], MaxU64)

LEMMA RecordsFinite ==
    ASSUME TypeOK, NEW key \in Keys
    PROVE  IsFiniteSet(RecordsOf(key)) /\ Cardinality(RecordsOf(key)) \in Nat
<1>1. RecordsOf(key) \subseteq accepted /\ IsFiniteSet(accepted)
  BY DEF RecordsOf, TypeOK
<1> QED
  BY <1>1, FS_Subset, FS_CardinalityType

LEMMA NextCounter == TypeOK /\ CounterInv /\ [Next]_vars => CounterInv'
<1> SUFFICES ASSUME TypeOK, CounterInv, [Next]_vars, NEW k \in Keys, IsOpen(k)'
             PROVE  /\ inherited'[k] \in 0 .. Cardinality(RecordsOf(k)')
                    /\ registries'[k].proof_count =
                          AtMost(Cardinality(RecordsOf(k)') - inherited'[k], MaxU64)
  BY DEF CounterInv
<1>0. /\ IsFiniteSet(RecordsOf(k)) /\ Cardinality(RecordsOf(k)) \in Nat
      /\ IsOpen(k) => /\ inherited[k] \in 0 .. Cardinality(RecordsOf(k))
                      /\ registries[k].proof_count =
                            AtMost(Cardinality(RecordsOf(k)) - inherited[k], MaxU64)
  BY RecordsFinite DEF CounterInv
<1>1. ASSUME NEW authority \in Authorities, NEW scheme \in SchemeBytes,
             InitRegistry(authority, scheme)
      PROVE  /\ inherited'[k] \in 0 .. Cardinality(RecordsOf(k)')
             /\ registries'[k].proof_count =
                   AtMost(Cardinality(RecordsOf(k)') - inherited'[k], MaxU64)
  <2> DEFINE key == RegistryPda(authority, scheme)
  <2>1. /\ registries'[key].proof_count = 0
        /\ inherited'[key] = Cardinality(RecordsOf(key))
        /\ \A j \in Keys \ {key} : registries'[j] = registries[j]
                                 /\ inherited'[j] = inherited[j]
        /\ accepted' = accepted
    BY <1>1, InitEffect
  <2> HIDE DEF key
  <2>2. RecordsOf(k)' = RecordsOf(k)
    BY <2>1 DEF RecordsOf
  <2>3. CASE k = key
    BY <1>0, <2>1, <2>2, <2>3, RegistryAssumption DEF AtMost
  <2>4. CASE k # key
    BY <1>0, <2>1, <2>2, <2>4 DEF IsOpen
  <2> QED
    BY <2>3, <2>4
<1>2. ASSUME NEW authority \in Authorities, NEW key \in Keys, NEW payer \in Wallets,
             NEW components \in Components, NEW claimed \in Digests, NEW steps \in StepCounts,
             AcceptProof(authority, key, payer, components, claimed, steps)
      PROVE  /\ inherited'[k] \in 0 .. Cardinality(RecordsOf(k)')
             /\ registries'[k].proof_count =
                   AtMost(Cardinality(RecordsOf(k)') - inherited'[k], MaxU64)
  <2> DEFINE record == NewRecord(key, claimed, steps)
  <2>1. /\ record \notin accepted
        /\ RecordsOf(key)' = RecordsOf(key) \cup {record}
        /\ \A j \in Keys \ {key} : registries'[j] = registries[j]
                                 /\ RecordsOf(j)' = RecordsOf(j)
        /\ IsOpen(key)
        /\ registries'[key].proof_count =
              (IF registries[key].proof_count < MaxU64
               THEN registries[key].proof_count + 1 ELSE registries[key].proof_count)
        /\ inherited' = inherited
    BY <1>2, AcceptEffect
  <2> HIDE DEF record
  <2>2. CASE k = key
    <3>1. record \notin RecordsOf(k)
      BY <2>1 DEF RecordsOf
    <3>2. Cardinality(RecordsOf(k)') = Cardinality(RecordsOf(k)) + 1
      BY <1>0, <2>1, <2>2, <3>1, FS_AddElement
    <3> QED
      BY <1>0, <2>1, <2>2, <3>2, RegistryAssumption DEF AtMost
  <2>3. CASE k # key
    BY <1>0, <2>1, <2>3 DEF IsOpen
  <2> QED
    BY <2>2, <2>3
<1>3. ASSUME NEW authority \in Authorities, NEW key \in Keys, CloseRegistry(authority, key)
      PROVE  /\ inherited'[k] \in 0 .. Cardinality(RecordsOf(k)')
             /\ registries'[k].proof_count =
                   AtMost(Cardinality(RecordsOf(k)') - inherited'[k], MaxU64)
  BY <1>0, <1>3, CloseEffect DEF IsOpen, RecordsOf
<1>4. CASE UNCHANGED <<registries, accepted, inherited>>
  BY <1>0, <1>4 DEF IsOpen, RecordsOf
<1> QED
  BY <1>1, <1>2, <1>3, <1>4 DEF Next, Tick, vars

\* The counter of an open registry is the number of proofs recorded since it
\* was opened, whatever was recorded at its address before.
THEOREM Counter == Spec => []CountMatchesRecords
<1>1. Init => CounterInv
  BY DEF Init, CounterInv, IsOpen
<1>2. CounterInv => CountMatchesRecords
  BY DEF CounterInv, CountMatchesRecords
<1> QED
  BY <1>1, <1>2, NextCounter, TypeCorrect, PTL DEF Spec

----------------------------------------------------------------------------
(* The tip.                                                                *)

\* The clock never runs behind a record.
ClockInv == \A record \in accepted : record.accepted_slot <= slot

\* TipIsNewest at one key, with the account and its records as parameters.
TipIn(registry, records) ==
    IF registry.proof_count = 0
    THEN registry.latest_digest = ZeroDigest
    ELSE \E tip \in records :
            /\ tip.digest = registry.latest_digest
            /\ \A record \in records : record.accepted_slot <= tip.accepted_slot

LEMMA TipByKey ==
    TipIsNewest <=> \A key \in Keys : IsOpen(key) => TipIn(registries[key], RecordsOf(key))
BY DEF TipIsNewest, TipIn

LEMMA NextTip == TypeOK /\ ClockInv /\ TipIsNewest /\ [Next]_vars => ClockInv' /\ TipIsNewest'
<1> SUFFICES ASSUME TypeOK, ClockInv, TipIsNewest, [Next]_vars
             PROVE  ClockInv' /\ TipIsNewest'
  OBVIOUS
<1> DEFINE TipAt(key) == TipIn(registries[key], RecordsOf(key))
           TipsAt == \A k \in Keys : IsOpen(k)' => TipAt(k)'
<1>0. /\ slot \in Nat /\ accepted \in SUBSET AcceptedProof
      /\ \A record \in accepted : record.accepted_slot \in Nat
      /\ \A k \in Keys : IsOpen(k) => TipAt(k)
  BY RegistryAssumption, TipByKey DEF TypeOK, AcceptedProof

\* The tip of a registry that a step leaves alone.
<1>1. ASSUME NEW k \in Keys, registries'[k] = registries[k], RecordsOf(k)' = RecordsOf(k),
             IsOpen(k)'
      PROVE  TipAt(k)'
  <2>1. IsOpen(k)
    BY <1>1 DEF IsOpen
  <2>2. TipIn(registries[k], RecordsOf(k))
    BY <1>0, <2>1
  <2>3. TipIn(registries'[k], RecordsOf(k)')
    BY <1>1, <2>2
  <2> QED
    BY <2>3
<1> HIDE DEF TipAt
<1>2. ASSUME NEW authority \in Authorities, NEW scheme \in SchemeBytes,
             InitRegistry(authority, scheme)
      PROVE  ClockInv' /\ TipsAt
  <2> DEFINE key == RegistryPda(authority, scheme)
  <2>1. /\ registries'[key].proof_count = 0
        /\ registries'[key].latest_digest = ZeroDigest
        /\ \A k \in Keys \ {key} : registries'[k] = registries[k]
        /\ accepted' = accepted /\ slot' = slot
    BY <1>2, InitEffect DEF InitRegistry
  <2> HIDE DEF key
  <2>2. ClockInv'
    BY <2>1 DEF ClockInv
  <2>3. \A k \in Keys : RecordsOf(k)' = RecordsOf(k)
    BY <2>1 DEF RecordsOf
  <2>4. TipIn(registries'[key], RecordsOf(key)')
    BY <2>1 DEF TipIn
  <2>5. TipAt(key)'
    BY <2>4 DEF TipAt
  <2> QED
    BY <1>1, <2>1, <2>2, <2>3, <2>5
<1>3. ASSUME NEW authority \in Authorities, NEW key \in Keys, NEW payer \in Wallets,
             NEW components \in Components, NEW claimed \in Digests, NEW steps \in StepCounts,
             AcceptProof(authority, key, payer, components, claimed, steps)
      PROVE  ClockInv' /\ TipsAt
  <2> DEFINE record == NewRecord(key, claimed, steps)
  <2>1. /\ accepted' = accepted \cup {record}
        /\ RecordsOf(key)' = RecordsOf(key) \cup {record}
        /\ \A k \in Keys \ {key} : registries'[k] = registries[k]
                                 /\ RecordsOf(k)' = RecordsOf(k)
        /\ registries[key].proof_count \in 0 .. MaxU64
        /\ registries'[key].proof_count =
              (IF registries[key].proof_count < MaxU64
               THEN registries[key].proof_count + 1 ELSE registries[key].proof_count)
        /\ registries'[key].latest_digest = claimed
        /\ slot' = slot
    BY <1>3, AcceptEffect
  <2>2. record.digest = claimed /\ record.accepted_slot = slot
    BY DEF NewRecord
  <2> HIDE DEF record
  <2>3. ClockInv'
    BY <1>0, <2>1, <2>2 DEF ClockInv
  <2>4. registries'[key].proof_count # 0
    BY <2>1, RegistryAssumption
  <2>5. \A old \in RecordsOf(key)' : old.accepted_slot <= record.accepted_slot
    BY <1>0, <2>1, <2>2 DEF ClockInv, RecordsOf
  <2>6. record \in RecordsOf(key)'
    BY <2>1
  <2>7. TipIn(registries'[key], RecordsOf(key)')
    BY <2>1, <2>2, <2>4, <2>5, <2>6 DEF TipIn
  <2>8. TipAt(key)'
    BY <2>7 DEF TipAt
  <2> QED
    BY <1>1, <2>1, <2>3, <2>8
<1>4. ASSUME NEW authority \in Authorities, NEW key \in Keys, CloseRegistry(authority, key)
      PROVE  ClockInv' /\ TipsAt
  <2>1. /\ ~IsOpen(key)' /\ accepted' = accepted /\ slot' = slot
        /\ \A k \in Keys \ {key} : registries'[k] = registries[k]
    BY <1>4, CloseEffect
  <2>2. \A k \in Keys : RecordsOf(k)' = RecordsOf(k)
    BY <2>1 DEF RecordsOf
  <2>3. ClockInv'
    BY <2>1 DEF ClockInv
  <2> QED
    BY <1>1, <2>1, <2>2, <2>3
<1>5. ASSUME UNCHANGED <<registries, accepted>>, slot' \in Nat, slot <= slot'
      PROVE  ClockInv' /\ TipsAt
  <2>1. \A k \in Keys : RecordsOf(k)' = RecordsOf(k)
    BY <1>5 DEF RecordsOf
  <2>2. ClockInv'
    BY <1>0, <1>5 DEF ClockInv
  <2> QED
    BY <1>1, <1>5, <2>1, <2>2
<1>6. ClockInv' /\ TipsAt
  <2>1. CASE Tick
    <3>1. UNCHANGED <<registries, accepted>> /\ slot' \in Nat /\ slot <= slot'
      BY <1>0, <2>1 DEF Tick
    <3> QED
      BY <1>5, <3>1
  <2>2. CASE UNCHANGED vars
    <3>1. UNCHANGED <<registries, accepted>> /\ slot' \in Nat /\ slot <= slot'
      BY <1>0, <2>2 DEF vars
    <3> QED
      BY <1>5, <3>1
  <2> QED
    BY <1>2, <1>3, <1>4, <2>1, <2>2 DEF Next
<1>7. \A k \in Keys : IsOpen(k)' => TipIn(registries'[k], RecordsOf(k)')
  BY <1>6 DEF TipAt
<1>8. TipIsNewest'
  BY <1>7 DEF TipIsNewest, TipIn
<1> QED
  BY <1>6, <1>8

\* The latest digest of an open registry names its newest record.
THEOREM Tip == Spec => []TipIsNewest
<1>1. Init => ClockInv /\ TipIsNewest
  BY DEF Init, ClockInv, TipIsNewest, IsOpen
<1> QED
  BY <1>1, NextTip, TypeCorrect, PTL DEF Spec

----------------------------------------------------------------------------
(* The scheme.                                                             *)

LEMMA NextScheme == TypeOK /\ RecordsBindScheme /\ [Next]_vars => RecordsBindScheme'
<1> SUFFICES ASSUME TypeOK, RecordsBindScheme, [Next]_vars PROVE RecordsBindScheme'
  OBVIOUS
<1>1. CASE UNCHANGED accepted
  BY <1>1 DEF RecordsBindScheme
<1>2. ASSUME NEW authority \in Authorities, NEW key \in Keys, NEW payer \in Wallets,
             NEW components \in Components, NEW claimed \in Digests, NEW steps \in StepCounts,
             AcceptProof(authority, key, payer, components, claimed, steps)
      PROVE  RecordsBindScheme'
  <2> DEFINE record == NewRecord(key, claimed, steps)
  <2>1. /\ accepted' = accepted \cup {record}
        /\ claimed = ProofDigest(registries[key].scheme, components)
        /\ registries[key].scheme = key[2] /\ registries[key].scheme \in Schemes
    BY <1>2, AcceptEffect
  <2>2. record.registry = key /\ record.digest = claimed
    BY DEF NewRecord
  <2>3. claimed.scheme = SchemeFromU8(key[2])
    BY <2>1 DEF ProofDigest
  <2> HIDE DEF record
  <2> QED
    BY <2>1, <2>2, <2>3 DEF RecordsBindScheme
<1> QED
  BY <1>1, <1>2 DEF Next, InitRegistry, CloseRegistry, Tick, vars

\* Nothing is ever recorded under a scheme it was not hashed with.
THEOREM SchemeBound == Spec => []RecordsBindScheme
<1>1. Init => RecordsBindScheme
  BY DEF Init, RecordsBindScheme
<1> QED
  BY <1>1, NextScheme, TypeCorrect, PTL DEF Spec

----------------------------------------------------------------------------
(* The lamports.                                                           *)

OpenKeys == {key \in Keys : IsOpen(key)}

\* Conservation counts the open registries, so there must be finitely many: any
\* byte may be offered as a scheme, but each instruction opens one registry.
LamportsInv == IsFiniteSet(OpenKeys) /\ LamportsConserved

LEMMA WalletsFinite == IsFiniteSet(Wallets)
BY RegistryAssumption, FS_Union DEF Wallets

\* What the equation of LamportsConserved is made of.
LEMMA LamportsTypes ==
    ASSUME TypeOK, LamportsInv
    PROVE  /\ SumFunction(lamports) \in Int
           /\ Cardinality(OpenKeys) \in Nat /\ Cardinality(accepted) \in Nat
           /\ RegistryRent \in Nat /\ ProofRent \in Nat
           /\ SumFunction(lamports) + RegistryRent * Cardinality(OpenKeys)
                + ProofRent * Cardinality(accepted) = Funds * Cardinality(Wallets)
<1>1. lamports \in [Wallets -> Int]
  BY DEF TypeOK
<1>2. PICK sum \in [SUBSET Wallets -> Int] :
         SumFunction(lamports) = sum[Wallets] /\ Sums(sum, lamports, Wallets)
  BY <1>1, WalletsFinite, SumUnfolds
<1> QED
  BY <1>2, FS_CardinalityType, RegistryAssumption DEF TypeOK, LamportsInv, LamportsConserved, OpenKeys

\* A wallet pays, or is paid.
LEMMA BalanceChange ==
    ASSUME TypeOK, NEW wallet \in Wallets, NEW balance \in Int,
           lamports' = [lamports EXCEPT ![wallet] = balance]
    PROVE  SumFunction(lamports') = (SumFunction(lamports) - lamports[wallet]) + balance
<1>1. lamports \in [Wallets -> Int]
  BY DEF TypeOK
<1> QED
  BY <1>1, WalletsFinite, SumChange

LEMMA NextLamports == TypeOK /\ LamportsInv /\ [Next]_vars => LamportsInv'
<1> SUFFICES ASSUME TypeOK, LamportsInv, [Next]_vars PROVE LamportsInv'
  OBVIOUS
<1>0. /\ SumFunction(lamports) \in Int /\ IsFiniteSet(OpenKeys) /\ IsFiniteSet(accepted)
      /\ Cardinality(OpenKeys) \in Nat /\ Cardinality(accepted) \in Nat
      /\ RegistryRent \in Nat /\ ProofRent \in Nat
  BY LamportsTypes DEF TypeOK, LamportsInv
<1> DEFINE Total(sum, registered, recorded) == sum + RegistryRent * registered + ProofRent * recorded
<1>00. Total(SumFunction(lamports), Cardinality(OpenKeys), Cardinality(accepted))
       = Funds * Cardinality(Wallets)
  BY LamportsTypes
<1>1. ASSUME NEW authority \in Authorities, NEW scheme \in SchemeBytes,
             InitRegistry(authority, scheme)
      PROVE  LamportsInv'
  <2> DEFINE key == RegistryPda(authority, scheme)
  <2>1. /\ key \in Keys /\ ~IsOpen(key) /\ IsOpen(key)' /\ accepted' = accepted
        /\ \A k \in Keys \ {key} : registries'[k] = registries[k]
    BY <1>1, InitEffect
  <2>2. lamports[authority] \in Int /\ authority \in Wallets
    BY DEF TypeOK, Wallets
  <2> DEFINE balance == lamports[authority] - RegistryRent
  <2>3. balance \in Int /\ lamports' = [lamports EXCEPT ![authority] = balance]
    BY <1>0, <1>1, <2>2 DEF InitRegistry
  <2> HIDE DEF balance
  <2> HIDE DEF key
  <2>4. OpenKeys' = OpenKeys \cup {key} /\ key \notin OpenKeys
    BY <2>1 DEF IsOpen, OpenKeys
  <2>5. IsFiniteSet(OpenKeys') /\ Cardinality(OpenKeys') = Cardinality(OpenKeys) + 1
    BY <1>0, <2>4, FS_AddElement
  <2>6. SumFunction(lamports') = SumFunction(lamports) - RegistryRent
    <3>1. SumFunction(lamports') = (SumFunction(lamports) - lamports[authority]) + balance
      BY <2>2, <2>3, BalanceChange
    <3> QED
      BY <1>0, <2>2, <3>1 DEF balance
  <2>7. Total(SumFunction(lamports) - RegistryRent, Cardinality(OpenKeys) + 1, Cardinality(accepted))
        = Total(SumFunction(lamports), Cardinality(OpenKeys), Cardinality(accepted))
    BY <1>0
  <2> HIDE DEF Total
  <2>8. Total(SumFunction(lamports'), Cardinality(OpenKeys'), Cardinality(accepted'))
        = Funds * Cardinality(Wallets)
    BY <1>00, <2>1, <2>5, <2>6, <2>7
  <2> QED
    BY <2>5, <2>8 DEF LamportsInv, LamportsConserved, OpenKeys, Total
<1>2. ASSUME NEW authority \in Authorities, NEW key \in Keys, NEW payer \in Wallets,
             NEW components \in Components, NEW claimed \in Digests, NEW steps \in StepCounts,
             AcceptProof(authority, key, payer, components, claimed, steps)
      PROVE  LamportsInv'
  <2> DEFINE record == NewRecord(key, claimed, steps)
  <2>1. /\ record \notin accepted /\ accepted' = accepted \cup {record}
        /\ \A k \in Keys \ {key} : registries'[k] = registries[k]
        /\ IsOpen(key) /\ IsOpen(key)'
    BY <1>2, AcceptEffect
  <2>2. lamports[payer] \in Int
    BY DEF TypeOK
  <2> DEFINE balance == lamports[payer] - ProofRent
  <2>3. balance \in Int /\ lamports' = [lamports EXCEPT ![payer] = balance]
    BY <1>0, <1>2, <2>2 DEF AcceptProof
  <2> HIDE DEF balance
  <2> HIDE DEF record
  <2>4. OpenKeys' = OpenKeys
    BY <2>1 DEF IsOpen, OpenKeys
  <2>5. Cardinality(accepted') = Cardinality(accepted) + 1
    BY <1>0, <2>1, FS_AddElement
  <2>6. SumFunction(lamports') = SumFunction(lamports) - ProofRent
    <3>1. SumFunction(lamports') = (SumFunction(lamports) - lamports[payer]) + balance
      BY <2>2, <2>3, BalanceChange
    <3> QED
      BY <1>0, <2>2, <3>1 DEF balance
  <2>7. Total(SumFunction(lamports) - ProofRent, Cardinality(OpenKeys), Cardinality(accepted) + 1)
        = Total(SumFunction(lamports), Cardinality(OpenKeys), Cardinality(accepted))
    BY <1>0
  <2> HIDE DEF Total
  <2>8. Total(SumFunction(lamports'), Cardinality(OpenKeys'), Cardinality(accepted'))
        = Funds * Cardinality(Wallets)
    BY <1>00, <2>4, <2>5, <2>6, <2>7
  <2> QED
    BY <1>0, <2>4, <2>8 DEF LamportsInv, LamportsConserved, OpenKeys, Total
<1>3. ASSUME NEW authority \in Authorities, NEW key \in Keys, CloseRegistry(authority, key)
      PROVE  LamportsInv'
  <2>1. /\ IsOpen(key) /\ ~IsOpen(key)' /\ accepted' = accepted
        /\ \A k \in Keys \ {key} : registries'[k] = registries[k]
    BY <1>3, CloseEffect
  <2>2. lamports[authority] \in Int /\ authority \in Wallets
    BY DEF TypeOK, Wallets
  <2> DEFINE balance == lamports[authority] + RegistryRent
  <2>3. balance \in Int /\ lamports' = [lamports EXCEPT ![authority] = balance]
    BY <1>0, <1>3, <2>2 DEF CloseRegistry
  <2> HIDE DEF balance
  <2>4. OpenKeys' = OpenKeys \ {key} /\ key \in OpenKeys
    BY <2>1 DEF IsOpen, OpenKeys
  <2>5. IsFiniteSet(OpenKeys') /\ Cardinality(OpenKeys') = Cardinality(OpenKeys) - 1
    BY <1>0, <2>4, FS_RemoveElement
  <2>6. SumFunction(lamports') = SumFunction(lamports) + RegistryRent
    <3>1. SumFunction(lamports') = (SumFunction(lamports) - lamports[authority]) + balance
      BY <2>2, <2>3, BalanceChange
    <3> QED
      BY <1>0, <2>2, <3>1 DEF balance
  <2>7. Total(SumFunction(lamports) + RegistryRent, Cardinality(OpenKeys) - 1, Cardinality(accepted))
        = Total(SumFunction(lamports), Cardinality(OpenKeys), Cardinality(accepted))
    BY <1>0
  <2> HIDE DEF Total
  <2>8. Total(SumFunction(lamports'), Cardinality(OpenKeys'), Cardinality(accepted'))
        = Funds * Cardinality(Wallets)
    BY <1>00, <2>1, <2>5, <2>6, <2>7
  <2> QED
    BY <2>5, <2>8 DEF LamportsInv, LamportsConserved, OpenKeys, Total
<1>4. CASE UNCHANGED <<registries, accepted, lamports>>
  BY <1>4 DEF LamportsInv, LamportsConserved, OpenKeys, IsOpen
<1> QED
  BY <1>1, <1>2, <1>3, <1>4 DEF Next, Tick, vars

\* However many registries are opened, closed and opened again, and whoever
\* pays for a proof, no lamport is lost or made.
THEOREM Conserved == Spec => []LamportsConserved
<1>1. Init => LamportsInv
  <2> SUFFICES ASSUME Init PROVE LamportsInv
    OBVIOUS
  <2>1. OpenKeys = {}
    BY DEF Init, OpenKeys, IsOpen
  <2>2. IsFiniteSet(OpenKeys) /\ Cardinality(OpenKeys) = 0 /\ Cardinality(accepted) = 0
    BY <2>1, FS_EmptySet DEF Init
  <2>3. Funds \in Int /\ RegistryRent \in Int /\ ProofRent \in Int
    BY RegistryAssumption
  <2>4. SumFunction(lamports) = Funds * Cardinality(Wallets)
    BY <2>3, WalletsFinite, SumConstant DEF Init
  <2>5. Funds * Cardinality(Wallets) \in Int
    BY <2>3, WalletsFinite, FS_CardinalityType
  <2> QED
    BY <2>2, <2>3, <2>4, <2>5 DEF LamportsInv, LamportsConserved, OpenKeys
<1>2. LamportsInv => LamportsConserved
  BY DEF LamportsInv
<1> QED
  BY <1>1, <1>2, NextLamports, TypeCorrect, PTL DEF Spec

----------------------------------------------------------------------------
(* Refinement.                                                             *)

\* The program implements ProofLog: each proof recorded at most once in a
\* registry, only while it is open, and never forgotten or changed.
THEOREM Refinement == Spec => KeepsLog
<1>1. Init => Log!Init
  BY DEF Init, Log!Init, IsOpen
<1>2. TypeOK /\ [Next]_vars => [Log!Next]_(Log!vars)
  <2> SUFFICES ASSUME TypeOK, [Next]_vars PROVE Log!Next \/ UNCHANGED Log!vars
    OBVIOUS
  <2> DEFINE open == {key \in Keys : IsOpen(key)}
  <2>1. ASSUME NEW authority \in Authorities, NEW scheme \in SchemeBytes,
               InitRegistry(authority, scheme)
        PROVE  Log!Next
    <3> DEFINE key == RegistryPda(authority, scheme)
    <3>1. /\ key \in Keys /\ ~IsOpen(key) /\ IsOpen(key)' /\ accepted' = accepted
          /\ \A k \in Keys \ {key} : registries'[k] = registries[k]
      BY <2>1, InitEffect
    <3> HIDE DEF key
    <3>2. open' = open \cup {key}
      BY <3>1 DEF IsOpen
    <3>3. Log!Open(key)
      BY <3>1, <3>2 DEF Log!Open
    <3> QED
      BY <3>1, <3>3 DEF Log!Next
  <2>2. ASSUME NEW authority \in Authorities, NEW key \in Keys, NEW payer \in Wallets,
               NEW components \in Components, NEW claimed \in Digests,
               NEW steps \in StepCounts,
               AcceptProof(authority, key, payer, components, claimed, steps)
        PROVE  Log!Next
    <3> DEFINE record == NewRecord(key, claimed, steps)
    <3>1. /\ record \in AcceptedProof /\ accepted' = accepted \cup {record}
          /\ \A k \in Keys \ {key} : registries'[k] = registries[k]
          /\ IsOpen(key) /\ IsOpen(key)'
      BY <2>2, AcceptEffect
    <3>2. record.registry = key /\ record.digest = claimed
      BY DEF NewRecord
    <3>3. \A old \in accepted : old.registry = key => old.digest # claimed
      BY <2>2 DEF AcceptProof, RecordsOf
    <3> HIDE DEF record
    <3>4. open' = open
      BY <3>1 DEF IsOpen
    <3>5. Log!Record(record)
      BY <3>1, <3>2, <3>3, <3>4 DEF Log!Record
    <3> QED
      BY <3>1, <3>5 DEF Log!Next
  <2>3. ASSUME NEW authority \in Authorities, NEW key \in Keys, CloseRegistry(authority, key)
        PROVE  Log!Next
    <3>1. /\ IsOpen(key) /\ ~IsOpen(key)' /\ accepted' = accepted
          /\ \A k \in Keys \ {key} : registries'[k] = registries[k]
      BY <2>3, CloseEffect
    <3>2. open' = open \ {key}
      BY <3>1 DEF IsOpen
    <3>3. Log!Close(key)
      BY <3>1, <3>2 DEF Log!Close
    <3> QED
      BY <3>3 DEF Log!Next
  <2>4. CASE UNCHANGED <<registries, accepted>>
    BY <2>4 DEF Log!vars, IsOpen
  <2> QED
    BY <2>1, <2>2, <2>3, <2>4 DEF Next, Tick, vars
<1> QED
  BY <1>1, <1>2, TypeCorrect, PTL DEF Spec, KeepsLog, Log!Spec
============================================================================
