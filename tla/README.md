# Verification of sxtnt

TLA+ models of the sxtnt folding coprocessor, checked with TLC on small
instances and proved with TLAPS for every value of the constants. Paths are
relative to the repository root (`src/` here); line numbers are those of the
commit the models were written from.

Run `tlc -config FoldFresh.cfg MCOpenings` to check a configuration and
`tlapm FoldChainProofs.tla` to check a module's proofs. `PROJECT.json` lists the
runs, the mutants, the source lines behind each definition, the hazards, the
findings and the theorems.

## The system

A client produces sub-proofs as relaxed-R1CS *accumulators*. A prover folds a
list of them into one (`crates/core`), a relying party replays the fold
(`crates/verifier`), and the digest of the result is recorded on a Solana
program (`crates/onchain`) through a TypeScript SDK (`sdk/typescript`).

| Component | State | Operations | What makes it correct |
| --- | --- | --- | --- |
| Field and challenge reduction (`core/src/lib.rs`, `fold.rs`) | none | decode, encode, mask and reduce a hash | a challenge is a scalar; decoding accepts one representative |
| Accumulator (`core/src/accumulator.rs`, `r1cs.rs`) | `u`, two commitments, rows, step counter | `fresh`, `check`, `check_via_cs`, `merge` | merging satisfied accumulators gives a satisfied one; the two checks agree |
| Folding loop (`core/src/fold.rs`) | current accumulator, step records | `prove_step`, `verify_step`, `fold_chain` | satisfied in, satisfied out; a bad instance leaves a trace; the records determine the result; errors come from the input |
| Schemes (`core/src/scheme.rs`, `halo2_compat.rs`) | a proof | `prove` and `verify` for Nova, SuperNova, HyperNova | an honest proof verifies; a record that does not replay is refused |
| Commitments (`core/src/commitment.rs`) | key | commit, open, combine | combining matches what folding does to the message and its blinder |
| Verifier (`verifier/src/lib.rs`) | none | `verify_proof` | accepts iff the challenges replay and the result is satisfied |
| Transcript (`verifier/src/transcript.rs`, `challenge.rs`) | hash state, absorb and squeeze counts | absorb, squeeze, labelled challenges | equal histories give equal challenges, different ones do not; no squeeze before an absorb |
| On-chain program (`onchain/src/lib.rs`) | registry and accepted-proof accounts, balances, clock | `init_registry`, `accept_proof`, `close_registry` | a log: no duplicate, nothing forgotten, counter and tip follow it, rent adds up and is charged to whom it concerns |
| Client SDK (`sdk/typescript/src`) | none of its own | build and submit transactions, read a registry | a resubmission records a proof once; a lost or late transaction is settled in time; a read stays true |
| Circuit templates (`sdk/typescript/src/circuit.ts`) | none | parse and digest a manifest | different manifests have different digests |

How they interact: `verify_proof` calls a scheme's `verify`, which calls
`fold_chain` again and compares; `fold_chain` calls `prove_step`, which hashes
both accumulators and the public input into a challenge and calls `merge`,
which calls `Commitment::combine`. The SDK and the program share only the digest
and the account addresses. The `Transcript` of the verifier crate is used by
nothing else in the repository: the loop hashes directly.

What is hard here: the algebra of a chain of folds (an error in the cross term
may cancel in short chains); defects that must survive every later fold because
only the last accumulator is checked; accumulators that arrive serialised, with
bytes that do not decode; loops that fail halfway; counters that saturate;
accounts that are closed and created again at the same address while other
accounts still refer to it; several authorities and payers sharing balances;
submissions that are lost or sent again. There are no threads and no
background tasks in the repository; its concurrency is that of transactions.

## Modules

| Module | Role |
| --- | --- |
| `Field` | scalars, 32-byte strings, `Combine`, the set of `Challenges` |
| `Accumulator` | accumulators, `Check`, `CheckViaCs`, `Merge` with its error paths; no state |
| `FoldChain` | the state machine of `fold_chain` and `prove_step`; its properties |
| `DefectFold` | abstract: folding as a recurrence on defects only |
| `MCFoldChain` | instances over the field of 5 elements |
| `Pedersen` | commitments, openings and `Accumulator::fresh`; no state |
| `Openings` | a prover from witnesses to the folded accumulator: `Pedersen` with the loop of `FoldChain` |
| `MCOpenings` | a key of two generators, witnesses of two rows |
| `FoldScheme` | prove, store, verify: the three schemes and `verify_proof`, over two runs of `FoldChain` |
| `MCFoldScheme` | one-row instances for it |
| `Transcript` | the verifier crate's transcripts and challenge builders, several side by side |
| `MCTranscript` | arguments that would run together without lengths and labels |
| `Registry` | the on-chain program; its properties |
| `ProofLog` | abstract: a log of accepted proofs |
| `MCRegistry` | symmetries of `Registry`'s constants |
| `Client` | `Registry` with calls of the SDK, their transactions, a cluster and reads |
| `MCClient` | submissions for it |
| `InductionTheorems` | induction over a set, folds over a set, sums of functions |
| `AccumulatorTheorems` | modular arithmetic, and what `Merge` and the checks do to an accumulator |
| `FoldChainProofs` | theorems about `FoldChain` |
| `OpeningsProofs` | theorems about `Openings` |
| `FoldSchemeProofs` | theorems about `FoldScheme` |
| `TranscriptProofs` | theorems about `Transcript` |
| `RegistryProofs` | theorems about `Registry` |
| `ClientProofs` | theorems about `Client` |

An operator named as a mutant is a deliberate bug, kept beside the definition it
breaks. It is used by nothing; substituting it for that definition makes TLC
report the property it is paired with in `PROJECT.json`, which shows the property
can fail.

### Field, Accumulator, FoldChain

A 32-byte string is the number it encodes, in `0 .. ByteRange - 1`; it decodes
when it is below `Order`. The sizes are constants, constrained only by
`1 < Order <= MaskRange <= ByteRange`. In the instances `Order` is 5,
`MaskRange` 8 and `ByteRange` 32, so that as in the code a masked hash may
exceed the modulus and needs the fall-back reduction.

A commitment is a point of a group of order `Order`, represented by its discrete
logarithm, or `Undecodable`. `combine` treats the latter as the identity, as the
code's `unwrap_or` does. Nothing in these modules takes a logarithm; the
representation only makes the group operation computable.

The challenge of a step is a hash of both accumulators, the public input and the
step counter. `ProveStep(r)` takes any value such a hash can reduce to: every
property holds whatever the hash function is.

`FoldChain` keeps more than the code does: `accs` is the sequence of all values
of the loop's `acc`. Its last element is the program's state, and the properties
refer to the others. `outcome` is what the function returns. `RejectEmpty`,
`Seed`, `ProveStep`, `MergeFails` and `Finish` are the early return, the
initialisation, an iteration, the `?` in the loop and the final `Ok`.

`Check`, `CheckViaCs` and `MergeOutcome` return the row number the code
returns, chosen as the code's loops choose it. `check_via_cs` decodes all rows
before it evaluates any, so the two checks may name different rows of an
accumulator with two bad rows; `ChecksAgree` therefore compares acceptance.

### Pedersen, Openings

`Pedersen` adds what the loop does not look at: how a commitment is made. A key
is any sequence of points with a blinding generator, so how `deterministic`
hashes them from a seed does not matter; `BlinderHash` is any function to 32
bytes, masked and reduced to a blinder as a challenge is. `CommitOutcome` and
`FreshOutcome` are the error paths, `Commit`, `VerifyOpening` and
`FreshAccumulator` the results. The multi-exponentiation is a sum over the
positions of the message, reduced once where the code reduces as it goes.

`Openings` runs the loop of `FoldChain` on accumulators that `FreshAccumulator`
makes from witnesses, and remembers the witnesses. It has no action of its own:
a step is a step of the loop. `CommitmentsOpen` says which message and which
blinder open the commitments at every point of the chain.

### FoldScheme

One prover and one relying party, each with a `fold_chain` of its own: the module
instantiates `FoldChain` as `Prover` and as `Verifier` over separate variables,
and `Folds` and `Replays` are its actions with the challenge pinned to what is
hashed. `Proves` is the rest of `prove`, `Refuses` and `Concludes` the checks of
`verify` (or `verify_proof`) before and after the replay. The code of the three
schemes differs in what they append to the public input (`Augment`) and what they
compare (`Agrees`); the rest is shared. `received.entry` says whether the relying
party calls `verify_proof` or the `verify` of the very scheme object the prover
used, which is the only way it can know the selector or the lane count.

The hash is `oracle`: a query that has not been asked draws any challenge that no
other query has drawn; a repeated query gets its old answer. What a query holds
is what `squeeze_challenge` feeds the hash: no scheme, no commitment key, no rows.
Two different queries never share a challenge, the usual idealisation; it needs
`Order` to exceed the number of folds of both sides (4 here, `Order` 5). The
properties that must hold for any hash are those of `FoldChain`.

`Receives...` are the environment's. The relying party holds the proof intact,
with its own copy of the instances (the same, reordered, the last one replaced, or
none) and any public input; or damaged in one part for the same statement
(`Damaged`). This is a model of mistakes and corruption; it does not explore every
proof someone could construct.

The Pasta modulus exceeds the scalar field's (`FoldSchemeAssumption`), so every
scalar converts and the zero of `unwrap_or` is never used. Scalars that arise from
`u16` and `u8` are below `Order`. `u16::MAX` is 3 in the runs.

### Transcript

Every party has a transcript and makes any sequence of the calls of `Transcript`
and `ChallengeBuilder`, interleaved with the others'. `pasts`, `drawn` and
`refused` are history: what a party has called, which challenges came out of it,
and where `squeeze_scalar` returned `EmptyTranscript`.

blake3 is taken to be injective: a hash value is the record of what was hashed.
Hash values are 32 bytes at fixed places of the code's inputs, so they are kept
apart from the bytes around them. All else is a sequence of bytes, in which two
inputs are equal when the code's would be: labels, lengths and messages follow
each other without separators, as in the code. Whether histories can be confused
is therefore decided by the framing and not by the model. A length is one number,
where the code writes eight bytes. A squeeze begins with the bytes `sq`, an absorb
with the length of its label; in the code the two coincide only for a label of at
least 29043 bytes (0x7173), in the model for one of 115, and no label comes near
(`LabelsAssumption`). The builder's labels are distinct, and shorter than the code's;
a message that is absorbed directly has a label of its own.

### Registry

One action per instruction. The runtime executes an instruction alone and
undoes it on error, so an instruction that fails is not an action; the guard is
the conjunction of the Anchor constraints of the accounts context (existence,
seeds, `has_one`, payer's balance) and the handler's `require!`s. A PDA is the
tuple of its seeds. A digest is the record of what is hashed, which is sound
because every part but the last has a fixed length, the last is
length-prefixed, and no scheme tag is a prefix of another. `inherited` is a
history variable: it appears in no guard.

Assumed of the environment: the accounts an instruction writes are passed as
writable (for `close_registry` that includes the authority, whose account context
does not mark it `mut`); wallets pay whole rents only, without the runtime's
minimum balance; no lamports are sent to a PDA before it is created. The
program never closes accepted-proof accounts, so their rent is never returned,
and the model has no action that does.

### Client

`Client` extends `Registry`: its variables are the program's and four of its own.
A call of `submitProof` goes through the phases `asking` (at its first await, for a
blockhash), `sending` (at its second, with a signed transaction), and `returned`
or `threw`; `failed` is a call that threw before it had signed anything. `Submit`,
`Sign`, `NoBlockhash` and `Send` are the code between two awaits. Nothing the
program does between them is seen by the call.

`network` holds the transactions a node has received and `landed` those executed
with success. `Land` is the cluster: it executes a transaction while its
blockhash is good, at most once, in any order with others and with what
authorities do (`Elsewhere`); it need never do so, which stands for a loss, for a
failed execution (which changes nothing) and for a refusal. `Send` may throw
although the node has the transaction. The caller may make another call for the
same proof at any time: a retry is a second element of `Calls`, signed with a
blockhash of its own and perhaps another payer or step count. A blockhash may
have aged before it is returned, hence the choice of `expiry`.

A submission says how the registry's address is derived: `"tag"` as this SDK
does, `"byte"` as the program does and as clients generated from the program do.
No registry has an address derived from a tag (see the findings), so the
properties about recorded proofs are about clients of the second kind that behave
like this one in all other respects; without them no transaction would ever
land and the properties would hold of nothing.

Left out: fees, and the instruction's encoding. The SDK writes a one-byte
instruction tag where an Anchor program expects an eight-byte discriminator, a
further difference that the model does not represent. `initRegistryIx` only
builds an instruction, with the address `submitProof` uses.

## Runs

| Run | What it explores | Properties |
| --- | --- | --- |
| `fold_fresh` | chains of up to 4 fresh instances out of three witnesses (two satisfied, one not; a fourth is too long for the key and is refused), all challenges | `HidesAtMostTwice`, `IndexFollowsCounter`, `CommitmentsOpen`, `FoldsDefects` |
| `fold_any` | chains of up to 3 instances out of eight kinds: fresh, relaxed, malformed row, malformed `u`, short, undecodable commitment | `TypeOK`, `ClosedUnderFolding`, `ReplayDeterminesAccumulator`, `FailureBlamesAnInstance`, `SuccessMeansWellFormed`, `ChecksAgree` |
| `fold_relaxed` | chains of satisfied instances, one with an error term; *expected to fail* | `MergeKeepsCheckClosed` |
| `openings_error` | the same, chains of up to 2; *expected to fail* | `CommitsToError` |
| `fold_scheme` | chains of up to 3 one-row instances (satisfied, not, malformed), all schemes with two selectors and lane counts of 1 and 2, intact and damaged proofs, both ways to verify | `TypeOK`, `StepsVerify`, `HonestVerifies`, `NovaNoticesDamage`, `NovaBindsStatement` |
| `scheme_entry`, `scheme_relabelled` | the same with two satisfied instances; *expected to fail* | `EntryIffReplays`, `SchemeBindsProof` |
| `transcript` | 2 parties, 4 calls between them, accumulators, public inputs and messages chosen to be confusable | `TypeOK`, `StateIsHistory`, `ChallengesBindPast`, `ScalarsFollowAbsorb` |
| `registry` | 2 authorities, 1 sponsor, schemes 0, 1 and the unknown 3, 3 proofs, counter limit 2 | `TypeOK`, `RecordsBindScheme`, `LamportsConserved`, `CountMatchesRecords`, `TipIsNewest`, `KeepsLog` |
| `registry_reopened` | 1 authority, 1 sponsor, 3 proofs; *expected to fail* | `CountIsProofsAccepted` |
| `client` | 2 calls, each for one of four submissions: a proof, the same with another payer and step count, a proof of another scheme, one to the address this SDK derives; 3 slots | `OneRecordEach`, `PayersPayOnce`, `DigestsMatch`, `ReadsStayTrue`, `OutcomesSettle` |
| `client_addresses` | the SDK's own submission; *expected to fail* | `InstructionsNameTheRegistry` |

Bounds. `MaxChain` 4 lets three folds follow each other: the first on fresh
values, the second on an accumulator with an error term, the third after the
step counter (`MaxU64` 2) has saturated. Two rows suffice for the two rows to
differ in kind. The field of 5 is the smallest prime field in which "at most two
challenges" is far from "all". In `registry`, `Funds` bounds the number of accounts that exist
at a time: an authority can open, close and reopen a registry any number of times
(the graph is cyclic), and has enough left, with the sponsor, for more proofs
than the counter can count. Components and authorities are interchangeable and
are reduced by symmetry; no liveness is checked under symmetry. `CHECK_DEADLOCK`
is off: the loop returns, and a registry without funds may stop.

`transcript`: four calls let one party fall behind, or both differ in any call and
then draw; an accumulator's absorption is one call of four absorbs, so
`MaxU64` 2 saturates the counters. `StepCounts` has one value in `registry` and two
in `client`, where a resubmission may carry another. `client`: two calls are the
least in which a retry races its first attempt. `Validity` 1 lets a blockhash
be used in two slots. `Expired` is `MaxSlot`: a call that could sign a transaction
whose blockhash is good to the end of the bounded clock is stopped before it, so that
`OutcomesSettle` is checked over calls whose transactions expire within the
bound; the others end with `NoBlockhash`. `Funds` 2 lets a registry be closed and
opened again between two submissions.

### Fairness

`FairClientSpec` (`client`), the only specification with fairness: an await is answered
or rejected, which is what an RPC client with a timeout gives, and the code behind
it runs; the clock ticks. Nothing is fair about `Land`, about `Submit` or about
what authorities do: `OutcomesSettle` does not say that a proof is recorded, only
that from some time on one can tell. Symmetry is used in the runs without
liveness only.

### Findings

* `fold_relaxed`: `merge` adds `r * E_other` to the error term where folding in an
  accumulator with an error term needs `r^2 * E_other`
  (`core/src/accumulator.rs:162`). Two satisfied accumulators can merge to an
  unsatisfied one, contrary to lines 139-141. `fold_chain` over fresh instances
  never does this; a tree of folds would. `ClosedUnderFolding` states the exact
  condition: every instance but the seed has `E = 0`.
* `scheme_entry`: SuperNova and HyperNova never compare the recorded challenges
  with the replayed ones (`core/src/scheme.rs:206`, `:255`), so `verify_proof` accepts
  a proof in which one was changed, against its "if and only if"
  (`verifier/src/lib.rs:53-55`). The other direction fails as well: it replays with a
  selector read off the step indices, or with one lane (`:68-89`), and refuses an
  honest proof made with others. `HonestVerifies` and `NovaNoticesDamage` state
  what does hold.
* `openings_error`: after a fold `commitment_e` does not commit to the error terms,
  to which `merge` has added the cross term (`core/src/accumulator.rs:169`), against
  "Commitment to the error vector `E`" (`:68`). `CommitmentsOpen` says that it still
  opens to the zero vector.
* `scheme_relabelled`: the scheme is not part of what is hashed
  (`core/src/fold.rs:115`), so a SuperNova proof with selector `<<1>>` verifies
  once it is labelled HyperNova, against `core/src/scheme.rs:23-25` and
  `docs/threat-model.md:23-26`.
* `registry_reopened`: after `close_registry` and `init_registry`, `proof_count`
  restarts at zero while the earlier records remain
  (`onchain/src/lib.rs:57`), against "Number of proofs accepted so far"
  (`:183`) and "Monotonically increasing counter" (`onchain/src/types.rs:55`).
  `CountMatchesRecords` states what does hold.

* `client_addresses`: the SDK (`sdk/typescript/src/types.ts:78`) and the Rust mirror
  (`onchain/src/types.rs:67`) derive a registry's address from the scheme's tag, the
  program from its byte (`onchain/src/lib.rs:115`). A transaction the SDK builds for
  an open registry names an account that does not exist, and `fetchRegistry`
  returns `null`, against "so the SDK and the Rust side cannot drift"
  (`sdk/typescript/src/client.ts:13-15`).

Seen while reading and outside the models: the SDK's instruction tag is one byte
(above); `constraint_count`'s comment says one constraint per row, but both
products and the equality add one.

## Proofs

Every safety property of the runs that pass is a theorem, for every value of the
constants that the `...Assumption`s allow; TLC evaluates those in every run. Two
theorems have one hypothesis more, both facts of the code: `HidesAtMostTwiceAlways`
needs the order of the field to be prime (`OrderIsPrime`), which that of the
bn254 scalars is; `TypeCorrect` of `TranscriptProofs` needs the first eight bytes of
what a squeeze hands out to be read as a number (`PrefixIsNatural`). `Refinement`
of `FoldChainProofs` is about error-free instances, as `Accumulator::fresh` makes them.

### The tools: InductionTheorems, AccumulatorTheorems

The library's induction takes an operator as parameter, which no installed prover
can use. `SetInduction` states it of a *set* of naturals instead, and everything that
follows by induction over data rests on it: a fold over a set of positions is well
defined (`FoldExists`), and `SumFunction` takes one argument away (`SumRemove`),
changes with one (`SumChange`), is linear (`SumLinear`) and ignores zeros (`SumPad`).

`AccumulatorTheorems` derives from the division theorem that residues are unique,
that reduction may come before or after `+` and `*`, and from `OrderIsPrime` that
there are no zero divisors and that a quadratic has two roots (`RootsOfSquare`).
`ChallengesAreScalars` needs `FieldAssumption` alone. `MergeDefect` is the algebra of
folding: the defect of a merged row is the first row's plus `r^2` times the
second's, plus `r^2 - r` times the second's error term. It is an identity of
polynomials modulo `Order` and needs no prime.

### FoldChainProofs

* `TypeCorrect`: `TypeOK` is inductive; `MergeType` does the work, row by row.
* `Closure`: `ClosedUnderFolding`, inductive together with `TypeOK`; `MergeSatisfied`
  applies `MergeDefect` to all rows.
* `Refinement`: `Spec => FoldsDefects`. Every step maps to a `DefectFold` step or a
  stutter; `StepAbsorbs` is the case of `ProveStep`.
* `FailureBlames`, `SuccessVouches`: from the loop invariant `FoldedWell`: every
  accumulator a fold made is well formed and as long as the seed, and so is every
  instance folded so far. When `merge` fails, one side is malformed or the lengths
  differ, and only the new instance and an unchecked seed are left to blame.
* `IndexFollows`: inductive with the same statement about the accumulators' counters.
* `ChecksAgreeAlways`: holds of any accumulator.
* `HidesAtMostTwiceAlways`: pick a row with a defect, of the accumulator or of the
  instance. A challenge hides it only if it is a root of `d + r^2 * e`, which is not
  zero everywhere; over a prime field that leaves two (`FewChallengesHide`).
* `ReplayDetermines`: `ReplayDeterminesAccumulator`, a statement about the whole past of
  the loop. The invariant is `FoldsInstances`, that each accumulator is the merge
  of the one before with its instance; `Replayed` then goes by induction over the
  position: multiplying in the weight of one more step adds one term to the
  sum (`WeightedExtends`).

### OpeningsProofs

* `RunsTheLoop`: `OpeningsSpec => Spec`, so that the theorems above carry over.
* `CommitmentsOpenAlways`: `CommitmentsOpen`. Fresh commitments open by definition of
  `verify_opening`. For the others, `ReplayDetermines` says what was combined, and
  `BlindedCombines` that combining commitments is committing to the combined
  message under the combined blinder, for messages of different lengths
  (`BlindedPads`). `ReplayedOpening` puts them together along the chain.

### FoldSchemeProofs

The two runs of the loop are the same operators over different variables, so a run is
described by a predicate on its values: `Run` says that each of its folds was made
under the hash's answer to its own query, and why it ended. `SchemeInv` says that the
hash is injective, that both sides are runs, and what proof, received proof and
verdict have to do with them. Steps preserve it (`SchemeInvHolds`) because the hash
never changes an answer once given.

* `HonestVerifiesAlways`: two runs over the same instances and public input ask
  the same first query, get the same answer, merge to the same accumulator, and so
  on; by induction they are the same as far as both go, and end alike.
* `NovaNoticesDamageAlways`: for the same statement the two runs are the same
  (`SameRun`), so whatever Nova compares with its replay it compares with the
  prover's run. A proof whose tag was changed is otherwise its prover's (`Relabelled`).
* `NovaBindsStatementAlways`: equal challenges are answers to equal queries, and a
  query holds the public input and the visible parts of both accumulators, so
  step by step the instances agree in all that is hashed.
* `StepsVerifyAlways`: what `verify_step` recomputes is what `prove_step` did.
* `SchemeTypes`: `TypeOK`; every way to damage a proof leaves a proof.
* `ProverRunsTheLoop`: `Spec => Prover!Spec`. The prover's fold implements `FoldChain`, so
  that what holds of the loop under all challenges holds of every scheme's prover.

### TranscriptProofs

States are nested without bound, so no set holds them all; the proof relates them
to calls instead. `Leads(s, call, t)` says that a call takes a transcript from state
`s` to state `t`, a public input through a trace of states of its own
(`ItemTrace`, from `ItemFoldExists`). The framing is injective: a state after an
absorb determines label, message and state before it (`IntoInjective`), a
squeezed one its label, and the two, an output and a root are never confused
(`HashesApart`, `OutputIsNoAbsorb`). The label of the last absorb in a call tells
which kind of call it was (`EndsApart`), so `Leads` is injective in both state and
call (`LeadsInjective`). `StateAfter(past, s)` follows a whole past; by induction
backwards from equal states, `SameEnd` makes two pasts equal, and forwards from
equal seeds, `SameStart` makes two states equal.

`TranscriptInv`, the inductive invariant: every transcript is in the state after its
past, its counter is zero exactly when the past holds no absorb, every challenge
is the output of a squeeze after its past, and no past that was refused holds an
absorb. It quantifies over traces, so TLC cannot evaluate it; TLC checks what follows.

* `StateIsHistoryAlways`, `ChallengesBindPastAlways`, `ScalarsFollowAbsorbAlways`: the
  three properties, for any parties, arguments and number of calls.
* `TypeCorrect`: `TypeOK`.

### RegistryProofs

* `TypeCorrect`: accounts are well typed and live at the address their own fields
  derive, so `CloseRegistry` and `AcceptProof` never meet one that does not.
* `Counter`: `CountMatchesRecords` alone is not inductive. Saturation hides how
  many records there are, so `CounterInv` adds that `inherited` never exceeds them.
  The step for `AcceptProof` uses that the new record is not there yet, which
  is what the guard on the digest gives, and `FS_AddElement`.
* `Tip`: `TipIsNewest` needs `ClockInv`, that no record is newer than the clock.
* `SchemeBound`: `RecordsBindScheme` is inductive given `TypeOK`, which ties a
  registry's stored scheme to its address.
* `Conserved`: `LamportsConserved`, inductive once the open registries are known to be
  finitely many; an instruction changes one balance (`SumChange`) by the rent of
  the account it opens or closes.
* `Refinement`: `Spec => KeepsLog`.

### ClientProofs

* `ClientTypeCorrect`: `ClientSpec => []ClientTypeOK`, the types of calls, transactions
  and reads, which only the proofs need; and with it `RegistryUnderClients`:
  `ClientSpec => Spec`. A step of a client is an `AcceptProof` or leaves the
  program alone, so every theorem about `Registry` holds in their company.
* `OneRecord`: `ClientSpec => []OneRecordEach`. It is inductive only with its
  converse, `Recorded`: a landed transaction has a record, also after its registry
  is gone, and that record makes the program refuse the next one.
* `PayOnce`: `ClientSpec => []PayersPayOnce`. `PaidInv` adds that a wallet's open
  registries and its landed transactions are finitely many, which holds because
  each step opens or lands one. A step that does changes one balance, by one rent.
* `Digest`: `ClientSpec => []DigestsMatch`. A registry's address holds its scheme
  byte (`TypeOK`), so whatever was opened there last has the scheme the client
  used; addresses derived from a tag are no registry's (`TagIsNoKey`).
* `Reads`: `ClientSpec => []ReadsStayTrue`. It is true at the read by `Counter` and
  `Tip`, and stays true because records are never removed (`LogGrows`).

### Only model-checked

Liveness (`OutcomesSettle`): TLAPS reasons neither about fairness nor about
`ENABLED` here. The violations of the runs that are expected to fail are
behaviours TLC shows.

## Not modelled

blake3 and the curve (external libraries; used through what they return), and
with them how `CommitmentKey::deterministic` hashes its generators from a seed;
`eval_polynomial`, which only tests call; `constraint_count`, a report;
serialisation with serde; Anchor's discriminators and account sizes; transaction
fees; `native_pubkey_check`, `map_err` and `OnchainError`, which nothing uses; the
structs of the Rust mirror, which have no operations (its address helpers are
those of `Client`); the folding simulator of `docs/architecture.md`, which is not in
the repository.

The circuit templates (`sdk/typescript/src/circuit.ts`) parse a manifest and digest
it. They keep no state and meet nothing else of the system; what may go wrong with
them (two manifests with one digest) is listed as a hazard without a property.

## Plan

Done, in this order: the folding loop, the on-chain program, the schemes, the
transcript, the client, the commitments; the theorems above. What is left:

1. That the relying party's replay, from the moment a proof is received, implements
   `FoldChain` as the prover's fold does.
2. An abstract specification of the transcript (a map from histories to values drawn
   once) that it implements by the state after a past.
3. The circuit templates as a pure module, if a manifest digest gains a user.
