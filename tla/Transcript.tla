----------------------------- MODULE Transcript -----------------------------
(***************************************************************************)
(* The verifier crate's Fiat-Shamir transcript and the challenge builder   *)
(* on top of it: several parties, each with a transcript of its own, make  *)
(* any calls in any order.                                                 *)
(*                                                                         *)
(* blake3 is injective: a hash value is the record of its input, split     *)
(* into the hash values in it (32 bytes each, at fixed places) and the     *)
(* bytes around them.  Whether two inputs are told apart therefore rests   *)
(* on the lengths and tags that the code writes between its arguments.  A  *)
(* length is one number, where the code writes eight bytes.                *)
(***************************************************************************)
EXTENDS Integers, SequencesExt

CONSTANTS
    Parties,       \* those who keep a transcript: a prover, a verifier
    Seeds,         \* external seeds, byte strings as all arguments are
    Accumulators,  \* what identifies an accumulator: u, commitments, step
    PublicInputs,  \* sequences of scalars
    Messages,      \* labelled messages absorbed directly
    Counts,        \* arguments of selector and lane
    Prefix(_),     \* the number at the start of a hash value
    MaxU64,        \* the largest absorb or squeeze count
    MaxCalls       \* bound: calls that change a transcript, of all parties

ASSUME TranscriptAssumption ==
    /\ MaxU64 \in Nat \ {0} /\ MaxCalls \in Nat
    /\ Seeds \subseteq Seq(Nat) /\ PublicInputs \subseteq Seq(Nat) /\ Counts \subseteq Nat
    /\ Accumulators \subseteq [u : Seq(Nat), commitment_z : Seq(Nat),
                              commitment_e : Seq(Nat), step : Nat]
    /\ Messages \subseteq [label : Seq(Nat), msg : Seq(Nat)]

VARIABLES
    transcripts,  \* every party's transcript
    pasts,        \* history: every party's seed and its calls so far
    drawn,        \* history: every challenge drawn, and from which past
    refused       \* history: the pasts from which a scalar was refused

vars == <<transcripts, pasts, drawn, refused>>

Hash(hashes, bytes) == [hashes |-> hashes, bytes |-> bytes]

Sq == <<115, 113>>
Advance == <<97, 100, 118, 97, 110, 99, 101>>

\* Labels, distinct as in the code but shorter.
AccU == <<1, 1>>
AccCz == <<1, 2, 1>>
AccCe == <<1, 2, 2>>
AccStep == <<1, 3>>
PiLen == <<2, 1>>
PiItem == <<2, 2>>
Fold == <<3, 1>>
Commit == <<3, 2>>
Selector == <<3, 3>>
Lane == <<3, 4>>

\* What is absorbed directly carries a label of its own, and none so long that
\* its length reads as Sq: in the code, where a length is eight bytes, such a
\* label has 29043 bytes or more.
ASSUME LabelsAssumption ==
    \A m \in Messages :
        /\ m.label \notin {AccU, AccCz, AccCe, AccStep, PiLen, PiItem}
        /\ Len(m.label) < Sq[1]

----------------------------------------------------------------------------
\* u64::saturating_add(1), and the mutant that does not stop.
IncUnbounded(n) == n + 1
Inc(n) == IF n < MaxU64 THEN n + 1 ELSE n

\* Transcript::new; the root tag is the only input that holds no hash value.
NewTranscript(seed) ==
    [state |-> Hash(<<>>, <<Len(seed)>> \o seed), absorbs |-> 0, squeezes |-> 0]

Absorb(t, label, msg) ==
    [t EXCEPT !.state = Hash(<<@>>, <<Len(label)>> \o label \o <<Len(msg)>> \o msg),
              !.absorbs = Inc(@)]

\* What squeeze returns, and how it moves the transcript on.
Squeezed(t, label) == Hash(<<t.state>>, Sq \o <<Len(label)>> \o label)

\* Mutant: the state stays where it was.
AfterSqueezeStuck(t, label) == [t EXCEPT !.squeezes = Inc(@)]

AfterSqueeze(t, label) ==
    [t EXCEPT !.state = Hash(<<@, Squeezed(t, label)>>, Advance), !.squeezes = Inc(@)]

AbsorbAccumulator(t, acc) ==
    LET withU  == Absorb(t, AccU, acc.u)
        withCz == Absorb(withU, AccCz, acc.commitment_z)
        withCe == Absorb(withCz, AccCe, acc.commitment_e)
    IN  Absorb(withCe, AccStep, <<acc.step>>)

\* Mutant: the items come without their number.
AbsorbItems(t, pi) ==
    FoldLeft(LAMBDA s, p : Absorb(s, PiItem, <<p>>), t, pi)

AbsorbPublicInput(t, pi) ==
    FoldLeft(LAMBDA s, p : Absorb(s, PiItem, <<p>>), Absorb(t, PiLen, <<Len(pi)>>), pi)

\* A prefix reduced to one of n circuits or lanes; none gives the first.
Reduced(prefix, n) == IF n = 0 THEN 0 ELSE prefix % n

----------------------------------------------------------------------------
TypeOK ==
    /\ \A p \in Parties : /\ transcripts[p].absorbs \in 0 .. MaxU64
                          /\ transcripts[p].squeezes \in 0 .. MaxU64
                          /\ pasts[p].seed \in Seeds
    /\ \A c \in drawn : c.index = 0 \/ \E n \in Counts : c.index < n

Init ==
    /\ pasts \in [Parties -> [seed : Seeds, calls : {<<>>}]]
    /\ transcripts = [p \in Parties |-> NewTranscript(pasts[p].seed)]
    /\ drawn = {}
    /\ refused = {}

CallsMade == FoldFunction(LAMBDA past, n : Len(past.calls) + n, 0, pasts)

\* A call of party p has taken its transcript to t.
Moves(p, t, call) ==
    /\ CallsMade < MaxCalls
    /\ transcripts' = [transcripts EXCEPT ![p] = t]
    /\ pasts' = [pasts EXCEPT ![p].calls = Append(@, call)]

Absorbs(p) ==
    /\ \/ \E m \in Messages :
             Moves(p, Absorb(transcripts[p], m.label, m.msg), [message |-> m])
       \/ \E acc \in Accumulators :
             Moves(p, AbsorbAccumulator(transcripts[p], acc), [accumulator |-> acc])
       \/ \E pi \in PublicInputs :
             Moves(p, AbsorbPublicInput(transcripts[p], pi), [public_input |-> pi])
    /\ UNCHANGED <<drawn, refused>>

Squeezes(p, label, n) ==
    LET out == Squeezed(transcripts[p], label)
    IN  /\ Moves(p, AfterSqueeze(transcripts[p], label), [squeeze |-> label])
        /\ drawn' = drawn \cup {[label |-> label, past |-> pasts[p], out |-> out,
                                 index |-> Reduced(Prefix(out), n)]}
        /\ UNCHANGED refused

\* Mutant: any earlier call will do.
NothingAbsorbedNorSqueezed(t) == t.absorbs + t.squeezes = 0

\* The test that guards squeeze_scalar.
NothingAbsorbed(t) == t.absorbs = 0

\* fold_challenge and commit_blinder, through squeeze_scalar.
DrawsScalar(p) ==
    \E label \in {Fold, Commit} :
        /\ ~NothingAbsorbed(transcripts[p])
        /\ Squeezes(p, label, 0)

\* EmptyTranscript: the call returns before it touches the transcript.
RefusesScalar(p) ==
    /\ NothingAbsorbed(transcripts[p])
    /\ refused' = refused \cup {pasts[p]}
    /\ UNCHANGED <<transcripts, pasts, drawn>>

\* selector and lane squeeze directly: they ask for no absorb.
DrawsIndex(p) ==
    \E label \in {Selector, Lane}, n \in Counts : Squeezes(p, label, n)

Next == \E p \in Parties : Absorbs(p) \/ DrawsScalar(p) \/ RefusesScalar(p) \/ DrawsIndex(p)

Spec == Init /\ [][Next]_vars

----------------------------------------------------------------------------
\* Two transcripts are in the same state if and only if they were seeded alike
\* and have been through the same calls: a party that skips an absorb, swaps
\* two arguments, moves a byte from a label to its message or splits a public
\* input differs from the other for good (transcript.rs:18-20), and a call that
\* was refused makes no difference.
StateIsHistory ==
    \A p, q \in Parties : transcripts[p].state = transcripts[q].state <=> pasts[p] = pasts[q]

\* Whoever draws it and whenever, a challenge is that of its label and of all
\* that was absorbed and drawn before it: none is ever drawn again
\* (transcript.rs:5-6), equal pasts draw the same one, and none is a state of
\* the transcript, from which the next ones could be computed.
ChallengesBindPast ==
    /\ \A c, d \in drawn : c.out = d.out <=> (c.label = d.label /\ c.past = d.past)
    /\ \A c \in drawn, p \in Parties : c.out # transcripts[p].state

Absorbed(past) == \E i \in DOMAIN past.calls : "squeeze" \notin DOMAIN past.calls[i]

\* A scalar is refused exactly when nothing was absorbed (transcript.rs:90-92),
\* however many selectors and lanes were drawn before and however often the
\* counter of absorbs has saturated.
ScalarsFollowAbsorb ==
    /\ \A c \in drawn : c.label \in {Fold, Commit} => Absorbed(c.past)
    /\ \A past \in refused : ~Absorbed(past)
============================================================================
