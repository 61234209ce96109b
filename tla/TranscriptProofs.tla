-------------------------- MODULE TranscriptProofs --------------------------
(***************************************************************************)
(* That a transcript's state is its history and that a challenge is bound  *)
(* to its past, for any number of parties and any calls, and that scalars  *)
(* follow an absorb.                                                       *)
(***************************************************************************)
EXTENDS Transcript, InductionTheorems, SequenceTheorems

----------------------------------------------------------------------------
(* What a call does to a transcript.                                       *)

\* States are nested without bound, so that no set holds them all.
IsTranscript(t) ==
    t \in [state : {t.state}, absorbs : 0 .. MaxU64, squeezes : 0 .. MaxU64]

\* The state after one absorb, and the output and the state after one squeeze.
Into(s, label, msg) == Hash(<<s>>, <<Len(label)>> \o label \o <<Len(msg)>> \o msg)
IntoOne(s, label, x) == Into(s, label, <<x>>)
Output(s, label) == Hash(<<s>>, Sq \o <<Len(label)>> \o label)
Onward(s, label) == Hash(<<s, Output(s, label)>>, Advance)

LEMMA IncType ==
    ASSUME NEW n \in 0 .. MaxU64
    PROVE  Inc(n) \in 0 .. MaxU64 /\ Inc(n) # 0
BY TranscriptAssumption DEF Inc

LEMMA AbsorbEffect ==
    ASSUME NEW t, IsTranscript(t), NEW label, NEW msg
    PROVE  LET after == Absorb(t, label, msg)
           IN  IsTranscript(after) /\ after.absorbs # 0 /\ after.state = Into(t.state, label, msg)
<1> DEFINE s == Into(t.state, label, msg)
           n == Inc(t.absorbs)
<1>1. Absorb(t, label, msg) = [t EXCEPT !.state = s, !.absorbs = n]
  BY DEF Absorb, Into
<1>2. n \in 0 .. MaxU64 /\ n # 0
  <2>1. t.absorbs \in 0 .. MaxU64
    BY DEF IsTranscript
  <2> QED
    BY <2>1, IncType
<1> HIDE DEF n, s
<1> DEFINE after == Absorb(t, label, msg)
<1>3. IsTranscript(after) /\ after.absorbs = n /\ after.state = s
  BY <1>1, <1>2 DEF IsTranscript
<1> QED
  BY <1>2, <1>3 DEF s

LEMMA SqueezeEffect ==
    ASSUME NEW t, IsTranscript(t), NEW label
    PROVE  LET after == AfterSqueeze(t, label)
           IN  /\ IsTranscript(after) /\ after.absorbs = t.absorbs
               /\ after.state = Onward(t.state, label)
               /\ Squeezed(t, label) = Output(t.state, label)
<1> DEFINE s == Onward(t.state, label)
           n == Inc(t.squeezes)
<1>1. Squeezed(t, label) = Output(t.state, label)
  BY DEF Squeezed, Output
<1>2. AfterSqueeze(t, label) = [t EXCEPT !.state = s, !.squeezes = n]
  BY <1>1 DEF AfterSqueeze, Onward
<1>3. n \in 0 .. MaxU64
  <2>1. t.squeezes \in 0 .. MaxU64
    BY DEF IsTranscript
  <2> QED
    BY <2>1, IncType
<1> HIDE DEF n, s
<1> DEFINE after == AfterSqueeze(t, label)
<1>4. IsTranscript(after) /\ after.absorbs = t.absorbs /\ after.state = s
  BY <1>2, <1>3 DEF IsTranscript
<1> QED
  BY <1>1, <1>4 DEF s

IntoAccumulator(s, acc) ==
    Into(Into(Into(Into(s, AccU, acc.u), AccCz, acc.commitment_z), AccCe, acc.commitment_e),
         AccStep, <<acc.step>>)

LEMMA AccumulatorEffect ==
    ASSUME NEW t, IsTranscript(t), NEW acc
    PROVE  LET after == AbsorbAccumulator(t, acc)
           IN  IsTranscript(after) /\ after.absorbs # 0
                 /\ after.state = IntoAccumulator(t.state, acc)
<1> DEFINE withU  == Absorb(t, AccU, acc.u)
           withCz == Absorb(withU, AccCz, acc.commitment_z)
           withCe == Absorb(withCz, AccCe, acc.commitment_e)
           after == Absorb(withCe, AccStep, <<acc.step>>)
<1>0. after = AbsorbAccumulator(t, acc)
  BY DEF AbsorbAccumulator
<1>1. IsTranscript(withU) /\ withU.state = Into(t.state, AccU, acc.u)
  BY AbsorbEffect
<1>2. IsTranscript(withCz) /\ withCz.state = Into(withU.state, AccCz, acc.commitment_z)
  <2> HIDE DEF withU
  <2> QED
    BY <1>1, AbsorbEffect
<1>3. IsTranscript(withCe) /\ withCe.state = Into(withCz.state, AccCe, acc.commitment_e)
  <2> HIDE DEF withCz
  <2> QED
    BY <1>2, AbsorbEffect
<1>4. /\ IsTranscript(after) /\ after.absorbs # 0
      /\ after.state = Into(withCe.state, AccStep, <<acc.step>>)
  <2> HIDE DEF withCe
  <2> QED
    BY <1>3, AbsorbEffect
<1> HIDE DEF withU, withCz, withCe, after
<1>5. after.state = IntoAccumulator(t.state, acc)
  BY <1>1, <1>2, <1>3, <1>4 DEF IntoAccumulator
<1> QED
  BY <1>0, <1>4, <1>5

\* The states between the items of a public input.
ItemTrace(g, s, pi) ==
    /\ g[0] = IntoOne(s, PiLen, Len(pi))
    /\ \A k \in 1 .. Len(pi) : g[k] = IntoOne(g[k - 1], PiItem, pi[k])

\* The fold of AbsorbPublicInput, over every set of positions.
ItemFold(f, t, pi, S) ==
    f = [T \in SUBSET S |->
           IF T = {} THEN t
           ELSE Absorb(f[T \ {Max(T)}], PiItem, <<pi[Max(T)]>>)]

LEMMA MaxOfInterval ==
    ASSUME NEW n \in Nat, NEW T \in SUBSET (1 .. n), n \in T
    PROVE  Max(T) = n
<1>1. \A x \in T : n >= x
  OBVIOUS
<1>2. \A x \in T : (\A y \in T : x >= y) => x = n
  <2>1. SUFFICES ASSUME NEW x \in T, \A y \in T : x >= y PROVE x = n
    OBVIOUS
  <2>2. x >= n /\ n >= x /\ x \in Int
    BY <1>1, <2>1
  <2> QED
    BY <2>2
<1> QED
  BY <1>1, <1>2, Zenon DEF Max

\* It is well defined: a set of positions with m + 1 in it absorbs item m + 1 last.
LEMMA ItemFoldExists ==
    ASSUME NEW t, NEW pi
    PROVE  \A m \in Nat : \E f : ItemFold(f, t, pi, 1 .. m)
<1> DEFINE Good == {m \in Nat : \E f : ItemFold(f, t, pi, 1 .. m)}
<1>1. 0 \in Good
  <2> DEFINE f == [T \in SUBSET (1 .. 0) |-> t]
  <2>1. \A T \in SUBSET (1 .. 0) : T = {}
    OBVIOUS
  <2>2. ItemFold(f, t, pi, 1 .. 0)
    BY <2>1 DEF ItemFold
  <2> QED
    BY <2>2
<1>2. ASSUME NEW m \in Nat, m \in Good PROVE m + 1 \in Good
  <2>1. PICK f : ItemFold(f, t, pi, 1 .. m)
    BY <1>2
  <2> DEFINE Old == SUBSET (1 .. m)
             New == SUBSET (1 .. m + 1)
             Step(T) == IF m + 1 \in T
                        THEN Absorb(f[T \ {m + 1}], PiItem, <<pi[m + 1]>>) ELSE f[T]
             g == [T \in New |-> Step(T)]
  <2>2. \A T \in Old : f[T] = IF T = {} THEN t
                              ELSE Absorb(f[T \ {Max(T)}], PiItem, <<pi[Max(T)]>>)
    BY <2>1 DEF ItemFold
  <2>3. ASSUME NEW T \in New
        PROVE  /\ m + 1 \in T => Max(T) = m + 1 /\ T \ {m + 1} \in Old /\ T # {}
               /\ m + 1 \notin T => T \in Old
    <3>1. m + 1 \in T => Max(T) = m + 1
      BY MaxOfInterval
    <3> QED
      BY <3>1
  <2>4. \A T \in Old : T \in New /\ m + 1 \notin T
    OBVIOUS
  <2>5. \A T \in Old : g[T] = f[T]
    BY <2>4
  <2>6. ASSUME NEW T \in Old, T # {} PROVE T \ {Max(T)} \in Old
    OBVIOUS
  <2>7. g = [T \in New |-> g[T]] /\ \A T \in New : g[T] = Step(T)
    OBVIOUS
  <2> HIDE DEF g, Old, New
  <2>8. ASSUME NEW T \in New
        PROVE  g[T] = IF T = {} THEN t ELSE Absorb(g[T \ {Max(T)}], PiItem, <<pi[Max(T)]>>)
    <3>1. CASE m + 1 \in T
      <4>1. g[T] = Absorb(f[T \ {m + 1}], PiItem, <<pi[m + 1]>>)
        BY <2>7, <3>1
      <4>2. f[T \ {m + 1}] = g[T \ {m + 1}]
        BY <2>3, <2>5, <3>1
      <4> QED
        BY <2>3, <3>1, <4>1, <4>2
    <3>2. CASE m + 1 \notin T
      <4>1. T \in Old /\ g[T] = f[T]
        BY <2>3, <2>5, <3>2
      <4>2. T # {} => g[T \ {Max(T)}] = f[T \ {Max(T)}]
        BY <2>5, <2>6, <4>1
      <4> QED
        BY <2>2, <4>1, <4>2
    <3> QED
      BY <3>1, <3>2
  <2>9. ItemFold(g, t, pi, 1 .. m + 1)
    BY <2>7, <2>8 DEF ItemFold, New
  <2> QED
    BY <2>9
<1> HIDE DEF Good
<1>3. \A m \in Nat : m \in Good
  BY <1>1, <1>2, SetInduction
<1> QED
  BY <1>3 DEF Good

LEMMA PublicInputEffect ==
    ASSUME NEW t, IsTranscript(t), NEW pi \in Seq(Nat)
    PROVE  LET after == AbsorbPublicInput(t, pi)
           IN  /\ IsTranscript(after) /\ after.absorbs # 0
               /\ \E g : ItemTrace(g, t.state, pi) /\ after.state = g[Len(pi)]
<1> DEFINE n == Len(pi)
           base == Absorb(t, PiLen, <<n>>)
           Folds(f) == ItemFold(f, base, pi, DOMAIN pi)
           f == CHOOSE f : Folds(f)
           h == [k \in 0 .. n |-> f[1 .. k]]
           g == [k \in 0 .. n |-> h[k].state]
<1>1. n \in Nat /\ DOMAIN pi = 1 .. n
  OBVIOUS
<1>2. AbsorbPublicInput(t, pi) = f[1 .. n]
  <2>1. AbsorbPublicInput(t, pi) = f[DOMAIN pi]
    BY Zenon DEF AbsorbPublicInput, FoldLeft, MapThenFoldSet, ItemFold
  <2> QED
    BY <1>1, <2>1
<1>3. Folds(f)
  <2>1. \E x : ItemFold(x, base, pi, 1 .. n)
    BY <1>1, ItemFoldExists
  <2>2. \E x : Folds(x)
    BY <1>1, <2>1
  <2> HIDE DEF Folds
  <2> QED
    BY <2>2, Zenon
<1> HIDE DEF f
<1>4. f[{}] = base /\ \A T \in SUBSET (1 .. n) : T # {} =>
         f[T] = Absorb(f[T \ {Max(T)}], PiItem, <<pi[Max(T)]>>)
  BY <1>1, <1>3 DEF ItemFold
<1>5. h[0] = base
  <2>1. 1 .. 0 = {} /\ 0 \in 0 .. n
    BY <1>1
  <2> QED
    BY <1>4, <2>1
<1>6. ASSUME NEW k \in 1 .. n
      PROVE  k - 1 \in 0 .. n /\ k \in 0 .. n /\ h[k] = Absorb(h[k - 1], PiItem, <<pi[k]>>)
  <2>1. k \in Nat /\ k - 1 \in 0 .. n /\ k \in 0 .. n
    BY <1>1
  <2>2. 1 .. k \in SUBSET (1 .. n) /\ 1 .. k # {} /\ k \in 1 .. k
    <3>1. k \in 1 .. k /\ \A j \in 1 .. k : j \in 1 .. n
      BY <1>1
    <3> QED
      BY <3>1
  <2>3. Max(1 .. k) = k
    <3> DEFINE T == 1 .. k
    <3>1. T \in SUBSET (1 .. k) /\ k \in T
      BY <2>2
    <3> HIDE DEF T
    <3>2. Max(T) = k
      BY <2>1, <3>1, MaxOfInterval
    <3> QED
      BY <3>2 DEF T
  <2>4. (1 .. k) \ {k} = 1 .. k - 1
    BY <2>1
  <2>5. f[1 .. k] = Absorb(f[1 .. k - 1], PiItem, <<pi[k]>>)
    BY <1>4, <2>2, <2>3, <2>4
  <2>6. h[k] = f[1 .. k] /\ h[k - 1] = f[1 .. k - 1]
    BY <2>1
  <2> QED
    BY <2>1, <2>5, <2>6
<1>7. IsTranscript(base) /\ base.absorbs # 0 /\ base.state = Into(t.state, PiLen, <<n>>)
  BY AbsorbEffect
<1> DEFINE Good == {k \in Nat : k <= n => IsTranscript(h[k]) /\ h[k].absorbs # 0}
<1>8. h[n] = AbsorbPublicInput(t, pi) /\ n \in 0 .. n
  BY <1>1, <1>2
<1> HIDE DEF base, h
<1>9. 0 \in Good
  BY <1>5, <1>7
<1>10. ASSUME NEW k \in Nat, k \in Good PROVE k + 1 \in Good
  <2> SUFFICES ASSUME k + 1 <= n PROVE IsTranscript(h[k + 1]) /\ h[k + 1].absorbs # 0
    OBVIOUS
  <2>1. k + 1 \in 1 .. n /\ (k + 1) - 1 = k /\ IsTranscript(h[k])
    BY <1>1, <1>10
  <2>2. h[k + 1] = Absorb(h[k], PiItem, <<pi[k + 1]>>)
    BY <1>6, <2>1
  <2> QED
    BY <2>1, <2>2, AbsorbEffect
<1> HIDE DEF Good
<1>11. \A k \in Nat : k \in Good
  BY <1>9, <1>10, SetInduction
<1>12. ASSUME NEW k \in 0 .. n PROVE IsTranscript(h[k]) /\ h[k].absorbs # 0
  BY <1>1, <1>11 DEF Good
<1>13. ItemTrace(g, t.state, pi)
  <2>1. g[0] = Into(t.state, PiLen, <<n>>)
    BY <1>1, <1>5, <1>7
  <2>2. ASSUME NEW k \in 1 .. n PROVE g[k] = Into(g[k - 1], PiItem, <<pi[k]>>)
    <3>1. h[k] = Absorb(h[k - 1], PiItem, <<pi[k]>>) /\ IsTranscript(h[k - 1])
      BY <1>6, <1>12
    <3>2. h[k].state = Into(h[k - 1].state, PiItem, <<pi[k]>>)
      BY <3>1, AbsorbEffect
    <3> QED
      BY <1>6, <3>2
  <2> QED
    BY <2>1, <2>2 DEF ItemTrace, IntoOne
<1>14. g[n] = h[n].state
  BY <1>8
<1> HIDE DEF g
<1>15. ItemTrace(g, t.state, pi) /\ AbsorbPublicInput(t, pi).state = g[n]
  BY <1>8, <1>13, <1>14
<1> QED
  BY <1>8, <1>12, <1>15

----------------------------------------------------------------------------
(* What a hash value gives away.                                           *)

\* Two sequences joined the same way are joined from the same parts.
LEMMA Joined ==
    ASSUME NEW p \in Seq(Nat), NEW q \in Seq(Nat), NEW u \in Seq(Nat), NEW v \in Seq(Nat),
           Len(p) = Len(u), p \o q = u \o v
    PROVE  p = u /\ q = v
<1> DEFINE x == p \o q
           y == u \o v
<1>1. /\ Len(x) = Len(p) + Len(q)
      /\ \A i \in 1 .. Len(p) + Len(q) : x[i] = IF i <= Len(p) THEN p[i] ELSE q[i - Len(p)]
  BY ConcatProperties
<1>2. /\ Len(y) = Len(u) + Len(v)
      /\ \A i \in 1 .. Len(u) + Len(v) : y[i] = IF i <= Len(u) THEN u[i] ELSE v[i - Len(u)]
  BY ConcatProperties
<1>3. Len(p) \in Nat /\ Len(q) \in Nat /\ Len(v) \in Nat
  BY LenProperties
<1>4. x = y
  OBVIOUS
<1> HIDE DEF x, y
<1>5. Len(q) = Len(v)
  BY <1>1, <1>2, <1>3, <1>4
<1>6. ASSUME NEW i \in 1 .. Len(p) PROVE p[i] = u[i]
  BY <1>1, <1>2, <1>3, <1>4, <1>5
<1>7. ASSUME NEW i \in 1 .. Len(q) PROVE q[i] = v[i]
  <2>1. i + Len(p) \in 1 .. Len(p) + Len(q) /\ ~ (i + Len(p) <= Len(p)) /\ (i + Len(p)) - Len(p) = i
    BY <1>3
  <2> QED
    BY <1>1, <1>2, <1>3, <1>4, <1>5, <2>1
<1>8. p = u
  BY <1>6, SeqEqual
<1>9. q = v
  BY <1>5, <1>7, SeqEqual
<1> QED
  BY <1>8, <1>9

\* A number alone, in front of a sequence.
Numbered(n, q) == <<n>> \o q

LEMMA Framed ==
    ASSUME NEW m \in Nat, NEW n \in Nat, NEW q \in Seq(Nat), NEW v \in Seq(Nat),
           Numbered(m, q) = Numbered(n, v)
    PROVE  m = n /\ q = v
<1>1. <<m>> \in Seq(Nat) /\ <<n>> \in Seq(Nat) /\ Len(<<m>>) = Len(<<n>>)
  OBVIOUS
<1>2. <<m>> = <<n>> /\ q = v
  BY <1>1, Joined DEF Numbered
<1> QED
  BY <1>2

LEMMA Associates ==
    ASSUME NEW p \in Seq(Nat), NEW q \in Seq(Nat), NEW r \in Seq(Nat)
    PROVE  (p \o q) \o r = p \o (q \o r)
BY ConcatAssociative, SMTT(30)

\* The bytes of an absorb and of a squeeze, the first number apart.
LEMMA Frame ==
    ASSUME NEW a \in Seq(Nat), NEW b \in Seq(Nat)
    PROVE  /\ <<Len(a)>> \o a \o <<Len(b)>> \o b = <<Len(a)>> \o (a \o (<<Len(b)>> \o b))
           /\ <<Len(b)>> \o b \in Seq(Nat) /\ a \o (<<Len(b)>> \o b) \in Seq(Nat)
           /\ Len(a) \in Nat
<1> DEFINE la == <<Len(a)>>
           lb == <<Len(b)>>
           rest == lb \o b
<1>1. la \in Seq(Nat) /\ lb \in Seq(Nat) /\ Len(a) \in Nat
  OBVIOUS
<1> HIDE DEF la, lb
<1>2. rest \in Seq(Nat) /\ la \o a \in Seq(Nat) /\ a \o rest \in Seq(Nat)
  <2>1. rest \in Seq(Nat)
    BY <1>1, ConcatProperties
  <2> HIDE DEF rest
  <2> QED
    BY <1>1, <2>1, ConcatProperties
<1>3. ((la \o a) \o lb) \o b = (la \o a) \o rest
  <2> DEFINE p == la \o a
  <2>1. p \in Seq(Nat)
    BY <1>2
  <2> HIDE DEF p
  <2> HIDE DEF rest
  <2>2. (p \o lb) \o b = p \o (lb \o b)
    BY ONLY <1>1, <2>1, b \in Seq(Nat), Associates
  <2> QED
    BY <2>2, Zenon DEF p, rest
<1>4. (la \o a) \o rest = la \o (a \o rest)
  <2> HIDE DEF rest
  <2> QED
    BY <1>1, <1>2, Associates, SMTT(30)
<1> QED
  BY <1>1, <1>2, <1>3, <1>4 DEF la, lb

\* The lengths keep the label and the message of an absorb apart.
LEMMA FrameInjective ==
    ASSUME NEW a \in Seq(Nat), NEW b \in Seq(Nat), NEW c \in Seq(Nat), NEW d \in Seq(Nat),
           <<Len(a)>> \o a \o <<Len(b)>> \o b = <<Len(c)>> \o c \o <<Len(d)>> \o d
    PROVE  a = c /\ b = d
<1> DEFINE ab == <<Len(b)>> \o b
           cd == <<Len(d)>> \o d
           x == a \o ab
           y == c \o cd
<1>1. /\ ab \in Seq(Nat) /\ cd \in Seq(Nat) /\ x \in Seq(Nat) /\ y \in Seq(Nat)
      /\ Len(a) \in Nat /\ Len(c) \in Nat /\ Numbered(Len(a), x) = Numbered(Len(c), y)
  BY Frame DEF Numbered
<1> HIDE DEF x, y
<1>2. Len(a) = Len(c) /\ x = y
  BY <1>1, Framed
<1> HIDE DEF ab, cd
<1>3. a = c /\ ab = cd
  BY <1>1, <1>2, Joined DEF x, y
<1>4. Len(b) \in Nat /\ Len(d) \in Nat
  BY LenProperties
<1>5. b = d
  <2>1. Numbered(Len(b), b) = Numbered(Len(d), d)
    BY <1>3 DEF ab, cd, Numbered
  <2> QED
    BY <1>4, <2>1, Framed
<1> QED
  BY <1>3, <1>5

LEMMA SqueezeFrame ==
    ASSUME NEW a \in Seq(Nat)
    PROVE  /\ Sq \o <<Len(a)>> \o a = Sq \o (<<Len(a)>> \o a)
           /\ Sq \in Seq(Nat) /\ <<Len(a)>> \o a \in Seq(Nat) /\ Len(a) \in Nat
<1>1. <<Len(a)>> \in Seq(Nat) /\ Len(a) \in Nat
  OBVIOUS
<1>2. Sq \in Seq(Nat)
  BY DEF Sq
<1> QED
  BY <1>1, <1>2, ConcatAssociative, ConcatProperties

LEMMA SqueezeFrameInjective ==
    ASSUME NEW a \in Seq(Nat), NEW b \in Seq(Nat), Sq \o <<Len(a)>> \o a = Sq \o <<Len(b)>> \o b
    PROVE  a = b
<1> DEFINE x == <<Len(a)>> \o a
           y == <<Len(b)>> \o b
<1>1. /\ Sq \in Seq(Nat) /\ x \in Seq(Nat) /\ y \in Seq(Nat) /\ Sq \o x = Sq \o y
      /\ Len(a) \in Nat /\ Len(b) \in Nat
  BY SqueezeFrame
<1> HIDE DEF x, y
<1>2. x = y
  BY <1>1, Joined
<1>3. Numbered(Len(a), a) = Numbered(Len(b), b)
  BY <1>2 DEF x, y, Numbered
<1> QED
  BY <1>1, <1>3, Framed

\* An absorb determines the state before it, its label and its message.
LEMMA IntoInjective ==
    ASSUME NEW s, NEW t, NEW a \in Seq(Nat), NEW b \in Seq(Nat), NEW c \in Seq(Nat),
           NEW d \in Seq(Nat), Into(s, a, b) = Into(t, c, d)
    PROVE  s = t /\ a = c /\ b = d
<1> DEFINE x == <<Len(a)>> \o a \o <<Len(b)>> \o b
           y == <<Len(c)>> \o c \o <<Len(d)>> \o d
<1>1. [hashes |-> <<s>>, bytes |-> x] = [hashes |-> <<t>>, bytes |-> y]
  BY DEF Into, Hash
<1> HIDE DEF x, y
<1>2. <<s>> = <<t>> /\ x = y
  BY <1>1
<1>3. s = t
  BY <1>2
<1>4. a = c /\ b = d
  BY <1>2, FrameInjective DEF x, y
<1> QED
  BY <1>3, <1>4

LEMMA IntoOneInjective ==
    ASSUME NEW s, NEW t, NEW a \in Seq(Nat), NEW c \in Seq(Nat), NEW x \in Nat, NEW y \in Nat,
           IntoOne(s, a, x) = IntoOne(t, c, y)
    PROVE  s = t /\ a = c /\ x = y
<1> DEFINE b == <<x>>
           d == <<y>>
<1>1. b \in Seq(Nat) /\ d \in Seq(Nat) /\ Into(s, a, b) = Into(t, c, d)
  BY DEF IntoOne
<1> HIDE DEF b, d
<1>2. s = t /\ a = c /\ b = d
  BY <1>1, IntoInjective
<1> QED
  BY <1>2 DEF b, d

\* A squeeze determines the state before it and its label.
LEMMA OutputInjective ==
    ASSUME NEW s, NEW t, NEW a \in Seq(Nat), NEW b \in Seq(Nat), Output(s, a) = Output(t, b)
    PROVE  s = t /\ a = b
<1> DEFINE x == Sq \o <<Len(a)>> \o a
           y == Sq \o <<Len(b)>> \o b
<1>1. [hashes |-> <<s>>, bytes |-> x] = [hashes |-> <<t>>, bytes |-> y]
  BY DEF Output, Hash
<1> HIDE DEF x, y
<1>2. <<s>> = <<t>> /\ x = y
  BY <1>1
<1>3. s = t
  BY <1>2
<1>4. a = b
  BY <1>2, SqueezeFrameInjective DEF x, y
<1> QED
  BY <1>3, <1>4

LEMMA OnwardInjective ==
    ASSUME NEW s, NEW t, NEW a \in Seq(Nat), NEW b \in Seq(Nat), Onward(s, a) = Onward(t, b)
    PROVE  s = t /\ a = b
<1> DEFINE x == Output(s, a)
           y == Output(t, b)
<1>1. [hashes |-> <<s, x>>, bytes |-> Advance] = [hashes |-> <<t, y>>, bytes |-> Advance]
  BY DEF Onward, Hash
<1> HIDE DEF x, y
<1>2. <<s, x>> = <<t, y>>
  BY <1>1
<1>3. x = y
  BY <1>2
<1> QED
  BY <1>3, OutputInjective DEF x, y

\* A root, a state after an absorb, one after a squeeze and an output are never
\* the same hash value.
Root(seed) == Hash(<<>>, <<Len(seed)>> \o seed)

LEMMA HashesApart ==
    ASSUME NEW s, NEW t, NEW a, NEW b, NEW c, NEW seed
    PROVE  /\ Root(seed) # Into(s, a, b) /\ Root(seed) # Onward(s, a) /\ Root(seed) # Output(s, a)
           /\ Into(s, a, b) # Onward(t, c) /\ Output(s, a) # Onward(t, c)
<1>1. ASSUME NEW p, NEW q, NEW x, NEW y, Hash(p, x) = Hash(q, y) PROVE p = q
  <2>1. [hashes |-> p, bytes |-> x] = [hashes |-> q, bytes |-> y]
    BY <1>1 DEF Hash
  <2> QED
    BY <2>1
<1>2. Len(<<>>) = 0 /\ Len(<<s>>) = 1 /\ \A o : Len(<<t, o>>) = 2 /\ Len(<<s, o>>) = 2
  OBVIOUS
<1>3. <<>> # <<s>> /\ \A o : <<>> # <<s, o>> /\ <<s>> # <<t, o>>
  BY <1>2
<1> QED
  BY <1>1, <1>3 DEF Root, Into, Onward, Output

LEMMA OutputIsNoAbsorb ==
    ASSUME NEW s, NEW t, NEW a \in Seq(Nat), NEW b \in Seq(Nat), NEW c \in Seq(Nat),
           Len(a) < Sq[1]
    PROVE  Into(s, a, b) # Output(t, c)
<1> DEFINE x == <<Len(a)>> \o a \o <<Len(b)>> \o b
           y == Sq \o <<Len(c)>> \o c
           la == <<Len(a)>>
           rest == a \o (<<Len(b)>> \o b)
           tail == <<Len(c)>> \o c
<1> SUFFICES ASSUME Into(s, a, b) = Output(t, c) PROVE FALSE
  OBVIOUS
<1>1. [hashes |-> <<s>>, bytes |-> x] = [hashes |-> <<t>>, bytes |-> y]
  BY DEF Into, Output, Hash
<1>2. x = la \o rest /\ rest \in Seq(Nat) /\ la \in Seq(Nat) /\ Len(la) = 1 /\ la[1] = Len(a)
  <2>1. x = la \o rest /\ rest \in Seq(Nat) /\ Len(a) \in Nat
    BY Frame
  <2>2. la \in Seq(Nat) /\ Len(la) = 1 /\ la[1] = Len(a)
    BY <2>1
  <2> HIDE DEF x, la, rest
  <2> QED
    BY <2>1, <2>2
<1>3. y = Sq \o tail /\ tail \in Seq(Nat) /\ Sq \in Seq(Nat)
  BY SqueezeFrame
<1>4. Len(Sq) = 2 /\ Len(a) # Sq[1]
  <2>1. Len(Sq) = 2 /\ Sq[1] \in Nat
    BY DEF Sq
  <2>2. Len(a) \in Nat /\ Len(a) < Sq[1]
    BY LenProperties
  <2> HIDE DEF x, y, la, rest, tail
  <2> QED
    BY <2>1, <2>2
<1> HIDE DEF x, y, la, rest, tail
<1>5. x = y
  BY <1>1
<1>6. x[1] = Len(a)
  <2>1. 1 \in 1 .. Len(la) + Len(rest) /\ 1 <= Len(la)
    BY <1>2, LenProperties
  <2> QED
    BY <1>2, <2>1, ConcatProperties
<1>7. y[1] = Sq[1]
  <2>1. 1 \in 1 .. Len(Sq) + Len(tail) /\ 1 <= Len(Sq)
    BY <1>3, <1>4, LenProperties
  <2> QED
    BY <1>3, <2>1, ConcatProperties
<1> QED
  BY <1>4, <1>5, <1>6, <1>7

\* A root determines its seed.
LEMMA RootInjective ==
    ASSUME NEW a \in Seq(Nat), NEW b \in Seq(Nat), Root(a) = Root(b)
    PROVE  a = b
<1> DEFINE x == <<Len(a)>> \o a
           y == <<Len(b)>> \o b
<1>1. [hashes |-> <<>>, bytes |-> x] = [hashes |-> <<>>, bytes |-> y]
  BY DEF Root, Hash
<1> HIDE DEF x, y
<1>2. x = y
  BY <1>1
<1>3. Len(a) \in Nat /\ Len(b) \in Nat
  BY LenProperties
<1>4. Numbered(Len(a), a) = Numbered(Len(b), b)
  BY <1>2 DEF x, y, Numbered
<1> QED
  BY <1>3, <1>4, Framed

----------------------------------------------------------------------------
(* Traces: the states along a history.                                     *)

\* Two traces, of n and of m steps, end in the same state; equal states of them
\* have equal states and equal steps before them; and neither of the traces
\* returns to the start of the other.
Meet(h, c, n, k, d, m) ==
    /\ n \in Nat /\ m \in Nat /\ h[n] = k[m]
    /\ \A i \in 1 .. n, j \in 1 .. m : h[i] = k[j] => h[i - 1] = k[j - 1] /\ c[i] = d[j]
    /\ \A i \in 1 .. n : h[i] # k[0]
    /\ \A j \in 1 .. m : k[j] # h[0]

\* Such traces are the same.
LEMMA SameEnd ==
    ASSUME NEW h, NEW c, NEW n, NEW k, NEW d, NEW m, Meet(h, c, n, k, d, m)
    PROVE  n = m /\ h[0] = k[0] /\ \A i \in 1 .. n : c[i] = d[i]
<1>0. n \in Nat /\ m \in Nat /\ h[n] = k[m]
  BY DEF Meet
<1> USE <1>0
<1> DEFINE Same(j) == h[n - j] = k[m - j] /\ \A i \in 0 .. j - 1 : c[n - i] = d[m - i]
           Good == {j \in Nat : j <= n /\ j <= m => Same(j)}
<1>1. 0 \in Good
  <2>1. n - 0 = n /\ m - 0 = m /\ \A i \in 0 .. 0 - 1 : FALSE
    OBVIOUS
  <2> QED
    BY <2>1
<1>2. ASSUME NEW j \in Nat, j \in Good PROVE j + 1 \in Good
  <2> SUFFICES ASSUME j + 1 <= n, j + 1 <= m PROVE Same(j + 1)
    OBVIOUS
  <2>1. Same(j)
    BY <1>2
  <2> DEFINE a == n - j
             b == m - j
  <2>2. a \in 1 .. n /\ b \in 1 .. m /\ h[a] = k[b]
    BY <2>1
  <2>3. h[a - 1] = k[b - 1] /\ c[a] = d[b]
    <3> HIDE DEF a, b
    <3> QED
      BY <2>2 DEF Meet
  <2>4. a - 1 = n - (j + 1) /\ b - 1 = m - (j + 1)
    OBVIOUS
  <2>5. ASSUME NEW i \in 0 .. (j + 1) - 1 PROVE c[n - i] = d[m - i]
    <3>1. CASE i = j
      BY <2>3, <3>1
    <3>2. CASE i # j
      <4>1. i \in 0 .. j - 1
        BY <3>2
      <4> QED
        BY <2>1, <4>1
    <3> QED
      BY <3>1, <3>2
  <2> HIDE DEF a, b
  <2> QED
    BY <2>3, <2>4, <2>5
<1> HIDE DEF Good
<1>3. \A j \in Nat : j \in Good
  BY <1>1, <1>2, SetInduction
<1>4. \A j \in Nat : j <= n /\ j <= m => Same(j)
  BY <1>3 DEF Good
<1>5. ~ (n < m)
  <2> SUFFICES ASSUME n < m PROVE FALSE
    OBVIOUS
  <2>1. h[n - n] = k[m - n]
    BY <1>4
  <2>2. n - n = 0 /\ m - n \in 1 .. m
    OBVIOUS
  <2> QED
    BY <2>1, <2>2 DEF Meet
<1>6. ~ (m < n)
  <2> SUFFICES ASSUME m < n PROVE FALSE
    OBVIOUS
  <2>1. h[n - m] = k[m - m]
    BY <1>4
  <2>2. m - m = 0 /\ n - m \in 1 .. n
    OBVIOUS
  <2> QED
    BY <2>1, <2>2 DEF Meet
<1>7. n = m
  BY <1>5, <1>6
<1>8. Same(n) /\ n - n = 0 /\ m - n = 0
  BY <1>4, <1>7
<1>9. ASSUME NEW i \in 1 .. n PROVE c[i] = d[i]
  <2>1. n - i \in 0 .. n - 1 /\ n - (n - i) = i
    OBVIOUS
  <2> QED
    BY <1>7, <1>8, <2>1
<1> QED
  BY <1>7, <1>8, <1>9

\* Traces that start alike and go on alike end alike.
LEMMA SameStart ==
    ASSUME NEW h, NEW k, NEW n \in Nat, h[0] = k[0],
           \A i \in 1 .. n : h[i - 1] = k[i - 1] => h[i] = k[i]
    PROVE  h[n] = k[n]
<1> DEFINE Good == {i \in Nat : i <= n => h[i] = k[i]}
<1>1. 0 \in Good
  OBVIOUS
<1>2. ASSUME NEW i \in Nat, i \in Good PROVE i + 1 \in Good
  <2> SUFFICES ASSUME i + 1 <= n PROVE h[i + 1] = k[i + 1]
    OBVIOUS
  <2>1. i + 1 \in 1 .. n /\ (i + 1) - 1 = i /\ h[i] = k[i]
    BY <1>2
  <2> QED
    BY <2>1
<1> HIDE DEF Good
<1>3. \A i \in Nat : i \in Good
  BY <1>1, <1>2, SetInduction
<1> QED
  BY <1>3 DEF Good

\* The labels of the challenge builder.
LEMMA LabelsDistinct ==
    /\ AccU \in Seq(Nat) /\ AccCz \in Seq(Nat) /\ AccCe \in Seq(Nat) /\ AccStep \in Seq(Nat)
    /\ PiLen \in Seq(Nat) /\ PiItem \in Seq(Nat)
    /\ AccStep # PiLen /\ AccStep # PiItem /\ PiLen # PiItem
    /\ Fold \in Seq(Nat) /\ Commit \in Seq(Nat) /\ Selector \in Seq(Nat) /\ Lane \in Seq(Nat)
BY DEF AccU, AccCz, AccCe, AccStep, PiLen, PiItem, Fold, Commit, Selector, Lane

\* The length of a public input and its items determine each other's states.
LEMMA ItemTraceUnique ==
    ASSUME NEW g, NEW f, NEW s, NEW pi \in Seq(Nat), ItemTrace(g, s, pi), ItemTrace(f, s, pi)
    PROVE  g[Len(pi)] = f[Len(pi)]
<1> DEFINE n == Len(pi)
<1>1. n \in Nat
  BY LenProperties
<1>2. g[0] = f[0] /\ \A i \in 1 .. n : g[i - 1] = f[i - 1] => g[i] = f[i]
  BY DEF ItemTrace
<1> HIDE DEF n
<1>3. g[n] = f[n]
  BY <1>1, <1>2, SameStart
<1> QED
  BY <1>3 DEF n

LEMMA ItemTraceInjective ==
    ASSUME NEW g, NEW f, NEW s, NEW t, NEW a \in Seq(Nat), NEW b \in Seq(Nat),
           ItemTrace(g, s, a), ItemTrace(f, t, b), g[Len(a)] = f[Len(b)]
    PROVE  s = t /\ a = b
<1> DEFINE n == Len(a)
           m == Len(b)
<1>1. n \in Nat /\ m \in Nat
  BY LenProperties
<1>2. (\A i \in 1 .. n : a[i] \in Nat) /\ \A j \in 1 .. m : b[j] \in Nat
  OBVIOUS
<1>3. /\ g[0] = IntoOne(s, PiLen, n) /\ \A i \in 1 .. n : g[i] = IntoOne(g[i - 1], PiItem, a[i])
      /\ f[0] = IntoOne(t, PiLen, m) /\ \A j \in 1 .. m : f[j] = IntoOne(f[j - 1], PiItem, b[j])
  BY DEF ItemTrace
<1>4. g[n] = f[m]
  OBVIOUS
<1> HIDE DEF n, m
<1>5. ASSUME NEW i \in 1 .. n, NEW j \in 1 .. m, g[i] = f[j]
      PROVE  g[i - 1] = f[j - 1] /\ a[i] = b[j]
  <2>1. IntoOne(g[i - 1], PiItem, a[i]) = IntoOne(f[j - 1], PiItem, b[j])
    BY <1>3, <1>5
  <2>2. PiItem \in Seq(Nat) /\ a[i] \in Nat /\ b[j] \in Nat
    BY <1>2, LabelsDistinct
  <2> QED
    BY <2>1, <2>2, IntoOneInjective
<1>6. ASSUME NEW i \in 1 .. n PROVE g[i] # f[0]
  <2>1. IntoOne(g[i - 1], PiItem, a[i]) # IntoOne(t, PiLen, m)
    BY <1>1, <1>2, LabelsDistinct, IntoOneInjective
  <2> QED
    BY <1>3, <2>1
<1>7. ASSUME NEW j \in 1 .. m PROVE f[j] # g[0]
  <2>1. IntoOne(f[j - 1], PiItem, b[j]) # IntoOne(s, PiLen, n)
    BY <1>1, <1>2, LabelsDistinct, IntoOneInjective
  <2> QED
    BY <1>3, <2>1
<1>8. n = m /\ g[0] = f[0] /\ \A i \in 1 .. n : a[i] = b[i]
  <2>1. Meet(g, a, n, f, b, m)
    BY <1>1, <1>4, <1>5, <1>6, <1>7 DEF Meet
  <2> QED
    BY <2>1, SameEnd
<1>9. s = t
  <2>1. IntoOne(s, PiLen, n) = IntoOne(t, PiLen, m)
    BY <1>3, <1>8
  <2> QED
    BY <1>1, <2>1, LabelsDistinct, IntoOneInjective
<1>10. a = b
  BY <1>8, SeqEqual DEF n, m
<1> QED
  BY <1>9, <1>10

----------------------------------------------------------------------------
(* Calls, as relations between the states before and after them.           *)

SqueezeLabels == {Fold, Commit, Selector, Lane}

MessageCall(m) == [message |-> m]
AccumulatorCall(acc) == [accumulator |-> acc]
PublicInputCall(pi) == [public_input |-> pi]
SqueezeCall(label) == [squeeze |-> label]

Calls ==
    {MessageCall(m) : m \in Messages} \cup {AccumulatorCall(acc) : acc \in Accumulators}
    \cup {PublicInputCall(pi) : pi \in PublicInputs} \cup {SqueezeCall(l) : l \in SqueezeLabels}

\* The state that a public input leads to.
IntoItems(s, pi, t) == \E g : ItemTrace(g, s, pi) /\ t = g[Len(pi)]

Leads(s, call, t) ==
    \/ \E m \in Messages : call = MessageCall(m) /\ t = Into(s, m.label, m.msg)
    \/ \E acc \in Accumulators : call = AccumulatorCall(acc) /\ t = IntoAccumulator(s, acc)
    \/ \E pi \in PublicInputs : call = PublicInputCall(pi) /\ IntoItems(s, pi, t)
    \/ \E l \in SqueezeLabels : call = SqueezeCall(l) /\ t = Onward(s, l)

\* A call determines what it was called with, and of which kind it was.
LEMMA CallsApart ==
    ASSUME NEW a, NEW b
    PROVE  /\ MessageCall(a) # AccumulatorCall(b) /\ MessageCall(a) # PublicInputCall(b)
           /\ MessageCall(a) # SqueezeCall(b) /\ AccumulatorCall(a) # PublicInputCall(b)
           /\ AccumulatorCall(a) # SqueezeCall(b) /\ PublicInputCall(a) # SqueezeCall(b)
           /\ MessageCall(a) = MessageCall(b) => a = b
           /\ AccumulatorCall(a) = AccumulatorCall(b) => a = b
           /\ PublicInputCall(a) = PublicInputCall(b) => a = b
           /\ SqueezeCall(a) = SqueezeCall(b) => a = b
<1>1. /\ DOMAIN MessageCall(a) = {"message"} /\ DOMAIN AccumulatorCall(a) = {"accumulator"}
      /\ DOMAIN PublicInputCall(a) = {"public_input"}
      /\ DOMAIN AccumulatorCall(b) = {"accumulator"}
      /\ DOMAIN PublicInputCall(b) = {"public_input"} /\ DOMAIN SqueezeCall(b) = {"squeeze"}
  BY DEF MessageCall, AccumulatorCall, PublicInputCall, SqueezeCall
<1>2. /\ MessageCall(a).message = a /\ MessageCall(b).message = b
      /\ AccumulatorCall(a).accumulator = a /\ AccumulatorCall(b).accumulator = b
      /\ PublicInputCall(a).public_input = a /\ PublicInputCall(b).public_input = b
      /\ SqueezeCall(a).squeeze = a /\ SqueezeCall(b).squeeze = b
  BY DEF MessageCall, AccumulatorCall, PublicInputCall, SqueezeCall
<1>3. /\ {"message"} # {"accumulator"} /\ {"message"} # {"public_input"}
      /\ {"message"} # {"squeeze"} /\ {"accumulator"} # {"public_input"}
      /\ {"accumulator"} # {"squeeze"} /\ {"public_input"} # {"squeeze"}
  OBVIOUS
<1> QED
  BY <1>1, <1>2, <1>3

LEMMA ArgumentTypes ==
    /\ \A m \in Messages : m.label \in Seq(Nat) /\ m.msg \in Seq(Nat)
    /\ \A m \in Messages : m.label # AccStep /\ m.label # PiLen /\ m.label # PiItem
    /\ \A acc \in Accumulators : /\ acc.u \in Seq(Nat) /\ acc.commitment_z \in Seq(Nat)
                                 /\ acc.commitment_e \in Seq(Nat) /\ acc.step \in Nat
    /\ \A pi \in PublicInputs : pi \in Seq(Nat)
    /\ \A l \in SqueezeLabels : l \in Seq(Nat)
<1>1. /\ Messages \subseteq [label : Seq(Nat), msg : Seq(Nat)] /\ PublicInputs \subseteq Seq(Nat)
      /\ Accumulators \subseteq [u : Seq(Nat), commitment_z : Seq(Nat),
                                 commitment_e : Seq(Nat), step : Nat]
  BY TranscriptAssumption
<1>2. \A m \in Messages : m.label \in Seq(Nat) /\ m.msg \in Seq(Nat)
  BY <1>1
<1>3. \A m \in Messages : m.label # AccStep /\ m.label # PiLen /\ m.label # PiItem
  BY LabelsAssumption
<1>4. \A acc \in Accumulators : /\ acc.u \in Seq(Nat) /\ acc.commitment_z \in Seq(Nat)
                                /\ acc.commitment_e \in Seq(Nat) /\ acc.step \in Nat
  BY <1>1
<1>5. \A l \in SqueezeLabels : l \in Seq(Nat)
  BY LabelsDistinct DEF SqueezeLabels
<1> QED
  BY <1>1, <1>2, <1>3, <1>4, <1>5

\* The last absorb of a call: its label tells the kind of the call.
Ends(t, labels) == \E s, label, msg : /\ label \in labels /\ label \in Seq(Nat)
                                      /\ msg \in Seq(Nat) /\ t = Into(s, label, msg)

LEMMA EndsApart ==
    ASSUME NEW t, NEW A, NEW B, Ends(t, A), Ends(t, B), A \cap B = {}
    PROVE  FALSE
<1>1. PICK s, a, b : a \in A /\ a \in Seq(Nat) /\ b \in Seq(Nat) /\ t = Into(s, a, b)
  BY DEF Ends
<1>2. PICK u, c, d : c \in B /\ c \in Seq(Nat) /\ d \in Seq(Nat) /\ t = Into(u, c, d)
  BY DEF Ends
<1>3. Into(s, a, b) = Into(u, c, d)
  BY <1>1, <1>2
<1>4. a = c
  BY <1>1, <1>2, <1>3, IntoInjective
<1> QED
  BY <1>1, <1>2, <1>4

LEMMA EndsNotOnward ==
    ASSUME NEW t, NEW A, Ends(t, A), NEW s, NEW l
    PROVE  t # Onward(s, l)
BY HashesApart DEF Ends

MessageLabels == {m.label : m \in Messages}

LEMMA MessageEnds ==
    ASSUME NEW s, NEW m \in Messages
    PROVE  Ends(Into(s, m.label, m.msg), MessageLabels)
BY ArgumentTypes DEF Ends, MessageLabels

LEMMA AccumulatorEnds ==
    ASSUME NEW s, NEW acc \in Accumulators
    PROVE  Ends(IntoAccumulator(s, acc), {AccStep})
<1>1. acc.step \in Nat /\ AccStep \in Seq(Nat)
  BY ArgumentTypes, LabelsDistinct
<1>2. <<acc.step>> \in Seq(Nat)
  BY <1>1
<1> QED
  BY <1>1, <1>2 DEF Ends, IntoAccumulator

LEMMA ItemsEnd ==
    ASSUME NEW s, NEW pi \in PublicInputs, NEW t, IntoItems(s, pi, t)
    PROVE  Ends(t, {PiLen, PiItem})
<1>1. PICK g : ItemTrace(g, s, pi) /\ t = g[Len(pi)]
  BY DEF IntoItems
<1> DEFINE n == Len(pi)
<1>2. n \in Nat /\ \A i \in 1 .. n : pi[i] \in Nat
  BY ArgumentTypes
<1>3. /\ g[0] = IntoOne(s, PiLen, n) /\ \A i \in 1 .. n : g[i] = IntoOne(g[i - 1], PiItem, pi[i])
      /\ t = g[n]
  BY <1>1 DEF ItemTrace
<1> HIDE DEF n
<1>4. PiLen \in Seq(Nat) /\ PiItem \in Seq(Nat)
  BY LabelsDistinct
<1>5. CASE n = 0
  <2>1. t = Into(s, PiLen, <<n>>)
    BY <1>3, <1>5 DEF IntoOne
  <2>2. <<n>> \in Seq(Nat)
    BY <1>2
  <2> QED
    BY <1>4, <2>1, <2>2 DEF Ends
<1>6. CASE n # 0
  <2>1. n \in 1 .. n /\ t = Into(g[n - 1], PiItem, <<pi[n]>>)
    BY <1>2, <1>3, <1>6 DEF IntoOne
  <2>2. <<pi[n]>> \in Seq(Nat)
    BY <1>2, <2>1
  <2> QED
    BY <1>4, <2>1, <2>2 DEF Ends
<1> QED
  BY <1>5, <1>6

AgreeOnFields(a, b) ==
    /\ a.u = b.u /\ a.commitment_z = b.commitment_z
    /\ a.commitment_e = b.commitment_e /\ a.step = b.step

LEMMA SameFields ==
    ASSUME NEW S, NEW a \in [u : S, commitment_z : S, commitment_e : S, step : Nat],
           NEW b \in [u : S, commitment_z : S, commitment_e : S, step : Nat],
           AgreeOnFields(a, b)
    PROVE  a = b
<1>1. a = [u |-> a.u, commitment_z |-> a.commitment_z,
           commitment_e |-> a.commitment_e, step |-> a.step]
  OBVIOUS
<1>2. b = [u |-> b.u, commitment_z |-> b.commitment_z,
           commitment_e |-> b.commitment_e, step |-> b.step]
  OBVIOUS
<1> QED
  BY <1>1, <1>2, Zenon DEF AgreeOnFields

LEMMA AccumulatorInjective ==
    ASSUME NEW s, NEW t, NEW a \in Accumulators, NEW b \in Accumulators,
           IntoAccumulator(s, a) = IntoAccumulator(t, b)
    PROVE  s = t /\ a = b
<1> DEFINE s1 == Into(s, AccU, a.u)
           s2 == Into(s1, AccCz, a.commitment_z)
           s3 == Into(s2, AccCe, a.commitment_e)
           t1 == Into(t, AccU, b.u)
           t2 == Into(t1, AccCz, b.commitment_z)
           t3 == Into(t2, AccCe, b.commitment_e)
<1>1. /\ a.u \in Seq(Nat) /\ a.commitment_z \in Seq(Nat) /\ a.commitment_e \in Seq(Nat)
      /\ a.step \in Nat
      /\ b.u \in Seq(Nat) /\ b.commitment_z \in Seq(Nat) /\ b.commitment_e \in Seq(Nat)
      /\ b.step \in Nat
  BY ArgumentTypes
<1>2. IntoOne(s3, AccStep, a.step) = IntoOne(t3, AccStep, b.step)
  BY DEF IntoAccumulator, IntoOne
<1>3. s3 = t3 /\ a.step = b.step
  <2> HIDE DEF s3, t3
  <2> QED
    BY <1>1, <1>2, LabelsDistinct, IntoOneInjective
<1>4. s2 = t2 /\ a.commitment_e = b.commitment_e
  <2> HIDE DEF s2, t2
  <2> QED
    BY <1>1, <1>3, LabelsDistinct, IntoInjective, SMTT(30)
<1>5. s1 = t1 /\ a.commitment_z = b.commitment_z
  <2> HIDE DEF s1, t1
  <2> QED
    BY <1>1, <1>4, LabelsDistinct, IntoInjective, SMTT(30)
<1>6. s = t /\ a.u = b.u
  BY <1>1, <1>5, LabelsDistinct, IntoInjective, SMTT(30)
<1>7. a = b
  <2>1. /\ a \in [u : Seq(Nat), commitment_z : Seq(Nat), commitment_e : Seq(Nat), step : Nat]
        /\ b \in [u : Seq(Nat), commitment_z : Seq(Nat), commitment_e : Seq(Nat), step : Nat]
    BY TranscriptAssumption
  <2>2. AgreeOnFields(a, b)
    BY <1>3, <1>4, <1>5, <1>6 DEF AgreeOnFields
  <2> QED
    BY <2>1, <2>2, SameFields
<1> QED
  BY <1>6, <1>7

LEMMA MessageInjective ==
    ASSUME NEW s, NEW t, NEW a \in Messages, NEW b \in Messages,
           Into(s, a.label, a.msg) = Into(t, b.label, b.msg)
    PROVE  s = t /\ a = b
<1>1. s = t /\ a.label = b.label /\ a.msg = b.msg
  BY ArgumentTypes, IntoInjective
<1>2. /\ a \in [label : Seq(Nat), msg : Seq(Nat)] /\ b \in [label : Seq(Nat), msg : Seq(Nat)]
  BY TranscriptAssumption
<1> QED
  BY <1>1, <1>2

\* A state and a call lead to one state.
LEMMA LeadsUnique ==
    ASSUME NEW s, NEW call, NEW t, NEW u, Leads(s, call, t), Leads(s, call, u)
    PROVE  t = u
<1>1. CASE \E m \in Messages : call = MessageCall(m) /\ t = Into(s, m.label, m.msg)
  BY <1>1, CallsApart DEF Leads
<1>2. CASE \E acc \in Accumulators : call = AccumulatorCall(acc) /\ t = IntoAccumulator(s, acc)
  BY <1>2, CallsApart DEF Leads
<1>3. CASE \E pi \in PublicInputs : call = PublicInputCall(pi) /\ IntoItems(s, pi, t)
  <2>1. PICK pi \in PublicInputs : call = PublicInputCall(pi) /\ IntoItems(s, pi, t)
    BY <1>3
  <2>2. IntoItems(s, pi, u)
    BY <2>1, CallsApart DEF Leads
  <2>3. PICK g : ItemTrace(g, s, pi) /\ t = g[Len(pi)]
    BY <2>1 DEF IntoItems
  <2>4. PICK f : ItemTrace(f, s, pi) /\ u = f[Len(pi)]
    BY <2>2 DEF IntoItems
  <2>5. pi \in Seq(Nat)
    BY ArgumentTypes
  <2> QED
    BY <2>3, <2>4, <2>5, ItemTraceUnique
<1>4. CASE \E l \in SqueezeLabels : call = SqueezeCall(l) /\ t = Onward(s, l)
  BY <1>4, CallsApart DEF Leads
<1> QED
  BY <1>1, <1>2, <1>3, <1>4 DEF Leads

\* A state that a call leads to tells the call and the state before it.
LEMMA LeadsInjective ==
    ASSUME NEW s, NEW t, NEW c, NEW d, NEW u, Leads(s, c, u), Leads(t, d, u)
    PROVE  s = t /\ c = d
<1> DEFINE M(x, call) == \E m \in Messages : call = MessageCall(m) /\ u = Into(x, m.label, m.msg)
           A(x, call) == \E acc \in Accumulators :
                            call = AccumulatorCall(acc) /\ u = IntoAccumulator(x, acc)
           P(x, call) == \E pi \in PublicInputs :
                            call = PublicInputCall(pi) /\ IntoItems(x, pi, u)
           S(x, call) == \E l \in SqueezeLabels : call = SqueezeCall(l) /\ u = Onward(x, l)
<1>1. ASSUME NEW x, NEW call
      PROVE  /\ M(x, call) => Ends(u, MessageLabels)
             /\ A(x, call) => Ends(u, {AccStep})
             /\ P(x, call) => Ends(u, {PiLen, PiItem})
             /\ S(x, call) => \E l : u = Onward(x, l)
  BY MessageEnds, AccumulatorEnds, ItemsEnd
<1>2. /\ MessageLabels \cap {AccStep} = {} /\ MessageLabels \cap {PiLen, PiItem} = {}
      /\ {AccStep} \cap {PiLen, PiItem} = {}
  BY ArgumentTypes, LabelsDistinct DEF MessageLabels
<1>3. /\ ~ (Ends(u, MessageLabels) /\ Ends(u, {AccStep}))
      /\ ~ (Ends(u, MessageLabels) /\ Ends(u, {PiLen, PiItem}))
      /\ ~ (Ends(u, {AccStep}) /\ Ends(u, {PiLen, PiItem}))
  BY <1>2, EndsApart
<1>4. ASSUME NEW x, NEW l, u = Onward(x, l)
      PROVE  ~ Ends(u, MessageLabels) /\ ~ Ends(u, {AccStep}) /\ ~ Ends(u, {PiLen, PiItem})
  BY <1>4, EndsNotOnward
<1>5. ASSUME M(s, c), M(t, d) PROVE s = t /\ c = d
  <2>1. PICK m \in Messages : c = MessageCall(m) /\ u = Into(s, m.label, m.msg)
    BY <1>5
  <2>2. PICK k \in Messages : d = MessageCall(k) /\ u = Into(t, k.label, k.msg)
    BY <1>5
  <2>3. Into(s, m.label, m.msg) = Into(t, k.label, k.msg)
    BY <2>1, <2>2
  <2>4. s = t /\ m = k
    BY <2>3, MessageInjective
  <2> QED
    BY <2>1, <2>2, <2>4
<1>6. ASSUME A(s, c), A(t, d) PROVE s = t /\ c = d
  <2>1. PICK a \in Accumulators : c = AccumulatorCall(a) /\ u = IntoAccumulator(s, a)
    BY <1>6
  <2>2. PICK b \in Accumulators : d = AccumulatorCall(b) /\ u = IntoAccumulator(t, b)
    BY <1>6
  <2>3. IntoAccumulator(s, a) = IntoAccumulator(t, b)
    BY <2>1, <2>2
  <2>4. s = t /\ a = b
    BY <2>3, AccumulatorInjective
  <2> QED
    BY <2>1, <2>2, <2>4
<1>7. ASSUME P(s, c), P(t, d) PROVE s = t /\ c = d
  <2>1. PICK a \in PublicInputs : c = PublicInputCall(a) /\ IntoItems(s, a, u)
    BY <1>7
  <2>2. PICK b \in PublicInputs : d = PublicInputCall(b) /\ IntoItems(t, b, u)
    BY <1>7
  <2>3. PICK g : ItemTrace(g, s, a) /\ u = g[Len(a)]
    BY <2>1 DEF IntoItems
  <2>4. PICK f : ItemTrace(f, t, b) /\ u = f[Len(b)]
    BY <2>2 DEF IntoItems
  <2>5. a \in Seq(Nat) /\ b \in Seq(Nat) /\ g[Len(a)] = f[Len(b)]
    BY <2>3, <2>4, ArgumentTypes
  <2>6. s = t /\ a = b
    BY <2>3, <2>4, <2>5, ItemTraceInjective
  <2> QED
    BY <2>1, <2>2, <2>6
<1>8. ASSUME S(s, c), S(t, d) PROVE s = t /\ c = d
  <2>1. PICK a \in SqueezeLabels : c = SqueezeCall(a) /\ u = Onward(s, a)
    BY <1>8
  <2>2. PICK b \in SqueezeLabels : d = SqueezeCall(b) /\ u = Onward(t, b)
    BY <1>8
  <2>3. Onward(s, a) = Onward(t, b) /\ a \in Seq(Nat) /\ b \in Seq(Nat)
    BY <2>1, <2>2, ArgumentTypes
  <2>4. s = t /\ a = b
    BY <2>3, OnwardInjective
  <2> QED
    BY <2>1, <2>2, <2>4
<1>9. M(s, c) \/ A(s, c) \/ P(s, c) \/ S(s, c)
  BY DEF Leads
<1>10. M(t, d) \/ A(t, d) \/ P(t, d) \/ S(t, d)
  BY DEF Leads
<1> HIDE DEF M, A, P, S
<1> QED
  BY <1>1, <1>3, <1>4, <1>5, <1>6, <1>7, <1>8, <1>9, <1>10

\* No call leads back to a root.
LEMMA LeadsNotRoot ==
    ASSUME NEW s, NEW call, NEW t, Leads(s, call, t), NEW seed
    PROVE  t # Root(seed)
<1>1. ASSUME NEW A, Ends(t, A) PROVE t # Root(seed)
  BY <1>1, HashesApart DEF Ends
<1>2. CASE \E m \in Messages : call = MessageCall(m) /\ t = Into(s, m.label, m.msg)
  BY <1>2, HashesApart
<1>3. CASE \E acc \in Accumulators : call = AccumulatorCall(acc) /\ t = IntoAccumulator(s, acc)
  BY <1>1, <1>3, AccumulatorEnds
<1>4. CASE \E pi \in PublicInputs : call = PublicInputCall(pi) /\ IntoItems(s, pi, t)
  BY <1>1, <1>4, ItemsEnd
<1>5. CASE \E l \in SqueezeLabels : call = SqueezeCall(l) /\ t = Onward(s, l)
  BY <1>5, HashesApart
<1> QED
  BY <1>2, <1>3, <1>4, <1>5 DEF Leads

\* No call leads to a hash value that a squeeze hands out.
LEMMA LeadsNotOutput ==
    ASSUME NEW s, NEW call, NEW t, Leads(s, call, t), NEW o, NEW l \in SqueezeLabels
    PROVE  t # Output(o, l)
<1>1. l \in Seq(Nat)
  BY ArgumentTypes
<1>2. ASSUME NEW A, Ends(t, A), \A a \in A : Len(a) < Sq[1] PROVE t # Output(o, l)
  <2>1. PICK x, a, b : a \in A /\ a \in Seq(Nat) /\ b \in Seq(Nat) /\ t = Into(x, a, b)
    BY <1>2 DEF Ends
  <2>2. Len(a) < Sq[1]
    BY <1>2, <2>1
  <2> QED
    BY <1>1, <2>1, <2>2, OutputIsNoAbsorb
<1>3. /\ \A a \in MessageLabels : Len(a) < Sq[1]
      /\ \A a \in {AccStep} : Len(a) < Sq[1]
      /\ \A a \in {PiLen, PiItem} : Len(a) < Sq[1]
  <2>1. Len(AccStep) = 2 /\ Len(PiLen) = 2 /\ Len(PiItem) = 2 /\ Sq[1] = 115
    BY DEF AccStep, PiLen, PiItem, Sq
  <2>2. \A m \in Messages : Len(m.label) < Sq[1]
    BY LabelsAssumption
  <2>3. \A a \in MessageLabels : Len(a) < Sq[1]
    BY <2>2, Zenon DEF MessageLabels
  <2>4. Len(AccStep) < Sq[1] /\ Len(PiLen) < Sq[1] /\ Len(PiItem) < Sq[1]
    BY <2>1
  <2> QED
    BY <2>3, <2>4, Zenon
<1>4. CASE \E m \in Messages : call = MessageCall(m) /\ t = Into(s, m.label, m.msg)
  BY <1>2, <1>3, <1>4, MessageEnds
<1>5. CASE \E acc \in Accumulators : call = AccumulatorCall(acc) /\ t = IntoAccumulator(s, acc)
  BY <1>2, <1>3, <1>5, AccumulatorEnds
<1>6. CASE \E pi \in PublicInputs : call = PublicInputCall(pi) /\ IntoItems(s, pi, t)
  BY <1>2, <1>3, <1>6, ItemsEnd
<1>7. CASE \E k \in SqueezeLabels : call = SqueezeCall(k) /\ t = Onward(s, k)
  BY <1>7, HashesApart
<1> QED
  BY <1>4, <1>5, <1>6, <1>7 DEF Leads

----------------------------------------------------------------------------
(* Pasts, and the state a transcript is in after one.                      *)

Pasts == [seed : Seeds, calls : Seq(Calls)]

Trace(h, past) ==
    /\ h[0] = Root(past.seed)
    /\ \A i \in 1 .. Len(past.calls) : Leads(h[i - 1], past.calls[i], h[i])

StateAfter(past, s) == \E h : Trace(h, past) /\ s = h[Len(past.calls)]

\* The past determines the state.
LEMMA PastDetermines ==
    ASSUME NEW past \in Pasts, NEW s, NEW t, StateAfter(past, s), StateAfter(past, t)
    PROVE  s = t
<1> DEFINE n == Len(past.calls)
<1>1. n \in Nat
  BY LenProperties DEF Pasts
<1>2. PICK h : Trace(h, past) /\ s = h[n]
  BY DEF StateAfter
<1>3. PICK k : Trace(k, past) /\ t = k[n]
  BY DEF StateAfter
<1>4. h[0] = k[0]
  BY <1>2, <1>3 DEF Trace
<1>5. \A i \in 1 .. n : h[i - 1] = k[i - 1] => h[i] = k[i]
  <2> SUFFICES ASSUME NEW i \in 1 .. n, h[i - 1] = k[i - 1] PROVE h[i] = k[i]
    OBVIOUS
  <2>1. Leads(h[i - 1], past.calls[i], h[i]) /\ Leads(k[i - 1], past.calls[i], k[i])
    BY <1>2, <1>3 DEF Trace
  <2>2. Leads(h[i - 1], past.calls[i], k[i])
    BY <2>1
  <2> QED
    BY <2>1, <2>2, LeadsUnique
<1> HIDE DEF n
<1> QED
  BY <1>1, <1>2, <1>3, <1>4, <1>5, SameStart

\* The state determines the past.
LEMMA StateDetermines ==
    ASSUME NEW a \in Pasts, NEW b \in Pasts, NEW s, StateAfter(a, s), StateAfter(b, s)
    PROVE  a = b
<1> DEFINE n == Len(a.calls)
           m == Len(b.calls)
<1>1. n \in Nat /\ m \in Nat /\ a.calls \in Seq(Calls) /\ b.calls \in Seq(Calls)
  BY LenProperties DEF Pasts
<1>2. PICK h : Trace(h, a) /\ s = h[n]
  BY DEF StateAfter
<1>3. PICK k : Trace(k, b) /\ s = k[m]
  BY DEF StateAfter
<1>4. /\ h[0] = Root(a.seed) /\ \A i \in 1 .. n : Leads(h[i - 1], a.calls[i], h[i])
      /\ k[0] = Root(b.seed) /\ \A j \in 1 .. m : Leads(k[j - 1], b.calls[j], k[j])
  BY <1>2, <1>3 DEF Trace
<1> DEFINE c == a.calls
           d == b.calls
<1> HIDE DEF n, m
<1>5. \A i \in 1 .. n, j \in 1 .. m : h[i] = k[j] => h[i - 1] = k[j - 1] /\ c[i] = d[j]
  <2> SUFFICES ASSUME NEW i \in 1 .. n, NEW j \in 1 .. m, h[i] = k[j]
               PROVE  h[i - 1] = k[j - 1] /\ c[i] = d[j]
    OBVIOUS
  <2>1. Leads(h[i - 1], c[i], h[i]) /\ Leads(k[j - 1], d[j], h[i])
    BY <1>4
  <2> HIDE DEF c, d
  <2> QED
    BY <2>1, LeadsInjective
<1>6. (\A i \in 1 .. n : h[i] # k[0]) /\ \A j \in 1 .. m : k[j] # h[0]
  BY <1>4, LeadsNotRoot
<1>7. Meet(h, c, n, k, d, m)
  BY <1>1, <1>2, <1>3, <1>5, <1>6 DEF Meet
<1>8. n = m /\ h[0] = k[0] /\ \A i \in 1 .. n : c[i] = d[i]
  <2> HIDE DEF c, d
  <2> QED
    BY <1>7, SameEnd
<1>9. a.calls = b.calls
  BY <1>1, <1>8, SeqEqual DEF n, m
<1>10. a.seed = b.seed
  <2>1. a.seed \in Seq(Nat) /\ b.seed \in Seq(Nat)
    BY TranscriptAssumption DEF Pasts
  <2>2. Root(a.seed) = Root(b.seed)
    BY <1>4, <1>8
  <2> QED
    BY <2>1, <2>2, RootInjective
<1> QED
  BY <1>9, <1>10 DEF Pasts

\* A past with one more call.
Then(past, call) == [past EXCEPT !.calls = Append(@, call)]

LEMMA ThenType ==
    ASSUME NEW past \in Pasts, NEW call \in Calls
    PROVE  /\ Then(past, call) \in Pasts /\ Then(past, call).seed = past.seed
           /\ Then(past, call).calls = Append(past.calls, call)
<1>1. past.calls \in Seq(Calls)
  BY DEF Pasts
<1>2. Append(past.calls, call) \in Seq(Calls)
  BY <1>1, AppendProperties
<1> QED
  BY <1>2 DEF Pasts, Then

\* A call takes the state after a past to the state after it and the call.
LEMMA Extends ==
    ASSUME NEW past \in Pasts, NEW call \in Calls, NEW s, NEW t,
           StateAfter(past, s), Leads(s, call, t)
    PROVE  StateAfter(Then(past, call), t)
<1> DEFINE n == Len(past.calls)
           calls == Append(past.calls, call)
<1>1. past.calls \in Seq(Calls) /\ n \in Nat
  BY LenProperties DEF Pasts
<1>2. Len(calls) = n + 1 /\ calls[n + 1] = call /\ \A i \in 1 .. n : calls[i] = past.calls[i]
  BY <1>1, AppendProperties
<1>3. Then(past, call).calls = calls /\ Then(past, call).seed = past.seed
  BY ThenType
<1>4. PICK h : Trace(h, past) /\ s = h[n]
  BY DEF StateAfter
<1> DEFINE k == [i \in 0 .. n + 1 |-> IF i = n + 1 THEN t ELSE h[i]]
<1>5. h[0] = Root(past.seed) /\ \A i \in 1 .. n : Leads(h[i - 1], past.calls[i], h[i])
  BY <1>4 DEF Trace
<1> HIDE DEF n, calls
<1>6. k[0] = h[0] /\ k[n + 1] = t /\ \A i \in 0 .. n : k[i] = h[i]
  BY <1>1
<1> HIDE DEF k
<1>7. ASSUME NEW i \in 1 .. n + 1 PROVE Leads(k[i - 1], calls[i], k[i])
  <2>1. CASE i = n + 1
    <3>1. k[i - 1] = s /\ k[i] = t /\ calls[i] = call
      BY <1>1, <1>2, <1>4, <1>6, <2>1
    <3> QED
      BY <3>1
  <2>2. CASE i # n + 1
    <3>1. i \in 1 .. n /\ i - 1 \in 0 .. n /\ i \in 0 .. n
      BY <1>1, <2>2
    <3>2. k[i - 1] = h[i - 1] /\ k[i] = h[i] /\ calls[i] = past.calls[i]
      BY <1>2, <1>6, <3>1
    <3> QED
      BY <1>5, <3>1, <3>2
  <2> QED
    BY <2>1, <2>2
<1>8. Trace(k, Then(past, call))
  BY <1>2, <1>3, <1>5, <1>6, <1>7 DEF Trace
<1> QED
  BY <1>2, <1>3, <1>6, <1>8 DEF StateAfter

\* No transcript is in a state that a squeeze hands out.
LEMMA StateIsNoOutput ==
    ASSUME NEW past \in Pasts, NEW s, StateAfter(past, s), NEW o, NEW l \in SqueezeLabels
    PROVE  s # Output(o, l)
<1>1. PICK h : Trace(h, past) /\ s = h[Len(past.calls)]
  BY DEF StateAfter
<1>2. Len(past.calls) \in Nat
  BY LenProperties DEF Pasts
<1>3. CASE Len(past.calls) = 0
  <2>1. s = Root(past.seed)
    BY <1>1, <1>3 DEF Trace
  <2> QED
    BY <2>1, HashesApart
<1>4. CASE Len(past.calls) # 0
  <2> DEFINE n == Len(past.calls)
  <2>1. Leads(h[n - 1], past.calls[n], s)
    BY <1>1, <1>2, <1>4 DEF Trace
  <2> QED
    BY <2>1, LeadsNotOutput
<1> QED
  BY <1>3, <1>4
----------------------------------------------------------------------------
(* The inductive invariant: every transcript keeps its past.               *)

LEMMA AbsorbedThen ==
    ASSUME NEW past \in Pasts, NEW call \in Calls
    PROVE  Absorbed(Then(past, call)) <=> Absorbed(past) \/ "squeeze" \notin DOMAIN call
<1> DEFINE n == Len(past.calls)
           calls == Append(past.calls, call)
<1>1. past.calls \in Seq(Calls) /\ n \in Nat /\ DOMAIN past.calls = 1 .. n
  BY LenProperties DEF Pasts
<1>2. /\ calls \in Seq(Calls) /\ Len(calls) = n + 1 /\ calls[n + 1] = call
      /\ \A i \in 1 .. n : calls[i] = past.calls[i]
  BY <1>1, AppendProperties
<1>3. DOMAIN calls = 1 .. n + 1
  BY <1>2, LenProperties
<1>4. Then(past, call).calls = calls
  BY ThenType
<1> HIDE DEF n, calls
<1>5. \A i \in 1 .. n + 1 : i \in 1 .. n \/ i = n + 1
  BY <1>1
<1>6. n + 1 \in 1 .. n + 1 /\ \A i \in 1 .. n : i \in 1 .. n + 1
  BY <1>1
<1> QED
  BY <1>1, <1>2, <1>3, <1>4, <1>5, <1>6 DEF Absorbed

\* Transcript t is what past made of it; its counter knows only whether
\* something was absorbed.
Keeps(t, past) ==
    /\ IsTranscript(t)
    /\ past \in Pasts
    /\ StateAfter(past, t.state)
    /\ t.absorbs = 0 <=> ~Absorbed(past)

\* Transcript t has made the call and is now u.
Calling(t, call, u) ==
    /\ call \in Calls /\ IsTranscript(u) /\ Leads(t.state, call, u.state)
    /\ IF "squeeze" \in DOMAIN call THEN u.absorbs = t.absorbs ELSE u.absorbs # 0

LEMMA CallingKeeps ==
    ASSUME NEW t, NEW past, NEW call, NEW u, Keeps(t, past), Calling(t, call, u)
    PROVE  Keeps(u, Then(past, call))
<1>1. past \in Pasts /\ call \in Calls
  BY DEF Keeps, Calling
<1>2. Then(past, call) \in Pasts
  BY <1>1, ThenType
<1>3. StateAfter(Then(past, call), u.state)
  <2>1. StateAfter(past, t.state) /\ Leads(t.state, call, u.state)
    BY DEF Keeps, Calling
  <2> QED
    BY <1>1, <2>1, Extends
<1>4. u.absorbs = 0 <=> ~Absorbed(Then(past, call))
  BY <1>1, AbsorbedThen DEF Keeps, Calling
<1> QED
  BY <1>2, <1>3, <1>4 DEF Keeps, Calling

LEMMA MessageCalls ==
    ASSUME NEW t, IsTranscript(t), NEW m \in Messages
    PROVE  Calling(t, MessageCall(m), Absorb(t, m.label, m.msg))
<1>1. DOMAIN MessageCall(m) = {"message"} /\ MessageCall(m) \in Calls
  BY DEF MessageCall, Calls
<1> DEFINE u == Absorb(t, m.label, m.msg)
<1>2. IsTranscript(u) /\ u.absorbs # 0 /\ u.state = Into(t.state, m.label, m.msg)
  BY AbsorbEffect
<1> HIDE DEF u
<1>3. Leads(t.state, MessageCall(m), u.state)
  BY <1>2 DEF Leads
<1> QED
  BY <1>1, <1>2, <1>3 DEF Calling, u

LEMMA AccumulatorCalls ==
    ASSUME NEW t, IsTranscript(t), NEW acc \in Accumulators
    PROVE  Calling(t, AccumulatorCall(acc), AbsorbAccumulator(t, acc))
<1>1. DOMAIN AccumulatorCall(acc) = {"accumulator"} /\ AccumulatorCall(acc) \in Calls
  BY DEF AccumulatorCall, Calls
<1> DEFINE u == AbsorbAccumulator(t, acc)
<1>2. IsTranscript(u) /\ u.absorbs # 0 /\ u.state = IntoAccumulator(t.state, acc)
  BY AccumulatorEffect
<1> HIDE DEF u
<1>3. Leads(t.state, AccumulatorCall(acc), u.state)
  BY <1>2 DEF Leads
<1> QED
  BY <1>1, <1>2, <1>3 DEF Calling, u

LEMMA PublicInputCalls ==
    ASSUME NEW t, IsTranscript(t), NEW pi \in PublicInputs
    PROVE  Calling(t, PublicInputCall(pi), AbsorbPublicInput(t, pi))
<1>1. DOMAIN PublicInputCall(pi) = {"public_input"} /\ PublicInputCall(pi) \in Calls
  BY DEF PublicInputCall, Calls
<1> DEFINE u == AbsorbPublicInput(t, pi)
<1>2. /\ IsTranscript(u) /\ u.absorbs # 0
      /\ \E g : ItemTrace(g, t.state, pi) /\ u.state = g[Len(pi)]
  BY ArgumentTypes, PublicInputEffect
<1> HIDE DEF u
<1>3. Leads(t.state, PublicInputCall(pi), u.state)
  BY <1>2 DEF Leads, IntoItems
<1> QED
  BY <1>1, <1>2, <1>3 DEF Calling, u

LEMMA SqueezeCalls ==
    ASSUME NEW t, IsTranscript(t), NEW label \in SqueezeLabels
    PROVE  Calling(t, SqueezeCall(label), AfterSqueeze(t, label))
<1>1. DOMAIN SqueezeCall(label) = {"squeeze"} /\ SqueezeCall(label) \in Calls
  BY DEF SqueezeCall, Calls
<1> DEFINE u == AfterSqueeze(t, label)
<1>2. IsTranscript(u) /\ u.absorbs = t.absorbs /\ u.state = Onward(t.state, label)
  BY SqueezeEffect
<1> HIDE DEF u
<1>3. Leads(t.state, SqueezeCall(label), u.state)
  BY <1>2 DEF Leads
<1> QED
  BY <1>1, <1>2, <1>3 DEF Calling, u

\* A challenge is the output of a squeeze after its past.
Binds(c) ==
    /\ c.past \in Pasts /\ c.label \in SqueezeLabels
    /\ \E s : StateAfter(c.past, s) /\ c.out = Output(s, c.label)
    /\ c.label \in {Fold, Commit} => Absorbed(c.past)

TranscriptsKeep ==
    /\ transcripts = [p \in Parties |-> transcripts[p]]
    /\ pasts \in [Parties -> Pasts]
    /\ \A p \in Parties : Keeps(transcripts[p], pasts[p])

TranscriptInv ==
    /\ TranscriptsKeep
    /\ \A c \in drawn : Binds(c)
    /\ \A past \in refused : ~Absorbed(past)

LEMMA MovesKeep ==
    ASSUME TranscriptsKeep, NEW p \in Parties, NEW t, NEW call, Moves(p, t, call),
           Calling(transcripts[p], call, t)
    PROVE  TranscriptsKeep'
<1>1. Keeps(t, Then(pasts[p], call))
  BY CallingKeeps DEF TranscriptsKeep
<1>2. transcripts' = [transcripts EXCEPT ![p] = t]
  BY DEF Moves
<1>3. pasts' = [pasts EXCEPT ![p] = Then(pasts[p], call)]
  BY DEF Moves, Then
<1>4. /\ transcripts' = [q \in Parties |-> transcripts'[q]]
      /\ transcripts'[p] = t
      /\ \A q \in Parties : q # p => transcripts'[q] = transcripts[q]
  BY <1>2 DEF TranscriptsKeep
<1>5. Then(pasts[p], call) \in Pasts
  BY <1>1 DEF Keeps
<1>6. /\ pasts' \in [Parties -> Pasts]
      /\ pasts'[p] = Then(pasts[p], call)
      /\ \A q \in Parties : q # p => pasts'[q] = pasts[q]
  BY <1>3, <1>5 DEF TranscriptsKeep
<1>7. ASSUME NEW q \in Parties PROVE Keeps(transcripts'[q], pasts'[q])
  <2>1. CASE q = p
    BY <1>1, <1>4, <1>6, <2>1
  <2>2. CASE q # p
    BY <1>4, <1>6, <2>2 DEF TranscriptsKeep
  <2> QED
    BY <2>1, <2>2
<1> QED
  BY <1>4, <1>6, <1>7 DEF TranscriptsKeep

LEMMA SqueezesKeep ==
    ASSUME TranscriptInv, NEW p \in Parties, NEW label \in SqueezeLabels, NEW n,
           Squeezes(p, label, n),
           label \in {Fold, Commit} => ~NothingAbsorbed(transcripts[p])
    PROVE  TranscriptInv'
<1> DEFINE t == transcripts[p]
           c == [label |-> label, past |-> pasts[p], out |-> Squeezed(t, label),
                 index |-> Reduced(Prefix(Squeezed(t, label)), n)]
<1>1. Keeps(t, pasts[p])
  BY DEF TranscriptInv, TranscriptsKeep
<1>2. IsTranscript(t)
  BY <1>1 DEF Keeps
<1>3. /\ Moves(p, AfterSqueeze(t, label), SqueezeCall(label))
      /\ drawn' = drawn \cup {c} /\ refused' = refused
  BY DEF Squeezes, SqueezeCall
<1>4. TranscriptsKeep'
  <2>1. Calling(t, SqueezeCall(label), AfterSqueeze(t, label))
    BY <1>2, SqueezeCalls
  <2> QED
    BY <1>3, <2>1, MovesKeep DEF TranscriptInv
<1>5. Binds(c)
  <2>1. Squeezed(t, label) = Output(t.state, label)
    BY <1>2, SqueezeEffect
  <2>2. label \in {Fold, Commit} => Absorbed(pasts[p])
    BY <1>1 DEF NothingAbsorbed, Keeps
  <2>3. pasts[p] \in Pasts /\ StateAfter(pasts[p], t.state)
    BY <1>1 DEF Keeps
  <2>4. c.label = label /\ c.past = pasts[p] /\ c.out = Squeezed(t, label)
    OBVIOUS
  <2> HIDE DEF c, t
  <2> QED
    BY <2>1, <2>2, <2>3, <2>4 DEF Binds
<1> HIDE DEF c, t
<1> QED
  BY <1>3, <1>4, <1>5 DEF TranscriptInv

LEMMA InitKeeps ==
    ASSUME Init
    PROVE  TranscriptInv
<1>0. ASSUME NEW past \in [seed : Seeds, calls : {<<>>}]
      PROVE  past.calls = <<>> /\ past \in Pasts
  <2>1. <<>> \in Seq(Calls)
    OBVIOUS
  <2>2. past.calls = <<>> /\ past.seed \in Seeds /\ past = [seed |-> past.seed, calls |-> past.calls]
    OBVIOUS
  <2> QED
    BY <2>1, <2>2 DEF Pasts
<1>1. ASSUME NEW p \in Parties PROVE Keeps(transcripts[p], pasts[p])
  <2> DEFINE seed == pasts[p].seed
  <2>1. pasts[p] \in [seed : Seeds, calls : {<<>>}]
    BY DEF Init
  <2>2. pasts[p].calls = <<>> /\ pasts[p] \in Pasts
    BY <1>0, <2>1
  <2>3. transcripts[p] = [state |-> Root(seed), absorbs |-> 0, squeezes |-> 0]
    BY DEF Init, NewTranscript, Root
  <2> HIDE DEF seed
  <2>4. IsTranscript(transcripts[p]) /\ transcripts[p].state = Root(seed)
    BY <2>3, TranscriptAssumption DEF IsTranscript
  <2>5. StateAfter(pasts[p], Root(seed))
    <3> DEFINE h == [i \in {0} |-> Root(seed)]
    <3>1. Trace(h, pasts[p])
      BY <2>2 DEF Trace, seed
    <3>2. Root(seed) = h[Len(pasts[p].calls)]
      BY <2>2
    <3> QED
      BY <3>1, <3>2 DEF StateAfter
  <2>6. ~Absorbed(pasts[p]) /\ transcripts[p].absorbs = 0
    BY <2>2, <2>3 DEF Absorbed
  <2> QED
    BY <2>2, <2>4, <2>5, <2>6 DEF Keeps
<1>2. transcripts = [p \in Parties |-> transcripts[p]]
  BY DEF Init
<1>3. pasts \in [Parties -> Pasts]
  <2>1. \A x \in [seed : Seeds, calls : {<<>>}] : x \in Pasts
    BY <1>0
  <2> QED
    BY <2>1 DEF Init
<1> QED
  BY <1>1, <1>2, <1>3 DEF Init, TranscriptInv, TranscriptsKeep

LEMMA NextKeeps ==
    ASSUME TranscriptInv, [Next]_vars
    PROVE  TranscriptInv'
<1>1. CASE UNCHANGED vars
  BY <1>1 DEF vars, TranscriptInv, TranscriptsKeep
<1>2. ASSUME NEW p \in Parties, Absorbs(p) PROVE TranscriptInv'
  <2> DEFINE t == transcripts[p]
  <2>1. IsTranscript(t) /\ TranscriptsKeep
    BY DEF TranscriptInv, TranscriptsKeep, Keeps
  <2>2. TranscriptsKeep'
    <3>1. ASSUME NEW m \in Messages, Moves(p, Absorb(t, m.label, m.msg), MessageCall(m))
          PROVE  TranscriptsKeep'
      BY <2>1, <3>1, MessageCalls, MovesKeep
    <3>2. ASSUME NEW acc \in Accumulators,
                 Moves(p, AbsorbAccumulator(t, acc), AccumulatorCall(acc))
          PROVE  TranscriptsKeep'
      BY <2>1, <3>2, AccumulatorCalls, MovesKeep
    <3>3. ASSUME NEW pi \in PublicInputs,
                 Moves(p, AbsorbPublicInput(t, pi), PublicInputCall(pi))
          PROVE  TranscriptsKeep'
      BY <2>1, <3>3, PublicInputCalls, MovesKeep
    <3> QED
      BY <1>2, <3>1, <3>2, <3>3
      DEF Absorbs, MessageCall, AccumulatorCall, PublicInputCall
  <2> QED
    BY <1>2, <2>2 DEF Absorbs, TranscriptInv
<1>3. ASSUME NEW p \in Parties, DrawsScalar(p) PROVE TranscriptInv'
  <2>1. PICK label \in {Fold, Commit} : ~NothingAbsorbed(transcripts[p]) /\ Squeezes(p, label, 0)
    BY <1>3 DEF DrawsScalar
  <2> QED
    BY <2>1, SqueezesKeep DEF SqueezeLabels
<1>4. ASSUME NEW p \in Parties, RefusesScalar(p) PROVE TranscriptInv'
  <2>1. ~Absorbed(pasts[p])
    BY <1>4 DEF RefusesScalar, NothingAbsorbed, TranscriptInv, TranscriptsKeep, Keeps
  <2> QED
    BY <1>4, <2>1 DEF RefusesScalar, TranscriptInv, TranscriptsKeep
<1>5. ASSUME NEW p \in Parties, DrawsIndex(p) PROVE TranscriptInv'
  <2>1. PICK label \in {Selector, Lane}, n \in Counts : Squeezes(p, label, n)
    BY <1>5 DEF DrawsIndex
  <2>2. label \in SqueezeLabels /\ label \notin {Fold, Commit}
    <3>1. {Selector, Lane} \cap {Fold, Commit} = {}
      BY DEF Selector, Lane, Fold, Commit
    <3> QED
      BY <3>1 DEF SqueezeLabels
  <2> QED
    BY <2>1, <2>2, SqueezesKeep
<1> QED
  BY <1>1, <1>2, <1>3, <1>4, <1>5 DEF Next

LEMMA InvHolds == Spec => []TranscriptInv
<1>1. Init => TranscriptInv
  BY InitKeeps
<1>2. TranscriptInv /\ [Next]_vars => TranscriptInv'
  BY NextKeeps
<1> QED
  BY <1>1, <1>2, PTL DEF Spec

----------------------------------------------------------------------------
(* What the invariant says.                                                *)

\* Any number of parties, any seeds and any calls: two transcripts are in the
\* same state exactly when they were seeded alike and made the same calls.
THEOREM StateIsHistoryAlways == Spec => []StateIsHistory
<1>1. ASSUME TranscriptInv PROVE StateIsHistory
  <2> SUFFICES ASSUME NEW p \in Parties, NEW q \in Parties
               PROVE  transcripts[p].state = transcripts[q].state <=> pasts[p] = pasts[q]
    BY DEF StateIsHistory
  <2>1. /\ pasts[p] \in Pasts /\ StateAfter(pasts[p], transcripts[p].state)
        /\ pasts[q] \in Pasts /\ StateAfter(pasts[q], transcripts[q].state)
    BY <1>1 DEF TranscriptInv, TranscriptsKeep, Keeps
  <2>2. CASE transcripts[p].state = transcripts[q].state
    <3>1. StateAfter(pasts[q], transcripts[p].state)
      BY <2>1, <2>2
    <3> QED
      BY <2>1, <2>2, <3>1, StateDetermines
  <2>3. CASE pasts[p] = pasts[q]
    <3>1. StateAfter(pasts[p], transcripts[q].state)
      BY <2>1, <2>3
    <3> QED
      BY <2>1, <2>3, <3>1, PastDetermines
  <2> QED
    BY <2>2, <2>3
<1> QED
  BY <1>1, InvHolds, PTL

\* Any challenges, whoever drew them: equal ones have one label and one past,
\* one label and one past give equal ones, and none is a transcript's state.
THEOREM ChallengesBindPastAlways == Spec => []ChallengesBindPast
<1>1. ASSUME TranscriptInv, NEW c \in drawn, NEW d \in drawn
      PROVE  c.out = d.out <=> (c.label = d.label /\ c.past = d.past)
  <2>1. c.past \in Pasts /\ d.past \in Pasts /\ c.label \in Seq(Nat) /\ d.label \in Seq(Nat)
    BY <1>1, ArgumentTypes DEF TranscriptInv, Binds
  <2>2. PICK s : StateAfter(c.past, s) /\ c.out = Output(s, c.label)
    BY <1>1 DEF TranscriptInv, Binds
  <2>3. PICK t : StateAfter(d.past, t) /\ d.out = Output(t, d.label)
    BY <1>1 DEF TranscriptInv, Binds
  <2>4. ASSUME c.out = d.out PROVE c.label = d.label /\ c.past = d.past
    <3>1. Output(s, c.label) = Output(t, d.label)
      BY <2>2, <2>3, <2>4
    <3>2. s = t /\ c.label = d.label
      BY <2>1, <3>1, OutputInjective
    <3>3. StateAfter(d.past, s)
      BY <2>3, <3>2
    <3> QED
      BY <2>1, <2>2, <3>2, <3>3, StateDetermines
  <2>5. ASSUME c.label = d.label, c.past = d.past PROVE c.out = d.out
    <3>1. StateAfter(c.past, t)
      BY <2>3, <2>5
    <3>2. s = t
      BY <2>1, <2>2, <3>1, PastDetermines
    <3> QED
      BY <2>2, <2>3, <2>5, <3>2
  <2> QED
    BY <2>4, <2>5
<1>2. ASSUME TranscriptInv, NEW c \in drawn, NEW p \in Parties
      PROVE  c.out # transcripts[p].state
  <2>1. PICK s : StateAfter(c.past, s) /\ c.out = Output(s, c.label)
    BY <1>2 DEF TranscriptInv, Binds
  <2>2. c.label \in SqueezeLabels
    BY <1>2 DEF TranscriptInv, Binds
  <2>3. pasts[p] \in Pasts /\ StateAfter(pasts[p], transcripts[p].state)
    BY <1>2 DEF TranscriptInv, TranscriptsKeep, Keeps
  <2> QED
    BY <2>1, <2>2, <2>3, StateIsNoOutput
<1>3. TranscriptInv => ChallengesBindPast
  BY <1>1, <1>2 DEF ChallengesBindPast
<1> QED
  BY <1>3, InvHolds, PTL

\* However the counter of absorbs saturates, a scalar is drawn only after an
\* absorb and refused only before any.
THEOREM ScalarsFollowAbsorbAlways == Spec => []ScalarsFollowAbsorb
<1>1. TranscriptInv => ScalarsFollowAbsorb
  BY DEF TranscriptInv, Binds, ScalarsFollowAbsorb
<1> QED
  BY <1>1, InvHolds, PTL

\* The first eight bytes of what a squeeze hands out are read as a number.
PrefixIsNatural == \A s : \A label \in SqueezeLabels : Prefix(Output(s, label)) \in Nat

\* Every selected circuit or lane is one of those there are, or the first.
Selects == \A c \in drawn : c.index = 0 \/ \E n \in Counts : c.index < n

LEMMA SqueezesSelect ==
    ASSUME PrefixIsNatural, Selects, NEW p, NEW label \in SqueezeLabels, NEW n \in Counts \cup {0},
           Squeezes(p, label, n)
    PROVE  Selects'
<1> DEFINE x == Prefix(Squeezed(transcripts[p], label))
           i == Reduced(x, n)
           c == [label |-> label, past |-> pasts[p],
                 out |-> Squeezed(transcripts[p], label), index |-> i]
<1>1. drawn' = drawn \cup {c}
  BY DEF Squeezes
<1>2. i = 0 \/ \E k \in Counts : i < k
  <2>1. x \in Nat /\ n \in Nat
    <3>1. Squeezed(transcripts[p], label) = Output(transcripts[p].state, label)
      BY DEF Squeezed, Output
    <3>2. Prefix(Output(transcripts[p].state, label)) \in Nat
      BY DEF PrefixIsNatural
    <3> QED
      BY <3>1, <3>2, TranscriptAssumption
  <2> HIDE DEF x
  <2>2. CASE n = 0
    BY <2>2 DEF Reduced
  <2>3. CASE n # 0
    <3>1. i = x % n
      BY <2>3 DEF Reduced
    <3>2. x % n < n
      BY <2>1, <2>3
    <3> QED
      BY <2>3, <3>1, <3>2
  <2> QED
    BY <2>2, <2>3
<1>3. c.index = i
  OBVIOUS
<1> HIDE DEF c, i
<1> QED
  BY <1>1, <1>2, <1>3 DEF Selects

\* The counters stay in their width and every index in its range, if the first
\* eight bytes of a hash value are read as a number.
THEOREM TypeCorrect ==
    ASSUME PrefixIsNatural
    PROVE  Spec => []TypeOK
<1>1. Init => Selects
  BY DEF Init, Selects
<1>2. Selects /\ [Next]_vars => Selects'
  <2> SUFFICES ASSUME Selects, [Next]_vars PROVE Selects'
    OBVIOUS
  <2>1. CASE drawn' = drawn
    BY <2>1 DEF Selects
  <2>2. ASSUME NEW p \in Parties, DrawsScalar(p) PROVE Selects'
    BY <2>2, SqueezesSelect DEF DrawsScalar, SqueezeLabels
  <2>3. ASSUME NEW p \in Parties, DrawsIndex(p) PROVE Selects'
    BY <2>3, SqueezesSelect DEF DrawsIndex, SqueezeLabels
  <2> QED
    BY <2>1, <2>2, <2>3 DEF Next, Absorbs, RefusesScalar, vars
<1>3. TranscriptInv /\ Selects => TypeOK
  <2> SUFFICES ASSUME TranscriptInv, Selects PROVE TypeOK
    OBVIOUS
  <2>1. ASSUME NEW p \in Parties
        PROVE  /\ transcripts[p].absorbs \in 0 .. MaxU64 /\ transcripts[p].squeezes \in 0 .. MaxU64
               /\ pasts[p].seed \in Seeds
    <3>1. IsTranscript(transcripts[p]) /\ pasts[p] \in Pasts
      BY DEF TranscriptInv, TranscriptsKeep, Keeps
    <3> QED
      BY <3>1 DEF IsTranscript, Pasts
  <2> QED
    BY <2>1 DEF TypeOK, Selects
<1> QED
  BY <1>1, <1>2, <1>3, InvHolds, PTL DEF Spec
=============================================================================
