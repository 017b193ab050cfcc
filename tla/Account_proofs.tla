----------------------------- MODULE Account_proofs -----------------------------
(***************************************************************************)
(* What is proved of the modules around a user's account, for all values   *)
(* of their constants: statement jobs (Statements), push notifications     *)
(* (Notifications), the books of the wallet (WalletLedger) and the wrong   *)
(* PINs there can be (PinLock).                                            *)
(*                                                                         *)
(* The invariants are StatementsSound, PushSound, LedgerSound and          *)
(* GuessesCounted.  Before them come facts about sequences without         *)
(* repetition and about sums.                                              *)
(***************************************************************************)
EXTENDS WalletLedger, PinLock, Statements, Notifications,
        FiniteSetTheorems, SequenceTheorems, WellFoundedInduction, TLAPS

-----------------------------------------------------------------------------
(* Sequences without repetition *)

LEMMA Appended ==
    ASSUME NEW S, NEW s \in Seq(S), NEW x \in S, IsInjective(s), x \notin ToSet(s)
    PROVE  /\ Append(s, x) \in Seq(S) /\ IsInjective(Append(s, x))
           /\ ToSet(Append(s, x)) = ToSet(s) \cup {x}
           /\ Len(Append(s, x)) = Len(s) + 1
  <1> PICK t : t = Append(s, x)
    OBVIOUS
  <1>1. /\ t \in Seq(S) /\ Len(t) = Len(s) + 1
        /\ \A i \in 1..Len(s) : t[i] = s[i]
        /\ t[Len(s) + 1] = x
    BY AppendProperties
  <1>2. DOMAIN s = 1..Len(s) /\ DOMAIN t = 1..Len(t) /\ Len(s) \in Nat
    BY <1>1, LenProperties
  <1>3. DOMAIN t = DOMAIN s \cup {Len(s) + 1}
    BY <1>1, <1>2
  <1>4. ToSet(t) = ToSet(s) \cup {x}
    BY <1>1, <1>2, <1>3 DEF ToSet
  <1>5. IsInjective(t)
    BY <1>1, <1>2, <1>3 DEF IsInjective, ToSet
  <1> QED BY <1>1, <1>4, <1>5

LEMMA Behind ==
    ASSUME NEW S, NEW s \in Seq(S), s # <<>>, IsInjective(s)
    PROVE  /\ Tail(s) \in Seq(S) /\ IsInjective(Tail(s))
           /\ Head(s) \in S /\ Head(s) \in ToSet(s)
           /\ ToSet(Tail(s)) = ToSet(s) \ {Head(s)}
           /\ Len(Tail(s)) = Len(s) - 1
  <1> PICK t : t = Tail(s)
    OBVIOUS
  <1>1. /\ t \in Seq(S) /\ Len(t) = Len(s) - 1 /\ Head(s) \in S
        /\ \A i \in 1..Len(t) : t[i] = s[i + 1]
    BY HeadTailProperties
  <1>2. DOMAIN s = 1..Len(s) /\ DOMAIN t = 1..Len(t) /\ Len(s) \in Nat /\ Len(t) \in Nat
    BY <1>1, LenProperties
  <1>3. Head(s) = s[1] /\ 1 \in DOMAIN s
    BY <1>1, <1>2
  <1>4. \A i \in DOMAIN t : i + 1 \in DOMAIN s /\ t[i] = s[i + 1]
    BY <1>1, <1>2
  <1>5. \A i \in DOMAIN s : i # 1 => i - 1 \in DOMAIN t /\ t[i - 1] = s[i]
    BY <1>1, <1>2
  <1>6. IsInjective(t)
    <2> SUFFICES ASSUME NEW a \in DOMAIN t, NEW b \in DOMAIN t, t[a] = t[b] PROVE a = b
      BY DEF IsInjective
    <2>1. a + 1 = b + 1
      BY <1>4 DEF IsInjective
    <2> QED BY <1>2, <2>1
  <1>7. ToSet(t) \subseteq ToSet(s) \ {Head(s)}
    <2> SUFFICES ASSUME NEW a \in DOMAIN t PROVE t[a] \in ToSet(s) /\ t[a] # s[1]
      BY <1>3 DEF ToSet
    <2>1. a + 1 \in DOMAIN s /\ t[a] = s[a + 1] /\ a + 1 # 1
      BY <1>2, <1>4
    <2> QED BY <1>3, <2>1 DEF IsInjective, ToSet
  <1>8. ToSet(s) \ {Head(s)} \subseteq ToSet(t)
    <2> SUFFICES ASSUME NEW a \in DOMAIN s, s[a] # s[1] PROVE s[a] \in ToSet(t)
      BY <1>3 DEF ToSet
    <2>1. a - 1 \in DOMAIN t /\ t[a - 1] = s[a]
      BY <1>5
    <2> QED BY <2>1 DEF ToSet
  <1>9. Head(s) \in ToSet(s)
    BY <1>3 DEF ToSet
  <1> QED BY <1>1, <1>6, <1>7, <1>8, <1>9

LEMMA Joined ==
    ASSUME NEW S, NEW s \in Seq(S), NEW t \in Seq(S), IsInjective(s), IsInjective(t),
           ToSet(s) \cap ToSet(t) = {}
    PROVE  IsInjective(s \o t) /\ ToSet(s \o t) = ToSet(s) \cup ToSet(t)
  <1> PICK u : u = s \o t
    OBVIOUS
  <1> PICK m, n : m = Len(s) /\ n = Len(t)
    OBVIOUS
  <1>1. /\ u \in Seq(S) /\ Len(u) = m + n
        /\ \A i \in 1..(m + n) : u[i] = IF i <= m THEN s[i] ELSE t[i - m]
    BY ConcatProperties
  <1>2. DOMAIN s = 1..m /\ DOMAIN t = 1..n /\ DOMAIN u = 1..(m + n) /\ m \in Nat /\ n \in Nat
    BY <1>1, LenProperties
  <1>3. \A i \in DOMAIN s : i \in DOMAIN u /\ u[i] = s[i]
    BY <1>1, <1>2
  <1>4. \A i \in DOMAIN t : i + m \in DOMAIN u /\ u[i + m] = t[i]
    BY <1>1, <1>2
  <1>5. \A i \in DOMAIN u : \/ i \in DOMAIN s /\ u[i] = s[i]
                            \/ i - m \in DOMAIN t /\ u[i] = t[i - m]
    BY <1>1, <1>2
  <1>6. ToSet(u) = ToSet(s) \cup ToSet(t)
    <2>1. ToSet(u) \subseteq ToSet(s) \cup ToSet(t)
      BY <1>5 DEF ToSet
    <2>2. ToSet(s) \subseteq ToSet(u)
      BY <1>3 DEF ToSet
    <2>3. ToSet(t) \subseteq ToSet(u)
      BY <1>4 DEF ToSet
    <2> QED BY <2>1, <2>2, <2>3
  <1>7. IsInjective(u)
    <2> SUFFICES ASSUME NEW a \in DOMAIN u, NEW b \in DOMAIN u, u[a] = u[b] PROVE a = b
      BY DEF IsInjective
    <2>1. CASE a \in DOMAIN s /\ u[a] = s[a] /\ b \in DOMAIN s /\ u[b] = s[b]
      BY <2>1 DEF IsInjective
    <2>2. CASE a - m \in DOMAIN t /\ u[a] = t[a - m] /\ b - m \in DOMAIN t /\ u[b] = t[b - m]
      <3>1. a - m = b - m
        BY <2>2 DEF IsInjective
      <3> QED BY <1>2, <3>1
    <2>3. CASE \/ a \in DOMAIN s /\ u[a] = s[a] /\ b - m \in DOMAIN t /\ u[b] = t[b - m]
               \/ b \in DOMAIN s /\ u[b] = s[b] /\ a - m \in DOMAIN t /\ u[a] = t[a - m]
      <3>1. \E x : x \in ToSet(s) /\ x \in ToSet(t)
        BY <2>3 DEF ToSet
      <3> QED BY <3>1
    <2> QED BY <1>5, <2>1, <2>2, <2>3
  <1> QED BY <1>6, <1>7

LEMMA NothingIn == ToSet(<<>>) = {} /\ IsInjective(<<>>)
  <1>1. DOMAIN <<>> = {}
    OBVIOUS
  <1> QED BY <1>1 DEF ToSet, IsInjective

\* What a claim hands to the dispatcher: different rows, no more than asked for.
LEMMA OldestRows ==
    ASSUME NEW rows, NEW n \in Nat, NEW s \in Oldest(rows, n), rows \subseteq Nat
    PROVE  /\ s \in Seq(rows) /\ Len(s) \in 0..n /\ IsInjective(s) /\ ToSet(s) \subseteq rows
  <1>1. PICK k \in 0..n : s \in [1..k -> rows]
    BY DEF Oldest
  <1>2. s \in Seq(rows)
    BY <1>1, SeqDef
  <1>3. DOMAIN s = 1..k /\ Len(s) = k
    BY <1>1, <1>2, LenProperties
  <1>4. IsInjective(s)
    <2> SUFFICES ASSUME NEW a \in 1..k, NEW b \in 1..k, s[a] = s[b], a # b PROVE FALSE
      BY <1>3 DEF IsInjective
    <2>1. a < b => s[a] < s[b]
      BY <1>3 DEF Oldest
    <2>2. b < a => s[b] < s[a]
      BY <1>3 DEF Oldest
    <2>3. s[a] \in Nat /\ s[b] \in Nat
      BY <1>1
    <2> QED BY <2>1, <2>2, <2>3
  <1>5. ToSet(s) \subseteq rows
    BY <1>1, <1>3 DEF ToSet
  <1> QED BY <1>2, <1>3, <1>4, <1>5

\* A non-empty set of numbers has a least one.
LEMMA Least ==
    ASSUME NEW S \in SUBSET Nat, S # {}
    PROVE  \E i \in S : \A j \in S : i <= j
  <1>1. PICK x \in S : \A y \in S : ~ (<<y, x>> \in OpToRel(<, Nat))
    BY NatLessThanWellFounded, WFMin
  <1>2. ASSUME NEW y \in S PROVE ~ (y < x)
    <2>1. ~ (<<y, x>> \in OpToRel(<, Nat))
      BY <1>1
    <2> QED BY <2>1 DEF OpToRel
  <1>3. x \in Nat /\ \A y \in S : y \in Nat
    OBVIOUS
  <1>4. \A y \in S : x <= y
    BY ONLY <1>2, <1>3
  <1> QED BY ONLY <1>4, x \in S

-----------------------------------------------------------------------------
(* Sums.  The library's fold takes an element of the set at a time, by its   *)
(* own choice; the lemmas say that the choice does not matter.               *)

First(s) == CHOOSE x \in s : TRUE

Partial(F, w, s) == IF s = {} THEN 0 ELSE w[First(s)] + F[s \ {First(s)}]

Adds(F, w, S) == F = [s \in SUBSET S |-> Partial(F, w, s)]

UpTo(F, w, S, n) ==
    F \in [SUBSET S -> Int] /\ \A s \in SUBSET S : Cardinality(s) <= n => F[s] = Partial(F, w, s)

IsSum(F, w, S) ==
    F \in [SUBSET S -> Int] /\ Adds(F, w, S) /\ SumFunctionOnSet(w, S) = F[S]

LEMMA OneLess ==
    ASSUME NEW s, IsFiniteSet(s), NEW x \in s
    PROVE  /\ IsFiniteSet(s \ {x}) /\ Cardinality(s) \in Nat /\ Cardinality(s \ {x}) \in Nat
           /\ Cardinality(s \ {x}) = Cardinality(s) - 1
  BY FS_RemoveElement, FS_CardinalityType

LEMMA FirstIn == ASSUME NEW s, s # {} PROVE First(s) \in s
  BY DEF First

LEMMA PartialUpTo ==
    ASSUME NEW D, NEW w \in [D -> Int], NEW S \in SUBSET D, IsFiniteSet(S), NEW n \in Nat
    PROVE  \E F : UpTo(F, w, S, n)
  <1> DEFINE Good(m) == \E F \in [SUBSET S -> Int] :
                          \A s \in SUBSET S : Cardinality(s) <= m => F[s] = Partial(F, w, s)
  <1> SUFFICES ASSUME ~Good(n) PROVE FALSE
    BY DEF UpTo
  <1>1. PICK m \in Nat : ~Good(m) /\ \A k \in Nat : ~Good(k) => m <= k
    <2>1. {k \in Nat : ~Good(k)} \in SUBSET Nat /\ {k \in Nat : ~Good(k)} # {}
      OBVIOUS
    <2>2. PICK m \in {k \in Nat : ~Good(k)} : \A k \in {j \in Nat : ~Good(j)} : m <= k
      BY <2>1, Least
    <2> QED BY <2>2
  <1>2. \A s \in SUBSET S : IsFiniteSet(s) /\ Cardinality(s) \in Nat
    BY FS_Subset, FS_CardinalityType
  <1>3. \A s \in SUBSET S : s # {} => /\ First(s) \in s /\ First(s) \in D
                                      /\ s \ {First(s)} \in SUBSET S
                                      /\ Cardinality(s \ {First(s)}) = Cardinality(s) - 1
    BY <1>2, FirstIn, OneLess
  <1>4. CASE m = 0
    <2> PICK F : F = [s \in SUBSET S |-> 0]
      OBVIOUS
    <2>1. \A s \in SUBSET S : Cardinality(s) <= m => s = {}
      BY <1>2, <1>4, FS_EmptySet
    <2>2. \A s \in SUBSET S : Cardinality(s) <= m => F[s] = Partial(F, w, s)
      BY <2>1 DEF Partial
    <2>3. F \in [SUBSET S -> Int]
      OBVIOUS
    <2> QED BY <1>1, <2>2, <2>3
  <1>5. CASE m # 0
    <2>1. m - 1 \in Nat /\ ~(m <= m - 1)
      BY <1>5
    <2>2. PICK F \in [SUBSET S -> Int] :
            \A s \in SUBSET S : Cardinality(s) <= m - 1 => F[s] = Partial(F, w, s)
      BY <1>1, <2>1
    <2>3. \A s \in SUBSET S : Partial(F, w, s) \in Int
      <3> SUFFICES ASSUME NEW s \in SUBSET S PROVE Partial(F, w, s) \in Int
        OBVIOUS
      <3>1. CASE s = {}
        BY <3>1 DEF Partial
      <3>2. CASE s # {}
        <4>1. w[First(s)] \in Int /\ F[s \ {First(s)}] \in Int
          BY <1>3, <2>2, <3>2
        <4> QED BY <3>2, <4>1 DEF Partial
      <3> QED BY <3>1, <3>2
    <2> PICK G : G = [s \in SUBSET S |-> IF Cardinality(s) <= m - 1 THEN F[s] ELSE Partial(F, w, s)]
      OBVIOUS
    <2>4. G \in [SUBSET S -> Int]
      BY <2>2, <2>3
    <2>5. ASSUME NEW s \in SUBSET S, Cardinality(s) <= m
          PROVE  G[s] = Partial(G, w, s)
      <3>1. G[s] = Partial(F, w, s)
        BY <2>2
      <3>2. CASE s = {}
        BY <3>1, <3>2 DEF Partial
      <3>3. CASE s # {}
        <4> PICK r : r = s \ {First(s)}
          OBVIOUS
        <4>1. r \in SUBSET S /\ Cardinality(r) = Cardinality(s) - 1
          BY <1>3, <3>3
        <4>2. Cardinality(r) <= m - 1
          BY <1>2, <2>5, <4>1
        <4>3. G[r] = F[r]
          BY <4>1, <4>2
        <4> QED BY <3>1, <3>3, <4>3 DEF Partial
      <3> QED BY <3>2, <3>3
    <2> QED BY <1>1, <2>4, <2>5
  <1> QED BY <1>4, <1>5

LEMMA Added ==
    ASSUME NEW D, NEW w \in [D -> Int], NEW S \in SUBSET D, IsFiniteSet(S)
    PROVE  \E F : IsSum(F, w, S)
  <1>1. \A s \in SUBSET S : Cardinality(s) <= Cardinality(S)
    BY FS_Subset
  <1>2. PICK F \in [SUBSET S -> Int] : \A s \in SUBSET S : F[s] = Partial(F, w, s)
    <2>1. Cardinality(S) \in Nat
      BY FS_CardinalityType
    <2>2. PICK E \in [SUBSET S -> Int] :
            \A s \in SUBSET S : Cardinality(s) <= Cardinality(S) => E[s] = Partial(E, w, s)
      <3>1. \E H : UpTo(H, w, S, Cardinality(S))
        BY <2>1, PartialUpTo
      <3> QED BY <3>1 DEF UpTo
    <2> QED BY <1>1, <2>2
  <1>3. Adds(F, w, S)
    BY <1>2 DEF Adds
  <1> PICK G : G = CHOOSE H : Adds(H, w, S)
    OBVIOUS
  <1>4. Adds(G, w, S)
    BY <1>3
  <1>5. SumFunctionOnSet(w, S) = G[S]
    BY DEF SumFunctionOnSet, FoldFunctionOnSet, MapThenFoldSet, Adds, Partial, First
  <1>6. \A s \in SUBSET S : Cardinality(s) \in Nat /\ IsFiniteSet(s)
    BY FS_Subset, FS_CardinalityType
  <1>7. G = F
    <2> DEFINE Bad == {k \in Nat : \E s \in SUBSET S : Cardinality(s) = k /\ G[s] # F[s]}
    <2>1. Bad = {}
      <3> SUFFICES ASSUME Bad # {} PROVE FALSE
        OBVIOUS
      <3>1. PICK k \in Bad : \A j \in Bad : k <= j
        <4>1. Bad \in SUBSET Nat
          OBVIOUS
        <4> HIDE DEF Bad
        <4> QED BY <4>1, Least
      <3>2. PICK s \in SUBSET S : Cardinality(s) = k /\ G[s] # F[s]
        BY <3>1
      <3>3. G[s] = Partial(G, w, s) /\ F[s] = Partial(F, w, s)
        BY <1>2, <1>4 DEF Adds
      <3>4. s # {}
        BY <3>2, <3>3 DEF Partial
      <3>5. PICK r \in SUBSET S : r = s \ {First(s)} /\ Cardinality(r) = k - 1 /\ k \in Nat
        <4>1. IsFiniteSet(s) /\ First(s) \in s
          BY <1>6, <3>4, FirstIn
        <4>2. Cardinality(s \ {First(s)}) = Cardinality(s) - 1
          BY <4>1, OneLess
        <4> QED BY <3>1, <3>2, <4>2
      <3>6. G[r] = F[r]
        <4>1. k - 1 \in Nat /\ ~(k <= k - 1)
          BY <1>6, <3>5
        <4>2. k - 1 \notin Bad
          BY <3>1, <4>1
        <4> QED BY <3>5, <4>1, <4>2
      <3> QED BY <3>2, <3>3, <3>4, <3>5, <3>6 DEF Partial
    <2>2. \A s \in SUBSET S : G[s] = F[s]
      BY <1>6, <2>1
    <2>3. DOMAIN G = SUBSET S /\ G = [s \in SUBSET S |-> G[s]]
      BY <1>4 DEF Adds
    <2> QED BY <2>2, <2>3
  <1> QED BY <1>3, <1>5, <1>7 DEF IsSum

LEMMA SumOfNothing == ASSUME NEW w PROVE SumFunctionOnSet(w, {}) = 0
  <1> PICK v : v = [x \in {} |-> 0]
    OBVIOUS
  <1> DEFINE Fold(u) == CHOOSE F : F = [s \in SUBSET {} |-> Partial(F, u, s)]
  <1>1. SumFunctionOnSet(w, {}) = Fold(w)[{}]
    BY DEF SumFunctionOnSet, FoldFunctionOnSet, MapThenFoldSet, Partial, First
  <1>2. \A F, s : s \in SUBSET {} => Partial(F, w, s) = 0
    BY DEF Partial
  <1> PICK Z : Z = [s \in SUBSET {} |-> 0]
    OBVIOUS
  <1>3. Z = [s \in SUBSET {} |-> Partial(Z, w, s)]
    BY <1>2
  <1>4. Fold(w) = [s \in SUBSET {} |-> Partial(Fold(w), w, s)]
    BY <1>3
  <1>5. Fold(w)[{}] = Partial(Fold(w), w, {})
    BY <1>4
  <1> QED BY <1>1, <1>5 DEF Partial

LEMMA SumOfFirst ==
    ASSUME NEW D, NEW w \in [D -> Int], NEW S \in SUBSET D, IsFiniteSet(S), S # {}
    PROVE  /\ SumFunctionOnSet(w, S) \in Int
           /\ SumFunctionOnSet(w, S \ {First(S)}) \in Int
           /\ SumFunctionOnSet(w, S) = w[First(S)] + SumFunctionOnSet(w, S \ {First(S)})
  <1> PICK R : R = S \ {First(S)}
    OBVIOUS
  <1>1. First(S) \in S /\ R \in SUBSET S /\ R \in SUBSET D /\ IsFiniteSet(R)
    BY FirstIn, FS_Subset
  <1>2. PICK F \in [SUBSET S -> Int] : Adds(F, w, S) /\ SumFunctionOnSet(w, S) = F[S]
    <2>1. \E H : IsSum(H, w, S)
      BY Added
    <2> QED BY <2>1 DEF IsSum
  <1>3. PICK G \in [SUBSET R -> Int] : Adds(G, w, R) /\ SumFunctionOnSet(w, R) = G[R]
    <2>1. \E H : IsSum(H, w, R)
      BY <1>1, Added
    <2> QED BY <2>1 DEF IsSum
  <1>4. F[S] = w[First(S)] + F[R]
    BY <1>2 DEF Adds, Partial
  <1> PICK H : H = [s \in SUBSET R |-> F[s]]
    OBVIOUS
  <1>5. \A s \in SUBSET R : /\ s \in SUBSET S /\ F[s] = Partial(F, w, s)
                            /\ G[s] = Partial(G, w, s) /\ s \ {First(s)} \in SUBSET R
    BY <1>1, <1>2, <1>3 DEF Adds
  <1>6. \A s \in SUBSET R : IsFiniteSet(s) /\ Cardinality(s) \in Nat
    BY <1>1, FS_Subset, FS_CardinalityType
  <1>7. \A s \in SUBSET R : F[s] = G[s]
    <2> DEFINE Bad == {k \in Nat : \E s \in SUBSET R : Cardinality(s) = k /\ F[s] # G[s]}
    <2>1. Bad = {}
      <3> SUFFICES ASSUME Bad # {} PROVE FALSE
        OBVIOUS
      <3>1. PICK k \in Bad : \A j \in Bad : k <= j
        <4>1. Bad \in SUBSET Nat
          OBVIOUS
        <4> HIDE DEF Bad
        <4> QED BY <4>1, Least
      <3>2. PICK s \in SUBSET R : Cardinality(s) = k /\ G[s] # F[s]
        BY <3>1
      <3>3. s # {}
        BY <1>5, <3>2 DEF Partial
      <3>4. PICK r \in SUBSET R : r = s \ {First(s)} /\ Cardinality(r) = k - 1 /\ k \in Nat
        <4>1. IsFiniteSet(s) /\ First(s) \in s
          BY <1>6, <3>3, FirstIn
        <4>2. Cardinality(s \ {First(s)}) = Cardinality(s) - 1
          BY <4>1, OneLess
        <4> QED BY <3>1, <3>2, <4>2
      <3>5. G[r] = F[r]
        <4>1. k - 1 \in Nat /\ ~(k <= k - 1)
          BY <1>6, <3>4
        <4>2. k - 1 \notin Bad
          BY <3>1, <4>1
        <4> QED BY <3>4, <4>1, <4>2
      <3> QED BY <1>5, <3>2, <3>3, <3>4, <3>5 DEF Partial
    <2> QED BY <1>6, <2>1
  <1>8. F[R] = G[R] /\ G[R] \in Int /\ F[S] \in Int
    BY <1>1, <1>2, <1>3, <1>7
  <1> QED BY <1>2, <1>3, <1>4, <1>8

\* A proof by induction on a finite set's size, without an operator: a family
\* of sets that is closed under taking the first element away is empty unless
\* it holds the empty set.
LEMMA Smallest ==
    ASSUME NEW Bad, \A s \in Bad : IsFiniteSet(s), Bad # {}
    PROVE  \E s \in Bad : \A r \in Bad : Cardinality(s) <= Cardinality(r)
  <1> DEFINE Sizes == {Cardinality(s) : s \in Bad}
  <1>1. Sizes \in SUBSET Nat /\ Sizes # {}
    BY FS_CardinalityType
  <1>2. PICK k \in Sizes : \A j \in Sizes : k <= j
    <2> HIDE DEF Sizes
    <2> QED BY <1>1, Least
  <1> QED BY <1>2

LEMMA SumIsInt ==
    ASSUME NEW D, NEW w \in [D -> Int], NEW S \in SUBSET D, IsFiniteSet(S)
    PROVE  SumFunctionOnSet(w, S) \in Int
  <1>1. CASE S = {}
    <2>1. SumFunctionOnSet(w, {}) = 0
      BY SumOfNothing
    <2> QED BY <1>1, <2>1
  <1>2. CASE S # {}
    BY <1>2, SumOfFirst
  <1> QED BY <1>1, <1>2

\* Whichever element is taken first, the sum is the same.
LEMMA SumTakes ==
    ASSUME NEW D, NEW w \in [D -> Int], NEW S \in SUBSET D, IsFiniteSet(S), NEW a \in S
    PROVE  SumFunctionOnSet(w, S) = w[a] + SumFunctionOnSet(w, S \ {a})
  <1> DEFINE Sum(s) == SumFunctionOnSet(w, s)
  <1> DEFINE Bad == {s \in SUBSET S : \E x \in s : Sum(s) # w[x] + Sum(s \ {x})}
  <1>1. \A s \in SUBSET S : IsFiniteSet(s)
    BY FS_Subset
  <1>2. \A s \in SUBSET S : s # {} => /\ First(s) \in s /\ Sum(s) \in Int /\ Sum(s \ {First(s)}) \in Int
                                      /\ Sum(s) = w[First(s)] + Sum(s \ {First(s)})
    <2> SUFFICES ASSUME NEW s \in SUBSET S, s # {}
                 PROVE  /\ First(s) \in s /\ Sum(s) \in Int /\ Sum(s \ {First(s)}) \in Int
                        /\ Sum(s) = w[First(s)] + Sum(s \ {First(s)})
      OBVIOUS
    <2>1. s \in SUBSET D /\ IsFiniteSet(s)
      BY <1>1
    <2> QED BY <2>1, FirstIn, SumOfFirst
  <1>3. \A s \in SUBSET S : Sum(s) \in Int
    <2> SUFFICES ASSUME NEW s \in SUBSET S PROVE Sum(s) \in Int
      OBVIOUS
    <2>1. s \in SUBSET D /\ IsFiniteSet(s)
      BY <1>1
    <2> QED BY <2>1, SumIsInt
  <1>4. Bad = {}
    <2> SUFFICES ASSUME Bad # {} PROVE FALSE
      OBVIOUS
    <2>1. PICK s \in Bad : \A r \in Bad : Cardinality(s) <= Cardinality(r)
      <3>1. \A r \in Bad : IsFiniteSet(r)
        BY <1>1
      <3> HIDE DEF Bad
      <3> QED BY <3>1, Smallest
    <2>2. PICK x \in s : Sum(s) # w[x] + Sum(s \ {x})
      OBVIOUS
    <2> PICK c, p, q : c = First(s) /\ p = s \ {c} /\ q = s \ {x}
      OBVIOUS
    <2>3. s \in SUBSET S /\ IsFiniteSet(s) /\ c \in s /\ Sum(s) = w[c] + Sum(p)
      BY <1>1, <1>2, <2>2
    <2>4. x # c
      BY <2>2, <2>3
    <2>5. /\ p \in SUBSET S /\ q \in SUBSET S /\ x \in p /\ c \in q
          /\ Cardinality(p) = Cardinality(s) - 1 /\ Cardinality(q) = Cardinality(s) - 1
          /\ Cardinality(s) \in Nat
      BY <2>3, <2>4, OneLess
    <2>6. p \notin Bad /\ q \notin Bad
      <3>1. ~(Cardinality(s) <= Cardinality(p)) /\ ~(Cardinality(s) <= Cardinality(q))
        BY <2>5
      <3> HIDE DEF Bad
      <3> QED BY <2>1, <3>1
    <2>7. Sum(p) = w[x] + Sum(p \ {x}) /\ Sum(q) = w[c] + Sum(q \ {c})
      BY <2>5, <2>6
    <2>8. p \ {x} = q \ {c} /\ p \ {x} \in SUBSET S
      BY <2>5
    <2>9. w[x] \in Int /\ w[c] \in Int /\ Sum(p \ {x}) \in Int
      BY <1>3, <2>3, <2>8
    <2> HIDE DEF Sum
    <2> QED BY <2>2, <2>3, <2>7, <2>8, <2>9
  <1>5. S \notin Bad
    BY <1>4
  <1> QED BY <1>5

LEMMA SumAdds ==
    ASSUME NEW D, NEW w \in [D -> Int], NEW S \in SUBSET D, IsFiniteSet(S), NEW a \in D, a \notin S
    PROVE  SumFunctionOnSet(w, S \cup {a}) = SumFunctionOnSet(w, S) + w[a]
  <1> PICK T : T = S \cup {a}
    OBVIOUS
  <1>1. T \in SUBSET D /\ IsFiniteSet(T) /\ a \in T /\ T \ {a} = S
    BY FS_AddElement
  <1>2. SumFunctionOnSet(w, T) = w[a] + SumFunctionOnSet(w, S)
    BY <1>1, SumTakes
  <1>3. w[a] \in Int /\ SumFunctionOnSet(w, S) \in Int
    BY SumIsInt
  <1> QED BY <1>2, <1>3

LEMMA SumSame ==
    ASSUME NEW D, NEW E, NEW w \in [D -> Int], NEW v \in [E -> Int],
           NEW S \in SUBSET D, S \in SUBSET E, IsFiniteSet(S), \A x \in S : w[x] = v[x]
    PROVE  SumFunctionOnSet(w, S) = SumFunctionOnSet(v, S)
  <1> DEFINE Bad == {s \in SUBSET S : SumFunctionOnSet(w, s) # SumFunctionOnSet(v, s)}
  <1>1. \A s \in SUBSET S : IsFiniteSet(s)
    BY FS_Subset
  <1>2. Bad = {}
    <2> SUFFICES ASSUME Bad # {} PROVE FALSE
      OBVIOUS
    <2>1. PICK s \in Bad : \A r \in Bad : Cardinality(s) <= Cardinality(r)
      <3>1. \A r \in Bad : IsFiniteSet(r)
        BY <1>1
      <3> HIDE DEF Bad
      <3> QED BY <3>1, Smallest
    <2>2. s \in SUBSET S /\ IsFiniteSet(s) /\ SumFunctionOnSet(w, s) # SumFunctionOnSet(v, s)
      BY <1>1
    <2>3. s # {}
      BY <2>2, SumOfNothing
    <2> PICK r : r = s \ {First(s)}
      OBVIOUS
    <2>4. /\ First(s) \in S /\ r \in SUBSET S /\ Cardinality(s) \in Nat
          /\ Cardinality(r) = Cardinality(s) - 1
      BY <2>2, <2>3, FirstIn, OneLess
    <2>5. r \notin Bad
      <3>1. ~(Cardinality(s) <= Cardinality(r))
        BY <2>4
      <3> HIDE DEF Bad
      <3> QED BY <2>1, <3>1
    <2>6. SumFunctionOnSet(w, s) = w[First(s)] + SumFunctionOnSet(w, r)
      <3>1. s \in SUBSET D
        BY <2>2
      <3> QED BY <2>2, <2>3, <3>1, SumOfFirst
    <2>7. SumFunctionOnSet(v, s) = v[First(s)] + SumFunctionOnSet(v, r)
      <3>1. s \in SUBSET E
        BY <2>2
      <3> QED BY <2>2, <2>3, <3>1, SumOfFirst
    <2> QED BY <2>2, <2>4, <2>5, <2>6, <2>7
  <1>3. S \notin Bad
    BY <1>2
  <1> QED BY <1>3

LEMMA SumOfZeros ==
    ASSUME NEW D, NEW w \in [D -> Int], NEW S \in SUBSET D, IsFiniteSet(S), \A x \in S : w[x] = 0
    PROVE  SumFunctionOnSet(w, S) = 0
  <1> DEFINE Bad == {s \in SUBSET S : SumFunctionOnSet(w, s) # 0}
  <1>1. \A s \in SUBSET S : IsFiniteSet(s)
    BY FS_Subset
  <1>2. Bad = {}
    <2> SUFFICES ASSUME Bad # {} PROVE FALSE
      OBVIOUS
    <2>1. PICK s \in Bad : \A r \in Bad : Cardinality(s) <= Cardinality(r)
      <3>1. \A r \in Bad : IsFiniteSet(r)
        BY <1>1
      <3> HIDE DEF Bad
      <3> QED BY <3>1, Smallest
    <2>2. s \in SUBSET D /\ s \in SUBSET S /\ IsFiniteSet(s) /\ SumFunctionOnSet(w, s) # 0
      BY <1>1
    <2>3. s # {}
      BY <2>2, SumOfNothing
    <2> PICK r : r = s \ {First(s)}
      OBVIOUS
    <2>4. /\ First(s) \in S /\ r \in SUBSET S /\ Cardinality(s) \in Nat
          /\ Cardinality(r) = Cardinality(s) - 1
      BY <2>2, <2>3, FirstIn, OneLess
    <2>5. r \notin Bad
      <3>1. ~(Cardinality(s) <= Cardinality(r))
        BY <2>4
      <3> HIDE DEF Bad
      <3> QED BY <2>1, <3>1
    <2>6. SumFunctionOnSet(w, s) = w[First(s)] + SumFunctionOnSet(w, r)
      BY <2>2, <2>3, SumOfFirst
    <2>7. w[First(s)] = 0 /\ SumFunctionOnSet(w, r) = 0
      BY <2>4, <2>5
    <2> QED BY <2>2, <2>6, <2>7
  <1>3. S \notin Bad
    BY <1>2
  <1> QED BY <1>3

-----------------------------------------------------------------------------
(* Statements: who holds which job *)

\* What a process holds: in its channel, or on the way there.
Waiting(p) == ToSet(queue[p]) \cup ToSet(dispatcher[p])

\* Nothing is held twice.
Apart ==
    /\ \A p \in Procs : /\ IsInjective(queue[p]) /\ IsInjective(dispatcher[p])
                        /\ ToSet(queue[p]) \cap ToSet(dispatcher[p]) = {}
    /\ \A p, q \in Procs : p # q => Waiting(p) \cap Waiting(q) = {}
    /\ \A w \in Workers, p \in Procs : worker[w].job \notin Waiting(p)
    /\ \A v, w \in Workers : v # w /\ worker[v].job = worker[w].job => worker[v].job = 0

\* What is held is claimed.
HeldClaimed ==
    /\ \A p \in Procs : \A j \in Waiting(p) : status[j] = "processing"
    /\ \A w \in Workers : worker[w].job # 0 => status[worker[w].job] = "processing"

\* A worker has a job while it works, and has uploaded what it will call ready.
Working ==
    \A w \in Workers : /\ worker[w].pc = "idle" <=> worker[w].job = 0
                       /\ worker[w].pc = "ready" => file[PathOf[worker[w].job]] # 0

\* What is claimed fits, and the cron job is over when a process closes.
Fitting ==
    \A p \in Procs : /\ Len(queue[p]) + Len(dispatcher[p]) <= Slots
                     /\ ~running[p] => dispatcher[p] = <<>>
                     /\ life[p] = "closed" => ~running[p]

StatementsSound ==
    StatementsTypeOK /\ Apart /\ HeldClaimed /\ Working /\ Fitting /\ ReadyHasFile

LEMMA JobsNotZero == 0 \notin Jobs /\ Jobs \subseteq Nat
  BY StatementsAssumption

LEMMA WaitingJobs ==
    ASSUME StatementsTypeOK, NEW p \in Procs
    PROVE  /\ ToSet(queue[p]) \subseteq Jobs /\ ToSet(dispatcher[p]) \subseteq Jobs
           /\ Waiting(p) \subseteq Jobs
  <1>1. queue[p] \in Seq(Jobs) /\ dispatcher[p] \in Seq(Jobs)
    BY DEF StatementsTypeOK
  <1>2. ASSUME NEW s \in Seq(Jobs) PROVE ToSet(s) \subseteq Jobs
    BY LenProperties, ElementOfSeq DEF ToSet
  <1> QED BY <1>1, <1>2 DEF Waiting

\* A step that takes on nothing, and settles or forgets what it lets go, leaves
\* every job with one holder at most.
LEMMA NothingTaken ==
    ASSUME StatementsTypeOK, Apart, HeldClaimed,
           \A p \in Procs :
              /\ IsInjective(queue'[p]) /\ IsInjective(dispatcher'[p])
              /\ ToSet(queue'[p]) \cap ToSet(dispatcher'[p]) = {}
              /\ ToSet(queue'[p]) \cup ToSet(dispatcher'[p]) \subseteq Waiting(p),
           \A w \in Workers : worker'[w].job \in {worker[w].job, 0},
           \A j \in Jobs : status[j] = "processing" /\ status'[j] # "processing" =>
              \E w \in Workers : worker[w].job = j /\ worker'[w].job = 0
    PROVE  Apart' /\ HeldClaimed'
  <1>1. \A p \in Procs : Waiting(p)' \subseteq Waiting(p) /\ Waiting(p) \subseteq Jobs
    BY WaitingJobs DEF Waiting
  <1>2. Apart'
    <2>1. \A w \in Workers, p \in Procs : (worker[w].job \notin Waiting(p))'
      BY <1>1, JobsNotZero DEF Apart
    <2>2. \A v, w \in Workers : v # w /\ worker'[v].job = worker'[w].job => worker'[v].job = 0
      BY DEF Apart
    <2>3. \A p, q \in Procs : p # q => (Waiting(p) \cap Waiting(q) = {})'
      BY <1>1 DEF Apart
    <2> QED BY <2>1, <2>2, <2>3 DEF Apart
  <1>3. HeldClaimed'
    <2>1. ASSUME NEW p \in Procs, NEW j, j \in Waiting(p)' PROVE status'[j] = "processing"
      BY <1>1, <2>1 DEF Apart, HeldClaimed
    <2>2. ASSUME NEW w \in Workers, worker'[w].job # 0 PROVE status'[worker'[w].job] = "processing"
      <3>1. worker'[w].job = worker[w].job /\ worker[w].job \in Jobs
        BY <2>2 DEF StatementsTypeOK, Worker
      <3>2. \A v \in Workers : worker[v].job = worker[w].job /\ worker'[v].job = 0 => v # w
        BY <2>2
      <3> QED BY <2>2, <3>1, <3>2 DEF Apart, HeldClaimed
    <2> QED BY <2>1, <2>2 DEF HeldClaimed
  <1> QED BY <1>2, <1>3

\* The same when no queue is written.
LEMMA QueuesKept ==
    ASSUME StatementsTypeOK, Apart, HeldClaimed, UNCHANGED <<queue, dispatcher>>,
           \A w \in Workers : worker'[w].job \in {worker[w].job, 0},
           \A j \in Jobs : status[j] = "processing" /\ status'[j] # "processing" =>
              \E w \in Workers : worker[w].job = j /\ worker'[w].job = 0
    PROVE  Apart' /\ HeldClaimed'
  BY NothingTaken DEF Apart, Waiting

-----------------------------------------------------------------------------
(* The dispatcher *)

LEMMA DispatchSound ==
    ASSUME StatementsSound, NEW p \in Procs, Dispatch(p)
    PROVE  StatementsSound'
  <1> USE DEF StatementsSound
  <1> PICK n : n = FreeSlots(p)
    OBVIOUS
  <1>1. PICK claimed \in Claimed(n) :
          /\ status' = [j \in Jobs |-> IF j \in ToSet(claimed) THEN "processing" ELSE status[j]]
          /\ dispatcher' = [dispatcher EXCEPT ![p] = claimed]
    BY DEF Dispatch
  <1>2. /\ running' = [running EXCEPT ![p] = TRUE] /\ ~running[p] /\ life[p] = "up" /\ n > 0
        /\ UNCHANGED <<told, mishaps, file, queue, worker, life, stops>>
    BY DEF Dispatch
  <1> PICK q : q = queue[p]
    OBVIOUS
  <1>3. /\ q \in Seq(Jobs) /\ Len(q) \in Nat /\ n \in Nat
        /\ n + Len(q) = Slots
    BY <1>2, StatementsAssumption DEF StatementsTypeOK, FreeSlots
  <1> PICK rows : rows = Rows({"pending"})
    OBVIOUS
  <1>4. rows \subseteq Jobs /\ \A j \in rows : status[j] = "pending"
    BY DEF Rows
  <1>5. /\ claimed \in Seq(rows) /\ Len(claimed) \in 0..n /\ IsInjective(claimed)
        /\ ToSet(claimed) \subseteq rows
    BY <1>3, <1>4, OldestRows, JobsNotZero DEF Claimed
  <1>6. claimed \in Seq(Jobs)
    BY <1>4, <1>5, SeqMonotonic
  <1>7. StatementsTypeOK'
    BY <1>1, <1>2, <1>6 DEF StatementsTypeOK
  <1>8. dispatcher[p] = <<>> /\ ToSet(dispatcher[p]) = {}
    BY <1>2, NothingIn DEF Fitting
  <1>9. /\ Waiting(p)' = Waiting(p) \cup ToSet(claimed)
        /\ \A r \in Procs \ {p} : Waiting(r)' = Waiting(r)
        /\ dispatcher'[p] = claimed /\ \A r \in Procs \ {p} : dispatcher'[r] = dispatcher[r]
    BY <1>1, <1>2, <1>8 DEF Waiting, StatementsTypeOK
  <1>10. /\ \A r \in Procs : Waiting(r) \cap ToSet(claimed) = {}
         /\ \A w \in Workers : worker[w].job \notin ToSet(claimed)
    BY <1>4, <1>5, JobsNotZero DEF HeldClaimed
  <1>11. Apart'
    <2>1. \A r \in Procs : /\ IsInjective(queue'[r]) /\ IsInjective(dispatcher'[r])
                           /\ ToSet(queue'[r]) \cap ToSet(dispatcher'[r]) = {}
      BY <1>2, <1>5, <1>9, <1>10 DEF Apart, Waiting
    <2>2. \A r, s \in Procs : r # s => (Waiting(r) \cap Waiting(s) = {})'
      BY <1>9, <1>10 DEF Apart
    <2>3. \A w \in Workers, r \in Procs : (worker[w].job \notin Waiting(r))'
      BY <1>2, <1>9, <1>10 DEF Apart
    <2> QED BY <1>2, <2>1, <2>2, <2>3 DEF Apart
  <1>12. HeldClaimed'
    <2>1. \A j \in Jobs : status[j] = "processing" => status'[j] = "processing"
      BY <1>1
    <2>2. \A r \in Procs : Waiting(r)' \subseteq Jobs
      BY <1>4, <1>5, <1>9, WaitingJobs
    <2>3. \A j \in ToSet(claimed) : status'[j] = "processing"
      BY <1>1, <1>4, <1>5
    <2>4. \A w \in Workers : worker[w].job # 0 => worker[w].job \in Jobs
      BY DEF StatementsTypeOK, Worker
    <2> QED BY <1>2, <1>9, <2>1, <2>2, <2>3, <2>4 DEF HeldClaimed
  <1>13. Working'
    BY <1>2 DEF Working
  <1>14. Fitting'
    <2>1. Len(q) + Len(claimed) <= Slots
      BY <1>3, <1>5, StatementsAssumption
    <2> QED BY <1>2, <1>9, <2>1 DEF Fitting, StatementsTypeOK
  <1>15. ReadyHasFile'
    BY <1>1, <1>2 DEF ReadyHasFile
  <1> QED BY <1>7, <1>11, <1>12, <1>13, <1>14, <1>15

LEMMA SendJobSound ==
    ASSUME StatementsSound, NEW p \in Procs, SendJob(p)
    PROVE  StatementsSound'
  <1> USE DEF StatementsSound
  <1> PICK q, d : q = queue[p] /\ d = dispatcher[p]
    OBVIOUS
  <1>1. /\ q \in Seq(Jobs) /\ d \in Seq(Jobs) /\ d # <<>>
        /\ queue' = [queue EXCEPT ![p] = Append(q, Head(d))]
        /\ dispatcher' = [dispatcher EXCEPT ![p] = Tail(d)]
        /\ UNCHANGED <<told, mishaps, status, file, running, worker, life, stops>>
    BY DEF SendJob, StatementsTypeOK
  <1>2. IsInjective(q) /\ IsInjective(d) /\ ToSet(q) \cap ToSet(d) = {}
    BY DEF Apart
  <1>3. /\ Tail(d) \in Seq(Jobs) /\ IsInjective(Tail(d)) /\ Head(d) \in Jobs
        /\ Head(d) \in ToSet(d) /\ ToSet(Tail(d)) = ToSet(d) \ {Head(d)}
        /\ Len(Tail(d)) = Len(d) - 1
    BY <1>1, <1>2, Behind
  <1>4. /\ Append(q, Head(d)) \in Seq(Jobs) /\ IsInjective(Append(q, Head(d)))
        /\ ToSet(Append(q, Head(d))) = ToSet(q) \cup {Head(d)}
        /\ Len(Append(q, Head(d))) = Len(q) + 1
    BY <1>1, <1>2, <1>3, Appended
  <1>5. StatementsTypeOK'
    BY <1>1, <1>3, <1>4 DEF StatementsTypeOK
  <1>6. /\ queue'[p] = Append(q, Head(d)) /\ dispatcher'[p] = Tail(d)
        /\ \A r \in Procs \ {p} : queue'[r] = queue[r] /\ dispatcher'[r] = dispatcher[r]
    BY <1>1 DEF StatementsTypeOK
  <1>7. \A r \in Procs :
          /\ IsInjective(queue'[r]) /\ IsInjective(dispatcher'[r])
          /\ ToSet(queue'[r]) \cap ToSet(dispatcher'[r]) = {}
          /\ ToSet(queue'[r]) \cup ToSet(dispatcher'[r]) \subseteq Waiting(r)
    <2>1. ASSUME NEW r \in Procs, r # p
          PROVE  /\ IsInjective(queue'[r]) /\ IsInjective(dispatcher'[r])
                 /\ ToSet(queue'[r]) \cap ToSet(dispatcher'[r]) = {}
                 /\ ToSet(queue'[r]) \cup ToSet(dispatcher'[r]) \subseteq Waiting(r)
      BY <1>6, <2>1 DEF Apart, Waiting
    <2>2. /\ ToSet(Append(q, Head(d))) \cap ToSet(Tail(d)) = {}
          /\ ToSet(Append(q, Head(d))) \cup ToSet(Tail(d)) \subseteq Waiting(p)
      BY <1>2, <1>3, <1>4 DEF Waiting
    <2> QED BY <1>3, <1>4, <1>6, <2>1, <2>2
  <1>8. Apart' /\ HeldClaimed'
    BY <1>1, <1>7, NothingTaken
  <1>9. Working' /\ ReadyHasFile'
    BY <1>1 DEF Working, ReadyHasFile
  <1>10. Fitting'
    <2>1. Len(q) \in Nat /\ Len(d) \in Nat
      BY <1>1, LenProperties
    <2>2. Len(q) + Len(d) <= Slots /\ running[p]
      BY <1>1 DEF Fitting
    <2>3. (Len(q) + 1) + (Len(d) - 1) <= Slots
      <3>1. Slots \in Nat
        BY StatementsAssumption
      <3> QED BY ONLY <3>1, <2>1, <2>2
    <2> QED BY <1>1, <1>3, <1>4, <1>6, <2>2, <2>3 DEF Fitting
  <1> QED BY <1>5, <1>8, <1>9, <1>10

-----------------------------------------------------------------------------
(* Workers *)

LEMMA TakeSound ==
    ASSUME StatementsSound, NEW w \in Workers, Take(w)
    PROVE  StatementsSound'
  <1> USE DEF StatementsSound
  <1>0. PICK p \in Procs : p = ProcOf[w]
    BY StatementsAssumption
  <1> PICK q : q = queue[p]
    OBVIOUS
  <1> PICK j : j = Head(q)
    OBVIOUS
  <1>1. /\ q \in Seq(Jobs) /\ q # <<>> /\ worker[w].pc = "idle"
        /\ worker' = [worker EXCEPT ![w] = [pc |-> "generate", job |-> j]]
        /\ queue' = [queue EXCEPT ![p] = Tail(q)]
        /\ UNCHANGED <<told, mishaps, status, file, dispatcher, running, life, stops>>
    BY <1>0 DEF Take, StatementsTypeOK
  <1>2. /\ Tail(q) \in Seq(Jobs) /\ IsInjective(Tail(q)) /\ j \in Jobs /\ j \in ToSet(q)
        /\ ToSet(Tail(q)) = ToSet(q) \ {j} /\ Len(Tail(q)) = Len(q) - 1
    BY <1>1, Behind DEF Apart
  <1>3. /\ queue'[p] = Tail(q) /\ \A r \in Procs \ {p} : queue'[r] = queue[r]
        /\ worker'[w] = [pc |-> "generate", job |-> j]
        /\ \A v \in Workers \ {w} : worker'[v] = worker[v]
    BY <1>1 DEF StatementsTypeOK
  <1>4. StatementsTypeOK'
    <2>1. [pc |-> "generate", job |-> j] \in Worker
      BY <1>2 DEF Worker
    <2> QED BY <1>1, <1>2, <2>1 DEF StatementsTypeOK
  <1>5. /\ Waiting(p)' \subseteq Waiting(p) \ {j} /\ j \in Waiting(p)
        /\ \A r \in Procs \ {p} : Waiting(r)' = Waiting(r) /\ j \notin Waiting(r)
    <2>1. ToSet(q) \cap ToSet(dispatcher[p]) = {}
      BY DEF Apart
    <2>2. Waiting(p)' \subseteq Waiting(p) \ {j} /\ j \in Waiting(p)
      BY <1>1, <1>2, <1>3, <2>1 DEF Waiting
    <2>3. \A r \in Procs \ {p} : Waiting(r)' = Waiting(r)
      BY <1>1, <1>3 DEF Waiting
    <2> QED BY <2>2, <2>3 DEF Apart
  <1>6. Apart'
    <2>1. \A r \in Procs : /\ IsInjective(queue'[r]) /\ IsInjective(dispatcher'[r])
                           /\ ToSet(queue'[r]) \cap ToSet(dispatcher'[r]) = {}
      BY <1>1, <1>2, <1>3 DEF Apart
    <2>2. \A r, s \in Procs : r # s => (Waiting(r) \cap Waiting(s) = {})'
      BY <1>5 DEF Apart
    <2>3. \A v \in Workers, r \in Procs : (worker[v].job \notin Waiting(r))'
      <3>1. ASSUME NEW v \in Workers, NEW r \in Procs PROVE worker'[v].job \notin Waiting(r)'
        <4>1. CASE v = w
          BY <1>3, <1>5, <4>1
        <4>2. CASE v # w
          BY <1>3, <1>5, <4>2 DEF Apart
        <4> QED BY <4>1, <4>2
      <3> QED BY <3>1
    <2>4. \A v \in Workers : worker[v].job # j
      BY <1>5 DEF Apart
    <2>5. \A u, v \in Workers : u # v /\ worker'[u].job = worker'[v].job => worker'[u].job = 0
      BY <1>3, <2>4 DEF Apart
    <2> QED BY <2>1, <2>2, <2>3, <2>5 DEF Apart
  <1>7. HeldClaimed'
    BY <1>1, <1>3, <1>5 DEF HeldClaimed
  <1>8. Working' /\ ReadyHasFile'
    <2>1. j # 0
      BY <1>2, JobsNotZero
    <2> QED BY <1>1, <1>3, <2>1 DEF Working, ReadyHasFile
  <1>9. Fitting'
    <2>1. Len(q) \in Nat /\ Len(dispatcher[p]) \in Nat
      BY <1>1 DEF StatementsTypeOK
    <2>2. Len(q) - 1 + Len(dispatcher[p]) <= Slots
      <3>1. Slots \in Nat /\ Len(q) + Len(dispatcher[p]) <= Slots
        BY StatementsAssumption DEF Fitting
      <3> QED BY ONLY <2>1, <3>1
    <2> QED BY <1>1, <1>2, <1>3, <2>2 DEF Fitting
  <1> QED BY <1>4, <1>6, <1>7, <1>8, <1>9

\* A generator changes its worker's label and, if it is to be called ready, has
\* the file in its place.
LEMMA GeneratesSound ==
    ASSUME StatementsSound, NEW w \in Workers, Generates(w)
    PROVE  StatementsSound'
  <1> USE DEF StatementsSound
  <1> PICK j : j = worker[w].job
    OBVIOUS
  <1>1. /\ worker[w].pc = "generate" /\ UNCHANGED <<told, status, procVars>>
        /\ \/ /\ worker' = [worker EXCEPT ![w].pc = "ready"] /\ UNCHANGED mishaps
              /\ file' = [file EXCEPT ![PathOf[j]] = j]
           \/ /\ worker' = [worker EXCEPT ![w].pc = "fail"] /\ (Mishap \/ UNCHANGED mishaps)
              /\ file' \in {file, [file EXCEPT ![PathOf[j]] = j]}
    BY DEF Generates, GenerateXLSX, GeneratePDF, UnknownFormat, Generate, Uploads
  <1>2. j \in Jobs /\ j # 0 /\ worker[w] \in Worker /\ PathOf[j] \in Paths
    <2>1. worker[w] \in Worker /\ j # 0
      BY <1>1 DEF Working, StatementsTypeOK
    <2> QED BY <2>1 DEF Worker, Paths
  <1>3. PICK pc \in {"ready", "fail"} : worker' = [worker EXCEPT ![w].pc = pc]
    BY <1>1
  <1>4. /\ worker'[w].pc = pc /\ worker'[w].job = j /\ worker'[w] \in Worker
        /\ \A v \in Workers \ {w} : worker'[v] = worker[v]
    <2>1. worker'[w] = [worker[w] EXCEPT !.pc = pc]
      BY <1>3 DEF StatementsTypeOK
    <2> QED BY <1>2, <1>3, <2>1 DEF StatementsTypeOK, Worker
  <1>5. /\ \A f \in Paths : file[f] # 0 => file'[f] # 0
        /\ pc = "ready" => file'[PathOf[j]] # 0
        /\ file' \in [Paths -> Jobs \cup {0}]
    <2>1. file' = [file EXCEPT ![PathOf[j]] = j] \/ file' = file
      BY <1>1
    <2>2. pc = "ready" => file' = [file EXCEPT ![PathOf[j]] = j]
      <3>1. worker'[w].pc = pc
        BY <1>4
      <3>2. [worker EXCEPT ![w].pc = "fail"][w].pc = "fail"
        BY <1>2 DEF StatementsTypeOK, Worker
      <3> QED BY <1>1, <3>1, <3>2
    <2> QED BY <1>2, <2>1, <2>2 DEF StatementsTypeOK
  <1>6. StatementsTypeOK'
    <2>1. mishaps' \in 0..MaxMishaps
      BY <1>1, StatementsAssumption DEF StatementsTypeOK, Mishap
    <2> QED BY <1>1, <1>3, <1>4, <1>5, <2>1 DEF StatementsTypeOK, procVars
  <1>7. \A v \in Workers : worker'[v].job = worker[v].job
    BY <1>4
  <1>8. Apart' /\ HeldClaimed'
    BY <1>1, <1>7, QueuesKept DEF procVars
  <1>9. Working'
    <2>1. ASSUME NEW v \in Workers
          PROVE  /\ worker'[v].pc = "idle" <=> worker'[v].job = 0
                 /\ worker'[v].pc = "ready" => file'[PathOf[worker'[v].job]] # 0
      <3>1. CASE v = w
        BY <1>2, <1>4, <1>5, <3>1
      <3>2. CASE v # w
        <4>1. worker'[v] = worker[v] /\ worker[v] \in Worker
          BY <1>4, <3>2 DEF StatementsTypeOK
        <4>2. worker[v].pc = "ready" => PathOf[worker[v].job] \in Paths
          BY <4>1 DEF Working, Worker, Paths
        <4> QED BY <1>5, <4>1, <4>2 DEF Working
      <3> QED BY <3>1, <3>2
    <2> QED BY <2>1 DEF Working
  <1>10. Fitting'
    BY <1>1 DEF Fitting, procVars
  <1>11. ReadyHasFile'
    BY <1>1, <1>5 DEF ReadyHasFile, Paths
  <1> QED BY <1>6, <1>8, <1>9, <1>10, <1>11

\* A worker that is done settles its row or fails to, and holds nothing.
LEMMA ReleaseSound ==
    ASSUME StatementsSound, NEW w \in Workers, MarkJobFailed(w) \/ MarkJobReady(w) \/ Expires(w)
    PROVE  StatementsSound'
  <1> USE DEF StatementsSound
  <1> PICK j : j = worker[w].job
    OBVIOUS
  <1>1. /\ worker[w].pc # "idle" /\ worker' = [worker EXCEPT ![w] = NoWork]
        /\ UNCHANGED <<file, procVars>> /\ (Mishap \/ UNCHANGED mishaps)
        /\ \/ status' = status
           \/ status' = [status EXCEPT ![j] = "failed"]
           \/ (status' = [status EXCEPT ![j] = "ready"] /\ worker[w].pc = "ready")
        /\ told' = told \/ (told' = told \cup {j} /\ worker[w].pc = "ready")
    <2>1. CASE MarkJobFailed(w)
      BY <2>1 DEF MarkJobFailed, Settles
    <2>2. CASE MarkJobReady(w)
      BY <2>2 DEF MarkJobReady, Settles
    <2>3. CASE Expires(w)
      BY <2>3 DEF Expires
    <2> QED BY <2>1, <2>2, <2>3
  <1>2. j \in Jobs /\ worker[w] \in Worker
    <2>1. worker[w] \in Worker /\ j # 0
      BY <1>1 DEF Working, StatementsTypeOK
    <2> QED BY <2>1 DEF Worker
  <1>3. /\ worker'[w] = NoWork /\ NoWork \in Worker /\ NoWork.job = 0 /\ NoWork.pc = "idle"
        /\ \A v \in Workers \ {w} : worker'[v] = worker[v]
    BY <1>1 DEF StatementsTypeOK, NoWork, Worker
  <1>4. StatementsTypeOK'
    <2>1. mishaps' \in 0..MaxMishaps
      BY <1>1, StatementsAssumption DEF StatementsTypeOK, Mishap
    <2> QED BY <1>1, <1>2, <1>3, <2>1 DEF StatementsTypeOK, procVars
  <1>5. Apart' /\ HeldClaimed'
    <2>1. \A v \in Workers : worker'[v].job \in {worker[v].job, 0}
      BY <1>3
    <2>2. \A i \in Jobs : status'[i] # status[i] => i = j
      BY <1>1 DEF StatementsTypeOK
    <2> QED BY <1>1, <1>3, <2>1, <2>2, QueuesKept DEF procVars
  <1>6. Working'
    BY <1>1, <1>3 DEF Working
  <1>7. Fitting'
    BY <1>1 DEF Fitting, procVars
  <1>8. ReadyHasFile'
    <2> SUFFICES ASSUME NEW i \in Jobs, status'[i] = "ready" \/ i \in told'
                 PROVE  file'[PathOf[i]] # 0
      BY DEF ReadyHasFile
    <2>1. CASE status[i] = "ready" \/ i \in told
      BY <1>1, <2>1 DEF ReadyHasFile
    <2>2. CASE ~(status[i] = "ready" \/ i \in told)
      <3>1. i = j /\ worker[w].pc = "ready"
        BY <1>1, <2>2 DEF StatementsTypeOK
      <3> QED BY <1>1, <3>1 DEF Working
    <2> QED BY <2>1, <2>2
  <1> QED BY <1>4, <1>5, <1>6, <1>7, <1>8

-----------------------------------------------------------------------------
(* Requests and processes *)

LEMMA RequestSound ==
    ASSUME StatementsSound, NEW j \in Jobs, RequestStatement(j)
    PROVE  StatementsSound'
  <1> USE DEF StatementsSound
  <1>1. /\ status[j] = "none" /\ status' = [status EXCEPT ![j] = "pending"]
        /\ UNCHANGED <<file, procVars, worker, told, mishaps>>
    BY DEF RequestStatement
  <1>2. StatementsTypeOK'
    BY <1>1 DEF StatementsTypeOK, procVars
  <1>3. \A i \in Jobs : status[i] = "processing" => status'[i] = "processing"
    BY <1>1 DEF StatementsTypeOK
  <1>4. Apart' /\ HeldClaimed'
    BY <1>1, <1>3, QueuesKept DEF procVars
  <1>5. Working' /\ Fitting'
    BY <1>1 DEF Working, Fitting, procVars
  <1>6. ReadyHasFile'
    BY <1>1 DEF ReadyHasFile, StatementsTypeOK
  <1> QED BY <1>2, <1>4, <1>5, <1>6

LEMMA LifeSound ==
    ASSUME StatementsSound, NEW p \in Procs, Stop(p) \/ Close(p) \/ Restart(p) \/ DispatchEnds(p)
    PROVE  StatementsSound'
  <1> USE DEF StatementsSound
  <1>1. /\ UNCHANGED <<told, mishaps, status, file, queue, dispatcher, worker>>
        /\ \/ /\ running' = running
              /\ \/ life' = [life EXCEPT ![p] = "stopping"]
                 \/ life' = [life EXCEPT ![p] = "closed"] /\ ~running[p]
                 \/ life' = [life EXCEPT ![p] = "up"]
           \/ /\ running' = [running EXCEPT ![p] = FALSE] /\ dispatcher[p] = <<>>
              /\ life' = life
        /\ stops' = stops \/ (stops < MaxStops /\ stops' = stops + 1)
    <2>1. CASE Stop(p)
      BY <2>1 DEF Stop
    <2>2. CASE Close(p)
      BY <2>2 DEF Close, CanClose
    <2>3. CASE Restart(p)
      BY <2>3 DEF Restart
    <2>4. CASE DispatchEnds(p)
      BY <2>4 DEF DispatchEnds
    <2> QED BY <2>1, <2>2, <2>3, <2>4
  <1>2. StatementsTypeOK'
    <2>1. stops' \in 0..MaxStops
      BY <1>1, StatementsAssumption DEF StatementsTypeOK
    <2>2. life' \in [Procs -> {"up", "stopping", "closed"}] /\ running' \in [Procs -> BOOLEAN]
      BY <1>1 DEF StatementsTypeOK
    <2> QED BY <1>1, <2>1, <2>2 DEF StatementsTypeOK
  <1>3. Apart' /\ HeldClaimed'
    BY <1>1, QueuesKept
  <1>4. Working' /\ ReadyHasFile'
    BY <1>1 DEF Working, ReadyHasFile
  <1>5. Fitting'
    BY <1>1 DEF Fitting, StatementsTypeOK
  <1> QED BY <1>2, <1>3, <1>4, <1>5

LEMMA CrashSound ==
    ASSUME StatementsSound, NEW p \in Procs, Crash(p)
    PROVE  StatementsSound'
  <1> USE DEF StatementsSound
  <1>1. /\ queue' = [queue EXCEPT ![p] = <<>>] /\ dispatcher' = [dispatcher EXCEPT ![p] = <<>>]
        /\ running' = [running EXCEPT ![p] = FALSE] /\ life' = [life EXCEPT ![p] = "up"]
        /\ worker' = [w \in Workers |-> IF w \in WorkersOf(p) THEN NoWork ELSE worker[w]]
        /\ UNCHANGED <<status, file, told, stops>> /\ Mishap
    BY DEF Crash
  <1>2. NoWork \in Worker /\ NoWork.job = 0 /\ NoWork.pc = "idle"
    BY DEF NoWork, Worker
  <1>3. StatementsTypeOK'
    <2>1. mishaps' \in 0..MaxMishaps
      BY <1>1, StatementsAssumption DEF StatementsTypeOK, Mishap
    <2>2. <<>> \in Seq(Jobs)
      BY EmptySeq
    <2> QED BY <1>1, <1>2, <2>1, <2>2 DEF StatementsTypeOK
  <1>4. \A w \in Workers : worker'[w] = worker[w] \/ worker'[w] = NoWork
    BY <1>1
  <1>5. /\ queue'[p] = <<>> /\ dispatcher'[p] = <<>>
        /\ \A r \in Procs \ {p} : queue'[r] = queue[r] /\ dispatcher'[r] = dispatcher[r]
    BY <1>1 DEF StatementsTypeOK
  <1>6. Apart' /\ HeldClaimed'
    <2>1. \A r \in Procs :
            /\ IsInjective(queue'[r]) /\ IsInjective(dispatcher'[r])
            /\ ToSet(queue'[r]) \cap ToSet(dispatcher'[r]) = {}
            /\ ToSet(queue'[r]) \cup ToSet(dispatcher'[r]) \subseteq Waiting(r)
      BY <1>5, NothingIn DEF Apart, Waiting
    <2> QED BY <1>1, <1>2, <1>4, <2>1, NothingTaken
  <1>7. Working'
    BY <1>1, <1>2, <1>4 DEF Working
  <1>8. Fitting'
    <2>1. Len(<<>>) + Len(<<>>) <= Slots
      BY StatementsAssumption, EmptySeq
    <2> QED BY <1>1, <1>5, <2>1 DEF Fitting, StatementsTypeOK
  <1>9. ReadyHasFile'
    BY <1>1 DEF ReadyHasFile
  <1> QED BY <1>3, <1>6, <1>7, <1>8, <1>9

LEMMA StatementsStep ==
    ASSUME StatementsSound, [NextStatements]_statementVars
    PROVE  StatementsSound'
  <1>1. CASE NextStatements
    BY <1>1, DispatchSound, SendJobSound, TakeSound, GeneratesSound, ReleaseSound, RequestSound,
       LifeSound, CrashSound
    DEF NextStatements, Dispatches, Works
  <1>2. CASE UNCHANGED statementVars
    BY <1>2 DEF statementVars, StatementsSound, StatementsTypeOK, Apart, Waiting, HeldClaimed,
                Working, Fitting, ReadyHasFile
  <1> QED BY <1>1, <1>2

LEMMA StatementsStart == InitStatements => StatementsSound
  <1> SUFFICES ASSUME InitStatements PROVE StatementsSound
    OBVIOUS
  <1>1. <<>> \in Seq(Jobs) /\ Len(<<>>) = 0
    BY EmptySeq
  <1>2. NoWork \in Worker /\ NoWork.job = 0 /\ NoWork.pc = "idle"
    BY DEF NoWork, Worker
  <1>3. StatementsTypeOK
    BY <1>1, <1>2, StatementsAssumption DEF InitStatements, StatementsTypeOK
  <1>4. Apart /\ HeldClaimed
    BY <1>2, NothingIn DEF InitStatements, Apart, HeldClaimed, Waiting
  <1>5. Working /\ Fitting /\ ReadyHasFile
    BY <1>1, <1>2, StatementsAssumption DEF InitStatements, Working, Fitting, ReadyHasFile
  <1> QED BY <1>3, <1>4, <1>5 DEF StatementsSound

\* Every job has one holder while it is processing, what is claimed fits, and a
\* worker that calls a job ready has uploaded its file.
THEOREM StatementsSoundAlways == SpecStatements => []StatementsSound
  BY StatementsStart, StatementsStep, PTL DEF SpecStatements

\* However many processes claim with SKIP LOCKED and however they are stopped,
\* closed, restarted or die, no job is in two channels, dispatchers or workers.
THEOREM OneHolderAlways == SpecStatements => []OneHolder
  <1>1. StatementsSound => OneHolder
    <2> SUFFICES ASSUME StatementsSound PROVE OneHolder
      OBVIOUS
    <2> USE DEF StatementsSound
    <2>1. ASSUME NEW p \in Procs
          PROVE  IsInjective(Holds(p)) /\ ToSet(Holds(p)) = Waiting(p)
      <3> PICK s, t : s = queue[p] /\ t = dispatcher[p]
        OBVIOUS
      <3>1. s \in Seq(Jobs) /\ t \in Seq(Jobs)
        BY DEF StatementsTypeOK
      <3>2. IsInjective(s) /\ IsInjective(t) /\ ToSet(s) \cap ToSet(t) = {}
        BY DEF Apart
      <3>3. IsInjective(s \o t) /\ ToSet(s \o t) = ToSet(s) \cup ToSet(t)
        BY <3>1, <3>2, Joined
      <3> QED BY <3>3 DEF Waiting, Holds
    <2>2. ASSUME NEW j \in Jobs
          PROVE  Cardinality({p \in Procs : j \in ToSet(Holds(p))})
                 + Cardinality({w \in Workers : worker[w].job = j}) <= 1
      <3> PICK P, W : /\ P = {p \in Procs : j \in ToSet(Holds(p))}
                      /\ W = {w \in Workers : worker[w].job = j}
        OBVIOUS
      <3>1. j # 0
        BY JobsNotZero
      <3>2. \A p, q \in P : p = q
        BY <2>1 DEF Apart
      <3>3. \A v, w \in W : v = w
        BY <3>1 DEF Apart
      <3>4. P = {} \/ W = {}
        BY <2>1 DEF Apart
      <3>5. \/ P = {} /\ W = {}
            \/ P = {} /\ \E w : W = {w}
            \/ W = {} /\ \E p : P = {p}
        <4>1. P = {} \/ \E p : P = {p}
          BY <3>2
        <4>2. W = {} \/ \E w : W = {w}
          BY <3>3
        <4> QED BY <3>4, <4>1, <4>2
      <3>6. Cardinality({}) = 0 /\ \A x : Cardinality({x}) = 1
        BY FS_EmptySet, FS_Singleton
      <3>7. Cardinality(P) + Cardinality(W) <= 1
        <4>1. CASE P = {} /\ W = {}
          <5>1. Cardinality(P) = 0 /\ Cardinality(W) = 0
            BY ONLY <4>1, <3>6
          <5> QED BY ONLY <5>1
        <4>2. CASE P = {} /\ \E w : W = {w}
          <5>1. Cardinality(P) = 0 /\ Cardinality(W) = 1
            BY ONLY <4>2, <3>6
          <5> QED BY ONLY <5>1
        <4>3. CASE W = {} /\ \E p : P = {p}
          <5>1. Cardinality(P) = 1 /\ Cardinality(W) = 0
            BY ONLY <4>3, <3>6
          <5> QED BY ONLY <5>1
        <4> QED BY <3>5, <4>1, <4>2, <4>3
      <3> QED BY <3>7
    <2> QED BY <2>1, <2>2 DEF OneHolder
  <1> QED BY <1>1, StatementsSoundAlways, PTL

\* The dispatcher claims no more than the channel has room for, so it is never
\* stuck on the channel, and it is over before the channel is closed.
THEOREM NeverBlockedAlways == SpecStatements => []NeverBlocked
  <1>1. StatementsSound => NeverBlocked
    BY DEF StatementsSound, Fitting, NeverBlocked
  <1> QED BY <1>1, StatementsSoundAlways, PTL

\* A job is ready, or announced, only with a file behind its download link.
THEOREM ReadyHasFileAlways == SpecStatements => []ReadyHasFile
  BY StatementsSoundAlways, PTL DEF StatementsSound

-----------------------------------------------------------------------------
(* Push notifications *)

\* What a sender holds to be gone has been, since it sent its messages.
Told(r) ==
    /\ \A k \in Tokens : r.life[k] <= lives[k]
    /\ \A k \in r.gone : GoneSince(k, r.life[k])

\* So has what a receipt says is gone, since the message of its ticket.
GoneWas ==
    /\ \A s \in Senders : Told(sender[s])
    /\ \A i \in 1..Len(ticket) : ticket[i].life <= lives[ticket[i].token]
    /\ \A i \in 1..MaxTickets :
         receipt[i] = "gone" =>
             i \in 1..Len(ticket) /\ GoneSince(ticket[i].token, ticket[i].life)
    /\ poller.drop => poller.todo # {} /\ receipt[InHand] = "gone"

PushTold == PushTypeOK /\ GoneWas

LEMMA InHandIsTodo ==
    ASSUME PushTypeOK, poller.todo # {}
    PROVE  InHand \in poller.todo /\ InHand \in 1..MaxTickets
  <1> PICK T : T = poller.todo
    OBVIOUS
  <1>1. T \subseteq 1..MaxTickets /\ T \subseteq Nat /\ T # {}
    BY PushAssumption DEF PushTypeOK, Poller
  <1>2. \E i \in T : \A j \in T : i <= j
    BY <1>1, Least
  <1> QED BY <1>1, <1>2 DEF InHand

LEMMA PushFaultCounted ==
    ASSUME PushTypeOK, PushFault \/ UNCHANGED pushFaults
    PROVE  pushFaults' \in 0..MaxPushFaults
  BY PushAssumption DEF PushFault, PushTypeOK

LEMMA ChangeCounted ==
    ASSUME PushTypeOK, Change \/ UNCHANGED changes
    PROVE  changes' \in 0..MaxChanges
  BY PushAssumption DEF Change, PushTypeOK

\* A step that leaves tickets, receipts and the poller alone keeps what they say.
LEMMA SameReceipts ==
    ASSUME PushTold, UNCHANGED <<ticket, receipt, poller, alive, lives>>,
           \A s \in Senders : Told(sender'[s])
    PROVE  GoneWas'
  BY DEF PushTold, GoneWas, InHand, Told, GoneSince

\* A token that was gone since a message is so for good, also when it comes back.
LEMMA GoneStays ==
    ASSUME PushTypeOK, PushTypeOK', NEW k \in Tokens, NEW n \in Nat, n <= lives[k],
           (\E d \in Tokens : Dies(d) \/ ComesBack(d)) \/ UNCHANGED <<alive, lives>>
    PROVE  n <= lives'[k] /\ (GoneSince(k, n) => GoneSince(k, n)')
  <1>1. lives[k] \in Nat /\ lives'[k] \in Nat
    BY DEF PushTypeOK
  <1>2. ASSUME NEW d \in Tokens, ComesBack(d)
        PROVE  /\ lives'[k] = (IF k = d THEN lives[k] + 1 ELSE lives[k])
               /\ (k \in alive' <=> k \in alive \/ k = d) /\ d \notin alive
    BY <1>2 DEF ComesBack, PushTypeOK
  <1>3. ASSUME NEW d \in Tokens, Dies(d)
        PROVE  lives'[k] = lives[k] /\ (k \in alive' => k \in alive)
    BY <1>3 DEF Dies
  <1> QED BY <1>1, <1>2, <1>3 DEF GoneSince

LEMMA DeathsSound ==
    ASSUME PushTold, NEW d \in Tokens, Dies(d) \/ ComesBack(d)
    PROVE  PushTold'
  <1>1. alive' \subseteq Tokens /\ lives' \in [Tokens -> Nat]
    <2>1. alive \subseteq Tokens /\ lives \in [Tokens -> Nat] /\ lives[d] + 1 \in Nat
      BY DEF PushTold, PushTypeOK
    <2>2. lives' = lives \/ lives' = [lives EXCEPT ![d] = lives[d] + 1]
      BY <2>1 DEF Dies, ComesBack
    <2>3. lives' \in [Tokens -> Nat]
      BY <2>1, <2>2
    <2> QED BY <2>1, <2>3 DEF Dies, ComesBack
  <1>2. UNCHANGED <<registered, muted, ticket, receipt, sender, poller, dropped, pushFaults, sends>>
    BY DEF Dies, ComesBack, table, polling
  <1>3. changes' \in 0..MaxChanges
    BY ChangeCounted DEF PushTold, Dies, ComesBack
  <1>4. PushTypeOK'
    BY <1>1, <1>2, <1>3 DEF PushTold, PushTypeOK
  <1>5. ASSUME NEW s \in Senders
        PROVE  Told(sender[s])'
    <2>1. sender[s] \in Sender /\ Told(sender[s])
      BY DEF PushTold, PushTypeOK, GoneWas
    <2>2. ASSUME NEW k \in Tokens
          PROVE  /\ sender[s].life[k] <= lives'[k]
                 /\ GoneSince(k, sender[s].life[k]) => GoneSince(k, sender[s].life[k])'
      <3>1. sender[s].life[k] \in Nat /\ sender[s].life[k] <= lives[k]
        BY <2>1 DEF Sender, Told
      <3> QED BY <1>2, <1>4, <3>1, GoneStays DEF PushTold
    <2>3. sender[s].gone \subseteq Tokens
      BY <2>1 DEF Sender
    <2> QED BY <1>2, <2>1, <2>2, <2>3 DEF Told
  <1>6. ASSUME NEW i \in 1..Len(ticket)
        PROVE  /\ ticket[i].life <= lives'[ticket[i].token]
               /\ GoneSince(ticket[i].token, ticket[i].life)
                    => GoneSince(ticket[i].token, ticket[i].life)'
    <2>1. ticket[i] \in Ticket /\ ticket[i].life <= lives[ticket[i].token]
      BY LenProperties DEF PushTold, PushTypeOK, GoneWas
    <2> QED BY <1>2, <1>4, <2>1, GoneStays DEF PushTold, Ticket
  <1>7. GoneWas'
    BY <1>2, <1>5, <1>6 DEF PushTold, GoneWas, InHand, GoneSince
  <1> QED BY <1>4, <1>7 DEF PushTold

LEMMA WithoutTyped ==
    ASSUME PushTypeOK, NEW k
    PROVE  Without(k) \in [Owners -> Tokens \cup {Nothing}]
  BY DEF Without, PushTypeOK

LEMMA RegisterSound ==
    ASSUME PushTold, NEW o \in Owners, NEW k \in Tokens, Register(o, k)
    PROVE  PushTold'
  <1>1. registered' \in [Owners -> Tokens \cup {Nothing}]
    BY DEF PushTold, PushTypeOK, Register
  <1>2. PushTypeOK'
    BY <1>1, ChangeCounted DEF PushTold, PushTypeOK, Register, service, polling
  <1>3. GoneWas'
    BY SameReceipts DEF PushTold, GoneWas, Register, service, polling
  <1> QED BY <1>2, <1>3 DEF PushTold

LEMMA DevicesSound ==
    ASSUME PushTold, DeviceStep
    PROVE  PushTold'
  <1>1. ASSUME NEW o \in Owners, DeleteToken(o)
        PROVE  PushTold'
    <2>1. PushTypeOK'
      BY <1>1 DEF PushTold, PushTypeOK, DeleteToken, service, polling
    <2>2. GoneWas'
      BY <1>1, SameReceipts DEF PushTold, GoneWas, DeleteToken, service, polling
    <2> QED BY <2>1, <2>2 DEF PushTold
  <1>2. ASSUME NEW u \in Users, Toggle(u)
        PROVE  PushTold'
    <2>1. PushTypeOK'
      BY <1>2, ChangeCounted DEF PushTold, PushTypeOK, Toggle, service, polling
    <2>2. GoneWas'
      BY <1>2, SameReceipts DEF PushTold, GoneWas, Toggle, service, polling
    <2> QED BY <2>1, <2>2 DEF PushTold
  <1> QED BY <1>1, <1>2, DeathsSound, RegisterSound DEF DeviceStep

\* A step of a sender that leaves the rest alone.
LEMMA SenderMoves ==
    ASSUME PushTold, NEW s \in Senders, NEW r \in Sender, Told(r),
           sender' = [sender EXCEPT ![s] = r],
           UNCHANGED <<muted, ticket, service, polling, changes>>,
           registered' \in [Owners -> Tokens \cup {Nothing}],
           sends' \in 0..MaxSends, PushFault \/ UNCHANGED pushFaults
    PROVE  PushTold'
  <1>1. PushTypeOK'
    BY PushFaultCounted DEF PushTold, PushTypeOK, service, polling
  <1>2. sender \in [Senders -> Sender]
    BY DEF PushTold, PushTypeOK
  <1>3. \A t \in Senders : Told(sender'[t])
    BY <1>2 DEF PushTold, GoneWas
  <1>4. GoneWas'
    BY <1>3, SameReceipts DEF service, polling
  <1> QED BY <1>1, <1>4 DEF PushTold

LEMMA SendEnded ==
    ASSUME PushTold, NEW s \in Senders, SendEnds(s),
           UNCHANGED <<table, ticket, service, polling, changes, sends>>,
           PushFault \/ UNCHANGED pushFaults
    PROVE  PushTold'
  <1>1. NoSend \in Sender /\ Told(NoSend)
    BY DEF NoSend, Sender, Told, PushTold, PushTypeOK
  <1>2. registered' \in [Owners -> Tokens \cup {Nothing}] /\ sends' \in 0..MaxSends
    BY DEF PushTold, PushTypeOK, table
  <1> QED BY <1>1, <1>2, SenderMoves DEF SendEnds, table

LEMMA SendersSound ==
    ASSUME PushTold, NEW s \in Senders,
           (\E u \in Users : SendToUser(s, u)) \/ SendStep(s) \/ SendFails(s)
    PROVE  PushTold'
  <1> PICK r : r = sender[s]
    OBVIOUS
  <1>1. r \in Sender /\ Told(r) /\ sender \in [Senders -> Sender]
    BY DEF PushTold, PushTypeOK, GoneWas
  <1>2. registered \in [Owners -> Tokens \cup {Nothing}] /\ sends \in 0..MaxSends
    BY DEF PushTold, PushTypeOK
  <1>3. ASSUME NEW u \in Users, SendToUser(s, u)
        PROVE  PushTold'
    <2>1. [r EXCEPT !.pc = "enabled", !.user = u] \in Sender
      BY <1>1 DEF Sender
    <2>2. sends' \in 0..MaxSends
      <3>1. sends < MaxSends /\ sends' = sends + 1 /\ MaxSends \in Nat
        BY <1>3, PushAssumption DEF SendToUser
      <3> QED BY <1>2, <3>1
    <2>3. Told([r EXCEPT !.pc = "enabled", !.user = u])
      BY <1>1 DEF Sender, Told
    <2> QED BY <1>1, <1>2, <1>3, <2>1, <2>2, <2>3, SenderMoves DEF SendToUser, table
  <1>4. CASE IsEnabled(s)
    <2>1. CASE SendEnds(s)
      BY <1>4, <2>1, SendEnded DEF IsEnabled
    <2>2. CASE sender' = [sender EXCEPT ![s].pc = "list"]
      <3>1. [r EXCEPT !.pc = "list"] \in Sender /\ Told([r EXCEPT !.pc = "list"])
        BY <1>1 DEF Sender, Told
      <3> QED BY <1>1, <1>2, <1>4, <2>2, <3>1, SenderMoves DEF IsEnabled, table
    <2> QED BY <1>4, <2>1, <2>2 DEF IsEnabled
  <1>5. CASE ListTokens(s)
    <2> PICK list : list = TokensOf(r.user)
      OBVIOUS
    <2>1. CASE SendEnds(s)
      BY <1>5, <2>1, SendEnded DEF ListTokens
    <2>2. CASE sender' = [sender EXCEPT ![s] = [@ EXCEPT !.pc = "push", !.list = list]]
      <3>1. list \subseteq Tokens
        BY <1>2 DEF TokensOf
      <3>2. [r EXCEPT !.pc = "push", !.list = list] \in Sender
        BY <1>1, <3>1 DEF Sender
      <3>3. Told([r EXCEPT !.pc = "push", !.list = list])
        BY <1>1 DEF Sender, Told
      <3> QED BY <1>1, <1>2, <1>5, <2>2, <3>2, <3>3, SenderMoves DEF ListTokens, table
    <2> QED BY <1>5, <2>1, <2>2 DEF ListTokens
  <1>6. CASE Push(s)
    <2> DEFINE pushed(gone, tickets) ==
                 [r EXCEPT !.pc = "drop", !.gone = gone, !.life = lives, !.tickets = tickets]
    <2>1. PICK gone \in SUBSET (r.list \ alive) : \E refused \in SUBSET (r.list \ gone) :
            /\ PushFault \/ UNCHANGED pushFaults
            /\ sender' = [sender EXCEPT ![s] =
                            [@ EXCEPT !.pc = "drop", !.gone = gone, !.life = lives,
                                      !.tickets = r.list \ (gone \cup refused)]]
      BY <1>6 DEF Push
    <2>2. PICK tickets \in SUBSET r.list :
            sender' = [sender EXCEPT ![s] = pushed(gone, tickets)]
      BY <1>1, <2>1
    <2>3. pushed(gone, tickets) \in Sender
      BY <1>1 DEF Sender, PushTold, PushTypeOK
    <2>4. Told(pushed(gone, tickets))
      BY <1>1 DEF Sender, PushTold, PushTypeOK, Told, GoneSince
    <2> QED BY <1>2, <1>6, <2>1, <2>2, <2>3, <2>4, SenderMoves DEF Push, table
  <1>7. ASSUME NEW k \in Tokens, DropGone(s, k)
        PROVE  PushTold'
    <2>1. [r EXCEPT !.gone = @ \ {k}] \in Sender
      BY <1>1 DEF Sender
    <2>2. Told([r EXCEPT !.gone = @ \ {k}])
      BY <1>1 DEF Sender, Told
    <2>3. registered' \in [Owners -> Tokens \cup {Nothing}]
      BY <1>7, <1>2, WithoutTyped DEF DropGone, PushTold
    <2>4. sender' = [sender EXCEPT ![s] = [r EXCEPT !.gone = @ \ {k}]]
      BY <1>1, <1>7 DEF DropGone
    <2> QED BY <1>1, <1>2, <1>7, <2>1, <2>2, <2>3, <2>4, SenderMoves DEF DropGone
  <1>8. CASE StoreTickets(s)
    <2> PICK T, n : T = r.tickets /\ n = Cardinality(T)
      OBVIOUS
    <2>1. T \subseteq Tokens /\ IsFiniteSet(T) /\ n \in Nat
      <3>1. T \subseteq Tokens
        BY <1>1 DEF Sender
      <3> QED BY <3>1, PushAssumption, FS_Subset, FS_CardinalityType
    <2>2. PICK order \in SetToSeqs(T) :
            ticket' = ticket \o [i \in DOMAIN order |-> [token |-> order[i], life |-> r.life[order[i]], checked |-> FALSE]]
      BY <1>8 DEF StoreTickets
    <2>3. order \in [1..n -> T]
      BY <2>2 DEF SetToSeqs
    <2> PICK new : new = [i \in 1..n |-> [token |-> order[i], life |-> r.life[order[i]], checked |-> FALSE]]
      OBVIOUS
    <2>4. new \in Seq(Ticket) /\ Len(new) = n
      <3>1. new \in [1..n -> Ticket]
        BY <1>1, <2>1, <2>3 DEF Ticket, Sender
      <3>2. new \in Seq(Ticket)
        BY ONLY <2>1, <3>1, SeqDef
      <3>3. DOMAIN new = 1..n /\ Len(new) = n
        BY ONLY <2>1, <3>1, <3>2, LenProperties
      <3> QED BY <3>2, <3>3
    <2> PICK old, m : old = ticket /\ m = Len(ticket)
      OBVIOUS
    <2>5. old \in Seq(Ticket) /\ m = Len(old) /\ m \in Nat /\ ticket' = old \o new
      <3>1. DOMAIN order = 1..n
        BY <2>3
      <3>2. ticket' = ticket \o new
        BY <2>2, <3>1
      <3>3. ticket \in Seq(Ticket)
        BY DEF PushTold, PushTypeOK
      <3> QED BY <3>2, <3>3, LenProperties
    <2>6. /\ ticket' \in Seq(Ticket) /\ Len(ticket') = m + n
          /\ \A i \in 1..m : ticket'[i] = ticket[i]
          /\ \A i \in (1..(m + n)) \ 1..m : \E j \in 1..n : ticket'[i] = new[j]
      <3>1. /\ old \o new \in Seq(Ticket) /\ Len(old \o new) = m + n
            /\ \A i \in 1..(m + n) : (old \o new)[i] = IF i <= m THEN old[i] ELSE new[i - m]
        BY ONLY <2>4, <2>5, ConcatProperties
      <3>2. \A i \in 1..m : i \in 1..(m + n) /\ i <= m
        BY <2>1, <2>5
      <3>3. \A i \in (1..(m + n)) \ 1..m : i - m \in 1..n /\ ~(i <= m)
        BY <2>1, <2>5
      <3> QED BY <2>5, <3>1, <3>2, <3>3
    <2>7. m + n <= MaxTickets
      BY <1>8 DEF StoreTickets
    <2>8. sender' \in [Senders -> Sender] /\ \A t \in Senders : Told(sender'[t])
      <3>1. NoSend \in Sender /\ Told(NoSend)
        BY DEF NoSend, Sender, Told, PushTold, PushTypeOK
      <3> QED BY <1>1, <1>8, <3>1 DEF StoreTickets, SendEnds, PushTold, GoneWas
    <2>9. PushTypeOK'
      BY <1>8, <2>6, <2>7, <2>8 DEF StoreTickets, PushTold, PushTypeOK, table, service, polling
    <2>10. \A i \in 1..MaxTickets : receipt'[i] = "gone"
                                    => i \in 1..Len(ticket') /\ GoneSince(ticket'[i].token, ticket'[i].life)
      <3> SUFFICES ASSUME NEW i \in 1..MaxTickets, receipt'[i] = "gone"
                   PROVE  i \in 1..Len(ticket') /\ GoneSince(ticket'[i].token, ticket'[i].life)
        OBVIOUS
      <3>1. i \in 1..m /\ GoneSince(ticket[i].token, ticket[i].life)
        BY <1>8 DEF StoreTickets, PushTold, GoneWas, service
      <3>2. i \in 1..(m + n)
        BY <2>1, <2>5, <3>1
      <3> QED BY <1>8, <2>6, <3>1, <3>2 DEF StoreTickets, service
    <2>11. \A i \in 1..Len(ticket') : ticket'[i].life <= lives[ticket'[i].token]
      <3>1. ASSUME NEW j \in 1..n PROVE new[j].life <= lives[new[j].token]
        <4>1. order[j] \in Tokens /\ new[j].token = order[j] /\ new[j].life = r.life[order[j]]
          BY <2>1, <2>3, <3>1
        <4> QED BY <1>1, <4>1 DEF Told
      <3>2. \A i \in 1..m : ticket[i].life <= lives[ticket[i].token]
        BY DEF PushTold, GoneWas
      <3>3. Len(ticket') = m + n
        BY <2>6
      <3> QED BY <2>6, <3>1, <3>2, <3>3
    <2>12. GoneWas'
      BY <1>8, <2>8, <2>10, <2>11
      DEF StoreTickets, PushTold, GoneWas, InHand, service, polling, Told, GoneSince
    <2> QED BY <2>9, <2>12 DEF PushTold
  <1>9. CASE SendFails(s)
    BY <1>9, SendEnded DEF SendFails
  <1> QED BY <1>3, <1>4, <1>5, <1>6, <1>7, <1>8, <1>9 DEF SendStep

LEMMA ReceiptsSound ==
    ASSUME PushTold, NEW i \in 1..MaxTickets, ReceiptAppears(i) \/ ReceiptIsMissing(i)
    PROVE  PushTold'
  <1>1. PICK v \in Verdicts \cup {"missing"} :
          /\ receipt' = [receipt EXCEPT ![i] = v]
          /\ v = "gone" => GoneSince(ticket[i].token, ticket[i].life)
    BY DEF ReceiptAppears, ReceiptIsMissing, Verdicts
  <1>2. receipt[i] = "none" /\ i <= Len(ticket)
    BY DEF ReceiptAppears, ReceiptIsMissing
  <1>3. UNCHANGED <<table, ticket, alive, lives, sender, polling, pushFaults, changes, sends>>
    BY DEF ReceiptAppears, ReceiptIsMissing
  <1>4. receipt \in [1..MaxTickets -> Verdicts \cup {"none", "missing"}]
    BY DEF PushTold, PushTypeOK
  <1>5. PushTypeOK'
    BY <1>1, <1>3 DEF PushTold, PushTypeOK, table, polling
  <1>6. i \in 1..Len(ticket)
    BY <1>2, LenProperties DEF PushTold, PushTypeOK
  <1>7. \A j \in 1..MaxTickets : receipt'[j] = "gone" => 
           j \in 1..Len(ticket) /\ GoneSince(ticket[j].token, ticket[j].life)
    BY <1>1, <1>4, <1>6 DEF PushTold, GoneWas
  <1>8. poller.drop => poller.todo # {} /\ receipt'[InHand] = "gone"
    <2> SUFFICES ASSUME poller.drop PROVE poller.todo # {} /\ receipt'[InHand] = "gone"
      OBVIOUS
    <2>1. poller.todo # {} /\ receipt[InHand] = "gone"
      BY DEF PushTold, GoneWas
    <2>2. InHand \in 1..MaxTickets /\ InHand # i
      BY <1>2, <2>1, InHandIsTodo DEF PushTold
    <2> QED BY <1>1, <1>4, <2>1, <2>2
  <1>9. InHand' = InHand
    BY <1>3 DEF InHand, polling
  <1>10. GoneWas'
    BY <1>3, <1>7, <1>8, <1>9 DEF PushTold, GoneWas, Told, GoneSince, polling
  <1> QED BY <1>5, <1>10 DEF PushTold

LEMMA PollerSound ==
    ASSUME PushTold, PollStep \/ PollFails
    PROVE  PushTold'
  <1>1. PushTypeOK /\ GoneWas
    BY DEF PushTold
  <1>2. poller \in Poller
    BY <1>1 DEF PushTypeOK
  <1>3. CASE Poll
    <2>1. PICK found \in SUBSET (1..MaxTickets) : poller' = [poller EXCEPT !.todo = found]
      <3>1. {i \in Listed : Arrived(i)} \subseteq 1..MaxTickets
        <4>1. Len(ticket) \in Nat /\ Len(ticket) <= MaxTickets /\ MaxTickets \in Nat
          BY <1>1, LenProperties, PushAssumption DEF PushTypeOK
        <4> QED BY <4>1 DEF Listed, Unchecked
      <3> QED BY <1>3, <3>1 DEF Poll
    <2>2. poller' \in Poller /\ ~poller'.drop
      BY <1>1, <1>2, <1>3, <2>1 DEF Poller, GoneWas, Poll
    <2>3. PushTypeOK'
      BY <1>1, <1>3, <2>2 DEF PushTypeOK, Poll, table, service
    <2> QED BY <1>1, <1>3, <2>2, <2>3 DEF PushTold, GoneWas, Poll, service, Told, GoneSince
  <1>4. CASE MarkReceipt
    <2>1. InHand \in poller.todo /\ InHand \in 1..MaxTickets
      BY <1>1, <1>4, InHandIsTodo DEF MarkReceipt
    <2>2. ticket \in Seq(Ticket)
      BY <1>1 DEF PushTypeOK
    <2>3. /\ ticket' \in Seq(Ticket) /\ Len(ticket') = Len(ticket)
          /\ \A i \in 1..Len(ticket) :
               ticket'[i].token = ticket[i].token /\ ticket'[i].life = ticket[i].life
      <3>1. CASE UNCHANGED ticket
        BY <2>2, <3>1
      <3>2. CASE ticket' = [ticket EXCEPT ![InHand].checked = TRUE]
        <4>1. ticket \in [1..Len(ticket) -> Ticket] /\ Len(ticket) \in Nat
          BY <2>2, LenProperties
        <4>2. ticket' \in [1..Len(ticket) -> Ticket]
          BY <3>2, <4>1 DEF Ticket
        <4>3. ticket' \in Seq(Ticket)
          BY <4>1, <4>2, SeqDef
        <4>4. Len(ticket') = Len(ticket)
          BY <4>1, <4>2, <4>3, LenProperties
        <4>5. \A i \in 1..Len(ticket) :
                ticket'[i].token = ticket[i].token /\ ticket'[i].life = ticket[i].life
          BY <3>2, <4>1 DEF Ticket
        <4> QED BY <4>3, <4>4, <4>5
      <3> QED BY <1>4, <3>1, <3>2 DEF MarkReceipt
    <2>4. /\ poller' \in Poller
          /\ poller'.drop => poller'.todo = poller.todo /\ poller.todo # {} /\ receipt[InHand] = "gone"
      <3>1. CASE IsGone(InHand)
        BY <1>2, <1>4, <3>1 DEF MarkReceipt, Poller, IsGone
      <3>2. CASE ~IsGone(InHand)
        <4>1. poller' = [todo |-> poller.todo \ {InHand}, drop |-> FALSE]
          BY <1>4, <3>2 DEF MarkReceipt, NextTicket
        <4>2. poller'.todo \subseteq 1..MaxTickets /\ ~poller'.drop
          BY <1>2, <4>1 DEF Poller
        <4> QED BY <4>1, <4>2 DEF Poller
      <3> QED BY <3>1, <3>2
    <2>5. PushTypeOK'
      BY <1>1, <1>4, <2>3, <2>4, PushFaultCounted DEF PushTypeOK, MarkReceipt, table, service
    <2>6. \A i \in 1..MaxTickets : receipt'[i] = "gone"
                                   => i \in 1..Len(ticket') /\ GoneSince(ticket'[i].token, ticket'[i].life)
      BY <1>1, <1>4, <2>3 DEF GoneWas, MarkReceipt, service, Told, GoneSince
    <2>7. poller'.drop => poller'.todo # {} /\ receipt'[InHand'] = "gone"
      BY <1>4, <2>4 DEF MarkReceipt, InHand, service
    <2>8. \A i \in 1..Len(ticket') : ticket'[i].life <= lives'[ticket'[i].token]
      BY <1>1, <1>4, <2>3 DEF GoneWas, MarkReceipt, service
    <2>9. \A s \in Senders : Told(sender[s])'
      BY <1>1, <1>4 DEF GoneWas, MarkReceipt, service, Told, GoneSince
    <2>10. \A i \in 1..MaxTickets : receipt'[i] = "gone"
                                   => i \in 1..Len(ticket') /\ GoneSince(ticket[i].token, ticket[i].life)'
      BY <1>4, <2>6 DEF MarkReceipt, service, GoneSince
    <2> QED BY <2>5, <2>7, <2>8, <2>9, <2>10 DEF PushTold, GoneWas
  <1>5. CASE DropToken
    <2>1. poller' \in Poller /\ ~poller'.drop
      BY <1>2, <1>5 DEF DropToken, NextTicket, Poller
    <2>2. registered' \in [Owners -> Tokens \cup {Nothing}]
      BY <1>1, <1>5, WithoutTyped DEF DropToken, PushTypeOK
    <2>3. dropped' \in [1..MaxTickets -> Nat]
      <3>1. InHand \in 1..MaxTickets /\ dropped \in [1..MaxTickets -> Nat]
        BY <1>1, <1>5, InHandIsTodo DEF DropToken, PushTypeOK, GoneWas
      <3>2. dropped[InHand] + 1 \in Nat
        BY <3>1
      <3>3. dropped' = dropped \/ dropped' = [dropped EXCEPT ![InHand] = dropped[InHand] + 1]
        BY <1>5, <3>1 DEF DropToken
      <3> QED BY <3>1, <3>2, <3>3
    <2>4. PushTypeOK'
      BY <1>1, <1>5, <2>1, <2>2, <2>3, PushFaultCounted DEF PushTypeOK, DropToken, service
    <2> QED BY <1>1, <1>5, <2>1, <2>4 DEF PushTold, GoneWas, DropToken, service, Told, GoneSince
  <1>6. CASE PollFails
    <2>1. poller' \in Poller /\ ~poller'.drop
      BY <1>6 DEF PollFails, NoPoll, Poller
    <2>2. PushTypeOK'
      BY <1>1, <1>6, <2>1, PushFaultCounted DEF PushTypeOK, PollFails, table, service
    <2> QED BY <1>1, <1>6, <2>1, <2>2 DEF PushTold, GoneWas, PollFails, service, Told, GoneSince
  <1> QED BY <1>3, <1>4, <1>5, <1>6 DEF PollStep

\* What a receipt has been acted on for: at most once, and once more for each
\* failed statement.  A ticket in hand whose mark is stored has one to go.
Owed(i) ==
    IF poller.drop /\ i = InHand
    THEN dropped[i] <= pushFaults /\ (~ticket[i].checked => dropped[i] + 1 <= pushFaults)
    ELSE dropped[i] <= pushFaults \/ (ticket[i].checked /\ dropped[i] <= 1 + pushFaults)

Acted ==
    /\ poller.todo \subseteq 1..Len(ticket)
    /\ \A i \in 1..MaxTickets : i \notin 1..Len(ticket) => dropped[i] = 0
    /\ \A i \in 1..Len(ticket) : Owed(i)
    /\ \A i \in poller.todo : ticket[i].checked => poller.drop /\ i = InHand

PushSound == PushTold /\ Acted

\* What the two lemmas below use of the invariant.
LEMMA PollFacts ==
    ASSUME PushSound
    PROVE  /\ Len(ticket) \in Nat /\ pushFaults \in Nat /\ MaxTickets \in Nat
           /\ dropped \in [1..MaxTickets -> Nat]
           /\ Len(ticket) <= MaxTickets /\ poller.todo \subseteq 1..MaxTickets
           /\ poller.drop => InHand \in poller.todo
  <1>1. poller.drop => poller.todo # {}
    BY DEF PushSound, PushTold, GoneWas
  <1>2. poller.todo # {} => InHand \in poller.todo
    BY InHandIsTodo DEF PushSound, PushTold
  <1> QED BY <1>1, <1>2, LenProperties, PushAssumption DEF PushSound, PushTold, PushTypeOK, Poller

\* Steps of the others: the poller, what it has done and the marks stay.
LEMMA OthersAct ==
    ASSUME PushSound, UNCHANGED polling, pushFaults' \in Nat, pushFaults' >= pushFaults,
           Len(ticket') \in Nat, Len(ticket) <= Len(ticket'), Len(ticket') <= MaxTickets,
           \A i \in 1..Len(ticket) : ticket'[i].checked = ticket[i].checked
    PROVE  Acted'
  <1>1. UNCHANGED <<poller, dropped>> /\ InHand' = InHand
    BY DEF polling, InHand
  <1>2. Acted
    BY DEF PushSound
  <1>3. poller'.todo \subseteq 1..Len(ticket')
    <2>1. 1..Len(ticket) \subseteq 1..Len(ticket')
      BY PollFacts
    <2> QED BY <1>1, <1>2, <2>1 DEF Acted
  <1>4. \A i \in 1..MaxTickets : i \notin 1..Len(ticket') => dropped'[i] = 0
    BY <1>1, <1>2, PollFacts DEF Acted
  <1>5. ASSUME NEW i \in 1..Len(ticket')
        PROVE  Owed(i)'
    <2>1. CASE i \in 1..Len(ticket)
      <3>1. dropped[i] \in Nat
        BY <2>1, PollFacts
      <3>2. Owed(i) /\ ticket'[i].checked = ticket[i].checked
        BY <1>2, <2>1 DEF Acted
      <3> QED BY <1>1, <3>1, <3>2, PollFacts DEF Owed
    <2>2. CASE i \notin 1..Len(ticket)
      <3>1. i \in 1..MaxTickets
        BY PollFacts
      <3>2. dropped'[i] = 0
        BY <1>1, <1>2, <2>2, <3>1 DEF Acted
      <3>3. ~(poller'.drop /\ i = InHand')
        BY <1>1, <1>2, <2>2, PollFacts DEF Acted
      <3>4. dropped'[i] <= pushFaults'
        BY <3>2
      <3> QED BY <3>3, <3>4 DEF Owed
    <2> QED BY <2>1, <2>2
  <1>6. \A i \in poller'.todo : ticket'[i].checked => poller'.drop /\ i = InHand'
    BY <1>1, <1>2 DEF Acted
  <1> QED BY <1>3, <1>4, <1>5, <1>6 DEF Acted

\* The loop over the receipts.
LEMMA PollerActs ==
    ASSUME PushSound, PollStep \/ PollFails
    PROVE  Acted'
  <1>1. PushTold /\ Acted /\ ticket \in Seq(Ticket) /\ UNCHANGED <<receipt, alive, lives>>
    BY DEF PushSound, PushTold, PushTypeOK, PollStep, Poll, MarkReceipt, DropToken, PollFails,
       service
  <1>2. \A i \in 1..Len(ticket) : i \in 1..MaxTickets /\ dropped[i] \in Nat /\ Owed(i)
    BY <1>1, PollFacts DEF Acted
  <1>3. CASE Poll
    <2>1. /\ poller'.todo = {i \in Listed : Arrived(i)} /\ poller'.drop = poller.drop
          /\ ~poller.drop /\ UNCHANGED <<ticket, dropped, pushFaults>>
      BY <1>1, <1>3 DEF Poll, PushTold, GoneWas, PushTypeOK, Poller
    <2>2. \A i \in poller'.todo : i \in 1..Len(ticket) /\ ~ticket[i].checked
      BY <2>1 DEF Listed, Unchecked
    <2>3. \A i \in 1..Len(ticket) : Owed(i)'
      BY <1>2, <2>1 DEF Owed
    <2> QED BY <1>1, <2>1, <2>2, <2>3 DEF Acted
  <1>4. CASE MarkReceipt
    <2> PICK n \in 1..Len(ticket) : n = InHand /\ n \in poller.todo
      BY <1>1, <1>4, InHandIsTodo DEF MarkReceipt, PushTold, Acted
    <2>1. /\ ~poller.drop /\ ~ticket[n].checked /\ dropped[n] <= pushFaults /\ UNCHANGED dropped
      BY <1>1, <1>2, <1>4 DEF MarkReceipt, Acted, Owed
    <2>2. /\ Len(ticket') = Len(ticket)
          /\ \A i \in (1..Len(ticket)) \ {n} : ticket'[i] = ticket[i]
      <3>1. ticket \in [1..Len(ticket) -> Ticket] /\ Len(ticket) \in Nat
        BY <1>1, LenProperties
      <3>2. UNCHANGED ticket \/ ticket' = [ticket EXCEPT ![n].checked = TRUE]
        BY <1>4 DEF MarkReceipt
      <3>3. ticket' \in [1..Len(ticket) -> Ticket]
        BY <3>1, <3>2 DEF Ticket
      <3>4. ticket' \in Seq(Ticket)
        BY <3>1, <3>3, SeqDef
      <3>5. Len(ticket') = Len(ticket)
        BY <3>1, <3>3, <3>4, LenProperties
      <3> QED BY <3>1, <3>2, <3>5
    <2>3. \/ ticket'[n].checked /\ UNCHANGED pushFaults
          \/ ~ticket'[n].checked /\ pushFaults' = pushFaults + 1
      <3>1. ticket \in [1..Len(ticket) -> Ticket]
        BY <1>1, LenProperties
      <3> QED BY <1>4, <2>1, <3>1 DEF MarkReceipt, PushFault, Ticket
    <2>4. \/ poller'.todo = poller.todo /\ poller'.drop /\ InHand' = n
          \/ poller'.todo = poller.todo \ {n} /\ ~poller'.drop
      <3>1. poller \in Poller
        BY <1>1 DEF PushTold, PushTypeOK
      <3> QED BY <1>4, <3>1 DEF MarkReceipt, NextTicket, InHand, Poller
    <2>5. ASSUME NEW i \in 1..Len(ticket)
          PROVE  Owed(i)'
      <3>1. CASE i = n
        BY <1>2, <2>1, <2>3, <2>4, <3>1, PollFacts DEF Owed
      <3>2. CASE i # n
        <4>1. dropped'[i] = dropped[i] /\ ticket'[i].checked = ticket[i].checked
          BY <2>1, <2>2, <3>2
        <4>2. dropped[i] <= pushFaults \/ (ticket[i].checked /\ dropped[i] <= 1 + pushFaults)
          BY <1>2, <2>1 DEF Owed
        <4> QED BY <1>2, <2>3, <2>4, <3>2, <4>1, <4>2, PollFacts DEF Owed
      <3> QED BY <3>1, <3>2
    <2>6. \A i \in poller'.todo : ticket'[i].checked => poller'.drop /\ i = InHand'
      BY <1>1, <2>1, <2>2, <2>4 DEF Acted
    <2> QED BY <1>1, <2>1, <2>2, <2>4, <2>5, <2>6 DEF Acted
  <1>5. CASE DropToken
    <2> PICK n \in 1..Len(ticket) : n = InHand /\ n \in poller.todo
      BY <1>1, <1>5, PollFacts DEF DropToken, Acted
    <2>1. /\ poller.drop /\ poller'.todo = poller.todo \ {n} /\ ~poller'.drop /\ UNCHANGED ticket
          /\ dropped[n] <= pushFaults /\ (~ticket[n].checked => dropped[n] + 1 <= pushFaults)
      BY <1>2, <1>5 DEF DropToken, NextTicket, Owed
    <2>2. /\ \A i \in (1..MaxTickets) \ {n} : dropped'[i] = dropped[i]
          /\ \/ dropped'[n] = dropped[n] + 1 /\ UNCHANGED pushFaults
             \/ dropped'[n] = dropped[n] /\ pushFaults' = pushFaults + 1
      BY <1>2, <1>5, PollFacts DEF DropToken, PushFault
    <2>3. ASSUME NEW i \in 1..Len(ticket)
          PROVE  Owed(i)'
      <3>1. CASE i = n
        BY <1>2, <2>1, <2>2, <3>1, PollFacts DEF Owed
      <3>2. CASE i # n
        <4>1. dropped'[i] = dropped[i]
          BY <1>2, <2>2, <3>2
        <4>2. dropped[i] <= pushFaults \/ (ticket[i].checked /\ dropped[i] <= 1 + pushFaults)
          BY <1>2, <3>2 DEF Owed
        <4> QED BY <1>2, <2>1, <2>2, <4>1, <4>2, PollFacts DEF Owed
      <3> QED BY <3>1, <3>2
    <2>4. \A i \in poller'.todo : ~ticket'[i].checked
      BY <1>1, <2>1 DEF Acted
    <2> QED BY <1>1, <2>1, <2>2, <2>3, <2>4 DEF Acted
  <1>6. CASE PollFails
    <2>1. /\ poller'.todo = {} /\ ~poller'.drop /\ pushFaults' = pushFaults + 1
          /\ UNCHANGED <<ticket, dropped>>
      BY <1>6 DEF PollFails, NoPoll, PushFault
    <2>2. ASSUME NEW i \in 1..Len(ticket)
          PROVE  Owed(i)'
      <3>1. dropped[i] <= 1 + pushFaults
        BY <1>2, PollFacts DEF Owed
      <3> QED BY <1>2, <2>1, <3>1, PollFacts DEF Owed
    <2> QED BY <1>1, <2>1, <2>2 DEF Acted
  <1> QED BY <1>3, <1>4, <1>5, <1>6 DEF PollStep

LEMMA PushStart == InitPush => PushSound
  <1> SUFFICES ASSUME InitPush PROVE PushSound
    OBVIOUS
  <1>1. PushTypeOK
    BY PushAssumption DEF InitPush, PushTypeOK, Sender, NoSend, Poller, NoPoll
  <1>2. GoneWas
    BY <1>1 DEF InitPush, GoneWas, Told, NoSend, NoPoll, PushTypeOK
  <1>3. Acted
    BY DEF InitPush, Acted, NoPoll
  <1> QED BY <1>1, <1>2, <1>3 DEF PushSound, PushTold

\* A sender's step leaves the marks of the tickets alone, and adds to the tickets.
LEMMA SendersAct ==
    ASSUME PushSound, NEW s \in Senders,
           (\E u \in Users : SendToUser(s, u)) \/ SendStep(s) \/ SendFails(s)
    PROVE  /\ Len(ticket) <= Len(ticket')
           /\ \A i \in 1..Len(ticket) : ticket'[i] = ticket[i]
  <1>1. CASE UNCHANGED ticket
    BY <1>1, PollFacts
  <1>2. CASE StoreTickets(s)
    <2>1. PICK order \in SetToSeqs(sender[s].tickets) :
             ticket' = ticket \o [i \in DOMAIN order |-> [token |-> order[i],
                           life |-> sender[s].life[order[i]], checked |-> FALSE]]
      BY <1>2 DEF StoreTickets
    <2> DEFINE n == Cardinality(sender[s].tickets)
               new == [i \in DOMAIN order |-> [token |-> order[i],
                           life |-> sender[s].life[order[i]], checked |-> FALSE]]
    <2>2. IsFiniteSet(sender[s].tickets)
      BY PushAssumption, FS_Subset DEF PushSound, PushTold, PushTypeOK, Sender
    <2>3. n \in Nat /\ DOMAIN new = 1..n
      BY <2>1, <2>2, FS_CardinalityType DEF SetToSeqs
    <2>5. new \in Seq(Range(new))
      BY <2>3 DEF Range
    <2>6. Len(new) = n
      BY <2>3
    <2>7. ticket \in Seq(Ticket) /\ ticket' = ticket \o new
      BY <2>1 DEF PushSound, PushTold, PushTypeOK
    <2> HIDE DEF n, new
    <2>4. /\ Len(ticket') = Len(ticket) + n
          /\ \A i \in 1..Len(ticket) : ticket'[i] = ticket[i]
      <3>1. \E T : ticket \in Seq(T) /\ new \in Seq(T)
        <4>1. ticket \in Seq(Ticket \cup Range(new)) /\ new \in Seq(Ticket \cup Range(new))
          BY <2>5, <2>7
        <4> QED BY <4>1
      <3>2. PICK T : ticket \in Seq(T) /\ new \in Seq(T)
        BY <3>1
      <3>3. /\ Len(ticket \o new) = Len(ticket) + Len(new)
            /\ \A i \in 1..(Len(ticket) + Len(new)) :
                 (ticket \o new)[i] = IF i <= Len(ticket) THEN ticket[i] ELSE new[i - Len(ticket)]
        BY <3>2, ConcatProperties
      <3>4. ASSUME NEW i \in 1..Len(ticket)
            PROVE  ticket'[i] = ticket[i]
        <4>1. i \in 1..(Len(ticket) + Len(new)) /\ i <= Len(ticket)
          BY <2>3, <2>6, PollFacts
        <4> QED BY <2>7, <3>3, <4>1
      <3> QED BY <2>6, <2>7, <3>3, <3>4
    <2> QED BY <2>3, <2>4, PollFacts
  <1> QED BY <1>1, <1>2 DEF SendToUser, SendStep, IsEnabled, ListTokens, Push, DropGone, SendFails

LEMMA PushKept == PushSound /\ [NextPush]_pushVars => PushSound'
  <1> SUFFICES ASSUME PushSound, [NextPush]_pushVars PROVE PushSound'
    OBVIOUS
  <1>1. CASE UNCHANGED pushVars
    BY <1>1 DEF PushSound, PushTold, PushTypeOK, GoneWas, Told, GoneSince, Acted, Owed, InHand,
       pushVars
  <1>2. CASE NextPush
    <2>1. PushTold'
      BY <1>2, DevicesSound, SendersSound, ReceiptsSound, PollerSound DEF NextPush, PushSound
    <2>2. Len(ticket') \in Nat /\ Len(ticket') <= MaxTickets /\ pushFaults' \in Nat
      BY <2>1, LenProperties, PushAssumption DEF PushTold, PushTypeOK
    <2>3. CASE PollStep \/ PollFails
      BY <2>1, <2>3, PollerActs DEF PushSound
    <2>4. ASSUME UNCHANGED polling, Len(ticket) <= Len(ticket'),
                 \A i \in 1..Len(ticket) : ticket'[i] = ticket[i],
                 PushFault \/ UNCHANGED pushFaults
          PROVE  PushSound'
      <3>1. pushFaults' >= pushFaults
        BY <2>4, PollFacts DEF PushFault
      <3> QED BY <2>1, <2>2, <2>4, <3>1, OthersAct DEF PushSound
    <2>5. CASE DeviceStep
      <3>1. UNCHANGED <<ticket, polling, pushFaults>>
        BY <2>5 DEF DeviceStep, Register, DeleteToken, Toggle, Dies, ComesBack
      <3> QED BY <2>4, <3>1, PollFacts
    <2>6. ASSUME NEW s \in Senders,
                 (\E u \in Users : SendToUser(s, u)) \/ SendStep(s) \/ SendFails(s)
          PROVE  PushSound'
      <3>1. UNCHANGED polling /\ (PushFault \/ UNCHANGED pushFaults)
        BY <2>6 DEF SendToUser, SendStep, IsEnabled, ListTokens, Push, DropGone, StoreTickets,
           SendFails
      <3> QED BY <2>4, <2>6, <3>1, SendersAct
    <2>7. ASSUME NEW i \in 1..MaxTickets, ReceiptAppears(i) \/ ReceiptIsMissing(i)
          PROVE  PushSound'
      BY <2>4, <2>7, PollFacts DEF ReceiptAppears, ReceiptIsMissing
    <2> QED BY <1>2, <2>3, <2>5, <2>6, <2>7 DEF NextPush
  <1> QED BY <1>1, <1>2

\* The inductive invariant, for every number of devices, senders and tickets, with
\* the types of the model's state: a token that a send or the poller is about to
\* drop has been gone since the message was sent, and a receipt is acted on once
\* and once more for each failed statement.
THEOREM PushSoundAlways == SpecPush => []PushSound
  BY PushStart, PushKept, PTL DEF SpecPush

\* A receipt unsubscribes at most one registration, and one more for each failed
\* statement (ProcessPendingReceipts).
THEOREM ActedOnOnceAlways == SpecPush => []ActedOnOnce
  <1>1. ASSUME PushSound
        PROVE  ActedOnOnce
    <2> SUFFICES ASSUME NEW i \in 1..MaxTickets PROVE dropped[i] <= 1 + pushFaults
      BY DEF ActedOnOnce
    <2>1. CASE i \in 1..Len(ticket)
      <3>1. Owed(i) /\ dropped[i] \in Nat
        BY <1>1, <2>1, PollFacts DEF PushSound, Acted
      <3> QED BY <1>1, <3>1, PollFacts DEF Owed
    <2>2. CASE i \notin 1..Len(ticket)
      BY <1>1, <2>2, PollFacts DEF PushSound, Acted
    <2> QED BY <2>1, <2>2
  <1> QED BY <1>1, PushSoundAlways, PTL

\* A message unsubscribes a device only if its token has been gone since it was
\* sent (SendToUserWithOptions, ProcessPendingReceipts).
THEOREM DropsOnlyGoneAlways == SpecPush => DropsOnlyGone
  <1> DEFINE Why(k) == \/ DeviceStep
                       \/ \E s \in Senders : k \in sender[s].gone /\ sender[s].life[k] < lives[k]
                       \/ poller.drop /\ ticket[InHand].token = k /\ ticket[InHand].life < lives[k]
             Kept == \A k \in alive : k \in Subscribed /\ k \notin Subscribed' => Why(k)
  <1>1. ASSUME PushSound, NextPush
        PROVE  Kept
    <2> SUFFICES ASSUME NEW k \in alive, NEW o \in Owners, registered[o] = k,
                        k \notin {registered'[p] : p \in Owners}
                 PROVE  Why(k)
      BY DEF Subscribed
    <2>0. k \in Tokens
      BY <1>1 DEF PushSound, PushTold, PushTypeOK
    <2>1. ASSUME NEW d, d # k, registered' = Without(d)
          PROVE  FALSE
      BY <2>1 DEF Without
    <2>2. registered' # registered
      OBVIOUS
    <2>3. ASSUME NEW s \in Senders, NEW d \in Tokens, DropGone(s, d)
          PROVE  Why(k)
      <3>1. registered' = Without(d) /\ d \in sender[s].gone
        BY <2>2, <2>3 DEF DropGone
      <3>2. d = k
        BY <2>1, <3>1
      <3>3. GoneSince(k, sender[s].life[k])
        BY <1>1, <3>1, <3>2 DEF PushSound, PushTold, GoneWas, Told
      <3> QED BY <3>1, <3>2, <3>3 DEF GoneSince
    <2>4. CASE DropToken
      <3>1. receipt[InHand] = "gone" /\ InHand \in 1..MaxTickets /\ poller.drop
        BY <1>1, <2>4, InHandIsTodo DEF DropToken, PushSound, PushTold, GoneWas
      <3>2. registered' = Without(ticket[InHand].token)
        BY <2>2, <2>4 DEF DropToken
      <3>3. ticket[InHand].token = k
        BY <2>1, <3>2
      <3>4. GoneSince(k, ticket[InHand].life)
        BY <1>1, <3>1, <3>3 DEF PushSound, PushTold, GoneWas
      <3> QED BY <3>1, <3>3, <3>4 DEF GoneSince
    <2>5. ASSUME NEW s \in Senders,
                 (\E u \in Users : SendToUser(s, u)) \/ SendStep(s) \/ SendFails(s)
          PROVE  Why(k)
      BY <2>2, <2>3, <2>5 DEF SendToUser, SendStep, IsEnabled, ListTokens, Push, StoreTickets,
         SendFails, table
    <2>6. ~\E i \in 1..MaxTickets : ReceiptAppears(i) \/ ReceiptIsMissing(i)
      BY <2>2 DEF ReceiptAppears, ReceiptIsMissing, table
    <2>7. ~Poll /\ ~MarkReceipt /\ ~PollFails
      BY <2>2 DEF Poll, MarkReceipt, PollFails, table
    <2> QED BY <1>1, <2>4, <2>5, <2>6, <2>7 DEF NextPush, PollStep
  <1>2. ASSUME UNCHANGED pushVars
        PROVE  Kept
    BY <1>2 DEF pushVars, Subscribed
  <1>3. PushSound /\ [NextPush]_pushVars => Kept
    BY <1>1, <1>2
  <1>4. PushSound /\ [NextPush]_pushVars => [Kept]_pushVars
    BY <1>3
  <1> QED BY <1>4, PushSoundAlways, PTL DEF SpecPush, DropsOnlyGone

-----------------------------------------------------------------------------
(* The wallet's books *)

\* A request that has a row: from the call to the end of the handler.
Acting(r) == req[r].pc \in {"call", "fail", "read", "commit"}

\* Rows are numbered as they are written.
RowsInOrder == \A t \in Txs : t > lastRow => row[t] = NoRow /\ moved[t] = None

\* The row of a request in progress is pending and nobody else's; the provider
\* has executed it when the handler goes on to complete it, and not before.
OwnRows ==
    /\ \A r \in Requests : Acting(r) =>
         /\ req[r].tx \in 1..lastRow
         /\ row[req[r].tx].kind \in Kinds /\ row[req[r].tx].status = "pending"
         /\ req[r].pc = "call" => moved[req[r].tx] = None /\ req[r].tx \notin late
         /\ req[r].pc \in {"read", "commit"} => moved[req[r].tx] # None /\ req[r].tx \notin late
    /\ \A r, q \in Requests : Acting(r) /\ Acting(q) /\ req[r].tx = req[q].tx => r = q

\* What the provider may still execute has not been executed or completed.
LateRows ==
    \A t \in late : moved[t] = None /\ row[t].kind \in Kinds /\ row[t].status # "successful"

\* A webhook, and the row it left, is about a deposit that was paid in.
PaidIn ==
    /\ \A h \in Hooks : hook[h].pc # "idle" => hook[h].of \in Deposits /\ owed[hook[h].of] # "none"
    /\ \A t \in CreditRows : row[t].of \in Deposits /\ owed[row[t].of] # "none"

\* The provider moves what the client sent: all of a transfer, a hundredth of a
\* repayment.
MovedAsSent ==
    /\ \A t \in Txs : row[t].kind \in Kinds /\ moved[t] # None => moved[t] = SentFor(t)
    /\ \A t \in Txs : row[t].kind \in Kinds => \E n \in Nat : row[t].amount = n * 100
    /\ \A t \in Debited : moved[t] # None

InBooks == TypeOK /\ RowsInOrder /\ OwnRows /\ LateRows /\ PaidIn /\ MovedAsSent

LedgerSound == InBooks /\ BooksBalance /\ DriftExplained

LEMMA TxsFinite ==
    /\ IsFiniteSet(Txs) /\ Txs \subseteq Nat /\ 0 \notin Txs
    /\ \A t \in Txs : t \in Nat /\ t > 0 /\ t <= MaxRows
  BY FS_Interval, LedgerAssumption DEF Txs

AmountOf == [t \in Txs |-> row[t].amount]
DebitOf == [t \in Txs |-> TotalDebit(t)]
OutOf == [t \in Txs |-> Moved(t) + Charges]
ExcessOf == [t \in Txs |-> row[t].amount - Moved(t)]
AgainOf == [d \in Deposits |-> Again(d)]

LEMMA MovedNat == ASSUME TypeOK, NEW t \in Txs PROVE Moved(t) \in Nat
  BY DEF TypeOK, Moved

Weights ==
    /\ AmountOf \in [Txs -> Int] /\ DebitOf \in [Txs -> Int] /\ OutOf \in [Txs -> Int]
    /\ ExcessOf \in [Txs -> Int] /\ AgainOf \in [Deposits -> Int]
    /\ DepositAmount \in [Deposits -> Int]

LEMMA WeightsTyped == TypeOK => Weights
  <1> SUFFICES ASSUME TypeOK PROVE Weights
    OBVIOUS
  <1>1. \A t \in Txs : row[t].amount \in Nat /\ Moved(t) \in Nat
    BY MovedNat DEF TypeOK, Row
  <1>2. Charges \in Nat /\ DepositAmount \in [Deposits -> Nat]
    BY LedgerAssumption
  <1>3. \A d \in Deposits : Again(d) \in Int
    <2> SUFFICES ASSUME NEW d \in Deposits PROVE Again(d) \in Int
      OBVIOUS
    <2>1. IsFiniteSet(Credits(d)) /\ Cardinality(Credits(d)) \in Nat
      <3>1. Credits(d) \subseteq Txs
        BY DEF Credits, CreditRows
      <3> QED BY <3>1, TxsFinite, FS_Subset, FS_CardinalityType
    <2>2. DepositAmount[d] \in Nat
      BY <1>2
    <2>3. (Cardinality(Credits(d)) - 1) * DepositAmount[d] \in Int
      BY ONLY <2>1, <2>2
    <2> QED BY <2>3 DEF Again
  <1>4. \A t \in Txs : TotalDebit(t) \in Int
    BY <1>1, <1>2 DEF TotalDebit
  <1> QED BY <1>1, <1>2, <1>3, <1>4 DEF Weights, AmountOf, DebitOf, OutOf, ExcessOf, AgainOf

LEMMA WeightsTypedNext == TypeOK' => Weights'
  BY WeightsTyped, PTL

Finite ==
    /\ CreditRows \in SUBSET Txs /\ IsFiniteSet(CreditRows)
    /\ Debited \in SUBSET Txs /\ IsFiniteSet(Debited)
    /\ Stranded \in SUBSET Txs /\ IsFiniteSet(Stranded)
    /\ Unbooked \in SUBSET Deposits /\ IsFiniteSet(Unbooked) /\ IsFiniteSet(Deposits)

LEMMA SetsFinite == Finite
  <1>1. /\ CreditRows \in SUBSET Txs /\ Debited \in SUBSET Txs /\ Stranded \in SUBSET Txs
        /\ Unbooked \in SUBSET Deposits
    BY DEF CreditRows, Debited, Stranded, Unbooked
  <1> QED BY <1>1, TxsFinite, FS_Subset, LedgerAssumption DEF Finite

LEMMA SetsFiniteNext == Finite'
  BY SetsFinite, PTL

SumsAre ==
    /\ CreditedSum = SumFunctionOnSet(AmountOf, CreditRows)
    /\ DebitedSum = SumFunctionOnSet(DebitOf, Debited)
    /\ StrandedSum = SumFunctionOnSet(OutOf, Stranded)
    /\ ExcessSum = SumFunctionOnSet(ExcessOf, Debited)
    /\ AgainSum = SumFunctionOnSet(AgainOf, Deposits)

LEMMA SumsOf == SumsAre
  BY DEF SumsAre, CreditedSum, DebitedSum, StrandedSum, ExcessSum, AgainSum,
         AmountOf, DebitOf, OutOf, ExcessOf, AgainOf

LEMMA SumsOfNext == SumsAre'
  BY SumsOf, PTL

SumsInt ==
    /\ CreditedSum \in Int /\ DebitedSum \in Int /\ StrandedSum \in Int
    /\ ExcessSum \in Int /\ AgainSum \in Int /\ UnbookedSum \in Int

LEMMA SumsTyped == TypeOK => SumsInt
  BY WeightsTyped, SetsFinite, SumsOf, SumIsInt DEF SumsInt, UnbookedSum, Weights, Finite, SumsAre

LEMMA SumsTypedNext == TypeOK' => SumsInt'
  BY SumsTyped, PTL

\* The rows that count say the same: so do the books.
LEMMA SameBooks ==
    ASSUME TypeOK, TypeOK', CreditRows' = CreditRows, Debited' = Debited,
           \A t \in CreditRows \cup Debited : row'[t].amount = row[t].amount
    PROVE  CreditedSum' = CreditedSum /\ DebitedSum' = DebitedSum
  <1>1. AmountOf \in [Txs -> Int] /\ DebitOf \in [Txs -> Int]
    BY WeightsTyped DEF Weights
  <1>2. AmountOf' \in [Txs -> Int] /\ DebitOf' \in [Txs -> Int]
    BY WeightsTypedNext DEF Weights
  <1>3. /\ \A t \in CreditRows : AmountOf'[t] = AmountOf[t]
        /\ \A t \in Debited : DebitOf'[t] = DebitOf[t]
    BY SetsFinite DEF Finite, AmountOf, DebitOf, TotalDebit
  <1>4. SumFunctionOnSet(AmountOf', CreditRows) = SumFunctionOnSet(AmountOf, CreditRows)
    BY <1>1, <1>2, <1>3, SetsFinite, SumSame DEF Finite
  <1>5. SumFunctionOnSet(DebitOf', Debited) = SumFunctionOnSet(DebitOf, Debited)
    BY <1>1, <1>2, <1>3, SetsFinite, SumSame DEF Finite
  <1> QED BY <1>4, <1>5, SumsOf, SumsOfNext DEF SumsAre

\* The same deposits have the same number of rows.
LEMMA SameCredits ==
    ASSUME \A d \in Deposits : Credits(d)' = Credits(d),
           \A d \in Deposits : owed'[d] = "none" <=> owed[d] = "none"
    PROVE  AgainSum' = AgainSum /\ UnbookedSum' = UnbookedSum
  <1>1. Unbooked' = Unbooked
    BY DEF Unbooked
  <1>2. AgainOf' = AgainOf
    BY DEF AgainOf, Again
  <1> QED BY <1>1, <1>2, SumsOf, SumsOfNext DEF SumsAre, UnbookedSum

\* The same debits are executed and not counted, or counted.
LEMMA SameDebits ==
    ASSUME TypeOK, TypeOK', Debited' = Debited, moved' = moved,
           \A t \in Debited : row'[t].amount = row[t].amount
    PROVE  StrandedSum' = StrandedSum /\ ExcessSum' = ExcessSum
  <1>1. Stranded' = Stranded /\ OutOf' = OutOf
    BY DEF Stranded, OutOf, Moved
  <1>2. ExcessOf \in [Txs -> Int]
    BY WeightsTyped DEF Weights
  <1>3. ExcessOf' \in [Txs -> Int]
    BY WeightsTypedNext DEF Weights
  <1>4. \A t \in Debited : ExcessOf'[t] = ExcessOf[t]
    BY SetsFinite DEF Finite, ExcessOf, Moved
  <1>5. SumFunctionOnSet(ExcessOf', Debited) = SumFunctionOnSet(ExcessOf, Debited)
    BY <1>2, <1>3, <1>4, SetsFinite, SumSame DEF Finite
  <1> QED BY <1>1, <1>5, SumsOf, SumsOfNext DEF SumsAre

\* A step that writes no row and moves no money.
LEMMA NothingBooked ==
    ASSUME LedgerSound, TypeOK', UNCHANGED <<row, moved, balance, bank>>,
           \A d \in Deposits : owed'[d] = "none" <=> owed[d] = "none"
    PROVE  BooksBalance' /\ DriftExplained'
  <1>1. CreditRows' = CreditRows /\ Debited' = Debited /\ \A d \in Deposits : Credits(d)' = Credits(d)
    BY DEF CreditRows, Debited, Credits
  <1>2. TypeOK
    BY DEF LedgerSound, InBooks
  <1>3. /\ CreditedSum' = CreditedSum /\ DebitedSum' = DebitedSum
        /\ AgainSum' = AgainSum /\ UnbookedSum' = UnbookedSum
        /\ StrandedSum' = StrandedSum /\ ExcessSum' = ExcessSum
    BY <1>1, <1>2, SameBooks, SameCredits, SameDebits
  <1> QED BY <1>3 DEF LedgerSound, BooksBalance, DriftExplained

LEMMA LedgerStart == Init => LedgerSound
  <1> SUFFICES ASSUME Init PROVE LedgerSound
    OBVIOUS
  <1>1. TypeOK
    BY LedgerAssumption DEF Init, TypeOK, Row, Request, Hook, NoRow, IdleRequest, IdleHook, Kinds
  <1>2. CreditRows = {} /\ Debited = {} /\ Stranded = {} /\ Unbooked = {}
    BY DEF Init, CreditRows, Debited, Stranded, Unbooked, NoRow, Kinds
  <1>3. InBooks
    <2>1. RowsInOrder
      BY DEF Init, RowsInOrder
    <2>2. OwnRows
      BY DEF Init, OwnRows, Acting, IdleRequest
    <2>3. LateRows
      BY DEF Init, LateRows
    <2>4. PaidIn
      BY <1>2 DEF Init, PaidIn, IdleHook
    <2>5. MovedAsSent
      <3>1. \A t \in Txs : moved[t] = None /\ row[t].amount = 0
        BY DEF Init, NoRow
      <3>2. 0 = 0 * 100 /\ 0 \in Nat
        OBVIOUS
      <3> QED BY <1>2, <3>1, <3>2 DEF MovedAsSent
    <2> QED BY <1>1, <2>1, <2>2, <2>3, <2>4, <2>5 DEF InBooks
  <1>4. CreditedSum = 0 /\ DebitedSum = 0 /\ StrandedSum = 0 /\ ExcessSum = 0 /\ UnbookedSum = 0
    BY <1>2, SumOfNothing DEF CreditedSum, DebitedSum, StrandedSum, ExcessSum, UnbookedSum
  <1>5. AgainSum = 0
    <2>1. \A d \in Deposits : Again(d) = 0
      BY <1>2 DEF Again, Credits
    <2>2. AgainOf \in [Deposits -> Int] /\ IsFiniteSet(Deposits)
      BY <1>1, WeightsTyped, LedgerAssumption DEF Weights
    <2>3. \A d \in Deposits : AgainOf[d] = 0
      BY <2>1 DEF AgainOf
    <2> QED BY <2>2, <2>3, SumsOf, SumOfZeros DEF SumsAre
  <1>6. BooksBalance
    BY <1>4, LedgerAssumption DEF BooksBalance, Init
  <1>7. DriftExplained
    BY <1>4, <1>5, LedgerAssumption DEF DriftExplained, Init
  <1> QED BY <1>3, <1>6, <1>7 DEF LedgerSound

LEMMA FaultCounted ==
    ASSUME TypeOK, Fault \/ UNCHANGED faults
    PROVE  faults' \in 0..MaxFaults
  BY LedgerAssumption DEF Fault, TypeOK

\* A request goes on with its row, gives it up to the provider, or ends.
LEMMA RequestGoes ==
    ASSUME LedgerSound, NEW r \in Requests, NEW q \in Request, req' = [req EXCEPT ![r] = q],
           q.pc \in {"call", "fail", "read", "commit"} =>
             /\ Acting(r) /\ q.tx = req[r].tx
             /\ q.pc = "call" => req[r].pc = "call"
             /\ q.pc \in {"read", "commit"} => req[r].pc \in {"read", "commit"},
           \/ late' = late
           \/ /\ late' = late \cup {req[r].tx} /\ req[r].pc = "call"
              /\ q.pc \notin {"call", "read", "commit"},
           UNCHANGED <<balance, row, lastRow, hook, bank, moved, owed>>,
           faults' \in 0..MaxFaults
    PROVE  LedgerSound'
  <1> USE DEF LedgerSound, InBooks
  <1>1. req \in [Requests -> Request] /\ req' \in [Requests -> Request]
    BY DEF TypeOK
  <1>2. /\ req'[r] = q
        /\ \A p \in Requests : p # r => req'[p] = req[p]
    BY <1>1
  <1>3. req[r].pc = "call" => /\ req[r].tx \in 1..lastRow /\ moved[req[r].tx] = None
                              /\ row[req[r].tx].kind \in Kinds /\ row[req[r].tx].status = "pending"
    BY DEF OwnRows, Acting
  <1>4. late' \subseteq 1..lastRow
    BY <1>3 DEF TypeOK
  <1>5. TypeOK'
    BY <1>1, <1>4 DEF TypeOK
  <1>6. OwnRows'
    <2>1. \A p \in Requests : Acting(p)' => /\ Acting(p) /\ req'[p].tx = req[p].tx
                                            /\ req'[p].pc = "call" => req[p].pc = "call"
                                            /\ req'[p].pc \in {"read", "commit"} => req[p].pc \in {"read", "commit"}
      BY <1>2 DEF Acting
    <2>2. ASSUME NEW p \in Requests, Acting(p)', req'[p].pc \in {"call", "read", "commit"}
          PROVE  req'[p].tx \notin late'
      <3>1. req[p].tx \notin late
        BY <2>1, <2>2 DEF OwnRows
      <3>2. CASE late' = late
        BY <2>1, <2>2, <3>1, <3>2
      <3>3. CASE /\ late' = late \cup {req[r].tx} /\ req[r].pc = "call"
                 /\ q.pc \notin {"call", "read", "commit"}
        <4>1. p # r /\ Acting(r)
          BY <1>2, <2>2, <3>3 DEF Acting
        <4>2. req[p].tx # req[r].tx
          BY <2>1, <2>2, <4>1 DEF OwnRows
        <4> QED BY <2>1, <2>2, <3>1, <3>3, <4>2
      <3> QED BY <3>2, <3>3
    <2>3. ASSUME NEW p \in Requests, Acting(p)'
          PROVE  /\ req'[p].tx \in 1..lastRow'
                 /\ row'[req'[p].tx].kind \in Kinds /\ row'[req'[p].tx].status = "pending"
                 /\ req'[p].pc = "call" => moved'[req'[p].tx] = None
                 /\ req'[p].pc \in {"read", "commit"} => moved'[req'[p].tx] # None
      BY <2>1, <2>3 DEF OwnRows
    <2>4. \A p, o \in Requests : Acting(p)' /\ Acting(o)' /\ req'[p].tx = req'[o].tx => p = o
      BY <2>1 DEF OwnRows
    <2> QED BY <2>2, <2>3, <2>4 DEF OwnRows
  <1>7. LateRows'
    BY <1>3 DEF LateRows
  <1>8. RowsInOrder' /\ PaidIn' /\ MovedAsSent'
    BY DEF RowsInOrder, PaidIn, MovedAsSent, CreditRows, Debited, SentFor
  <1>9. BooksBalance' /\ DriftExplained'
    BY <1>5, NothingBooked
  <1> QED BY <1>5, <1>6, <1>7, <1>8, <1>9

LEMMA RequestSteps ==
    ASSUME LedgerSound, NEW r \in Requests,
           \/ \E kind \in Kinds, naira \in Naira : Ask(r, kind, naira)
           \/ Refused(r) \/ TimesOut(r) \/ ReadDebited(r) \/ Abandon(r)
    PROVE  LedgerSound'
  <1>1. TypeOK /\ req[r] \in Request /\ balance \in Int /\ faults \in 0..MaxFaults
    BY DEF LedgerSound, InBooks, TypeOK
  <1>2. ASSUME NEW kind \in Kinds, NEW naira \in Naira, Ask(r, kind, naira)
        PROVE  LedgerSound'
    <2>1. [req[r] EXCEPT !.pc = "insert", !.kind = kind, !.naira = naira] \in Request
      BY <1>1 DEF Request
    <2>2. [req[r] EXCEPT !.pc = "insert", !.kind = kind, !.naira = naira].pc = "insert"
      BY <1>1 DEF Request
    <2> QED BY <1>1, <1>2, <2>1, <2>2, RequestGoes DEF Ask, provider
  <1>3. CASE Refused(r) \/ TimesOut(r)
    <2>1. [req[r] EXCEPT !.pc = "fail"] \in Request
      BY <1>1 DEF Request
    <2>2. [req[r] EXCEPT !.pc = "fail"].pc = "fail" /\ [req[r] EXCEPT !.pc = "fail"].tx = req[r].tx
      BY <1>1 DEF Request
    <2>3. req[r].pc = "call" /\ Acting(r) /\ req' = [req EXCEPT ![r] = [req[r] EXCEPT !.pc = "fail"]]
      BY <1>3 DEF Refused, TimesOut, Goto, Acting
    <2>4. faults' \in 0..MaxFaults
      BY <1>1, <1>3, FaultCounted DEF Refused, TimesOut
    <2>5. late' = late \/ late' = late \cup {req[r].tx}
      BY <1>3 DEF Refused, TimesOut, provider
    <2>6. UNCHANGED <<balance, row, lastRow, hook, bank, moved, owed>>
      BY <1>3 DEF Refused, TimesOut, provider
    <2> QED BY <2>1, <2>2, <2>3, <2>4, <2>5, <2>6, RequestGoes
  <1>4. CASE ReadDebited(r)
    <2>1. [req[r] EXCEPT !.pc = "commit", !.snap = balance] \in Request
      BY <1>1 DEF Request
    <2>2. /\ [req[r] EXCEPT !.pc = "commit", !.snap = balance].pc = "commit"
          /\ [req[r] EXCEPT !.pc = "commit", !.snap = balance].tx = req[r].tx
      BY <1>1 DEF Request
    <2> QED BY <1>1, <1>4, <2>1, <2>2, RequestGoes DEF ReadDebited, provider, Acting
  <1>5. CASE Abandon(r)
    <2>1. IdleRequest \in Request /\ IdleRequest.pc = "idle"
      BY DEF IdleRequest, Request, Kinds
    <2>2. faults' \in 0..MaxFaults
      BY <1>1, <1>5, FaultCounted DEF Abandon
    <2>3. late' = late \/ (late' = late \cup {req[r].tx} /\ req[r].pc = "call")
      BY <1>5 DEF Abandon
    <2> QED BY <1>5, <2>1, <2>2, <2>3, RequestGoes DEF Abandon, Ends
  <1> QED BY <1>2, <1>3, <1>4, <1>5

\* A webhook arrives, is worked on, answered or sent again.
LEMMA HookGoes ==
    ASSUME LedgerSound, hook' \in [Hooks -> Hook],
           \A h \in Hooks : hook'[h].pc # "idle" => hook'[h].of \in Deposits /\ owed[hook'[h].of] # "none",
           owed' \in [Deposits -> {"none", "owed", "sent", "answered"}],
           \A d \in Deposits : owed'[d] = "none" <=> owed[d] = "none",
           UNCHANGED <<balance, row, lastRow, req, bank, moved, late>>,
           faults' \in 0..MaxFaults
    PROVE  LedgerSound'
  <1> USE DEF LedgerSound, InBooks
  <1>1. TypeOK'
    BY DEF TypeOK
  <1>2. RowsInOrder' /\ OwnRows' /\ LateRows' /\ MovedAsSent'
    BY DEF RowsInOrder, OwnRows, Acting, LateRows, MovedAsSent, Debited, SentFor
  <1>3. PaidIn'
    BY DEF PaidIn, CreditRows
  <1>4. BooksBalance' /\ DriftExplained'
    BY <1>1, NothingBooked
  <1> QED BY <1>1, <1>2, <1>3, <1>4

LEMMA HookSteps ==
    ASSUME LedgerSound,
           \/ \E h \in Hooks : \/ \E d \in Deposits : Deliver(h, d)
                               \/ ReadCredited(h) \/ CreditFails(h) \/ HookDies(h)
           \/ \E d \in Deposits : Repeat(d)
    PROVE  LedgerSound'
  <1>1. /\ TypeOK /\ hook \in [Hooks -> Hook] /\ balance \in Int /\ faults \in 0..MaxFaults
        /\ owed \in [Deposits -> {"none", "owed", "sent", "answered"}]
    BY DEF LedgerSound, InBooks, TypeOK
  <1>2. \A h \in Hooks : hook[h].pc # "idle" => hook[h].of \in Deposits /\ owed[hook[h].of] # "none"
    BY DEF LedgerSound, InBooks, PaidIn
  <1>3. ASSUME NEW h \in Hooks, NEW d \in Deposits, Deliver(h, d)
        PROVE  LedgerSound'
    <2>1. hook' \in [Hooks -> Hook]
      BY <1>1, <1>3 DEF Deliver, Hook
    <2>2. \A k \in Hooks : hook'[k].pc # "idle" => hook'[k].of \in Deposits /\ owed[hook'[k].of] # "none"
      BY <1>1, <1>2, <1>3 DEF Deliver, Hook
    <2> QED BY <1>1, <1>3, <2>1, <2>2, HookGoes DEF Deliver
  <1>4. ASSUME NEW h \in Hooks, ReadCredited(h)
        PROVE  LedgerSound'
    <2>1. hook' \in [Hooks -> Hook]
      BY <1>1, <1>4 DEF ReadCredited, Hook
    <2>2. \A k \in Hooks : hook'[k].pc # "idle" => hook'[k].of \in Deposits /\ owed[hook'[k].of] # "none"
      BY <1>1, <1>2, <1>4 DEF ReadCredited, Hook
    <2> QED BY <1>1, <1>4, <2>1, <2>2, HookGoes DEF ReadCredited, provider
  <1>5. ASSUME NEW h \in Hooks, CreditFails(h) \/ HookDies(h)
        PROVE  LedgerSound'
    <2>1. IdleHook \in Hook /\ IdleHook.pc = "idle"
      BY DEF IdleHook, Hook
    <2>2. hook' = [hook EXCEPT ![h] = IdleHook]
      BY <1>5 DEF CreditFails, HookDies, HookEnds
    <2>3. hook' \in [Hooks -> Hook]
      BY <1>1, <2>1, <2>2
    <2>4. \A k \in Hooks : hook'[k].pc # "idle" => hook'[k].of \in Deposits /\ owed[hook'[k].of] # "none"
      BY <1>1, <1>2, <2>1, <2>2
    <2>5. /\ owed' \in [Deposits -> {"none", "owed", "sent", "answered"}]
          /\ \A d \in Deposits : owed'[d] = "none" <=> owed[d] = "none"
      BY <1>1, <1>5 DEF CreditFails, HookDies, Answers, provider
    <2>6. faults' \in 0..MaxFaults
      BY <1>1, <1>5, FaultCounted DEF CreditFails, HookDies
    <2>7. UNCHANGED <<balance, row, lastRow, req, bank, moved, late>>
      BY <1>5 DEF CreditFails, HookDies, provider
    <2> QED BY <2>3, <2>4, <2>5, <2>6, <2>7, HookGoes
  <1>6. ASSUME NEW d \in Deposits, Repeat(d)
        PROVE  LedgerSound'
    <2>1. /\ owed' \in [Deposits -> {"none", "owed", "sent", "answered"}]
          /\ \A e \in Deposits : owed'[e] = "none" <=> owed[e] = "none"
      BY <1>1, <1>6 DEF Repeat
    <2>2. faults' \in 0..MaxFaults
      BY <1>1, <1>6, FaultCounted DEF Repeat
    <2> QED BY <1>1, <1>2, <1>6, <2>1, <2>2, HookGoes DEF Repeat
  <1> QED BY <1>3, <1>4, <1>5, <1>6

LEMMA InsertSound ==
    ASSUME LedgerSound, NEW r \in Requests, Insert(r)
    PROVE  LedgerSound'
  <1> USE DEF LedgerSound, InBooks
  <1> PICK new, made : /\ new = lastRow + 1
                       /\ made = [NoRow EXCEPT !.kind = req[r].kind, !.status = "pending",
                                               !.amount = req[r].naira * 100]
    OBVIOUS
  <1>1. /\ lastRow \in Nat /\ lastRow < MaxRows /\ lastRow' = new /\ new \in Txs /\ new \in Nat
        /\ new > lastRow /\ 1..lastRow \subseteq Txs /\ MaxRows \in Nat /\ new \notin 1..lastRow
    BY LedgerAssumption DEF Insert, TypeOK, Txs
  <1>2. /\ req \in [Requests -> Request] /\ row \in [Txs -> Row] /\ req[r] \in Request
        /\ row[new] = NoRow /\ moved[new] = None
    BY <1>1 DEF TypeOK, RowsInOrder
  <1>3. req[r].naira \in Nat /\ req[r].kind \in Kinds
    BY <1>2, LedgerAssumption DEF Request
  <1>4. /\ made \in Row /\ made.kind = req[r].kind /\ made.status = "pending"
        /\ made.amount = req[r].naira * 100
    <2>1. NoRow \in Row
      BY DEF NoRow, Row, Kinds
    <2>2. req[r].naira * 100 \in Nat
      BY <1>3
    <2> QED BY <1>3, <2>1, <2>2 DEF Row
  <1>5. row' = [row EXCEPT ![new] = made] /\ row' \in [Txs -> Row]
    BY <1>1, <1>2, <1>4 DEF Insert
  <1>6. row'[new] = made /\ \A t \in Txs : t # new => row'[t] = row[t]
    BY <1>1, <1>2, <1>5
  <1> PICK q : q = [req[r] EXCEPT !.pc = "call", !.tx = new]
    OBVIOUS
  <1>7. q \in Request /\ q.pc = "call" /\ q.tx = new
    BY <1>1, <1>2 DEF Request
  <1>8. /\ req' = [req EXCEPT ![r] = q] /\ req' \in [Requests -> Request] /\ req'[r] = q
        /\ \A p \in Requests : p # r => req'[p] = req[p]
    BY <1>1, <1>2, <1>7 DEF Insert
  <1>9. UNCHANGED <<balance, hook, bank, moved, late, owed, faults>>
    BY DEF Insert, provider
  <1>10. late \subseteq 1..new /\ 0..new \subseteq 0..MaxRows /\ new \notin late
    BY <1>1 DEF TypeOK
  <1>11. TypeOK'
    <2>1. lastRow' \in 0..MaxRows
      BY <1>1
    <2> QED BY <1>1, <1>5, <1>8, <1>9, <1>10, <2>1 DEF TypeOK
  <1>12. RowsInOrder'
    <2> SUFFICES ASSUME NEW t \in Txs, t > new PROVE row'[t] = NoRow /\ moved[t] = None
      BY <1>1, <1>9 DEF RowsInOrder
    <2>1. t > lastRow /\ t # new
      BY <1>1, TxsFinite
    <2> QED BY <1>6, <2>1 DEF RowsInOrder
  <1>13. OwnRows'
    <2>1. \A p \in Requests : p # r => (Acting(p)' <=> Acting(p)) /\ req'[p] = req[p]
      BY <1>8 DEF Acting
    <2>2. \A p \in Requests : Acting(p) => req[p].tx \in 1..lastRow /\ req[p].tx \in 1..new
                                           /\ req[p].tx \in Txs /\ req[p].tx # new
      BY <1>1 DEF OwnRows
    <2>3. ASSUME NEW p \in Requests, Acting(p)'
          PROVE  /\ req'[p].tx \in 1..lastRow'
                 /\ row'[req'[p].tx].kind \in Kinds /\ row'[req'[p].tx].status = "pending"
                 /\ req'[p].pc = "call" => moved'[req'[p].tx] = None /\ req'[p].tx \notin late'
                 /\ req'[p].pc \in {"read", "commit"} => moved'[req'[p].tx] # None /\ req'[p].tx \notin late'
      <3>1. CASE p = r
        <4>1. req'[p].tx = new /\ req'[p].pc = "call" /\ new \in 1..new
          BY <1>1, <1>7, <1>8, <3>1
        <4> QED BY <1>1, <1>2, <1>3, <1>4, <1>6, <1>9, <1>10, <4>1
      <3>2. CASE p # r
        BY <1>1, <1>6, <1>9, <2>1, <2>2, <2>3, <3>2 DEF OwnRows
      <3> QED BY <3>1, <3>2
    <2>4. ASSUME NEW p \in Requests, NEW o \in Requests, Acting(p)', Acting(o)', req'[p].tx = req'[o].tx
          PROVE  p = o
      BY <1>7, <1>8, <2>1, <2>2, <2>4 DEF OwnRows
    <2> QED BY <2>3, <2>4 DEF OwnRows
  <1>14. LateRows'
    <2>1. \A t \in late : t \in Txs /\ t # new
      BY <1>1, <1>10 DEF TypeOK
    <2> QED BY <1>6, <1>9, <2>1 DEF LateRows
  <1>15. CreditRows' = CreditRows /\ new \notin CreditRows /\ Debited' = Debited /\ new \notin Debited
    <2>1. row[new].kind = "transfer" /\ row[new].status = "none"
      BY <1>2 DEF NoRow
    <2>2. row'[new].kind # "credit" /\ row'[new].status = "pending"
      BY <1>3, <1>4, <1>6 DEF Kinds
    <2>3. CreditRows' = CreditRows /\ new \notin CreditRows
      BY <1>6, <2>1, <2>2 DEF CreditRows
    <2>4. Debited' = Debited /\ new \notin Debited
      BY <1>6, <2>1, <2>2 DEF Debited
    <2> QED BY <2>3, <2>4
  <1>16. \A t \in CreditRows : t \in Txs /\ t # new /\ row'[t] = row[t]
    BY <1>6, <1>15 DEF CreditRows
  <1>17. PaidIn'
    BY <1>9, <1>15, <1>16 DEF PaidIn
  <1>18. MovedAsSent'
    <2>1. ASSUME NEW t \in Txs, row'[t].kind \in Kinds, moved[t] # None
          PROVE  moved[t] = SentFor(t)'
      BY <1>2, <1>6, <2>1 DEF MovedAsSent, SentFor
    <2>2. ASSUME NEW t \in Txs, row'[t].kind \in Kinds
          PROVE  \E n \in Nat : row'[t].amount = n * 100
      <3>1. CASE t = new
        BY <1>3, <1>4, <1>6, <3>1
      <3>2. CASE t # new
        BY <1>6, <2>2, <3>2 DEF MovedAsSent
      <3> QED BY <3>1, <3>2
    <2> QED BY <1>9, <1>15, <2>1, <2>2 DEF MovedAsSent
  <1>19. BooksBalance' /\ DriftExplained'
    <2>1. \A d \in Deposits : Credits(d)' = Credits(d)
      BY <1>15, <1>16 DEF Credits
    <2>2. \A t \in CreditRows \cup Debited : row'[t].amount = row[t].amount
      BY <1>6, <1>15 DEF CreditRows, Debited
    <2>3. CreditedSum' = CreditedSum /\ DebitedSum' = DebitedSum
      BY <1>11, <1>15, <2>2, SameBooks
    <2>4. AgainSum' = AgainSum /\ UnbookedSum' = UnbookedSum
      BY <1>9, <2>1, SameCredits
    <2>5. StrandedSum' = StrandedSum /\ ExcessSum' = ExcessSum
      BY <1>9, <1>11, <1>15, <2>2, SameDebits
    <2> QED BY <1>9, <2>3, <2>4, <2>5 DEF BooksBalance, DriftExplained
  <1> QED BY <1>11, <1>12, <1>13, <1>14, <1>17, <1>18, <1>19

\* The provider executes a transfer: the row is not counted yet.
LEMMA ExecuteMoves ==
    ASSUME LedgerSound, TypeOK', NEW t \in 1..lastRow, Execute(t), moved[t] = None,
           row[t].kind \in Kinds, row[t].status # "successful",
           UNCHANGED <<balance, row, lastRow, owed>>
    PROVE  /\ bank' \in Nat /\ moved' \in [Txs -> Nat \cup {None}]
           /\ moved'[t] # None /\ (\A u \in Txs : u # t => moved'[u] = moved[u])
           /\ RowsInOrder' /\ MovedAsSent' /\ BooksBalance' /\ DriftExplained'
  <1> USE DEF LedgerSound, InBooks
  <1>1. /\ t \in Txs /\ ~(t > lastRow) /\ moved \in [Txs -> Nat \cup {None}]
        /\ moved' \in [Txs -> Nat \cup {None}]
    BY LedgerAssumption DEF TypeOK, Txs
  <1> PICK n : n = SentFor(t)
    OBVIOUS
  <1>2. moved' = [moved EXCEPT ![t] = n] /\ bank' = bank - n - Charges
    BY DEF Execute
  <1>3. moved'[t] = n /\ \A u \in Txs : u # t => moved'[u] = moved[u]
    BY <1>1, <1>2
  <1>4. n \in Nat /\ n # None
    <2>1. row[t].kind \in Kinds /\ row[t].amount \in Nat
      BY <1>1 DEF TypeOK, Row
    <2>2. row[t].amount \div 100 \in Nat /\ (row[t].amount \div 100) * 100 \in Nat
      BY <2>1
    <2> QED BY <2>2, LedgerAssumption DEF SentFor, Sent
  <1>5. SentFor(t)' = n /\ \A u \in Txs : SentFor(u)' = SentFor(u)
    BY DEF SentFor, Sent
  <1>6. RowsInOrder'
    BY <1>1, <1>3 DEF RowsInOrder
  <1>7. MovedAsSent'
    <2>1. \A u \in Debited' : u \in Txs /\ u \in Debited
      BY DEF Debited
    <2> QED BY <1>3, <1>4, <1>5, <2>1 DEF MovedAsSent
  <1>8. /\ CreditRows' = CreditRows /\ Debited' = Debited /\ t \notin Debited
        /\ \A d \in Deposits : Credits(d)' = Credits(d)
    BY DEF CreditRows, Debited, Credits
  <1>9. /\ CreditedSum' = CreditedSum /\ DebitedSum' = DebitedSum
        /\ AgainSum' = AgainSum /\ UnbookedSum' = UnbookedSum
    BY <1>8, SameBooks, SameCredits
  <1>10. StrandedSum' = StrandedSum + n + Charges
    <2>1. Stranded' = Stranded \cup {t} /\ t \notin Stranded
      BY <1>1, <1>3, <1>4, <1>8 DEF Stranded
    <2>2. OutOf \in [Txs -> Int]
      BY WeightsTyped DEF Weights
    <2>3. OutOf' \in [Txs -> Int]
      BY WeightsTypedNext DEF Weights
    <2>4. OutOf'[t] = n + Charges /\ \A u \in Stranded : OutOf'[u] = OutOf[u]
      BY <1>1, <1>3, <1>4, <2>1 DEF OutOf, Moved, Stranded
    <2>5. Stranded \in SUBSET Txs /\ IsFiniteSet(Stranded)
      BY SetsFinite DEF Finite
    <2>6. SumFunctionOnSet(OutOf', Stranded) = SumFunctionOnSet(OutOf, Stranded)
      BY <2>2, <2>3, <2>4, <2>5, SumSame
    <2>7. SumFunctionOnSet(OutOf', Stranded \cup {t}) = SumFunctionOnSet(OutOf', Stranded) + OutOf'[t]
      <3>1. t \in Txs /\ t \notin Stranded
        BY <1>1, <2>1
      <3> QED BY <2>3, <2>5, <3>1, SumAdds
    <2>8. StrandedSum' = StrandedSum + (n + Charges)
      BY <2>1, <2>4, <2>6, <2>7, SumsOf, SumsOfNext DEF SumsAre
    <2> QED BY <1>4, <2>8, SumsTyped, LedgerAssumption DEF SumsInt
  <1>11. ExcessSum' = ExcessSum
    <2>1. ExcessOf \in [Txs -> Int]
      BY WeightsTyped DEF Weights
    <2>2. ExcessOf' \in [Txs -> Int]
      BY WeightsTypedNext DEF Weights
    <2>3. Debited \in SUBSET Txs /\ IsFiniteSet(Debited)
      BY SetsFinite DEF Finite
    <2>4. \A u \in Debited : ExcessOf'[u] = ExcessOf[u]
      BY <1>3, <1>8, <2>3 DEF ExcessOf, Moved
    <2>5. SumFunctionOnSet(ExcessOf', Debited) = SumFunctionOnSet(ExcessOf, Debited)
      BY <2>1, <2>2, <2>3, <2>4, SumSame
    <2> QED BY <1>8, <2>5, SumsOf, SumsOfNext DEF SumsAre
  <1>12. /\ balance \in Int /\ bank \in Int /\ Charges \in Int /\ n \in Int /\ StrandedSum \in Int
         /\ UnbookedSum \in Int /\ AgainSum \in Int /\ ExcessSum \in Int
    BY <1>4, SumsTyped, LedgerAssumption DEF TypeOK, SumsInt
  <1>13. BooksBalance'
    BY <1>9 DEF BooksBalance
  <1>14. DriftExplained'
    <2>1. balance - bank = StrandedSum - UnbookedSum + AgainSum - ExcessSum
      BY DEF DriftExplained
    <2>2. balance - (bank - n - Charges) = (StrandedSum + n + Charges) - UnbookedSum + AgainSum - ExcessSum
      BY ONLY <1>12, <2>1
    <2> QED BY <1>2, <1>9, <1>10, <1>11, <2>2 DEF DriftExplained
  <1>15. bank' \in Nat
    BY DEF TypeOK
  <1> QED BY <1>1, <1>3, <1>4, <1>6, <1>7, <1>13, <1>14, <1>15

LEMMA ExecutesSound ==
    ASSUME LedgerSound,
           (\E r \in Requests : Executed(r)) \/ (\E t \in Txs : ExecutesLate(t))
    PROVE  LedgerSound'
  <1> USE DEF LedgerSound, InBooks
  <1>1. /\ req \in [Requests -> Request] /\ bank \in Nat /\ moved \in [Txs -> Nat \cup {None}]
        /\ late \subseteq 1..lastRow /\ 1..lastRow \subseteq Txs
    BY LedgerAssumption DEF TypeOK, Txs
  <1>2. ASSUME NEW t \in 1..lastRow, row[t].kind \in Kinds, Execute(t)
        PROVE  bank' \in Nat /\ moved' \in [Txs -> Nat \cup {None}]
    <2>1. row[t].amount \in Nat /\ t \in Txs
      BY <1>1 DEF TypeOK, Row
    <2>2. row[t].amount \div 100 \in Nat /\ (row[t].amount \div 100) * 100 \in Nat
      BY <2>1
    <2>3. SentFor(t) \in Nat /\ Charges \in Nat
      BY <2>2, LedgerAssumption DEF SentFor, Sent
    <2>4. bank >= SentFor(t) + Charges /\ bank' = bank - SentFor(t) - Charges
      BY <1>2 DEF Execute, Covers
    <2>5. bank' \in Nat
      BY <1>1, <2>3, <2>4
    <2> QED BY <1>1, <1>2, <2>1, <2>3, <2>5 DEF Execute
  <1>3. ASSUME NEW r \in Requests, Executed(r)
        PROVE  LedgerSound'
    <2> PICK t : t = req[r].tx
      OBVIOUS
    <2>1. /\ req[r].pc = "call" /\ Execute(t) /\ req' = [req EXCEPT ![r].pc = "read"]
          /\ UNCHANGED <<balance, row, lastRow, hook, late, owed, faults>>
      BY <1>3 DEF Executed, Goto
    <2>2. /\ t \in 1..lastRow /\ moved[t] = None /\ row[t].kind \in Kinds /\ row[t].status = "pending"
          /\ t \notin late /\ Acting(r)
      BY <2>1 DEF OwnRows, Acting
    <2>3. /\ req' \in [Requests -> Request] /\ req'[r].pc = "read" /\ req'[r].tx = t
          /\ \A p \in Requests : p # r => req'[p] = req[p]
      BY <1>1, <2>1 DEF Request
    <2>4. TypeOK'
      BY <1>2, <2>1, <2>2, <2>3 DEF TypeOK
    <2>5. /\ moved'[t] # None /\ (\A u \in Txs : u # t => moved'[u] = moved[u])
          /\ RowsInOrder' /\ MovedAsSent' /\ BooksBalance' /\ DriftExplained'
      BY <2>1, <2>2, <2>4, ExecuteMoves
    <2>6. OwnRows'
      <3>1. \A p \in Requests : p # r /\ Acting(p)' => Acting(p) /\ req[p].tx # t /\ req[p].tx \in Txs
        BY <1>1, <2>2, <2>3 DEF OwnRows, Acting
      <3>2. ASSUME NEW p \in Requests, Acting(p)'
            PROVE  /\ req'[p].tx \in 1..lastRow'
                   /\ row'[req'[p].tx].kind \in Kinds /\ row'[req'[p].tx].status = "pending"
                   /\ req'[p].pc = "call" => moved'[req'[p].tx] = None /\ req'[p].tx \notin late'
                   /\ req'[p].pc \in {"read", "commit"} => moved'[req'[p].tx] # None /\ req'[p].tx \notin late'
        <4>1. CASE p = r
          BY <2>1, <2>2, <2>3, <2>5, <4>1
        <4>2. CASE p # r
          BY <2>1, <2>3, <2>5, <3>1, <3>2, <4>2 DEF OwnRows
        <4> QED BY <4>1, <4>2
      <3>3. ASSUME NEW p \in Requests, NEW o \in Requests, Acting(p)', Acting(o)', req'[p].tx = req'[o].tx
            PROVE  p = o
        BY <2>3, <3>1, <3>3 DEF OwnRows
      <3> QED BY <3>2, <3>3 DEF OwnRows
    <2>7. LateRows'
      <3>1. \A u \in late : u \in Txs /\ u # t
        BY <1>1, <2>2
      <3> QED BY <2>1, <2>5, <3>1 DEF LateRows
    <2>8. PaidIn'
      BY <2>1 DEF PaidIn, CreditRows
    <2> QED BY <2>4, <2>5, <2>6, <2>7, <2>8
  <1>4. ASSUME NEW t \in Txs, ExecutesLate(t)
        PROVE  LedgerSound'
    <2>1. /\ t \in late /\ Execute(t) /\ late' = late \ {t}
          /\ UNCHANGED <<balance, row, lastRow, req, hook, owed, faults>>
      BY <1>4 DEF ExecutesLate
    <2>2. t \in 1..lastRow /\ moved[t] = None /\ row[t].kind \in Kinds /\ row[t].status # "successful"
      BY <1>1, <2>1 DEF LateRows
    <2>3. TypeOK'
      BY <1>1, <1>2, <2>1, <2>2 DEF TypeOK
    <2>4. /\ moved'[t] # None /\ (\A u \in Txs : u # t => moved'[u] = moved[u])
          /\ RowsInOrder' /\ MovedAsSent' /\ BooksBalance' /\ DriftExplained'
      BY <2>1, <2>2, <2>3, ExecuteMoves
    <2>5. OwnRows'
      <3>1. ASSUME NEW p \in Requests, Acting(p), req[p].pc \in {"call", "read", "commit"}
            PROVE  req[p].tx # t /\ req[p].tx \in Txs /\ req[p].tx \notin late
        BY <1>1, <2>1, <3>1 DEF OwnRows
      <3>2. \A p \in Requests : Acting(p)' <=> Acting(p)
        BY <2>1 DEF Acting
      <3> QED BY <2>1, <2>4, <3>1, <3>2 DEF OwnRows
    <2>6. LateRows'
      <3>1. \A u \in late' : u \in late /\ u \in Txs /\ u # t
        BY <1>1, <2>1
      <3> QED BY <2>1, <2>4, <3>1 DEF LateRows
    <2>7. PaidIn'
      BY <2>1 DEF PaidIn, CreditRows
    <2> QED BY <2>3, <2>4, <2>5, <2>6, <2>7
  <1> QED BY <1>3, <1>4

LEMMA FailTxSound ==
    ASSUME LedgerSound, NEW r \in Requests, FailTx(r)
    PROVE  LedgerSound'
  <1> USE DEF LedgerSound, InBooks
  <1> PICK t : t = req[r].tx
    OBVIOUS
  <1>1. /\ req \in [Requests -> Request] /\ row \in [Txs -> Row]
        /\ 1..lastRow \subseteq Txs /\ Txs \subseteq Int
    BY LedgerAssumption DEF TypeOK, Txs
  <1>2. /\ t \in 1..lastRow /\ t \in Txs /\ row[t].kind \in Kinds /\ row[t].status = "pending" /\ Acting(r)
    BY <1>1 DEF FailTx, OwnRows, Acting
  <1>3. /\ row'[t] = [row[t] EXCEPT !.status = "failed"] /\ row' \in [Txs -> Row]
        /\ \A u \in Txs : u # t => row'[u] = row[u]
    BY <1>1, <1>2 DEF FailTx, Row
  <1>4. /\ \A u \in Txs : row'[u].kind = row[u].kind /\ row'[u].amount = row[u].amount /\ row'[u].of = row[u].of
        /\ row'[t].status = "failed"
    BY <1>1, <1>2, <1>3 DEF Row
  <1>5. IdleRequest \in Request /\ IdleRequest.pc = "idle"
    BY DEF IdleRequest, Request, Kinds
  <1>6. /\ req' \in [Requests -> Request] /\ req'[r].pc = "idle"
        /\ \A p \in Requests : p # r => req'[p] = req[p]
    BY <1>1, <1>5 DEF FailTx, Ends
  <1>7. UNCHANGED <<balance, lastRow, hook, bank, moved, late, owed, faults>>
    BY DEF FailTx, provider
  <1>8. TypeOK'
    BY <1>3, <1>6, <1>7 DEF TypeOK
  <1>9. RowsInOrder'
    <2> SUFFICES ASSUME NEW u \in Txs, u > lastRow PROVE row'[u] = NoRow /\ moved[u] = None
      BY <1>7 DEF RowsInOrder
    <2>1. u # t
      <3>1. lastRow \in Int /\ u \in Int /\ t \in Int /\ t <= lastRow
        BY <1>1, <1>2 DEF TypeOK
      <3> QED BY <3>1
    <2> QED BY <1>3, <2>1 DEF RowsInOrder
  <1>10. OwnRows'
    <2>1. \A p \in Requests : Acting(p)' => p # r /\ Acting(p) /\ req'[p] = req[p]
                                            /\ req[p].tx # t /\ req[p].tx \in Txs
      BY <1>1, <1>2, <1>6 DEF OwnRows, Acting
    <2> QED BY <1>3, <1>7, <2>1 DEF OwnRows
  <1>11. LateRows'
    <2>1. ASSUME NEW u \in late
          PROVE  moved'[u] = None /\ row'[u].kind \in Kinds /\ row'[u].status # "successful"
      <3>1. u \in Txs
        BY <1>1 DEF TypeOK
      <3> QED BY <1>3, <1>4, <1>7, <3>1 DEF LateRows
    <2> QED BY <1>7, <2>1 DEF LateRows
  <1>12. CreditRows' = CreditRows /\ \A d \in Deposits : Credits(d)' = Credits(d)
    <2>1. CreditRows' = CreditRows
      BY <1>4 DEF CreditRows
    <2> QED BY <1>4, <2>1 DEF CreditRows, Credits
  <1>13. Debited' = Debited
    BY <1>2, <1>3, <1>4 DEF Debited
  <1>14. PaidIn'
    BY <1>4, <1>7, <1>12 DEF PaidIn, CreditRows
  <1>15. MovedAsSent'
    BY <1>4, <1>7, <1>13 DEF MovedAsSent, SentFor
  <1>16. \A u \in CreditRows \cup Debited : row'[u].amount = row[u].amount
    BY <1>4 DEF CreditRows, Debited
  <1>17. BooksBalance' /\ DriftExplained'
    <2>1. /\ CreditedSum' = CreditedSum /\ DebitedSum' = DebitedSum
      BY <1>8, <1>12, <1>13, <1>16, SameBooks
    <2>2. AgainSum' = AgainSum /\ UnbookedSum' = UnbookedSum
      BY <1>7, <1>12, SameCredits
    <2>3. StrandedSum' = StrandedSum /\ ExcessSum' = ExcessSum
      BY <1>7, <1>8, <1>13, <1>16, SameDebits
    <2> QED BY <1>7, <2>1, <2>2, <2>3 DEF BooksBalance, DriftExplained
  <1> QED BY <1>8, <1>9, <1>10, <1>11, <1>14, <1>15, <1>17

LEMMA CompleteDebitSound ==
    ASSUME LedgerSound, NEW r \in Requests, CompleteDebit(r)
    PROVE  LedgerSound'
  <1> USE DEF LedgerSound, InBooks
  <1> PICK t, a : t = req[r].tx /\ a = row[t].amount
    OBVIOUS
  <1>1. /\ req \in [Requests -> Request] /\ row \in [Txs -> Row]
        /\ 1..lastRow \subseteq Txs /\ Txs \subseteq Int
    BY LedgerAssumption DEF TypeOK, Txs
  <1>2. /\ t \in 1..lastRow /\ t \in Txs /\ row[t].kind \in Kinds /\ row[t].status = "pending" /\ Acting(r)
        /\ moved[t] # None /\ t \notin late
    BY <1>1 DEF CompleteDebit, OwnRows, Acting
  <1>3. TotalDebit(t) = a + Charges /\ a \in Nat /\ Charges \in Nat
    BY <1>1, <1>2, LedgerAssumption DEF TotalDebit, Row
  <1>4. req[r].snap - TotalDebit(t) \in Int
    <2>1. req[r].snap \in Int
      BY <1>1 DEF Request
    <2> QED BY <1>3, <2>1
  <1> PICK made : made = [row[t] EXCEPT !.status = "successful", !.after = req[r].snap - TotalDebit(t)]
    OBVIOUS
  <1>5. /\ row' = [row EXCEPT ![t] = made] /\ row'[t] = made
        /\ \A u \in Txs : u # t => row'[u] = row[u]
    BY <1>1, <1>2 DEF CompleteDebit
  <1>made. /\ made \in Row /\ made.status = "successful" /\ made.kind = row[t].kind
           /\ made.amount = a /\ made.of = row[t].of
    <2>1. row[t] \in Row
      BY <1>1, <1>2
    <2> QED BY <1>4, <2>1 DEF Row
  <1>6. row' \in [Txs -> Row]
    BY <1>1, <1>5, <1>made
  <1>7. /\ \A u \in Txs : row'[u].kind = row[u].kind /\ row'[u].amount = row[u].amount /\ row'[u].of = row[u].of
        /\ row'[t].status = "successful"
    <2> SUFFICES ASSUME NEW u \in Txs
                 PROVE  row'[u].kind = row[u].kind /\ row'[u].amount = row[u].amount /\ row'[u].of = row[u].of
      BY <1>5, <1>made
    <2> QED BY <1>5, <1>made
  <1>8. IdleRequest \in Request /\ IdleRequest.pc = "idle"
    BY DEF IdleRequest, Request, Kinds
  <1>9. /\ req' \in [Requests -> Request] /\ req'[r].pc = "idle"
        /\ \A p \in Requests : p # r => req'[p] = req[p]
    BY <1>1, <1>8 DEF CompleteDebit, Ends
  <1>10. /\ UNCHANGED <<lastRow, hook, bank, moved, late, owed, faults>>
         /\ balance' = balance - (a + Charges)
    BY <1>3 DEF CompleteDebit, Debits, provider
  <1>11. TypeOK'
    <2>1. balance' \in Int
      BY <1>3, <1>10 DEF TypeOK
    <2> QED BY <1>6, <1>9, <1>10, <2>1 DEF TypeOK
  <1>12. RowsInOrder'
    <2> SUFFICES ASSUME NEW u \in Txs, u > lastRow PROVE row'[u] = NoRow /\ moved[u] = None
      BY <1>10 DEF RowsInOrder
    <2>1. u # t
      <3>1. lastRow \in Int /\ u \in Int /\ t \in Int /\ t <= lastRow
        BY <1>1, <1>2 DEF TypeOK
      <3> QED BY <3>1
    <2> QED BY <1>5, <2>1 DEF RowsInOrder
  <1>13. OwnRows'
    <2>1. \A p \in Requests : Acting(p)' => p # r /\ Acting(p) /\ req'[p] = req[p]
                                            /\ req[p].tx # t /\ req[p].tx \in Txs
      BY <1>1, <1>2, <1>9 DEF OwnRows, Acting
    <2> QED BY <1>5, <1>10, <2>1 DEF OwnRows
  <1>14. LateRows'
    <2>1. ASSUME NEW u \in late
          PROVE  moved'[u] = None /\ row'[u].kind \in Kinds /\ row'[u].status # "successful"
      <3>1. u \in Txs /\ u # t
        BY <1>1, <1>2 DEF TypeOK
      <3> QED BY <1>5, <1>7, <1>10, <3>1 DEF LateRows
    <2> QED BY <1>10, <2>1 DEF LateRows
  <1>15. CreditRows' = CreditRows /\ \A d \in Deposits : Credits(d)' = Credits(d)
    <2>1. CreditRows' = CreditRows
      BY <1>7 DEF CreditRows
    <2> QED BY <1>7, <2>1 DEF CreditRows, Credits
  <1>16. Debited' = Debited \cup {t} /\ t \notin Debited
    <2>1. t \notin Debited
      BY <1>2 DEF Debited
    <2>2. t \in Debited'
      BY <1>2, <1>7 DEF Debited
    <2>3. \A u : u # t => (u \in Debited' <=> u \in Debited)
      BY <1>5 DEF Debited
    <2> QED BY <2>1, <2>2, <2>3
  <1>17. PaidIn'
    BY <1>7, <1>10, <1>15 DEF PaidIn, CreditRows
  <1>18. MovedAsSent'
    BY <1>2, <1>7, <1>10, <1>16 DEF MovedAsSent, SentFor
  <1> PICK n : n = moved[t]
    OBVIOUS
  <1>19. n \in Nat /\ Moved(t) = n
    BY <1>2 DEF TypeOK, Moved
  <1>20. /\ AmountOf' = AmountOf /\ DebitOf' = DebitOf /\ OutOf' = OutOf /\ ExcessOf' = ExcessOf
    BY <1>7, <1>10 DEF AmountOf, DebitOf, TotalDebit, OutOf, ExcessOf, Moved
  <1>21. CreditedSum' = CreditedSum
    BY <1>15, <1>20, SumsOf, SumsOfNext DEF SumsAre
  <1>22. AgainSum' = AgainSum /\ UnbookedSum' = UnbookedSum
    BY <1>10, <1>15, SameCredits
  <1>23. /\ DebitOf \in [Txs -> Int] /\ OutOf \in [Txs -> Int] /\ ExcessOf \in [Txs -> Int]
    BY WeightsTyped DEF Weights
  <1>24. /\ Debited \in SUBSET Txs /\ IsFiniteSet(Debited)
         /\ Stranded \in SUBSET Txs /\ IsFiniteSet(Stranded)
    BY SetsFinite DEF Finite
  <1>25. DebitedSum' = DebitedSum + (a + Charges)
    <2>1. DebitOf[t] = a + Charges
      BY <1>2, <1>3 DEF DebitOf
    <2>2. SumFunctionOnSet(DebitOf, Debited \cup {t}) = SumFunctionOnSet(DebitOf, Debited) + DebitOf[t]
      <3>1. t \in Txs /\ t \notin Debited
        BY <1>2, <1>16
      <3> QED BY <1>23, <1>24, <3>1, SumAdds
    <2> QED BY <1>16, <1>20, <2>1, <2>2, SumsOf, SumsOfNext DEF SumsAre
  <1>26. ExcessSum' = ExcessSum + (a - n)
    <2>1. ExcessOf[t] = a - n
      BY <1>2, <1>19 DEF ExcessOf
    <2>2. SumFunctionOnSet(ExcessOf, Debited \cup {t}) = SumFunctionOnSet(ExcessOf, Debited) + ExcessOf[t]
      <3>1. t \in Txs /\ t \notin Debited
        BY <1>2, <1>16
      <3> QED BY <1>23, <1>24, <3>1, SumAdds
    <2> QED BY <1>16, <1>20, <2>1, <2>2, SumsOf, SumsOfNext DEF SumsAre
  <1>27. StrandedSum = (n + Charges) + StrandedSum'
    <2>1. t \in Stranded /\ Stranded' = Stranded \ {t}
      BY <1>2, <1>10, <1>16 DEF Stranded
    <2>2. OutOf[t] = n + Charges
      BY <1>2, <1>19 DEF OutOf
    <2>3. SumFunctionOnSet(OutOf, Stranded) = OutOf[t] + SumFunctionOnSet(OutOf, Stranded \ {t})
      BY <1>23, <1>24, <2>1, SumTakes
    <2> QED BY <1>20, <2>1, <2>2, <2>3, SumsOf, SumsOfNext DEF SumsAre
  <1> PICK S, S1 : S = StrandedSum /\ S1 = StrandedSum'
    OBVIOUS
  <1>28. /\ balance \in Int /\ bank \in Int /\ Charges \in Int /\ n \in Int /\ a \in Int /\ S \in Int
         /\ UnbookedSum \in Int /\ AgainSum \in Int /\ ExcessSum \in Int
         /\ CreditedSum \in Int /\ DebitedSum \in Int /\ Opening \in Int
    BY <1>3, <1>19, SumsTyped, LedgerAssumption DEF TypeOK, SumsInt
  <1>29. S1 \in Int
    BY <1>11, SumsTypedNext DEF SumsInt
  <1>30. BooksBalance'
    <2>1. balance = Opening + CreditedSum - DebitedSum
      BY DEF BooksBalance
    <2>2. balance - (a + Charges) = Opening + CreditedSum - (DebitedSum + (a + Charges))
      BY ONLY <1>28, <2>1
    <2> QED BY <1>10, <1>21, <1>25, <2>2 DEF BooksBalance
  <1>31. DriftExplained'
    <2>1. balance - bank = S - UnbookedSum + AgainSum - ExcessSum
      BY DEF DriftExplained
    <2>2. S = (n + Charges) + S1
      BY <1>27
    <2>3. balance - (a + Charges) - bank = S1 - UnbookedSum + AgainSum - (ExcessSum + (a - n))
      BY ONLY <1>28, <1>29, <2>1, <2>2
    <2> QED BY <1>10, <1>22, <1>26, <2>3 DEF DriftExplained
  <1> QED BY <1>11, <1>12, <1>13, <1>14, <1>17, <1>18, <1>30, <1>31

\* A deposit is paid in: it has no row yet.
LEMMA PayInSound ==
    ASSUME LedgerSound, NEW d \in Deposits, PayIn(d)
    PROVE  LedgerSound'
  <1> USE DEF LedgerSound, InBooks
  <1> PICK n : n = DepositAmount[d]
    OBVIOUS
  <1>1. /\ n \in Nat /\ owed[d] = "none" /\ bank' = bank + n /\ owed' = [owed EXCEPT ![d] = "owed"]
        /\ UNCHANGED <<balance, row, lastRow, req, hook, moved, late, faults>>
    BY LedgerAssumption DEF PayIn
  <1>2. /\ owed' \in [Deposits -> {"none", "owed", "sent", "answered"}] /\ owed'[d] = "owed"
        /\ \A e \in Deposits : e # d => owed'[e] = owed[e]
    BY <1>1 DEF TypeOK
  <1>3. TypeOK'
    <2>1. bank' \in Nat
      BY <1>1 DEF TypeOK
    <2> QED BY <1>1, <1>2, <2>1 DEF TypeOK
  <1>4. RowsInOrder' /\ OwnRows' /\ LateRows' /\ MovedAsSent'
    BY <1>1 DEF RowsInOrder, OwnRows, Acting, LateRows, MovedAsSent, Debited, SentFor
  <1>5. PaidIn'
    BY <1>1, <1>2 DEF PaidIn, CreditRows
  <1>6. CreditRows' = CreditRows /\ Debited' = Debited /\ \A e \in Deposits : Credits(e)' = Credits(e)
    BY <1>1 DEF CreditRows, Debited, Credits
  <1>7. CreditedSum' = CreditedSum /\ DebitedSum' = DebitedSum /\ StrandedSum' = StrandedSum /\ ExcessSum' = ExcessSum
    BY <1>1, <1>3, <1>6, SameBooks, SameDebits
  <1>8. AgainSum' = AgainSum
    <2>1. AgainOf' = AgainOf
      BY <1>6 DEF AgainOf, Again
    <2> QED BY <2>1, SumsOf, SumsOfNext DEF SumsAre
  <1>9. UnbookedSum' = UnbookedSum + n
    <2>1. Credits(d) = {}
      BY <1>1 DEF PaidIn, Credits
    <2>2. Unbooked' = Unbooked \cup {d} /\ d \notin Unbooked
      BY <1>1, <1>2, <1>6, <2>1 DEF Unbooked
    <2>3. SumFunctionOnSet(DepositAmount, Unbooked \cup {d}) = SumFunctionOnSet(DepositAmount, Unbooked) + n
      BY <2>2, WeightsTyped, SetsFinite, SumAdds DEF Weights, Finite
    <2> QED BY <2>2, <2>3 DEF UnbookedSum
  <1>10. /\ balance \in Int /\ bank \in Int /\ n \in Int /\ StrandedSum \in Int
         /\ UnbookedSum \in Int /\ AgainSum \in Int /\ ExcessSum \in Int
    BY <1>1, SumsTyped DEF TypeOK, SumsInt
  <1>11. BooksBalance'
    BY <1>1, <1>7 DEF BooksBalance
  <1>12. DriftExplained'
    <2>1. balance - bank = StrandedSum - UnbookedSum + AgainSum - ExcessSum
      BY DEF DriftExplained
    <2>2. balance - (bank + n) = StrandedSum - (UnbookedSum + n) + AgainSum - ExcessSum
      BY ONLY <1>10, <2>1
    <2> QED BY <1>1, <1>7, <1>8, <1>9, <2>2 DEF DriftExplained
  <1> QED BY <1>3, <1>4, <1>5, <1>11, <1>12

LEMMA CreditSound ==
    ASSUME LedgerSound, NEW h \in Hooks, Credit(h)
    PROVE  LedgerSound'
  <1> USE DEF LedgerSound, InBooks
  <1> PICK new, d, n : new = lastRow + 1 /\ d = hook[h].of /\ n = DepositAmount[d]
    OBVIOUS
  <1>1. /\ lastRow \in Nat /\ lastRow < MaxRows /\ lastRow' = new /\ new \in Txs /\ new \in Nat
        /\ new > lastRow /\ 1..lastRow \subseteq Txs /\ MaxRows \in Nat /\ new \notin 1..lastRow
    BY LedgerAssumption DEF Credit, TypeOK, Txs
  <1>2. /\ hook \in [Hooks -> Hook] /\ row \in [Txs -> Row] /\ row[new] = NoRow /\ moved[new] = None
    BY <1>1 DEF TypeOK, RowsInOrder
  <1>3. d \in Deposits /\ owed[d] # "none" /\ n \in Nat
    BY LedgerAssumption DEF Credit, PaidIn
  <1> PICK made : made = [kind |-> "credit", status |-> "successful", amount |-> n,
                          after |-> hook[h].snap + n, of |-> d]
    OBVIOUS
  <1>4. made \in Row /\ made.kind = "credit" /\ made.amount = n /\ made.of = d
    <2>1. hook[h].snap \in Int
      BY <1>2 DEF Hook
    <2>2. hook[h].snap + n \in Int
      BY <1>3, <2>1
    <2> QED BY <1>3, <2>2 DEF Row
  <1>5. /\ row' = [row EXCEPT ![new] = made] /\ balance' = balance + n
        /\ UNCHANGED <<req, bank, moved, late, faults>>
    BY <1>1 DEF Credit
  <1>6. /\ row' \in [Txs -> Row] /\ row'[new] = made
        /\ \A t \in Txs : t # new => row'[t] = row[t]
    BY <1>1, <1>2, <1>4, <1>5
  <1>7. /\ owed' \in [Deposits -> {"none", "owed", "sent", "answered"}]
        /\ \A e \in Deposits : owed'[e] = "none" <=> owed[e] = "none"
    BY DEF Credit, Answers, TypeOK
  <1>8. /\ hook' \in [Hooks -> Hook] /\ hook'[h].pc = "idle"
        /\ \A k \in Hooks : k # h => hook'[k] = hook[k]
    <2>1. IdleHook \in Hook /\ IdleHook.pc = "idle"
      BY DEF IdleHook, Hook
    <2> QED BY <1>2, <2>1 DEF Credit, HookEnds
  <1>9. late \subseteq 1..new /\ new \notin late /\ lastRow' \in 0..MaxRows /\ late \subseteq Txs
    BY <1>1 DEF TypeOK
  <1>10. TypeOK'
    <2>1. balance' \in Int
      BY <1>3, <1>5 DEF TypeOK
    <2> QED BY <1>1, <1>5, <1>6, <1>7, <1>8, <1>9, <2>1 DEF TypeOK
  <1>11. RowsInOrder'
    <2> SUFFICES ASSUME NEW t \in Txs, t > new PROVE row'[t] = NoRow /\ moved[t] = None
      BY <1>1, <1>5 DEF RowsInOrder
    <2>1. t > lastRow /\ t # new
      BY <1>1, TxsFinite
    <2> QED BY <1>6, <2>1 DEF RowsInOrder
  <1>12. OwnRows'
    <2>1. \A p \in Requests : Acting(p) => /\ req[p].tx \in 1..lastRow /\ req[p].tx \in 1..new
                                           /\ row'[req[p].tx] = row[req[p].tx]
      <3> SUFFICES ASSUME NEW p \in Requests, Acting(p)
                   PROVE  /\ req[p].tx \in 1..lastRow /\ req[p].tx \in 1..new
                          /\ row'[req[p].tx] = row[req[p].tx]
        OBVIOUS
      <3>1. req[p].tx \in 1..lastRow
        BY DEF OwnRows
      <3>2. req[p].tx \in 1..new /\ req[p].tx \in Txs /\ req[p].tx # new
        BY <1>1, <3>1
      <3> QED BY <1>6, <3>1, <3>2
    <2>2. \A p \in Requests : Acting(p)' <=> Acting(p)
      BY <1>5 DEF Acting
    <2> QED BY <1>1, <1>5, <2>1, <2>2 DEF OwnRows
  <1>13. LateRows'
    <2>1. \A t \in late : row'[t] = row[t]
      BY <1>6, <1>9
    <2> QED BY <1>5, <2>1 DEF LateRows
  <1>14. row[new].kind = "transfer" /\ row[new].status = "none"
    BY <1>2 DEF NoRow
  <1>15. CreditRows' = CreditRows \cup {new} /\ new \notin CreditRows
    <2>1. new \notin CreditRows /\ new \in CreditRows'
      BY <1>1, <1>4, <1>6, <1>14 DEF CreditRows
    <2>2. \A t : t # new => (t \in CreditRows' <=> t \in CreditRows)
      BY <1>6 DEF CreditRows
    <2> QED BY <2>1, <2>2
  <1>16. Debited' = Debited /\ new \notin Debited
    <2>1. new \notin Debited /\ new \notin Debited'
      BY <1>4, <1>6, <1>14 DEF Debited, Kinds
    <2>2. \A t : t # new => (t \in Debited' <=> t \in Debited)
      BY <1>6 DEF Debited
    <2> QED BY <2>1, <2>2
  <1>17. PaidIn'
    <2>1. \A k \in Hooks : hook'[k].pc # "idle" => hook'[k].of \in Deposits /\ owed'[hook'[k].of] # "none"
      BY <1>7, <1>8 DEF PaidIn
    <2>2. \A t \in CreditRows' : row'[t].of \in Deposits /\ owed'[row'[t].of] # "none"
      <3> SUFFICES ASSUME NEW t \in CreditRows' PROVE row'[t].of \in Deposits /\ owed'[row'[t].of] # "none"
        OBVIOUS
      <3>1. CASE t = new
        BY <1>3, <1>4, <1>6, <1>7, <3>1
      <3>2. CASE t # new
        <4>1. t \in CreditRows /\ row'[t] = row[t]
          BY <1>6, <1>15, <3>2 DEF CreditRows
        <4> QED BY <1>7, <4>1 DEF PaidIn
      <3> QED BY <3>1, <3>2
    <2> QED BY <2>1, <2>2 DEF PaidIn
  <1>18. MovedAsSent'
    <2>1. \A t \in Txs : row'[t].kind \in Kinds => t # new /\ row'[t] = row[t]
      BY <1>4, <1>6 DEF Kinds
    <2>2. \A t \in Debited' : t \in Debited
      BY <1>16
    <2> QED BY <1>5, <2>1, <2>2 DEF MovedAsSent, SentFor
  <1>19. CreditedSum' = CreditedSum + n /\ DebitedSum' = DebitedSum
    <2>1. AmountOf \in [Txs -> Int] /\ DebitOf \in [Txs -> Int]
      BY WeightsTyped DEF Weights
    <2>2. AmountOf' \in [Txs -> Int] /\ DebitOf' \in [Txs -> Int]
      BY <1>10, WeightsTypedNext DEF Weights
    <2>3. /\ CreditRows \in SUBSET Txs /\ IsFiniteSet(CreditRows)
          /\ Debited \in SUBSET Txs /\ IsFiniteSet(Debited)
      BY SetsFinite DEF Finite
    <2>4. AmountOf'[new] = n /\ \A t \in CreditRows : AmountOf'[t] = AmountOf[t]
      BY <1>1, <1>4, <1>6, <1>15, <2>3 DEF AmountOf
    <2>5. \A t \in Debited : DebitOf'[t] = DebitOf[t]
      BY <1>6, <1>16, <2>3 DEF DebitOf, TotalDebit
    <2>6. SumFunctionOnSet(AmountOf', CreditRows) = SumFunctionOnSet(AmountOf, CreditRows)
      <3>1. \A t \in CreditRows : AmountOf'[t] = AmountOf[t]
        BY <2>4
      <3> QED BY ONLY <2>1, <2>2, <2>3, <3>1, SumSame
    <2>7. SumFunctionOnSet(AmountOf', CreditRows \cup {new}) = SumFunctionOnSet(AmountOf', CreditRows) + AmountOf'[new]
      <3>1. new \in Txs /\ new \notin CreditRows
        BY <1>1, <1>15
      <3> QED BY ONLY <2>2, <2>3, <3>1, SumAdds
    <2>8. SumFunctionOnSet(DebitOf', Debited) = SumFunctionOnSet(DebitOf, Debited)
      BY ONLY <2>1, <2>2, <2>3, <2>5, SumSame
    <2> QED BY <1>15, <1>16, <2>4, <2>6, <2>7, <2>8, SumsOf, SumsOfNext DEF SumsAre
  <1>20. StrandedSum' = StrandedSum /\ ExcessSum' = ExcessSum
    <2>1. \A t \in Debited : row'[t].amount = row[t].amount
      BY <1>6, <1>16 DEF Debited
    <2> QED BY <1>5, <1>10, <1>16, <2>1, SameDebits
  <1>21. /\ Credits(d)' = Credits(d) \cup {new} /\ new \notin Credits(d)
         /\ \A e \in Deposits : e # d => Credits(e)' = Credits(e)
    <2>1. \A t : t # new => \A e \in Deposits : t \in Credits(e)' <=> t \in Credits(e)
      BY <1>6, <1>15 DEF Credits, CreditRows
    <2>2. \A e \in Deposits : /\ new \notin Credits(e)
                              /\ new \in Credits(e)' <=> e = d
      BY <1>4, <1>6, <1>15 DEF Credits
    <2> QED BY <1>3, <2>1, <2>2
  <1>22. AgainSum' - UnbookedSum' = AgainSum - UnbookedSum + n
    <2>1. AgainOf \in [Deposits -> Int] /\ DepositAmount \in [Deposits -> Int]
      BY WeightsTyped DEF Weights
    <2>2. AgainOf' \in [Deposits -> Int]
      BY <1>10, WeightsTypedNext DEF Weights
    <2> PICK O : O = Deposits \ {d}
      OBVIOUS
    <2>3. O \in SUBSET Deposits /\ IsFiniteSet(O) /\ IsFiniteSet(Deposits) /\ d \notin O
      BY FS_Subset, LedgerAssumption
    <2>4. \A e \in O : AgainOf'[e] = AgainOf[e]
      BY <1>21 DEF AgainOf, Again
    <2>5. SumFunctionOnSet(AgainOf', O) = SumFunctionOnSet(AgainOf, O)
      BY <2>1, <2>2, <2>3, <2>4, SumSame
    <2>6. /\ AgainSum = AgainOf[d] + SumFunctionOnSet(AgainOf, O)
          /\ AgainSum' = AgainOf'[d] + SumFunctionOnSet(AgainOf', O)
      <3>1. SumFunctionOnSet(AgainOf, Deposits) = AgainOf[d] + SumFunctionOnSet(AgainOf, Deposits \ {d})
        BY <1>3, <2>1, <2>3, SumTakes
      <3>2. SumFunctionOnSet(AgainOf', Deposits) = AgainOf'[d] + SumFunctionOnSet(AgainOf', Deposits \ {d})
        BY <1>3, <2>2, <2>3, SumTakes
      <3> QED BY <3>1, <3>2, SumsOf, SumsOfNext DEF SumsAre
    <2>7. AgainOf[d] = Again(d) /\ AgainOf'[d] = Again(d)'
      BY <1>3 DEF AgainOf
    <2> PICK C, C1 : C = Credits(d) /\ C1 = Credits(d) \cup {new}
      OBVIOUS
    <2>8. /\ IsFiniteSet(C) /\ Cardinality(C) \in Nat
          /\ Cardinality(C1) = Cardinality(C) + 1 /\ C1 # {} /\ C1 = Credits(d)'
      <3>1. C \subseteq Txs /\ new \notin C
        BY <1>21 DEF Credits, CreditRows
      <3> QED BY <1>21, <3>1, TxsFinite, FS_Subset, FS_CardinalityType, FS_AddElement
    <2> PICK m, k : m = Cardinality(C) /\ k = Cardinality(C1)
      OBVIOUS
    <2>9. Again(d)' = (k - 1) * n
      BY <2>8 DEF Again
    <2>10. m \in Nat /\ k = m + 1
      BY <2>8
    <2>11. Unbooked \in SUBSET Deposits /\ IsFiniteSet(Unbooked)
      BY SetsFinite DEF Finite
    <2> PICK U, U1, A, A1, R : /\ U = UnbookedSum /\ U1 = UnbookedSum' /\ A = AgainSum /\ A1 = AgainSum'
                               /\ R = SumFunctionOnSet(AgainOf, O)
      OBVIOUS
    <2>12. U \in Int /\ A \in Int /\ R \in Int /\ n \in Int
      BY <1>3, <2>1, <2>3, SumIsInt, SumsTyped DEF SumsInt
    <2>13. U1 \in Int
      BY <1>10, SumsTypedNext DEF SumsInt
    <2>14. CASE C = {}
      <3>1. d \in Unbooked /\ Unbooked' = Unbooked \ {d}
        BY <1>3, <1>7, <1>21, <2>14 DEF Unbooked
      <3>2. U = n + U1
        <4>1. SumFunctionOnSet(DepositAmount, Unbooked)
                = DepositAmount[d] + SumFunctionOnSet(DepositAmount, Unbooked \ {d})
          BY <2>1, <2>11, <3>1, SumTakes
        <4> QED BY <3>1, <4>1 DEF UnbookedSum
      <3>3. m = 0 /\ Again(d) = 0
        BY <2>14, FS_EmptySet DEF Again
      <3>4. k - 1 = 0 /\ (k - 1) * n = 0
        BY ONLY <2>10, <2>12, <3>3
      <3>5. A = 0 + R /\ A1 = 0 + R
        BY <2>5, <2>6, <2>7, <2>9, <3>3, <3>4
      <3>6. A1 - U1 = A - U + n
        BY ONLY <2>12, <2>13, <3>2, <3>5
      <3> QED BY <3>6
    <2>15. CASE C # {}
      <3>1. Unbooked' = Unbooked
        BY <1>7, <1>21, <2>8, <2>15 DEF Unbooked
      <3>2. U1 = U
        BY <3>1 DEF UnbookedSum
      <3>3. Again(d) = (m - 1) * n
        BY <2>15 DEF Again
      <3>4. (k - 1) * n = (m - 1) * n + n /\ (m - 1) * n \in Int
        BY ONLY <2>10, <2>12
      <3>5. A = (m - 1) * n + R /\ A1 = (k - 1) * n + R
        BY <2>5, <2>6, <2>7, <2>9, <3>3
      <3>6. A1 - U1 = A - U + n
        BY ONLY <2>12, <2>13, <3>2, <3>4, <3>5
      <3> QED BY <3>6
    <2> QED BY <2>14, <2>15
  <1>23. /\ balance \in Int /\ bank \in Int /\ n \in Int /\ StrandedSum \in Int
         /\ UnbookedSum \in Int /\ AgainSum \in Int /\ ExcessSum \in Int
         /\ CreditedSum \in Int /\ DebitedSum \in Int /\ Opening \in Int
    BY <1>3, SumsTyped, LedgerAssumption DEF TypeOK, SumsInt
  <1>24. BooksBalance'
    <2>1. balance = Opening + CreditedSum - DebitedSum
      BY DEF BooksBalance
    <2>2. balance + n = Opening + (CreditedSum + n) - DebitedSum
      BY ONLY <1>23, <2>1
    <2> QED BY <1>5, <1>19, <2>2 DEF BooksBalance
  <1>25. DriftExplained'
    <2> PICK U1, A1 : U1 = UnbookedSum' /\ A1 = AgainSum'
      OBVIOUS
    <2>1. U1 \in Int /\ A1 \in Int
      BY <1>10, SumsTypedNext DEF SumsInt
    <2>2. A1 - U1 = AgainSum - UnbookedSum + n
      BY <1>22
    <2>3. balance - bank = StrandedSum - UnbookedSum + AgainSum - ExcessSum
      BY DEF DriftExplained
    <2>4. (balance + n) - bank = StrandedSum - U1 + A1 - ExcessSum
      BY ONLY <1>23, <2>1, <2>2, <2>3
    <2>5. (balance + n) - bank = StrandedSum - UnbookedSum' + AgainSum' - ExcessSum
      BY <2>4
    <2> QED BY <1>5, <1>20, <2>5 DEF DriftExplained
  <1> QED BY <1>10, <1>11, <1>12, <1>13, <1>17, <1>18, <1>24, <1>25

LEMMA LedgerStep == LedgerSound /\ [Next]_vars => LedgerSound'
  <1> SUFFICES ASSUME LedgerSound, [Next]_vars PROVE LedgerSound'
    OBVIOUS
  <1>1. CASE UNCHANGED vars
    <2>1. InBooks'
      BY <1>1 DEF LedgerSound, InBooks, TypeOK, RowsInOrder, OwnRows, Acting, LateRows, PaidIn, CreditRows,
         Debited, MovedAsSent, SentFor, vars
    <2>2. BooksBalance' /\ DriftExplained'
      BY <1>1, <2>1, NothingBooked DEF InBooks, vars
    <2> QED BY <2>1, <2>2 DEF LedgerSound
  <1>2. ASSUME NEW r \in Requests,
               \/ \E kind \in Kinds, naira \in Naira : Ask(r, kind, naira)
               \/ Insert(r) \/ Refused(r) \/ Executed(r) \/ TimesOut(r)
               \/ FailTx(r) \/ ReadDebited(r) \/ CompleteDebit(r) \/ Abandon(r)
        PROVE  LedgerSound'
    BY <1>2, RequestSteps, InsertSound, ExecutesSound, FailTxSound, CompleteDebitSound
  <1>3. ASSUME NEW h \in Hooks,
               \/ \E d \in Deposits : Deliver(h, d)
               \/ ReadCredited(h) \/ Credit(h) \/ CreditFails(h) \/ HookDies(h)
        PROVE  LedgerSound'
    BY <1>3, HookSteps, CreditSound
  <1>4. ASSUME NEW t \in Txs, ExecutesLate(t)
        PROVE  LedgerSound'
    BY <1>4, ExecutesSound
  <1>5. ASSUME NEW d \in Deposits, PayIn(d) \/ Repeat(d)
        PROVE  LedgerSound'
    BY <1>5, PayInSound, HookSteps
  <1> QED BY <1>1, <1>2, <1>3, <1>4, <1>5 DEF Next

\* Types, whose row a request holds, what the provider may still execute and
\* both balances, for every number of requests, webhooks, deposits and faults.
THEOREM LedgerSoundAlways == Spec => []LedgerSound
  BY LedgerStart, LedgerStep, PTL DEF Spec

\* The balance is the opening balance plus the credit rows minus the successful
\* debit rows and their charges (CompleteDebitTransaction, CreditWalletAtomically).
THEOREM BooksBalanceAlways == Spec => []BooksBalance
  <1>1. LedgerSound => BooksBalance
    BY DEF LedgerSound
  <1> QED BY <1>1, LedgerSoundAlways, PTL

\* What the books and the provider's account differ by is stranded debits,
\* unbooked deposits, repeated webhooks and the excess of what was booked.
THEOREM DriftExplainedAlways == Spec => []DriftExplained
  <1>1. LedgerSound => DriftExplained
    BY DEF LedgerSound
  <1> QED BY <1>1, LedgerSoundAlways, PTL

\* A transfer that the books count as successful moved what they say, and a
\* repayment a hundredth of it, whatever answer was lost or late
\* (TransferForLoanRepayment hands naira to a client that expects kobo).
THEOREM SuccessMovedAlways ==
    Spec => [](\A t \in Debited : IF row[t].kind = "transfer" THEN moved[t] = row[t].amount
                                  ELSE moved[t] * 100 = row[t].amount)
  <1> DEFINE SuccessMoved ==
        \A t \in Debited : IF row[t].kind = "transfer" THEN moved[t] = row[t].amount
                           ELSE moved[t] * 100 = row[t].amount
  <1>1. LedgerSound => SuccessMoved
    <2> SUFFICES ASSUME LedgerSound, NEW t \in Debited
                 PROVE  IF row[t].kind = "transfer" THEN moved[t] = row[t].amount
                        ELSE moved[t] * 100 = row[t].amount
      OBVIOUS
    <2>1. t \in Txs /\ row[t].kind \in Kinds /\ moved[t] # None
      BY DEF Debited, LedgerSound, InBooks, MovedAsSent
    <2>2. moved[t] = SentFor(t)
      BY <2>1 DEF LedgerSound, InBooks, MovedAsSent
    <2>3. PICK n \in Nat : row[t].amount = n * 100
      BY <2>1 DEF LedgerSound, InBooks, MovedAsSent
    <2>4. row[t].amount \div 100 = n
      BY ONLY <2>3, n \in Nat
    <2>5. CASE row[t].kind = "transfer"
      BY <2>2, <2>3, <2>4, <2>5 DEF SentFor, Sent
    <2>6. CASE row[t].kind # "transfer"
      BY <2>2, <2>3, <2>4, <2>6 DEF SentFor, Sent
    <2> QED BY <2>5, <2>6
  <1> QED BY <1>1, LedgerSoundAlways, PTL

-----------------------------------------------------------------------------
(* PinLock: how many wrong PINs there can be *)

AtOnce == Cardinality(Guessers)

\* Pascal's triangle up to row n and column k: S[m][i] is the number of ways to
\* choose i + 1 of m + i.
Pascal(S, n, k) ==
    /\ S \in [0..n -> [0..k -> Nat]]
    /\ \A i \in 0..k : S[0][i] = 0
    /\ \A m \in 0..n : S[m][0] = m
    /\ \A m \in 0..(n - 1), i \in 0..(k - 1) : S[m + 1][i + 1] = S[m][i + 1] + S[m + 1][i]

Triangle(S) == Pascal(S, AtOnce + 1, MaxPinAttempts)

\* Sums along a row.
LEMMA SumUpTo ==
    ASSUME NEW k \in Nat, NEW w \in [0..k -> Int]
    PROVE  /\ SumFunctionOnSet(w, 0..0) = w[0]
           /\ \A j \in 0..k : SumFunctionOnSet(w, 0..j) \in Int
           /\ \A j \in 0..(k - 1) :
                SumFunctionOnSet(w, 0..(j + 1)) = SumFunctionOnSet(w, 0..j) + w[j + 1]
  <1>1. \A j \in 0..k : IsFiniteSet(0..j) /\ 0..j \in SUBSET (0..k)
    BY FS_Interval
  <1>2. \A j \in 0..k : SumFunctionOnSet(w, 0..j) \in Int
    BY <1>1, SumIsInt
  <1>3. SumFunctionOnSet(w, 0..0) = w[0]
    <2>1. {} \in SUBSET (0..k) /\ IsFiniteSet({}) /\ 0 \in 0..k /\ 0 \notin {} /\ w[0] \in Int
      BY FS_EmptySet
    <2>2. SumFunctionOnSet(w, {} \cup {0}) = SumFunctionOnSet(w, {}) + w[0]
      BY <2>1, SumAdds
    <2>3. {} \cup {0} = 0..0 /\ SumFunctionOnSet(w, {}) = 0
      BY SumOfNothing
    <2> QED BY <2>1, <2>2, <2>3
  <1>4. ASSUME NEW j \in 0..(k - 1)
        PROVE  SumFunctionOnSet(w, 0..(j + 1)) = SumFunctionOnSet(w, 0..j) + w[j + 1]
    <2>1. j \in 0..k /\ j + 1 \in 0..k /\ j + 1 \notin 0..j /\ 0..(j + 1) = (0..j) \cup {j + 1}
      OBVIOUS
    <2>2. ASSUME NEW s \in SUBSET (0..k), IsFiniteSet(s), NEW a \in 0..k, a \notin s
          PROVE  SumFunctionOnSet(w, s \cup {a}) = SumFunctionOnSet(w, s) + w[a]
      BY ONLY <2>2, SumAdds, w \in [0..k -> Int]
    <2>3. SumFunctionOnSet(w, (0..j) \cup {j + 1}) = SumFunctionOnSet(w, 0..j) + w[j + 1]
      BY ONLY <1>1, <2>1, <2>2
    <2> QED BY <2>1, <2>3
  <1> QED BY <1>2, <1>3, <1>4

\* A sum that is ahead stays ahead, while its terms are no smaller.
LEMMA SumStaysAhead ==
    ASSUME NEW k \in Nat, NEW v \in [0..k -> Int], NEW w \in [0..k -> Int], NEW d \in Int,
           NEW j \in 0..k, SumFunctionOnSet(v, 0..j) + d <= SumFunctionOnSet(w, 0..j),
           NEW last \in j..k, \A i \in 0..last : i > j => v[i] <= w[i]
    PROVE  SumFunctionOnSet(v, 0..last) + d <= SumFunctionOnSet(w, 0..last)
  <1> DEFINE Ahead(p) == SumFunctionOnSet(v, 0..p) + d <= SumFunctionOnSet(w, 0..p)
  <1> DEFINE Bad == {p \in j..last : ~Ahead(p)}
  <1> SUFFICES ASSUME Bad # {} PROVE FALSE
    OBVIOUS
  <1>1. PICK p \in Bad : \A q \in Bad : p <= q
    <2>1. Bad \in SUBSET Nat
      OBVIOUS
    <2> HIDE DEF Bad
    <2> QED BY <2>1, Least
  <1>2. p \in j..last /\ p \in Nat /\ p # j /\ ~Ahead(p)
    OBVIOUS
  <1> PICK q : q = p - 1
    OBVIOUS
  <1>3. q \in j..last /\ q \in 0..(k - 1) /\ q + 1 = p /\ ~(p <= q) /\ p > j /\ p \in 0..k /\ q \in 0..k
    BY <1>2
  <1>4. Ahead(q)
    <2>1. q \notin Bad
      <3> HIDE DEF Bad
      <3> QED BY <1>1, <1>3
    <2> QED BY <1>3, <2>1
  <1>5. /\ SumFunctionOnSet(v, 0..p) = SumFunctionOnSet(v, 0..q) + v[p]
        /\ SumFunctionOnSet(w, 0..p) = SumFunctionOnSet(w, 0..q) + w[p]
    BY <1>3, SumUpTo
  <1>6. /\ SumFunctionOnSet(v, 0..q) \in Int /\ SumFunctionOnSet(w, 0..q) \in Int
        /\ v[p] \in Int /\ w[p] \in Int /\ v[p] <= w[p]
    <2>1. SumFunctionOnSet(v, 0..q) \in Int /\ SumFunctionOnSet(w, 0..q) \in Int
      BY <1>3, SumUpTo
    <2>2. v[p] \in Int /\ w[p] \in Int
      BY <1>3
    <2>3. v[p] <= w[p]
      BY <1>2, <1>3
    <2> QED BY <2>1, <2>2, <2>3
  <1>7. SumFunctionOnSet(v, 0..p) + d <= SumFunctionOnSet(w, 0..p)
    BY ONLY <1>4, <1>5, <1>6, d \in Int
  <1> QED BY <1>2, <1>7

LEMMA SumOfNats ==
    ASSUME NEW k \in Nat, NEW w \in [0..k -> Int], NEW p \in 0..k, \A i \in 0..p : w[i] >= 0
    PROVE  SumFunctionOnSet(w, 0..p) \in Nat /\ w[p] <= SumFunctionOnSet(w, 0..p)
  <1>1. PICK z \in [0..k -> Int] : \A i \in 0..k : z[i] = 0
    <2>1. [i \in 0..k |-> 0] \in [0..k -> Int]
      OBVIOUS
    <2> QED BY <2>1
  <1>2. ASSUME NEW q \in 0..p PROVE SumFunctionOnSet(w, 0..q) \in Int /\ SumFunctionOnSet(w, 0..q) >= 0
    <2>1. q \in 0..k /\ q \in Int /\ 0 \in Int /\ 0..q \in SUBSET (0..k) /\ 0 \in 0..k /\ 0 \in 0..p
      OBVIOUS
    <2>2. SumFunctionOnSet(z, 0..q) = 0
      <3>1. IsFiniteSet(0..q)
        BY ONLY <2>1, FS_Interval
      <3> QED BY ONLY <1>1, <2>1, <3>1, SumOfZeros
    <2>3. SumFunctionOnSet(w, 0..q) \in Int
      BY <2>1, SumUpTo
    <2>4. SumFunctionOnSet(z, 0..0) + 0 <= SumFunctionOnSet(w, 0..0)
      <3>1. SumFunctionOnSet(z, 0..0) = z[0] /\ SumFunctionOnSet(w, 0..0) = w[0]
        BY SumUpTo
      <3>2. z[0] = 0 /\ w[0] >= 0 /\ w[0] \in Int
        BY <1>1, <2>1
      <3> QED BY <3>1, <3>2
    <2>5. \A i \in 0..q : i > 0 => z[i] <= w[i]
      BY <1>1
    <2>6. q \in 0..k /\ 0 \in 0..k /\ q \in 0..k
      BY <2>1
    <2>7. SumFunctionOnSet(z, 0..q) + 0 <= SumFunctionOnSet(w, 0..q)
      BY ONLY <2>1, <2>4, <2>5, <2>6, SumStaysAhead, k \in Nat, z \in [0..k -> Int], w \in [0..k -> Int]
    <2> QED BY <2>2, <2>3, <2>7
  <1>3. SumFunctionOnSet(w, 0..p) \in Nat
    BY <1>2
  <1>4. CASE p = 0
    <2>1. SumFunctionOnSet(w, 0..0) = w[0] /\ w[0] \in Int
      BY SumUpTo
    <2> QED BY <1>3, <1>4, <2>1
  <1>5. CASE p # 0
    <2>1. PICK q \in 0..(k - 1) : q + 1 = p /\ q \in 0..p
      <3>1. p - 1 \in 0..(k - 1) /\ (p - 1) + 1 = p /\ p - 1 \in 0..p
        BY <1>5
      <3> QED BY <3>1
    <2>2. SumFunctionOnSet(w, 0..(q + 1)) = SumFunctionOnSet(w, 0..q) + w[q + 1]
      BY SumUpTo
    <2>3. SumFunctionOnSet(w, 0..q) \in Int /\ SumFunctionOnSet(w, 0..q) >= 0 /\ w[p] \in Int
      BY <1>2, <2>1
    <2> QED BY <1>3, <2>1, <2>2, <2>3
  <1> QED BY <1>4, <1>5

\* There is such a triangle: a row is the sums along the row before, and one.
LEMMA PascalExists == ASSUME NEW n \in Nat, NEW k \in Nat PROVE \E S : Pascal(S, n, k)
  <1> DEFINE Bad == {m \in Nat : ~(\E S : Pascal(S, m, k))}
  <1> SUFFICES ASSUME Bad # {} PROVE FALSE
    OBVIOUS
  <1>1. PICK m \in Bad : \A j \in Bad : m <= j
    <2>1. Bad \in SUBSET Nat
      OBVIOUS
    <2> HIDE DEF Bad
    <2> QED BY <2>1, Least
  <1>2. m \in Nat /\ ~(\E S : Pascal(S, m, k))
    OBVIOUS
  <1>3. m # 0
    <2> SUFFICES ASSUME m = 0 PROVE \E S : Pascal(S, 0, k)
      BY <1>2
    <2> DEFINE S == [a \in 0..0 |-> [i \in 0..k |-> 0]]
    <2>1. S \in [0..0 -> [0..k -> Nat]] /\ S[0] = [i \in 0..k |-> 0]
      OBVIOUS
    <2>2. (\A i \in 0..k : S[0][i] = 0) /\ (\A a \in 0..0 : S[a][0] = a) /\ 0..(0 - 1) = {}
      BY <2>1
    <2> HIDE DEF S
    <2> QED BY <2>1, <2>2 DEF Pascal
  <1> PICK l : l = m - 1
    OBVIOUS
  <1>4. l \in Nat /\ l + 1 = m /\ ~(m <= l)
    BY <1>2, <1>3
  <1>5. PICK R : Pascal(R, l, k)
    <2>1. l \notin Bad
      <3> HIDE DEF Bad
      <3> QED BY <1>1, <1>4
    <2> QED BY <1>4, <2>1
  <1>6. PICK w \in [0..k -> Int] : /\ w[0] = R[l][0] + 1 /\ \A i \in 0..k : w[i] \in Nat
                                   /\ \A i \in 0..k : i # 0 => w[i] = R[l][i]
    <2> PICK u : u = [i \in 0..k |-> IF i = 0 THEN R[l][i] + 1 ELSE R[l][i]]
      OBVIOUS
    <2>1. \A i \in 0..k : R[l][i] \in Nat
      BY <1>4, <1>5 DEF Pascal
    <2>2. /\ u \in [0..k -> Int] /\ u[0] = R[l][0] + 1 /\ \A i \in 0..k : u[i] \in Nat
          /\ \A i \in 0..k : i # 0 => u[i] = R[l][i]
      BY <2>1
    <2> QED BY <2>2
  <1>7. \A i \in 0..k : SumFunctionOnSet(w, 0..i) \in Nat
    BY <1>6, SumOfNats
  <1>8. PICK r \in [0..k -> Nat] : \A i \in 0..k : r[i] = SumFunctionOnSet(w, 0..i)
    <2> PICK u : u = [i \in 0..k |-> SumFunctionOnSet(w, 0..i)]
      OBVIOUS
    <2>1. u \in [0..k -> Nat] /\ \A i \in 0..k : u[i] = SumFunctionOnSet(w, 0..i)
      BY <1>7
    <2> QED BY <2>1
  <1>9. r[0] = m
    <2>1. r[0] = w[0]
      <3>1. SumFunctionOnSet(w, 0..0) = w[0]
        BY SumUpTo
      <3>2. \A i \in 0..k : r[i] = SumFunctionOnSet(w, 0..i)
        BY <1>8
      <3>3. 0 \in 0..k
        OBVIOUS
      <3>4. r[0] = SumFunctionOnSet(w, 0..0)
        BY ONLY <3>2, <3>3
      <3> QED BY ONLY <3>1, <3>4
    <2>2. R[l][0] = l
      BY <1>4, <1>5 DEF Pascal
    <2> QED BY <1>4, <1>6, <2>1, <2>2
  <1>10. ASSUME NEW i \in 0..(k - 1) PROVE r[i + 1] = R[l][i + 1] + r[i]
    <2>1. i \in 0..k /\ i + 1 \in 0..k /\ i + 1 # 0
      OBVIOUS
    <2>2. SumFunctionOnSet(w, 0..(i + 1)) = SumFunctionOnSet(w, 0..i) + w[i + 1]
      BY SumUpTo
    <2>3. r[i] \in Nat /\ w[i + 1] \in Nat /\ w[i + 1] = R[l][i + 1]
      BY <1>6, <2>1
    <2> QED BY <1>8, <2>1, <2>2, <2>3
  <1>11. PICK S \in [0..m -> [0..k -> Nat]] : S[m] = r /\ \A a \in 0..l : S[a] = R[a]
    <2> PICK u : u = [a \in 0..m |-> IF a = m THEN r ELSE R[a]]
      OBVIOUS
    <2>1. R \in [0..l -> [0..k -> Nat]]
      BY <1>5 DEF Pascal
    <2>2. u \in [0..m -> [0..k -> Nat]] /\ u[m] = r /\ \A a \in 0..l : u[a] = R[a]
      BY <1>4, <2>1
    <2> QED BY <2>2
  <1>12. \A i \in 0..k : S[0][i] = 0
    BY <1>4, <1>5, <1>11 DEF Pascal
  <1>13. \A a \in 0..m : S[a][0] = a
    <2> SUFFICES ASSUME NEW a \in 0..m PROVE S[a][0] = a
      OBVIOUS
    <2>1. a = m \/ a \in 0..l
      BY <1>4
    <2> QED BY <1>5, <1>9, <1>11, <2>1 DEF Pascal
  <1>14. ASSUME NEW a \in 0..(m - 1), NEW i \in 0..(k - 1)
         PROVE  S[a + 1][i + 1] = S[a][i + 1] + S[a + 1][i]
    <2>1. CASE a = l
      <3>1. a + 1 = m /\ S[a] = R[l] /\ S[a + 1] = r
        BY <1>4, <1>11, <2>1
      <3> QED BY <1>10, <3>1
    <2>2. CASE a # l
      <3>1. a \in 0..(l - 1) /\ a \in 0..l /\ a + 1 \in 0..l
        BY <1>4, <2>2
      <3>2. S[a] = R[a] /\ S[a + 1] = R[a + 1]
        BY <1>11, <3>1
      <3>3. R[a + 1][i + 1] = R[a][i + 1] + R[a + 1][i]
        BY <1>5, <3>1 DEF Pascal
      <3> QED BY <3>2, <3>3
    <2> QED BY <2>1, <2>2
  <1>15. Pascal(S, m, k)
    BY <1>12, <1>13, <1>14 DEF Pascal
  <1> QED BY <1>2, <1>15

\* Pascal grow with what there is to choose from.
LEMMA PascalGrows ==
    ASSUME NEW S, NEW n \in Nat, NEW k \in Nat, Pascal(S, n, k),
           NEW m \in 0..n, NEW i \in 0..k
    PROVE  S[m][i] \in Nat /\ S[m][i] >= m /\ (m < n => S[m][i] + 1 <= S[m + 1][i])
  <1>0. \A a \in 0..n, j \in 0..k : S[a][j] \in Nat
    BY DEF Pascal
  <1>1. ASSUME NEW a \in 0..n, NEW j \in 0..k PROVE S[a][j] >= a
    <2> DEFINE Bad == {l \in 0..k : ~(S[a][l] >= a)}
    <2> SUFFICES ASSUME Bad # {} PROVE FALSE
      OBVIOUS
    <2>1. PICK l \in Bad : \A q \in Bad : l <= q
      <3>1. Bad \in SUBSET Nat
        OBVIOUS
      <3> HIDE DEF Bad
      <3> QED BY <3>1, Least
    <2>2. l \in 0..k /\ ~(S[a][l] >= a)
      OBVIOUS
    <2>3. l # 0 /\ a # 0
      <3>1. S[a][0] = a /\ S[0][l] = 0
        BY <2>2 DEF Pascal
      <3>2. a >= a
        OBVIOUS
      <3>3. l # 0
        <4> SUFFICES ASSUME l = 0 PROVE FALSE
          OBVIOUS
        <4> QED BY <2>2, <3>1, <3>2
      <3>4. a # 0
        <4> SUFFICES ASSUME a = 0 PROVE FALSE
          OBVIOUS
        <4> QED BY <2>2, <3>1
      <3> QED BY <3>3, <3>4
    <2> PICK q, b : q = l - 1 /\ b = a - 1
      OBVIOUS
    <2>4. /\ q \in 0..(k - 1) /\ q \in 0..k /\ q + 1 = l /\ ~(l <= q)
          /\ b \in 0..(n - 1) /\ b \in 0..n /\ b + 1 = a
      BY <2>2, <2>3
    <2>5. S[a][q] >= a
      <3>1. q \notin Bad
        <4> HIDE DEF Bad
        <4> QED BY <2>1, <2>4
      <3> QED BY <2>4, <3>1
    <2>6. S[b + 1][q + 1] = S[b][q + 1] + S[b + 1][q]
      BY <2>4 DEF Pascal
    <2>7. S[b][q + 1] \in Nat /\ S[a][q] \in Nat /\ S[a][l] = S[b][q + 1] + S[a][q]
      BY <1>0, <2>4, <2>6
    <2> QED BY <2>2, <2>5, <2>7
  <1>2. ASSUME m < n PROVE S[m][i] + 1 <= S[m + 1][i]
    <2>1. m \in 0..(n - 1) /\ m + 1 \in 0..n
      BY <1>2
    <2>2. CASE i = 0
      <3>1. S[m][0] = m /\ S[m + 1][0] = m + 1
        BY <2>1 DEF Pascal
      <3> QED BY <2>2, <3>1
    <2>3. CASE i # 0
      <3> PICK q : q = i - 1
        OBVIOUS
      <3>1. q \in 0..(k - 1) /\ q \in 0..k /\ q + 1 = i
        BY <2>3
      <3>2. S[m + 1][q + 1] = S[m][q + 1] + S[m + 1][q]
        BY <2>1, <3>1 DEF Pascal
      <3>3. S[m + 1][q] >= m + 1 /\ S[m + 1][q] \in Nat /\ S[m][i] \in Nat
        BY <1>0, <1>1, <2>1, <3>1
      <3>4. S[m + 1][i] = S[m][i] + S[m + 1][q]
        BY <3>1, <3>2
      <3> QED BY <3>3, <3>4
    <2> QED BY <2>2, <2>3
  <1> QED BY <1>0, <1>1, <1>2

LEMMA PascalOrder ==
    ASSUME NEW S, NEW n \in Nat, NEW k \in Nat, Pascal(S, n, k), NEW i \in 0..k,
           NEW m \in 0..n, NEW p \in m..n
    PROVE  S[m][i] + (p - m) <= S[p][i]
  <1> DEFINE Bad == {q \in m..n : ~(S[m][i] + (q - m) <= S[q][i])}
  <1> SUFFICES ASSUME Bad # {} PROVE FALSE
    OBVIOUS
  <1>1. PICK q \in Bad : \A b \in Bad : q <= b
    <2>1. Bad \in SUBSET Nat
      OBVIOUS
    <2> HIDE DEF Bad
    <2> QED BY <2>1, Least
  <1>2. q \in m..n /\ ~(S[m][i] + (q - m) <= S[q][i])
    OBVIOUS
  <1>3. S[m][i] \in Nat
    BY PascalGrows
  <1>4. q # m
    BY <1>2, <1>3
  <1> PICK b : b = q - 1
    OBVIOUS
  <1>5. b \in m..n /\ b \in 0..n /\ b + 1 = q /\ b < n /\ ~(q <= b)
    BY <1>2, <1>4
  <1>6. S[m][i] + (b - m) <= S[b][i]
    <2>1. b \notin Bad
      <3> HIDE DEF Bad
      <3> QED BY <1>1, <1>5
    <2> QED BY <1>5, <2>1
  <1>7. S[b][i] \in Nat /\ S[b][i] + 1 <= S[b + 1][i] /\ S[q][i] \in Nat
    BY <1>2, <1>5, PascalGrows
  <1> PICK x, y, z : x = S[m][i] /\ y = S[b][i] /\ z = S[q][i]
    OBVIOUS
  <1>8. x + (q - m) <= z
    <2>1. x \in Nat /\ y \in Nat /\ z \in Nat /\ x + (b - m) <= y /\ y + 1 <= z
      BY <1>3, <1>5, <1>6, <1>7
    <2>2. b \in Int /\ m \in Int /\ q = b + 1
      BY <1>5
    <2> QED BY ONLY <2>1, <2>2
  <1> QED BY <1>2, <1>8

\* The sum along a row is found in the next.
LEMMA SumOfPascal ==
    ASSUME NEW S, NEW n \in Nat, NEW k \in Nat, Pascal(S, n, k), NEW m \in 0..(n - 1)
    PROVE  S[m] \in [0..k -> Int] /\ \A j \in 0..k : SumFunctionOnSet(S[m], 0..j) = S[m + 1][j] - 1
  <1>1. S[m] \in [0..k -> Int] /\ m \in 0..n /\ m + 1 \in 0..n
    BY DEF Pascal
  <1> DEFINE Bad == {j \in 0..k : SumFunctionOnSet(S[m], 0..j) # S[m + 1][j] - 1}
  <1> SUFFICES ASSUME Bad # {} PROVE FALSE
    BY <1>1
  <1>2. PICK j \in Bad : \A q \in Bad : j <= q
    <2>1. Bad \in SUBSET Nat
      OBVIOUS
    <2> HIDE DEF Bad
    <2> QED BY <2>1, Least
  <1>3. j \in 0..k /\ SumFunctionOnSet(S[m], 0..j) # S[m + 1][j] - 1
    OBVIOUS
  <1>4. j # 0
    <2>1. SumFunctionOnSet(S[m], 0..0) = S[m][0]
      BY <1>1, SumUpTo
    <2>2. S[m][0] = m /\ S[m + 1][0] = m + 1
      BY <1>1 DEF Pascal
    <2>3. SumFunctionOnSet(S[m], 0..0) = S[m + 1][0] - 1
      BY <2>1, <2>2
    <2> QED BY <1>3, <2>3
  <1> PICK q : q = j - 1
    OBVIOUS
  <1>5. q \in 0..(k - 1) /\ q \in 0..k /\ q + 1 = j /\ ~(j <= q)
    BY <1>3, <1>4
  <1>6. SumFunctionOnSet(S[m], 0..q) = S[m + 1][q] - 1
    <2>1. q \notin Bad
      <3> HIDE DEF Bad
      <3> QED BY <1>2, <1>5
    <2> QED BY <1>5, <2>1
  <1>7. SumFunctionOnSet(S[m], 0..(q + 1)) = SumFunctionOnSet(S[m], 0..q) + S[m][q + 1]
    BY <1>1, <1>5, SumUpTo
  <1>8. S[m + 1][q + 1] = S[m][q + 1] + S[m + 1][q]
    BY <1>5 DEF Pascal
  <1>9. S[m][q + 1] \in Nat /\ S[m + 1][q] \in Nat
    BY <1>1, <1>3, <1>5, PascalGrows
  <1> PICK a, b : a = S[m][q + 1] /\ b = S[m + 1][q]
    OBVIOUS
  <1>10. (b - 1) + a = (a + b) - 1
    BY <1>9
  <1> QED BY <1>3, <1>5, <1>6, <1>7, <1>8, <1>10

-----------------------------------------------------------------------------
(* What the requests of a user have used up of the wrong PINs there can be.  A
   request is on the level of the wrong PINs that the counter it has read leaves
   to it; Counts says how many requests are at most on each level. *)

Counts == [0..MaxPinAttempts -> 0..AtOnce]

Weigh(S, c) == [i \in 0..MaxPinAttempts |-> S[c[i]][i]]

Used(S, c) ==
    SumFunctionOnSet(Weigh(S, c), 0..(MaxPinAttempts - 1))
      + (S[c[MaxPinAttempts]][MaxPinAttempts] - c[MaxPinAttempts])

LEMMA AtOnceIs == AtOnce \in Nat /\ MaxPinAttempts \in Nat \ {0}
  BY PinAssumption, FS_CardinalityType DEF AtOnce

LEMMA WeighIs ==
    ASSUME NEW S, Triangle(S), NEW c \in Counts
    PROVE  /\ Weigh(S, c) \in [0..MaxPinAttempts -> Int]
           /\ \A i \in 0..MaxPinAttempts : /\ c[i] \in 0..AtOnce
                                           /\ Weigh(S, c)[i] = S[c[i]][i] /\ S[c[i]][i] \in Nat
  <1>1. \A i \in 0..MaxPinAttempts : c[i] \in 0..AtOnce /\ c[i] \in 0..(AtOnce + 1)
    BY AtOnceIs DEF Counts
  <1>2. \A m \in 0..(AtOnce + 1), i \in 0..MaxPinAttempts : S[m][i] \in Nat
    BY DEF Triangle, Pascal
  <1> QED BY <1>1, <1>2 DEF Weigh

LEMMA WeighOrder ==
    ASSUME NEW S, Triangle(S), NEW c \in Counts, NEW p \in 0..(AtOnce + 1),
           NEW i \in 0..MaxPinAttempts, c[i] <= p
    PROVE  S[c[i]][i] + (p - c[i]) <= S[p][i] /\ S[p][i] \in Nat
  <1>1. c[i] \in 0..(AtOnce + 1) /\ p \in c[i]..(AtOnce + 1) /\ AtOnce + 1 \in Nat
    BY AtOnceIs DEF Counts
  <1> QED BY <1>1, AtOnceIs, PascalOrder, PascalGrows DEF Triangle

LEMMA TopOrder ==
    ASSUME NEW S, Triangle(S), NEW c \in Counts, NEW d \in Counts,
           c[MaxPinAttempts] <= d[MaxPinAttempts]
    PROVE  S[c[MaxPinAttempts]][MaxPinAttempts] - c[MaxPinAttempts]
             <= S[d[MaxPinAttempts]][MaxPinAttempts] - d[MaxPinAttempts]
  <1> PICK M : M = MaxPinAttempts
    OBVIOUS
  <1> PICK m, p : m = c[M] /\ p = d[M]
    OBVIOUS
  <1>1. M \in 0..MaxPinAttempts /\ m \in 0..AtOnce /\ p \in 0..AtOnce /\ p \in 0..(AtOnce + 1)
    BY AtOnceIs DEF Counts
  <1> PICK x, y : x = S[m][M] /\ y = S[p][M]
    OBVIOUS
  <1>2. x + (p - m) <= y /\ y \in Nat
    BY <1>1, WeighOrder
  <1>3. x \in Nat
    BY <1>1, WeighIs
  <1>4. x - m <= y - p
    BY <1>1, <1>2, <1>3
  <1> QED BY <1>4

LEMMA UsedStays ==
    ASSUME NEW S, Triangle(S), NEW c \in Counts, NEW d \in Counts,
           \A i \in 0..MaxPinAttempts : c[i] <= d[i]
    PROVE  Used(S, c) <= Used(S, d) /\ Used(S, c) \in Int
  <1> PICK M, v, w : M = MaxPinAttempts /\ v = Weigh(S, c) /\ w = Weigh(S, d)
    OBVIOUS
  <1>1. /\ M \in Nat /\ M - 1 \in 0..M /\ 0 \in 0..M /\ M \in 0..M
        /\ v \in [0..M -> Int] /\ w \in [0..M -> Int]
    BY AtOnceIs, WeighIs
  <1>2. \A i \in 0..M : v[i] <= w[i]
    <2> SUFFICES ASSUME NEW i \in 0..M PROVE v[i] <= w[i]
      OBVIOUS
    <2>1. c[i] \in 0..AtOnce /\ d[i] \in 0..AtOnce /\ d[i] \in 0..(AtOnce + 1) /\ c[i] <= d[i]
      BY AtOnceIs DEF Counts
    <2>2. S[c[i]][i] + (d[i] - c[i]) <= S[d[i]][i] /\ S[c[i]][i] \in Nat /\ S[d[i]][i] \in Nat
      BY <2>1, WeighOrder, WeighIs
    <2>3. v[i] = S[c[i]][i] /\ w[i] = S[d[i]][i]
      BY WeighIs
    <2> QED BY <2>1, <2>2, <2>3
  <1>3. SumFunctionOnSet(v, 0..(M - 1)) + 0 <= SumFunctionOnSet(w, 0..(M - 1))
    <2>1. SumFunctionOnSet(v, 0..0) = v[0] /\ SumFunctionOnSet(w, 0..0) = w[0]
      BY <1>1, SumUpTo
    <2>2. SumFunctionOnSet(v, 0..0) + 0 <= SumFunctionOnSet(w, 0..0)
      BY <1>1, <1>2, <2>1
    <2>3. M - 1 \in 0..M /\ \A i \in 0..(M - 1) : i > 0 => v[i] <= w[i]
      BY <1>1, <1>2
    <2> QED BY ONLY <1>1, <2>2, <2>3, SumStaysAhead, 0 \in Int
  <1> PICK x, y, q, t : /\ x = SumFunctionOnSet(v, 0..(M - 1)) /\ y = SumFunctionOnSet(w, 0..(M - 1))
                        /\ q = S[c[M]][M] - c[M] /\ t = S[d[M]][M] - d[M]
    OBVIOUS
  <1>4. q <= t
    BY <1>1, TopOrder
  <1>5. x \in Int /\ y \in Int
    BY <1>1, SumUpTo
  <1>6. q \in Int /\ t \in Int
    <2>1. c[M] \in 0..AtOnce /\ d[M] \in 0..AtOnce /\ S[c[M]][M] \in Nat /\ S[d[M]][M] \in Nat
      BY <1>1, WeighIs
    <2> QED BY ONLY <2>1, AtOnceIs, q = S[c[M]][M] - c[M], t = S[d[M]][M] - d[M]
  <1>7. x + q <= y + t /\ x + q \in Int
    <2>1. x + 0 <= y
      BY <1>3
    <2> QED BY ONLY <1>4, <1>5, <1>6, <2>1
  <1>8. Used(S, c) = x + q /\ Used(S, d) = y + t
    BY DEF Used
  <1> QED BY ONLY <1>7, <1>8

\* The terms below a level, when no level below it has more requests.
LEMMA BelowFew ==
    ASSUME NEW S, Triangle(S), NEW c \in Counts, NEW j \in 0..MaxPinAttempts,
           NEW m \in 0..AtOnce, \A i \in 0..j : c[i] <= m
    PROVE  /\ SumFunctionOnSet(Weigh(S, c), 0..j) <= S[m + 1][j] - 1
           /\ SumFunctionOnSet(Weigh(S, c), 0..j) \in Int /\ S[m + 1][j] \in Nat
  <1> PICK M, v : M = MaxPinAttempts /\ v = Weigh(S, c)
    OBVIOUS
  <1>1. /\ M \in Nat /\ AtOnce + 1 \in Nat /\ m \in 0..((AtOnce + 1) - 1)
        /\ m \in 0..(AtOnce + 1) /\ m + 1 \in 0..(AtOnce + 1)
    BY AtOnceIs
  <1>2. Pascal(S, AtOnce + 1, M)
    BY DEF Triangle
  <1> PICK w : w = S[m]
    OBVIOUS
  <1>3. w \in [0..M -> Int] /\ SumFunctionOnSet(w, 0..j) = S[m + 1][j] - 1
    BY <1>1, <1>2, SumOfPascal
  <1>4. v \in [0..M -> Int] /\ SumFunctionOnSet(v, 0..j) \in Int /\ S[m + 1][j] \in Nat
    <2>1. v \in [0..M -> Int]
      BY WeighIs
    <2>2. SumFunctionOnSet(v, 0..j) \in Int
      BY <1>1, <2>1, SumUpTo
    <2>3. S[m + 1][j] \in Nat
      BY <1>1, <1>2 DEF Pascal
    <2> QED BY <2>1, <2>2, <2>3
  <1>5. ASSUME NEW i \in 0..j PROVE v[i] <= w[i]
    <2>1. i \in 0..M /\ c[i] <= m /\ c[i] \in 0..AtOnce
      BY <1>1 DEF Counts
    <2>2. S[c[i]][i] + (m - c[i]) <= S[m][i] /\ S[m][i] \in Nat /\ S[c[i]][i] \in Nat
      BY <1>1, <2>1, WeighOrder, WeighIs
    <2>3. v[i] = S[c[i]][i]
      BY <2>1, WeighIs
    <2> QED BY <1>1, <2>1, <2>2, <2>3
  <1>6. SumFunctionOnSet(v, 0..j) + 0 <= SumFunctionOnSet(w, 0..j)
    <2>1. SumFunctionOnSet(v, 0..0) = v[0] /\ SumFunctionOnSet(w, 0..0) = w[0]
      BY <1>1, <1>3, <1>4, SumUpTo
    <2>2. v[0] \in Int /\ w[0] \in Int /\ v[0] <= w[0] /\ 0 \in 0..M /\ 0 \in Int
      BY <1>1, <1>3, <1>4, <1>5
    <2>3. SumFunctionOnSet(v, 0..0) + 0 <= SumFunctionOnSet(w, 0..0)
      BY <2>1, <2>2
    <2>4. j \in 0..M /\ \A i \in 0..j : i > 0 => v[i] <= w[i]
      BY <1>5
    <2> QED BY ONLY <1>1, <1>3, <1>4, <2>2, <2>3, <2>4, SumStaysAhead
  <1> PICK x, y, z : /\ x = SumFunctionOnSet(v, 0..j) /\ y = SumFunctionOnSet(w, 0..j)
                     /\ z = S[m + 1][j]
    OBVIOUS
  <1>7. x <= z - 1
    <2>1. x \in Int /\ z \in Nat /\ y = z - 1 /\ x + 0 <= y
      BY <1>3, <1>4, <1>6
    <2> QED BY ONLY <2>1
  <1> QED BY <1>4, <1>7

LEMMA UsedBounds ==
    ASSUME NEW S, Triangle(S), NEW c \in Counts
    PROVE  /\ Used(S, c) \in Nat
           /\ Used(S, c) <= S[AtOnce + 1][MaxPinAttempts] - 1 - AtOnce
  <1> PICK M, N, v : M = MaxPinAttempts /\ N = AtOnce /\ v = Weigh(S, c)
    OBVIOUS
  <1> PICK L, m : L = M - 1 /\ m = c[M]
    OBVIOUS
  <1>1. /\ M \in Nat /\ N \in Nat /\ L \in 0..M /\ L \in 0..(M - 1) /\ L + 1 = M /\ M \in 0..M
        /\ m \in 0..N /\ N \in 0..AtOnce /\ \A i \in 0..M : c[i] \in 0..N
    BY AtOnceIs DEF Counts
  <1>2. v \in [0..M -> Int] /\ \A i \in 0..M : v[i] \in Nat
    BY WeighIs
  <1> PICK x, y, z, t, u : /\ x = SumFunctionOnSet(v, 0..L) /\ y = S[m][M] /\ z = S[N + 1][L]
                           /\ t = S[N][M] /\ u = S[N + 1][M]
    OBVIOUS
  <1>3. x \in Nat
    <2>1. \A i \in 0..L : v[i] >= 0
      BY <1>1, <1>2
    <2> QED BY ONLY <1>1, <1>2, <2>1, SumOfNats, x = SumFunctionOnSet(v, 0..L)
  <1>4. x <= z - 1 /\ z \in Nat
    <2>1. \A i \in 0..L : c[i] <= N
      BY <1>1
    <2>2. L \in 0..MaxPinAttempts /\ v = Weigh(S, c)
      BY <1>1
    <2> QED BY <1>1, <2>1, <2>2, BelowFew
  <1>5. y + (N - m) <= t /\ t \in Nat /\ y \in Nat /\ y >= m
    <2>1. /\ Pascal(S, AtOnce + 1, MaxPinAttempts) /\ m \in 0..(AtOnce + 1)
          /\ AtOnce + 1 \in Nat /\ MaxPinAttempts \in Nat /\ M \in 0..MaxPinAttempts
          /\ N \in 0..(AtOnce + 1) /\ c[M] <= N
      BY <1>1 DEF Triangle
    <2>2. y \in Nat /\ y >= m
      BY <2>1, PascalGrows
    <2>3. y + (N - m) <= t /\ t \in Nat
      BY <2>1, WeighOrder
    <2> QED BY <2>2, <2>3
  <1>6. u = t + z
    <2>1. /\ \A a \in 0..((AtOnce + 1) - 1), i \in 0..(MaxPinAttempts - 1) :
                S[a + 1][i + 1] = S[a][i + 1] + S[a + 1][i]
          /\ N \in 0..((AtOnce + 1) - 1)
      BY <1>1 DEF Triangle, Pascal
    <2>2. S[N + 1][L + 1] = S[N][L + 1] + S[N + 1][L]
      BY <1>1, <2>1
    <2> QED BY <1>1, <2>2
  <1>7. Used(S, c) = x + (y - m)
    BY <1>1 DEF Used
  <1>8. x + (y - m) \in Nat /\ x + (y - m) <= (u - 1) - N
    BY ONLY <1>1, <1>3, <1>4, <1>5, <1>6
  <1>9. (u - 1) - N = S[AtOnce + 1][MaxPinAttempts] - 1 - AtOnce
    OBVIOUS
  <1> QED BY <1>7, <1>8, <1>9

\* A level that gets one more request, when no level below it had more and none
\* above it has fewer than before.
LEMMA UsedRises ==
    ASSUME NEW S, Triangle(S), NEW c \in Counts, NEW d \in Counts,
           NEW j \in 0..MaxPinAttempts, c[j] + 1 <= d[j],
           \A i \in 0..MaxPinAttempts : (i > j => c[i] <= d[i]) /\ (i < j => c[i] <= c[j])
    PROVE  /\ Used(S, c) <= Used(S, d)
           /\ j # MaxPinAttempts => Used(S, c) + 1 <= Used(S, d)
  <1> PICK M, N, v, w : /\ M = MaxPinAttempts /\ N = AtOnce
                        /\ v = Weigh(S, c) /\ w = Weigh(S, d)
    OBVIOUS
  <1> PICK L, m, p, b : L = M - 1 /\ m = c[M] /\ p = d[M] /\ b = c[j]
    OBVIOUS
  <1>1. /\ M \in Nat /\ N \in Nat /\ L \in 0..M /\ L \in 0..(M - 1) /\ L + 1 = M /\ M \in 0..M
        /\ m \in 0..N /\ p \in 0..N /\ b \in 0..N /\ d[j] \in 0..N /\ b + 1 <= d[j]
        /\ b + 1 \in 0..(N + 1) /\ b + 1 \in 0..N
        /\ \A i \in 0..M : c[i] \in 0..N /\ d[i] \in 0..N
    BY AtOnceIs DEF Counts
  <1>2. /\ v \in [0..M -> Int] /\ w \in [0..M -> Int]
        /\ \A i \in 0..M : v[i] = S[c[i]][i] /\ w[i] = S[d[i]][i] /\ v[i] \in Nat /\ w[i] \in Nat
    BY WeighIs
  <1> PICK x, y, q, t : /\ x = SumFunctionOnSet(v, 0..L) /\ y = SumFunctionOnSet(w, 0..L)
                        /\ q = S[m][M] - m /\ t = S[p][M] - p
    OBVIOUS
  <1>3. x \in Nat /\ y \in Nat
    <2>1. ASSUME NEW i \in 0..L PROVE v[i] >= 0 /\ w[i] >= 0
      <3>1. i \in 0..M
        BY ONLY <1>1, i \in 0..L
      <3>2. v[i] \in Nat /\ w[i] \in Nat
        BY ONLY <1>2, <3>1
      <3> QED BY ONLY <3>2
    <2> QED BY ONLY <1>1, <1>2, <2>1, SumOfNats, x = SumFunctionOnSet(v, 0..L),
            y = SumFunctionOnSet(w, 0..L)
  <1>4. q \in Int /\ t \in Int
    <2>1. S[m][M] \in Nat /\ S[p][M] \in Nat
      BY <1>1, WeighIs
    <2> QED BY ONLY <1>1, <2>1, q = S[m][M] - m, t = S[p][M] - p
  <1>5. Used(S, c) = x + q /\ Used(S, d) = y + t
    BY <1>1 DEF Used
  <1>6. CASE j = M
    <2> PICK z, h : z = S[m + 1][L] /\ h = S[m + 1][M]
      OBVIOUS
    <2>1. \A i \in 0..L : c[i] <= m
      BY <1>1, <1>6
    <2>2. x <= z - 1 /\ z \in Nat
      <3>1. L \in 0..MaxPinAttempts /\ v = Weigh(S, c) /\ m \in 0..AtOnce
        BY <1>1
      <3> QED BY <2>1, <3>1, BelowFew
    <2>3. h = S[m][M] + z
      <3>1. /\ \A a \in 0..((AtOnce + 1) - 1), i \in 0..(MaxPinAttempts - 1) :
                  S[a + 1][i + 1] = S[a][i + 1] + S[a + 1][i]
            /\ m \in 0..((AtOnce + 1) - 1)
        BY <1>1 DEF Triangle, Pascal
      <3>2. S[m + 1][L + 1] = S[m][L + 1] + S[m + 1][L]
        BY <1>1, <3>1
      <3> QED BY <1>1, <3>2
    <2>4. h - (m + 1) <= t
      <3>1. /\ Pascal(S, AtOnce + 1, MaxPinAttempts) /\ AtOnce + 1 \in Nat /\ MaxPinAttempts \in Nat
            /\ M \in 0..MaxPinAttempts /\ m + 1 \in 0..(AtOnce + 1) /\ p \in (m + 1)..(AtOnce + 1)
            /\ p \in 0..(AtOnce + 1)
        BY <1>1, <1>6 DEF Triangle
      <3>2. h + (p - (m + 1)) <= S[p][M]
        BY <3>1, PascalOrder
      <3>3. h \in Nat /\ S[p][M] \in Nat
        BY <3>1, PascalGrows
      <3> PICK g : g = S[p][M]
        OBVIOUS
      <3>4. h + (p - (m + 1)) <= g /\ h \in Nat /\ g \in Nat /\ t = g - p
        BY <3>2, <3>3
      <3> QED BY ONLY <1>1, <3>4
    <2>5. S[m][M] \in Nat
      BY <1>1, WeighIs
    <2> PICK g : g = S[m][M]
      OBVIOUS
    <2>6. x + q <= y + t
      <3>1. g \in Nat /\ q = g - m /\ h = g + z
        BY <2>3, <2>5
      <3> QED BY ONLY <1>1, <1>3, <1>4, <2>2, <2>4, <3>1
    <2> QED BY <1>5, <1>6, <2>6
  <1>7. CASE j # M
    <2>1. j \in 0..M /\ j \in 0..L /\ L \in j..M /\ j # MaxPinAttempts
      BY <1>1, <1>7
    <2>2. SumFunctionOnSet(v, 0..j) + 1 <= SumFunctionOnSet(w, 0..j)
      <3> PICK z, h : z = S[b + 1][j] /\ h = w[j]
        OBVIOUS
      <3> PICK X, Y : X = SumFunctionOnSet(v, 0..j) /\ Y = SumFunctionOnSet(w, 0..j)
        OBVIOUS
      <3>1. X <= z - 1 /\ X \in Int /\ z \in Nat
        <4>1. \A i \in 0..j : c[i] <= b
          BY <1>1, <2>1
        <4>2. b \in 0..AtOnce
          BY <1>1
        <4> QED BY <4>1, <4>2, BelowFew
      <3>2. h <= Y /\ Y \in Nat
        <4>1. ASSUME NEW i \in 0..j PROVE w[i] >= 0
          <5>1. i \in 0..M
            BY ONLY <1>1, <2>1, i \in 0..j
          <5>2. w[i] \in Nat
            BY ONLY <1>2, <5>1
          <5> QED BY ONLY <5>2
        <4> QED BY ONLY <1>1, <1>2, <2>1, <4>1, SumOfNats, h = w[j], Y = SumFunctionOnSet(w, 0..j)
      <3>3. z <= h
        <4>1. /\ Pascal(S, AtOnce + 1, MaxPinAttempts) /\ AtOnce + 1 \in Nat /\ MaxPinAttempts \in Nat
              /\ b + 1 \in 0..(AtOnce + 1) /\ d[j] \in (b + 1)..(AtOnce + 1)
          BY <1>1 DEF Triangle
        <4>2. z + (d[j] - (b + 1)) <= S[d[j]][j]
          BY <4>1, PascalOrder
        <4>3. h = S[d[j]][j] /\ h \in Nat
          BY <1>2, <2>1
        <4> PICK e, k : e = S[d[j]][j] /\ k = d[j]
          OBVIOUS
        <4>4. h = e /\ e \in Nat /\ z \in Nat /\ k \in 0..N /\ b + 1 <= k /\ z + (k - (b + 1)) <= e
          BY <1>1, <3>1, <4>2, <4>3
        <4> QED BY ONLY <1>1, <4>4
      <3>4. h \in Nat
        BY <1>2, <2>1
      <3> QED BY <3>1, <3>2, <3>3, <3>4
    <2>3. ASSUME NEW i \in 0..L, i > j PROVE v[i] <= w[i]
      <3>1. i \in 0..M /\ c[i] <= d[i] /\ c[i] \in 0..N /\ d[i] \in 0..N /\ d[i] \in 0..(N + 1)
        <4>1. i \in 0..M
          BY ONLY <1>1, i \in 0..L
        <4>2. c[i] <= d[i] /\ c[i] \in 0..N /\ d[i] \in 0..N
          BY <1>1, <2>3, <4>1
        <4> PICK e : e = d[i]
          OBVIOUS
        <4>3. e \in 0..N => e \in 0..(N + 1)
          BY ONLY <1>1
        <4> QED BY <4>1, <4>2, <4>3
      <3>2. S[c[i]][i] + (d[i] - c[i]) <= S[d[i]][i]
        BY <3>1, WeighOrder
      <3>3. v[i] = S[c[i]][i] /\ w[i] = S[d[i]][i] /\ v[i] \in Nat /\ w[i] \in Nat
        BY <1>2, <3>1
      <3> PICK e, k, g, h : e = S[d[i]][i] /\ k = d[i] /\ g = S[c[i]][i] /\ h = c[i]
        OBVIOUS
      <3>4. g \in Nat /\ e \in Nat /\ h \in 0..N /\ k \in 0..N /\ h <= k /\ g + (k - h) <= e
        BY <3>1, <3>2, <3>3
      <3>5. g <= e
        BY ONLY <1>1, <3>4
      <3> QED BY <3>3, <3>5
    <2>4. x + 1 <= y
      <3>1. \A i \in 0..L : i > j => v[i] <= w[i]
        BY <2>3
      <3> QED BY ONLY <1>1, <1>2, <2>1, <2>2, <3>1, SumStaysAhead, 1 \in Int,
              x = SumFunctionOnSet(v, 0..L), y = SumFunctionOnSet(w, 0..L)
    <2>5. q <= t
      <3>1. c[M] <= d[M]
        BY <1>1, <2>1
      <3> QED BY <1>1, <3>1, TopOrder
    <2>6. (x + q) + 1 <= y + t
      BY ONLY <1>3, <1>4, <2>4, <2>5
    <2>7. x + q <= y + t
      BY ONLY <1>3, <1>4, <2>4, <2>5
    <2> QED BY <1>5, <2>6, <2>7
  <1> QED BY <1>6, <1>7

LEMMA SomeUsed ==
    ASSUME NEW S, Triangle(S), NEW d \in Counts, d[0] >= 1
    PROVE  Used(S, d) >= 1
  <1>1. PICK c \in Counts : \A i \in 0..MaxPinAttempts : c[i] = 0
    <2>1. [i \in 0..MaxPinAttempts |-> 0] \in Counts
      BY AtOnceIs DEF Counts
    <2> QED BY <2>1
  <1>2. 0 \in 0..MaxPinAttempts /\ 0 # MaxPinAttempts /\ c[0] + 1 <= d[0]
    BY <1>1, AtOnceIs DEF Counts
  <1>3. \A i \in 0..MaxPinAttempts : (i > 0 => c[i] <= d[i]) /\ (i < 0 => c[i] <= c[0])
    BY <1>1, AtOnceIs DEF Counts
  <1>4. Used(S, c) + 1 <= Used(S, d)
    BY <1>2, <1>3, UsedRises
  <1>5. Used(S, c) \in Nat /\ Used(S, d) \in Nat
    BY UsedBounds
  <1> QED BY <1>4, <1>5

-----------------------------------------------------------------------------
\* The wrong PINs that a counter leaves, the one that locks included.
LevelOf(s) == IF s < MaxPinAttempts THEN MaxPinAttempts - s ELSE 1

\* What the row lets a new request read, and the level of each request: those
\* that are to clear an expired lock are above all levels.
Open(a, l) == IF l = "ahead" THEN 0 ELSE LevelOf(a)

Level(a, l, r) ==
    IF r.pc = "clear" THEN MaxPinAttempts + 1
    ELSE IF r.pc = "compare" /\ LevelOf(r.seen) > Open(a, l) THEN LevelOf(r.seen)
    ELSE Open(a, l)

Beneath(a, l, gs, i) == {g \in Guessers : Level(a, l, gs[g]) <= i}
Below(a, l, gs) == [i \in 0..MaxPinAttempts |-> Cardinality(Beneath(a, l, gs, i))]

\* A lock that has gone by lets everyone read, whatever the counter says; then
\* only requests that have read a low counter can still be wrong without locking.
Low(gs) == {g \in Guessers : gs[g].pc = "compare" /\ gs[g].seen + 1 < MaxPinAttempts}

Pot(a, gs) ==
    IF a < MaxPinAttempts - 1 THEN (MaxPinAttempts - 1 - a) + (AtOnce - 1)
    ELSE Cardinality(Low(gs))

Stale == MaxPinAttempts + AtOnce - 2

\* The wrong PINs so far have been paid for: while a lock that has gone by is in
\* the row, by what is left of Stale, and otherwise by Stale and the levels that
\* the requests have come down.
GuessesCounted(S) ==
    /\ PinTypeOK
    /\ IF lock = "past" THEN wrongs + Pot(attempts, guess) <= Stale
       ELSE wrongs <= Stale + Used(S, Below(attempts, lock, guess))

Locks == {"null", "ahead", "past"}

LEMMA EndedGuess == NoGuess \in Guess /\ NoGuess.pc = "idle"
  BY DEF NoGuess, Guess

LEMMA GuessIs ==
    ASSUME NEW r \in Guess
    PROVE  r.seen \in Nat /\ r.pc \in {"idle", "clear", "compare"}
  BY DEF Guess

LEMMA LevelOfIs ==
    ASSUME NEW s \in Nat
    PROVE  /\ LevelOf(s) \in 1..MaxPinAttempts
           /\ LevelOf(s + 1) \in 1..MaxPinAttempts
           /\ LevelOf(s + 1) = 1 \/ LevelOf(s + 1) = LevelOf(s) - 1
           /\ s + 1 < MaxPinAttempts => LevelOf(s) >= 2 /\ LevelOf(s + 1) = LevelOf(s) - 1
  BY AtOnceIs DEF LevelOf

LEMMA OpenIs ==
    ASSUME NEW a \in Nat, NEW l \in Locks
    PROVE  /\ Open(a, l) \in 0..MaxPinAttempts
           /\ l = "ahead" => Open(a, l) = 0
           /\ l # "ahead" => Open(a, l) = LevelOf(a)
  BY LevelOfIs, AtOnceIs DEF Open

LEMMA LevelIs ==
    ASSUME NEW a \in Nat, NEW l \in Locks, NEW r \in Guess
    PROVE  /\ Level(a, l, r) \in 0..(MaxPinAttempts + 1)
           /\ Open(a, l) <= Level(a, l, r)
           /\ r.pc = "clear" => Level(a, l, r) = MaxPinAttempts + 1
           /\ r.pc = "idle" => Level(a, l, r) = Open(a, l)
           /\ r.pc = "compare" => /\ Level(a, l, r) <= MaxPinAttempts
                                  /\ LevelOf(r.seen) <= Level(a, l, r)
                                  /\ Level(a, l, r) \in {LevelOf(r.seen), Open(a, l)}
  <1> PICK o, v : o = Open(a, l) /\ v = LevelOf(r.seen)
    OBVIOUS
  <1>1. r.seen \in Nat /\ r.pc \in {"idle", "clear", "compare"} /\ MaxPinAttempts \in Nat
    BY GuessIs, AtOnceIs
  <1>2. o \in 0..MaxPinAttempts /\ v \in 1..MaxPinAttempts
    BY <1>1, OpenIs, LevelOfIs
  <1>3. Level(a, l, r) = IF r.pc = "clear" THEN MaxPinAttempts + 1
                         ELSE IF r.pc = "compare" /\ v > o THEN v ELSE o
    BY DEF Level
  <1> PICK x : x = Level(a, l, r)
    OBVIOUS
  <1>4. CASE r.pc = "clear"
    BY <1>1, <1>2, <1>3, <1>4
  <1>5. CASE r.pc = "idle"
    BY <1>1, <1>2, <1>3, <1>5
  <1>6. CASE r.pc = "compare"
    BY <1>1, <1>2, <1>3, <1>6
  <1> QED BY <1>1, <1>4, <1>5, <1>6

\* When the row changes, a request that does nothing stays, comes down, or goes
\* where the row is open.
LEMMA LevelMoves ==
    ASSUME NEW a \in Nat, NEW b \in Nat, NEW l \in Locks, NEW m \in Locks, NEW r \in Guess
    PROVE  Level(b, m, r) <= Level(a, l, r) \/ Level(b, m, r) = Open(b, m)
  <1>1. r.pc \in {"idle", "clear", "compare"}
    BY GuessIs
  <1>2. Level(b, m, r) \in Nat /\ Level(a, l, r) \in Nat
    BY LevelIs, AtOnceIs
  <1>3. CASE r.pc = "clear"
    <2>1. Level(b, m, r) = Level(a, l, r)
      BY <1>3, LevelIs
    <2> QED BY <1>2, <2>1
  <1>4. CASE r.pc = "idle"
    BY <1>4, LevelIs
  <1>5. CASE r.pc = "compare"
    BY <1>5, LevelIs
  <1> QED BY <1>1, <1>3, <1>4, <1>5

LEMMA FewerThan ==
    ASSUME NEW A \in SUBSET Guessers, NEW B \in SUBSET Guessers, A \subseteq B
    PROVE  /\ Cardinality(A) \in 0..AtOnce /\ Cardinality(B) \in 0..AtOnce
           /\ Cardinality(A) <= Cardinality(B)
           /\ \A g \in B \ A : Cardinality(A) + 1 <= Cardinality(B)
  <1>1. IsFiniteSet(Guessers) /\ IsFiniteSet(A) /\ IsFiniteSet(B)
    BY PinAssumption, FS_Subset
  <1>2. /\ Cardinality(A) \in Nat /\ Cardinality(B) \in Nat /\ Cardinality(A) <= Cardinality(B)
        /\ Cardinality(A) <= AtOnce /\ Cardinality(B) <= AtOnce
    BY <1>1, FS_Subset, FS_CardinalityType DEF AtOnce
  <1>3. ASSUME NEW g \in B \ A PROVE Cardinality(A) + 1 <= Cardinality(B)
    <2> PICK C : C = A \cup {g}
      OBVIOUS
    <2>1. Cardinality(C) = Cardinality(A) + 1
      BY <1>1, FS_AddElement
    <2>2. C \subseteq B
      OBVIOUS
    <2>3. Cardinality(C) <= Cardinality(B)
      BY <1>1, <2>2, FS_Subset
    <2> QED BY <2>1, <2>3
  <1> QED BY <1>2, <1>3, AtOnceIs

LEMMA BelowIs ==
    ASSUME NEW a, NEW l, NEW gs
    PROVE  /\ Below(a, l, gs) \in Counts
           /\ \A i \in 0..MaxPinAttempts : Below(a, l, gs)[i] = Cardinality(Beneath(a, l, gs, i))
  <1>1. \A i \in 0..MaxPinAttempts : Beneath(a, l, gs, i) \in SUBSET Guessers
    BY DEF Beneath
  <1>2. \A i \in 0..MaxPinAttempts : Cardinality(Beneath(a, l, gs, i)) \in 0..AtOnce
    BY <1>1, FewerThan
  <1> QED BY <1>2 DEF Below, Counts

\* A request that reads, or ends without a write.
LEMMA LevelsStay ==
    ASSUME NEW S, Triangle(S), NEW a \in Nat, NEW l \in Locks, NEW gs \in [Guessers -> Guess],
           NEW g \in Guessers, NEW r \in Guess, Level(a, l, r) <= Level(a, l, gs[g])
    PROVE  Used(S, Below(a, l, gs)) <= Used(S, Below(a, l, [gs EXCEPT ![g] = r]))
  <1> PICK hs : hs = [gs EXCEPT ![g] = r]
    OBVIOUS
  <1>1. ASSUME NEW i \in 0..MaxPinAttempts PROVE Beneath(a, l, gs, i) \subseteq Beneath(a, l, hs, i)
    <2> SUFFICES ASSUME NEW h \in Guessers, Level(a, l, gs[h]) <= i PROVE Level(a, l, hs[h]) <= i
      BY DEF Beneath
    <2>1. CASE h = g
      <3>1. Level(a, l, gs[g]) \in Nat /\ Level(a, l, r) \in Nat
        BY LevelIs, AtOnceIs
      <3>2. hs[h] = r
        BY <2>1
      <3> QED BY <2>1, <3>1, <3>2
    <2>2. CASE h # g
      BY <2>2
    <2> QED BY <2>1, <2>2
  <1>2. ASSUME NEW i \in 0..MaxPinAttempts PROVE Below(a, l, gs)[i] <= Below(a, l, hs)[i]
    <2>1. Beneath(a, l, gs, i) \in SUBSET Guessers /\ Beneath(a, l, hs, i) \in SUBSET Guessers
      BY DEF Beneath
    <2>2. Cardinality(Beneath(a, l, gs, i)) <= Cardinality(Beneath(a, l, hs, i))
      BY <1>1, <2>1, FewerThan
    <2> QED BY <2>2, BelowIs
  <1>3. Below(a, l, gs) \in Counts /\ Below(a, l, hs) \in Counts
    BY BelowIs
  <1> QED BY <1>2, <1>3, UsedStays

\* A request that comes down to level j or below it, with a row open no higher.
LEMMA LevelPaid ==
    ASSUME NEW S, Triangle(S), NEW a \in Nat, NEW b \in Nat, NEW l \in Locks, NEW m \in Locks,
           NEW gs \in [Guessers -> Guess], NEW g \in Guessers, NEW r \in Guess,
           NEW j \in 0..MaxPinAttempts, j + 1 <= Level(a, l, gs[g]),
           Level(b, m, r) <= j, Open(b, m) <= j
    PROVE  /\ Used(S, Below(a, l, gs)) <= Used(S, Below(b, m, [gs EXCEPT ![g] = r]))
           /\ j # MaxPinAttempts =>
                Used(S, Below(a, l, gs)) + 1 <= Used(S, Below(b, m, [gs EXCEPT ![g] = r]))
  <1> PICK hs : hs = [gs EXCEPT ![g] = r]
    OBVIOUS
  <1> PICK c, d : c = Below(a, l, gs) /\ d = Below(b, m, hs)
    OBVIOUS
  <1>1. c \in Counts /\ d \in Counts /\ MaxPinAttempts \in Nat
    BY BelowIs, AtOnceIs
  <1>2. \A i \in 0..MaxPinAttempts : /\ c[i] = Cardinality(Beneath(a, l, gs, i))
                                     /\ d[i] = Cardinality(Beneath(b, m, hs, i))
    BY BelowIs
  <1>3. \A i : Beneath(a, l, gs, i) \in SUBSET Guessers /\ Beneath(b, m, hs, i) \in SUBSET Guessers
    BY DEF Beneath
  <1>4. \A h \in Guessers : Level(a, l, gs[h]) \in Nat /\ Level(b, m, hs[h]) \in Nat
    BY LevelIs, AtOnceIs
  <1>5. ASSUME NEW i \in 0..MaxPinAttempts, i >= j
        PROVE  Beneath(a, l, gs, i) \subseteq Beneath(b, m, hs, i)
    <2> SUFFICES ASSUME NEW h \in Guessers, Level(a, l, gs[h]) <= i PROVE Level(b, m, hs[h]) <= i
      BY DEF Beneath
    <2>1. CASE h = g
      <3>1. hs[h] = r
        BY <2>1
      <3>2. Level(b, m, hs[h]) <= j
        BY <3>1
      <3> QED BY <1>4, <1>5, <3>2
    <2>2. CASE h # g
      <3>1. hs[h] = gs[h] /\ gs[h] \in Guess
        BY <2>2
      <3>2. Level(b, m, hs[h]) <= Level(a, l, gs[h]) \/ Level(b, m, hs[h]) = Open(b, m)
        BY <3>1, LevelMoves
      <3> QED BY <1>4, <1>5, <3>2
    <2> QED BY <2>1, <2>2
  <1>6. c[j] + 1 <= d[j]
    <2>1. Beneath(a, l, gs, j) \subseteq Beneath(b, m, hs, j)
      <3>1. j >= j
        OBVIOUS
      <3> QED BY ONLY <1>5, <3>1, j \in 0..MaxPinAttempts
    <2>2. hs[g] = r
      OBVIOUS
    <2>3. g \in Beneath(b, m, hs, j)
      BY <2>2 DEF Beneath
    <2>4. ~(Level(a, l, gs[g]) <= j)
      BY <1>4
    <2>5. g \notin Beneath(a, l, gs, j)
      BY <2>4 DEF Beneath
    <2>6. Cardinality(Beneath(a, l, gs, j)) + 1 <= Cardinality(Beneath(b, m, hs, j))
      BY <1>3, <2>1, <2>3, <2>5, FewerThan
    <2> QED BY <1>2, <2>6
  <1>7. ASSUME NEW i \in 0..MaxPinAttempts, i > j PROVE c[i] <= d[i]
    <2>1. Beneath(a, l, gs, i) \subseteq Beneath(b, m, hs, i)
      <3>1. i >= j
        BY <1>7
      <3> QED BY ONLY <1>5, <3>1, i \in 0..MaxPinAttempts
    <2>2. Cardinality(Beneath(a, l, gs, i)) <= Cardinality(Beneath(b, m, hs, i))
      BY <1>3, <2>1, FewerThan
    <2> QED BY <1>2, <2>2
  <1>8. ASSUME NEW i \in 0..MaxPinAttempts, i < j PROVE c[i] <= c[j]
    <2>1. Beneath(a, l, gs, i) \subseteq Beneath(a, l, gs, j)
      BY <1>4, <1>8 DEF Beneath
    <2>2. Cardinality(Beneath(a, l, gs, i)) <= Cardinality(Beneath(a, l, gs, j))
      BY <1>3, <2>1, FewerThan
    <2> QED BY <1>2, <2>2
  <1> QED BY <1>1, <1>6, <1>7, <1>8, UsedRises

-----------------------------------------------------------------------------
LEMMA AtLeastOne ==
    AtOnce \in Nat /\ AtOnce >= 1 /\ MaxPinAttempts \in Nat /\ MaxPinAttempts >= 1 /\ Stale \in Nat
  <1>1. Cardinality(Guessers) # 0
    BY PinAssumption, FS_EmptySet
  <1> QED BY <1>1, AtOnceIs DEF AtOnce, Stale

LEMMA LowIs == ASSUME NEW gs PROVE Cardinality(Low(gs)) \in 0..AtOnce
  <1>1. Low(gs) \in SUBSET Guessers
    BY DEF Low
  <1> QED BY <1>1, FewerThan

LEMMA PotIs ==
    ASSUME NEW a \in Nat, NEW gs \in [Guessers -> Guess]
    PROVE  Pot(a, gs) \in Nat /\ Pot(a, gs) <= Stale
  <1> PICK k : k = Cardinality(Low(gs))
    OBVIOUS
  <1>1. k \in 0..AtOnce
    BY LowIs
  <1>2. MaxPinAttempts = 1 => k = 0
    <2> SUFFICES ASSUME MaxPinAttempts = 1, k # 0 PROVE FALSE
      OBVIOUS
    <2>1. PICK g : g \in Low(gs)
      BY FS_EmptySet
    <2>2. gs[g] \in Guess /\ gs[g].seen + 1 < 1
      BY <2>1 DEF Low
    <2> QED BY <2>2, GuessIs
  <1>3. Pot(a, gs) = IF a < MaxPinAttempts - 1 THEN (MaxPinAttempts - 1 - a) + (AtOnce - 1) ELSE k
    BY DEF Pot
  <1> QED BY <1>1, <1>2, <1>3, AtLeastOne DEF Stale

\* A request whose record no longer is a low one.
LEMMA PotStays ==
    ASSUME NEW a \in Nat, NEW gs \in [Guessers -> Guess], NEW g \in Guessers, NEW r \in Guess,
           r.pc = "compare" => r.seen = a
    PROVE  Pot(a, [gs EXCEPT ![g] = r]) <= Pot(a, gs)
  <1> PICK hs : hs = [gs EXCEPT ![g] = r]
    OBVIOUS
  <1> PICK k, n : k = Cardinality(Low(gs)) /\ n = Cardinality(Low(hs))
    OBVIOUS
  <1>1. k \in 0..AtOnce /\ n \in 0..AtOnce
    BY LowIs
  <1>2. CASE a < MaxPinAttempts - 1
    <2>1. Pot(a, hs) = Pot(a, gs)
      BY <1>2 DEF Pot
    <2> QED BY <2>1, PotIs
  <1>3. CASE ~(a < MaxPinAttempts - 1)
    <2>1. Low(hs) \subseteq Low(gs)
      <3> SUFFICES ASSUME NEW h \in Low(hs) PROVE h \in Low(gs)
        OBVIOUS
      <3>1. h \in Guessers /\ hs[h].pc = "compare" /\ hs[h].seen + 1 < MaxPinAttempts
        BY DEF Low
      <3>2. CASE h = g
        <4>1. hs[h] = r
          BY <3>2
        <4>2. a + 1 < MaxPinAttempts
          BY <3>1, <4>1
        <4> QED BY <1>3, <4>2, AtLeastOne
      <3>3. CASE h # g
        <4>1. hs[h] = gs[h]
          BY <3>1, <3>3
        <4> QED BY <3>1, <4>1 DEF Low
      <3> QED BY <3>2, <3>3
    <2>2. Low(hs) \in SUBSET Guessers /\ Low(gs) \in SUBSET Guessers
      BY DEF Low
    <2>3. n <= k
      BY <2>1, <2>2, FewerThan
    <2> QED BY <1>3, <2>3 DEF Pot
  <1> QED BY <1>2, <1>3

\* A wrong PIN of a request that has read a low counter, counted in the row.
LEMMA PotPays ==
    ASSUME NEW a \in Nat, NEW gs \in [Guessers -> Guess], NEW g \in Low(gs)
    PROVE  Pot(a + 1, [gs EXCEPT ![g] = NoGuess]) + 1 <= Pot(a, gs)
  <1> PICK hs : hs = [gs EXCEPT ![g] = NoGuess]
    OBVIOUS
  <1> PICK k, n : k = Cardinality(Low(gs)) /\ n = Cardinality(Low(hs))
    OBVIOUS
  <1>1. k \in 0..AtOnce /\ n \in 0..AtOnce
    BY LowIs
  <1>2. g \in Guessers /\ hs[g].pc = "idle" /\ \A h \in Guessers : h # g => hs[h] = gs[h]
    BY EndedGuess DEF Low
  <1>3. /\ Low(hs) \in SUBSET Guessers /\ Low(gs) \in SUBSET Guessers
        /\ Low(hs) \subseteq Low(gs) /\ g \notin Low(hs)
    BY <1>2 DEF Low
  <1>4. n + 1 <= k
    BY <1>3, FewerThan
  <1>5. n + 1 <= AtOnce
    BY ONLY <1>1, <1>4, AtLeastOne
  <1>6. /\ Pot(a, gs) = IF a < MaxPinAttempts - 1 THEN (MaxPinAttempts - 1 - a) + (AtOnce - 1) ELSE k
        /\ Pot(a + 1, hs) = IF a + 1 < MaxPinAttempts - 1
                            THEN (MaxPinAttempts - 1 - (a + 1)) + (AtOnce - 1) ELSE n
    BY DEF Pot
  <1>7. Pot(a + 1, hs) + 1 <= Pot(a, gs)
    BY ONLY <1>1, <1>4, <1>5, <1>6, AtLeastOne, a \in Nat
  <1> QED BY <1>7

-----------------------------------------------------------------------------
\* A request reads the row while no lock is ahead.
LEMMA ReadStays ==
    ASSUME NEW S, Triangle(S), NEW a \in Nat, NEW l \in Locks, NEW gs \in [Guessers -> Guess],
           NEW g \in Guessers, NEW r \in Guess, l # "ahead", gs[g].pc = "idle",
           r.pc = "compare", r.seen = a
    PROVE  Used(S, Below(a, l, gs)) <= Used(S, Below(a, l, [gs EXCEPT ![g] = r]))
  <1>1. Level(a, l, gs[g]) = Open(a, l) /\ Open(a, l) = LevelOf(a)
    BY LevelIs, OpenIs
  <1>2. Level(a, l, r) \in {LevelOf(r.seen), Open(a, l)} /\ Level(a, l, r) \in Nat
    BY LevelIs, AtOnceIs
  <1>3. Level(a, l, r) <= Level(a, l, gs[g])
    BY <1>1, <1>2
  <1> QED BY <1>3, LevelsStay

\* A request ends without a write.
LEMMA EndStays ==
    ASSUME NEW S, Triangle(S), NEW a \in Nat, NEW l \in Locks, NEW gs \in [Guessers -> Guess],
           NEW g \in Guessers
    PROVE  Used(S, Below(a, l, gs)) <= Used(S, Below(a, l, [gs EXCEPT ![g] = NoGuess]))
  <1>1. Level(a, l, NoGuess) = Open(a, l) /\ Open(a, l) <= Level(a, l, gs[g])
    BY EndedGuess, LevelIs
  <1>2. Level(a, l, NoGuess) <= Level(a, l, gs[g])
    BY <1>1
  <1> QED BY <1>2, EndedGuess, LevelsStay

\* ClearExpired: everyone is on the highest level again, but one has come to it.
LEMMA ClearStays ==
    ASSUME NEW S, Triangle(S), NEW a \in Nat, NEW l \in Locks, NEW gs \in [Guessers -> Guess],
           NEW g \in Guessers, NEW r \in Guess, gs[g].pc = "clear", r.pc = "compare"
    PROVE  Used(S, Below(a, l, gs)) <= Used(S, Below(0, "null", [gs EXCEPT ![g] = r]))
  <1>1. Level(a, l, gs[g]) = MaxPinAttempts + 1 /\ MaxPinAttempts \in Nat
    BY LevelIs, AtOnceIs
  <1>2. "null" \in Locks /\ 0 \in Nat
    BY DEF Locks
  <1>3. Level(0, "null", r) <= MaxPinAttempts /\ Open(0, "null") <= MaxPinAttempts
    BY <1>1, <1>2, LevelIs, OpenIs
  <1>4. MaxPinAttempts \in 0..MaxPinAttempts /\ MaxPinAttempts + 1 <= Level(a, l, gs[g])
    BY <1>1
  <1> QED BY <1>2, <1>3, <1>4, LevelPaid

\* The wrong PIN that locks.
LEMMA LockPaid ==
    ASSUME NEW S, Triangle(S), NEW a \in Nat, NEW b \in Nat, NEW l \in Locks,
           NEW gs \in [Guessers -> Guess], NEW g \in Guessers, gs[g].pc = "compare"
    PROVE  Used(S, Below(a, l, gs)) + 1 <= Used(S, Below(b, "ahead", [gs EXCEPT ![g] = NoGuess]))
  <1>1. "ahead" \in Locks
    BY DEF Locks
  <1>2. LevelOf(gs[g].seen) <= Level(a, l, gs[g]) /\ Level(a, l, gs[g]) \in Nat
    BY LevelIs, AtOnceIs
  <1>3. LevelOf(gs[g].seen) \in 1..MaxPinAttempts
    BY GuessIs, LevelOfIs
  <1>4. Open(b, "ahead") = 0 /\ Level(b, "ahead", NoGuess) = 0
    BY <1>1, EndedGuess, OpenIs, LevelIs
  <1>5. /\ 0 \in 0..MaxPinAttempts /\ 0 # MaxPinAttempts /\ 0 + 1 <= Level(a, l, gs[g])
        /\ Level(b, "ahead", NoGuess) <= 0 /\ Open(b, "ahead") <= 0
    BY <1>2, <1>3, <1>4, AtOnceIs
  <1> QED BY <1>1, <1>5, EndedGuess, LevelPaid

\* IncrementFailedPinAttempts: the counter in the row goes up by one.
LEMMA CountPaid ==
    ASSUME NEW S, Triangle(S), NEW a \in Nat, NEW l \in Locks, NEW gs \in [Guessers -> Guess],
           NEW g \in Low(gs)
    PROVE  Used(S, Below(a, l, gs)) + 1 <= Used(S, Below(a + 1, l, [gs EXCEPT ![g] = NoGuess]))
  <1> PICK o, v, w, p : /\ o = Level(a, l, gs[g]) /\ v = LevelOf(gs[g].seen)
                        /\ w = LevelOf(a) /\ p = LevelOf(a + 1)
    OBVIOUS
  <1>1. g \in Guessers /\ gs[g] \in Guess /\ gs[g].pc = "compare" /\ gs[g].seen + 1 < MaxPinAttempts
    BY DEF Low
  <1>2. /\ v \in 1..MaxPinAttempts /\ v >= 2 /\ w \in 1..MaxPinAttempts /\ p \in 1..MaxPinAttempts
        /\ p = 1 \/ p = w - 1
    BY <1>1, GuessIs, LevelOfIs
  <1>3. o \in Nat /\ o <= MaxPinAttempts /\ v <= o /\ Open(a, l) <= o
    BY <1>1, LevelIs, AtOnceIs
  <1>4. PICK j \in 0..MaxPinAttempts : j + 1 = o /\ j # MaxPinAttempts
    <2>1. o - 1 \in 0..MaxPinAttempts /\ (o - 1) + 1 = o /\ o - 1 # MaxPinAttempts
      BY <1>2, <1>3, AtOnceIs
    <2> QED BY <2>1
  <1>5. Open(a + 1, l) <= j
    <2>1. CASE l = "ahead"
      BY <2>1, OpenIs
    <2>2. CASE l # "ahead"
      <3>1. Open(a, l) = w /\ Open(a + 1, l) = p
        BY <2>2, OpenIs
      <3>2. p <= j
        BY <1>2, <1>3, <1>4, <3>1
      <3> QED BY <3>1, <3>2
    <2> QED BY <2>1, <2>2
  <1>6. Level(a + 1, l, NoGuess) = Open(a + 1, l) /\ a + 1 \in Nat
    BY EndedGuess, LevelIs
  <1>7. j + 1 <= Level(a, l, gs[g]) /\ Level(a + 1, l, NoGuess) <= j
    BY <1>3, <1>4, <1>5, <1>6
  <1> QED BY <1>1, <1>4, <1>5, <1>6, <1>7, EndedGuess, LevelPaid

\* UpdateTransactionPinAttempts: the counter becomes what was read, plus one.
LEMMA WritePaid ==
    ASSUME NEW S, Triangle(S), NEW a \in Nat, NEW l \in Locks, NEW gs \in [Guessers -> Guess],
           NEW g \in Low(gs)
    PROVE  Used(S, Below(a, l, gs)) + 1
             <= Used(S, Below(gs[g].seen + 1, "null", [gs EXCEPT ![g] = NoGuess]))
  <1> PICK s, b, v, j : /\ s = gs[g].seen /\ b = s + 1
                        /\ v = LevelOf(s) /\ j = LevelOf(s + 1)
    OBVIOUS
  <1>1. g \in Guessers /\ gs[g] \in Guess /\ gs[g].pc = "compare" /\ s + 1 < MaxPinAttempts
    BY DEF Low
  <1>2. s \in Nat /\ b \in Nat /\ "null" \in Locks /\ "null" # "ahead"
    BY <1>1, GuessIs DEF Locks
  <1>3. v \in 1..MaxPinAttempts /\ j \in 1..MaxPinAttempts /\ j = v - 1
    BY <1>1, <1>2, LevelOfIs
  <1>4. v <= Level(a, l, gs[g]) /\ Level(a, l, gs[g]) \in Nat
    BY <1>1, LevelIs, AtOnceIs
  <1>5. Open(b, "null") = j /\ Level(b, "null", NoGuess) = j
    BY <1>2, EndedGuess, OpenIs, LevelIs
  <1>6. /\ j \in 0..MaxPinAttempts /\ j # MaxPinAttempts /\ j + 1 <= Level(a, l, gs[g])
        /\ Level(b, "null", NoGuess) <= j /\ Open(b, "null") <= j
    BY <1>3, <1>4, <1>5, AtOnceIs
  <1>7. Used(S, Below(a, l, gs)) + 1 <= Used(S, Below(b, "null", [gs EXCEPT ![g] = NoGuess]))
    BY <1>1, <1>2, <1>6, EndedGuess, LevelPaid
  <1> QED BY <1>7

\* Once the lock is set, a request that has ended is on no level at all.
LEMMA LockedUsed ==
    ASSUME NEW S, Triangle(S), NEW b \in Nat, NEW gs \in [Guessers -> Guess], NEW g \in Guessers,
           gs[g].pc = "idle"
    PROVE  Used(S, Below(b, "ahead", gs)) >= 1
  <1>1. "ahead" \in Locks /\ gs[g] \in Guess
    BY DEF Locks
  <1>2. Level(b, "ahead", gs[g]) = 0
    BY <1>1, OpenIs, LevelIs
  <1>3. g \in Beneath(b, "ahead", gs, 0) /\ Beneath(b, "ahead", gs, 0) \in SUBSET Guessers
    BY <1>2 DEF Beneath
  <1>4. Cardinality({}) + 1 <= Cardinality(Beneath(b, "ahead", gs, 0))
    BY <1>3, FewerThan
  <1>5. Cardinality({}) = 0
    BY FS_EmptySet
  <1>6. 0 \in 0..MaxPinAttempts
    BY AtOnceIs
  <1>7. Below(b, "ahead", gs)[0] >= 1 /\ Below(b, "ahead", gs) \in Counts
    BY <1>4, <1>5, <1>6, BelowIs
  <1> QED BY <1>7, SomeUsed

-----------------------------------------------------------------------------
LEMMA PinTypeKept == PinTypeOK /\ [NextPin]_pinVars => PinTypeOK'
  <1> SUFFICES ASSUME PinTypeOK, [NextPin]_pinVars PROVE PinTypeOK'
    OBVIOUS
  <1>1. CASE UNCHANGED pinVars
    BY <1>1 DEF pinVars, PinTypeOK
  <1>2. CASE LockExpires
    BY <1>2 DEF LockExpires, PinTypeOK
  <1>3. CASE \E g \in Guessers : CheckPin(g)
    <2> PICK g \in Guessers : CheckPin(g)
      BY <1>3
    <2>1. guess[g] \in Guess /\ guess[g].seen + 1 \in Nat /\ attempts + 1 \in Nat /\ wrongs + 1 \in Nat
      BY DEF PinTypeOK, Guess
    <2>2. ASSUME NEW r \in Guess, guess' = [guess EXCEPT ![g] = r]
          PROVE  guess' \in [Guessers -> Guess]
      BY <2>2 DEF PinTypeOK
    <2>3. CASE ReadRow(g)
      <3>1. [pc |-> "compare", by |-> "verifier", seen |-> attempts, dirty |-> FALSE] \in Guess
        BY DEF PinTypeOK, Guess
      <3> QED BY <2>2, <2>3, <3>1 DEF ReadRow, PinTypeOK
    <2>4. CASE ReadRowForLoan(g)
      <3>1. [pc |-> IF lock = "past" /\ attempts > 0 THEN "clear" ELSE "compare",
             by |-> "loan", seen |-> attempts, dirty |-> attempts > 0 \/ lock = "past"] \in Guess
        BY DEF PinTypeOK, Guess
      <3> QED BY <2>2, <2>4, <3>1 DEF ReadRowForLoan, PinTypeOK
    <2>5. CASE ClearExpired(g)
      <3>1. [pc |-> "compare", by |-> "loan", seen |-> 0, dirty |-> FALSE] \in Guess
        BY DEF Guess
      <3> QED BY <2>2, <2>5, <3>1 DEF ClearExpired, PinTypeOK
    <2>6. CASE WrongPin(g)
      BY <2>1, <2>2, <2>6, EndedGuess DEF WrongPin, AnswerGuess, PinTypeOK
    <2>7. CASE WrongPinForLoan(g)
      BY <2>1, <2>2, <2>7, EndedGuess DEF WrongPinForLoan, AnswerGuess, PinTypeOK
    <2>8. CASE RightPin(g)
      BY <2>2, <2>8, EndedGuess DEF RightPin, AnswerGuess, PinTypeOK
    <2>9. CASE RightPinForLoan(g)
      BY <2>2, <2>9, EndedGuess DEF RightPinForLoan, AnswerGuess, PinTypeOK
    <2>10. CASE GuessLost(g)
      BY <2>2, <2>10, EndedGuess DEF GuessLost, AnswerGuess, PinTypeOK
    <2> QED BY <2>3, <2>4, <2>5, <2>6, <2>7, <2>8, <2>9, <2>10 DEF CheckPin
  <1> QED BY <1>1, <1>2, <1>3 DEF NextPin

\* A step from a row whose lock has not gone by: it adds to the wrong PINs what
\* it adds to Used, or ends the count.
LEMMA StepPays ==
    ASSUME NEW S, Triangle(S), PinTypeOK, PinTypeOK', NEW g \in Guessers, CheckPin(g),
           lock # "past"
    PROVE  /\ lock' # "past"
           /\ \/ wrongs' = 0
              \/ wrongs' = wrongs /\ Used(S, Below(attempts, lock, guess))
                                      <= Used(S, Below(attempts', lock', guess'))
              \/ wrongs' = wrongs + 1 /\ Used(S, Below(attempts, lock, guess)) + 1
                                          <= Used(S, Below(attempts', lock', guess'))
  <1>1. /\ attempts \in Nat /\ lock \in Locks /\ guess \in [Guessers -> Guess] /\ wrongs \in Nat
        /\ attempts' \in Nat /\ lock' \in Locks /\ guess' \in [Guessers -> Guess] /\ wrongs' \in Nat
    BY DEF PinTypeOK, Locks
  <1>2. CASE ReadRow(g)
    <2>1. PICK r \in Guess :
              /\ r.pc = "compare" /\ r.seen = attempts /\ wrongs' = wrongs
              /\ attempts' = attempts /\ lock' = lock /\ guess' = [guess EXCEPT ![g] = r]
              /\ lock # "ahead" /\ guess[g].pc = "idle"
      BY <1>1, <1>2 DEF ReadRow, Guess
    <2>2. Used(S, Below(attempts, lock, guess))
            <= Used(S, Below(attempts, lock, [guess EXCEPT ![g] = r]))
      BY <1>1, <2>1, ReadStays
    <2> QED BY <2>1, <2>2
  <1>3. CASE ReadRowForLoan(g)
    <2>1. PICK r \in Guess :
              /\ r.seen = attempts
              /\ r.pc = "compare" \/ (r.pc = "clear" /\ lock = "past")
              /\ attempts' = attempts /\ lock' = lock /\ guess' = [guess EXCEPT ![g] = r]
              /\ lock # "ahead" /\ guess[g].pc = "idle" /\ wrongs' = wrongs
      <3> DEFINE got == [pc |-> IF lock = "past" /\ attempts > 0 THEN "clear" ELSE "compare",
                         by |-> "loan", seen |-> attempts,
                         dirty |-> attempts > 0 \/ lock = "past"]
      <3>1. got \in Guess /\ got.seen = attempts
        BY <1>1 DEF Guess
      <3>2. got.pc = "compare" \/ (got.pc = "clear" /\ lock = "past")
        OBVIOUS
      <3>3. /\ attempts' = attempts /\ lock' = lock /\ guess' = [guess EXCEPT ![g] = got]
            /\ lock # "ahead" /\ guess[g].pc = "idle" /\ wrongs' = wrongs
        BY <1>3 DEF ReadRowForLoan
      <3> HIDE DEF got
      <3> QED BY <3>1, <3>2, <3>3
    <2>2. Used(S, Below(attempts, lock, guess))
            <= Used(S, Below(attempts, lock, [guess EXCEPT ![g] = r]))
      BY <1>1, <2>1, ReadStays
    <2> QED BY <2>1, <2>2
  <1>4. CASE ClearExpired(g)
    <2>1. PICK r \in Guess :
              /\ r.pc = "compare" /\ guess' = [guess EXCEPT ![g] = r] /\ wrongs' = wrongs
              /\ attempts' = 0 /\ lock' = "null" /\ guess[g].pc = "clear"
      BY <1>4 DEF ClearExpired, GuessAt, Guess
    <2>2. Used(S, Below(attempts, lock, guess))
            <= Used(S, Below(0, "null", [guess EXCEPT ![g] = r]))
      BY <1>1, <2>1, ClearStays
    <2> QED BY <2>1, <2>2
  <1>5. CASE WrongPin(g)
    <2>1. /\ wrongs' = wrongs + 1 /\ guess[g].pc = "compare"
          /\ guess' = [guess EXCEPT ![g] = NoGuess]
      BY <1>5 DEF WrongPin, GuessAt, AnswerGuess
    <2>2. CASE LastAttempt(g)
      <3>1. attempts' = 0 /\ lock' = "ahead"
        BY <1>5, <2>2 DEF WrongPin
      <3>2. Used(S, Below(attempts, lock, guess)) + 1
              <= Used(S, Below(0, "ahead", [guess EXCEPT ![g] = NoGuess]))
        BY <1>1, <2>1, LockPaid
      <3> QED BY <2>1, <3>1, <3>2
    <2>3. CASE ~LastAttempt(g)
      <3>1. attempts' = attempts + 1 /\ lock' = lock
        BY <1>5, <2>3 DEF WrongPin
      <3>2. g \in Low(guess)
        BY <1>1, <2>1, <2>3, GuessIs, AtOnceIs DEF LastAttempt, Low
      <3>3. Used(S, Below(attempts, lock, guess)) + 1
              <= Used(S, Below(attempts + 1, lock, [guess EXCEPT ![g] = NoGuess]))
        BY <1>1, <3>2, CountPaid
      <3> QED BY <2>1, <3>1, <3>3
    <2> QED BY <2>2, <2>3
  <1>6. CASE WrongPinForLoan(g)
    <2>1. /\ wrongs' = wrongs + 1 /\ guess[g].pc = "compare" /\ attempts' = guess[g].seen + 1
          /\ guess' = [guess EXCEPT ![g] = NoGuess]
      BY <1>6 DEF WrongPinForLoan, GuessAt, AnswerGuess
    <2>2. CASE LastAttempt(g)
      <3>1. lock' = "ahead"
        BY <1>6, <2>2 DEF WrongPinForLoan
      <3>2. Used(S, Below(attempts, lock, guess)) + 1
              <= Used(S, Below(attempts', "ahead", [guess EXCEPT ![g] = NoGuess]))
        BY <1>1, <2>1, LockPaid
      <3> QED BY <2>1, <3>1, <3>2
    <2>3. CASE ~LastAttempt(g)
      <3>1. lock' = "null"
        BY <1>6, <2>3 DEF WrongPinForLoan
      <3>2. g \in Low(guess)
        BY <1>1, <2>1, <2>3, GuessIs, AtOnceIs DEF LastAttempt, Low
      <3>3. Used(S, Below(attempts, lock, guess)) + 1
              <= Used(S, Below(guess[g].seen + 1, "null", [guess EXCEPT ![g] = NoGuess]))
        BY <1>1, <3>2, WritePaid
      <3> QED BY <2>1, <3>1, <3>3
    <2> QED BY <2>2, <2>3
  <1>7. CASE RightPin(g)
    BY <1>7 DEF RightPin
  <1>8. CASE RightPinForLoan(g)
    <2>1. CASE guess[g].dirty
      BY <1>8, <2>1 DEF RightPinForLoan
    <2>2. CASE ~guess[g].dirty
      <3>1. /\ wrongs' = wrongs /\ attempts' = attempts /\ lock' = lock
            /\ guess' = [guess EXCEPT ![g] = NoGuess]
        BY <1>8, <2>2 DEF RightPinForLoan, AnswerGuess
      <3>2. Used(S, Below(attempts, lock, guess))
              <= Used(S, Below(attempts, lock, [guess EXCEPT ![g] = NoGuess]))
        BY <1>1, EndStays
      <3> QED BY <3>1, <3>2
    <2> QED BY <2>1, <2>2
  <1>9. CASE GuessLost(g)
    <2>1. /\ wrongs' = wrongs /\ attempts' = attempts /\ lock' = lock
          /\ guess' = [guess EXCEPT ![g] = NoGuess]
      BY <1>9 DEF GuessLost, AnswerGuess
    <2>2. Used(S, Below(attempts, lock, guess))
            <= Used(S, Below(attempts, lock, [guess EXCEPT ![g] = NoGuess]))
      BY <1>1, EndStays
    <2> QED BY <2>1, <2>2
  <1> QED BY <1>2, <1>3, <1>4, <1>5, <1>6, <1>7, <1>8, <1>9 DEF CheckPin

\* A step from a row whose lock has gone by.
LEMMA StepStale ==
    ASSUME PinTypeOK, PinTypeOK', NEW g \in Guessers, CheckPin(g), lock = "past"
    PROVE  \/ wrongs' = 0 /\ lock' # "past"
           \/ lock' = "past" /\ wrongs' = wrongs /\ Pot(attempts', guess') <= Pot(attempts, guess)
           \/ lock' = "past" /\ wrongs' = wrongs + 1
              /\ Pot(attempts', guess') + 1 <= Pot(attempts, guess)
           \/ lock' = "null" /\ wrongs' = wrongs
           \/ lock' = "null" /\ wrongs' = wrongs + 1 /\ Pot(attempts, guess) >= 1
           \/ lock' = "ahead" /\ wrongs' = wrongs + 1 /\ guess'[g].pc = "idle"
  <1>1. /\ attempts \in Nat /\ lock \in Locks /\ guess \in [Guessers -> Guess] /\ wrongs \in Nat
        /\ attempts' \in Nat /\ lock' \in Locks /\ guess' \in [Guessers -> Guess] /\ wrongs' \in Nat
    BY DEF PinTypeOK, Locks
  <1>2. CASE ReadRow(g)
    <2>1. PICK r \in Guess :
              /\ r.pc = "compare" /\ r.seen = attempts /\ wrongs' = wrongs
              /\ attempts' = attempts /\ lock' = lock /\ guess' = [guess EXCEPT ![g] = r]
              /\ lock # "ahead" /\ guess[g].pc = "idle"
      BY <1>1, <1>2 DEF ReadRow, Guess
    <2>2. Pot(attempts, [guess EXCEPT ![g] = r]) <= Pot(attempts, guess)
      BY <1>1, <2>1, PotStays
    <2> QED BY <2>1, <2>2
  <1>3. CASE ReadRowForLoan(g)
    <2>1. PICK r \in Guess :
              /\ r.seen = attempts
              /\ r.pc = "compare" \/ (r.pc = "clear" /\ lock = "past")
              /\ attempts' = attempts /\ lock' = lock /\ guess' = [guess EXCEPT ![g] = r]
              /\ lock # "ahead" /\ guess[g].pc = "idle" /\ wrongs' = wrongs
      <3> DEFINE got == [pc |-> IF lock = "past" /\ attempts > 0 THEN "clear" ELSE "compare",
                         by |-> "loan", seen |-> attempts,
                         dirty |-> attempts > 0 \/ lock = "past"]
      <3>1. got \in Guess /\ got.seen = attempts
        BY <1>1 DEF Guess
      <3>2. got.pc = "compare" \/ (got.pc = "clear" /\ lock = "past")
        OBVIOUS
      <3>3. /\ attempts' = attempts /\ lock' = lock /\ guess' = [guess EXCEPT ![g] = got]
            /\ lock # "ahead" /\ guess[g].pc = "idle" /\ wrongs' = wrongs
        BY <1>3 DEF ReadRowForLoan
      <3> HIDE DEF got
      <3> QED BY <3>1, <3>2, <3>3
    <2>2. Pot(attempts, [guess EXCEPT ![g] = r]) <= Pot(attempts, guess)
      BY <1>1, <2>1, PotStays
    <2> QED BY <2>1, <2>2
  <1>4. CASE ClearExpired(g)
    BY <1>4 DEF ClearExpired
  <1>5. CASE WrongPin(g)
    <2>1. /\ wrongs' = wrongs + 1 /\ guess[g].pc = "compare"
          /\ guess' = [guess EXCEPT ![g] = NoGuess] /\ guess'[g].pc = "idle"
      BY <1>1, <1>5, EndedGuess DEF WrongPin, GuessAt, AnswerGuess
    <2>2. CASE LastAttempt(g)
      BY <1>5, <2>1, <2>2 DEF WrongPin
    <2>3. CASE ~LastAttempt(g)
      <3>1. attempts' = attempts + 1 /\ lock' = lock
        BY <1>5, <2>3 DEF WrongPin
      <3>2. g \in Low(guess)
        BY <1>1, <2>1, <2>3, GuessIs, AtOnceIs DEF LastAttempt, Low
      <3>3. Pot(attempts + 1, [guess EXCEPT ![g] = NoGuess]) + 1 <= Pot(attempts, guess)
        BY <1>1, <3>2, PotPays
      <3> QED BY <2>1, <3>1, <3>3
    <2> QED BY <2>2, <2>3
  <1>6. CASE WrongPinForLoan(g)
    <2>1. /\ wrongs' = wrongs + 1 /\ guess[g].pc = "compare"
          /\ guess' = [guess EXCEPT ![g] = NoGuess] /\ guess'[g].pc = "idle"
      BY <1>1, <1>6, EndedGuess DEF WrongPinForLoan, GuessAt, AnswerGuess
    <2>2. CASE LastAttempt(g)
      BY <1>6, <2>1, <2>2 DEF WrongPinForLoan
    <2>3. CASE ~LastAttempt(g)
      <3>1. lock' = "null"
        BY <1>6, <2>3 DEF WrongPinForLoan
      <3>2. g \in Low(guess)
        BY <1>1, <2>1, <2>3, GuessIs, AtOnceIs DEF LastAttempt, Low
      <3>3. /\ Pot(attempts + 1, [guess EXCEPT ![g] = NoGuess]) + 1 <= Pot(attempts, guess)
            /\ Pot(attempts + 1, [guess EXCEPT ![g] = NoGuess]) \in Nat /\ Pot(attempts, guess) \in Nat
        <4>1. [guess EXCEPT ![g] = NoGuess] \in [Guessers -> Guess] /\ attempts + 1 \in Nat
          BY <1>1, EndedGuess
        <4> QED BY <1>1, <3>2, <4>1, PotPays, PotIs
      <3>4. Pot(attempts, guess) >= 1
        BY <3>3
      <3> QED BY <2>1, <3>1, <3>4
    <2> QED BY <2>2, <2>3
  <1>7. CASE RightPin(g)
    BY <1>7 DEF RightPin
  <1>8. CASE RightPinForLoan(g)
    <2>1. CASE guess[g].dirty
      BY <1>8, <2>1 DEF RightPinForLoan
    <2>2. CASE ~guess[g].dirty
      <3>1. /\ wrongs' = wrongs /\ attempts' = attempts /\ lock' = lock
            /\ guess' = [guess EXCEPT ![g] = NoGuess]
        BY <1>8, <2>2 DEF RightPinForLoan, AnswerGuess
      <3>2. Pot(attempts, [guess EXCEPT ![g] = NoGuess]) <= Pot(attempts, guess)
        BY <1>1, EndedGuess, PotStays
      <3> QED BY <3>1, <3>2
    <2> QED BY <2>1, <2>2
  <1>9. CASE GuessLost(g)
    <2>1. /\ wrongs' = wrongs /\ attempts' = attempts /\ lock' = lock
          /\ guess' = [guess EXCEPT ![g] = NoGuess]
      BY <1>9 DEF GuessLost, AnswerGuess
    <2>2. Pot(attempts, [guess EXCEPT ![g] = NoGuess]) <= Pot(attempts, guess)
      BY <1>1, EndedGuess, PotStays
    <2> QED BY <2>1, <2>2
  <1> QED BY <1>2, <1>3, <1>4, <1>5, <1>6, <1>7, <1>8, <1>9 DEF CheckPin

LEMMA GuessesStart == ASSUME NEW S, Triangle(S) PROVE InitPin => GuessesCounted(S)
  <1> SUFFICES ASSUME InitPin PROVE GuessesCounted(S)
    OBVIOUS
  <1>1. PinTypeOK
    BY EndedGuess DEF InitPin, PinTypeOK
  <1>2. Used(S, Below(attempts, lock, guess)) \in Nat
    BY BelowIs, UsedBounds
  <1>3. wrongs = 0 /\ lock # "past"
    BY DEF InitPin
  <1> QED BY <1>1, <1>2, <1>3, AtLeastOne DEF GuessesCounted

LEMMA GuessesStep ==
    ASSUME NEW S, Triangle(S), GuessesCounted(S), [NextPin]_pinVars
    PROVE  GuessesCounted(S)'
  <1> PICK used, after : /\ used = Used(S, Below(attempts, lock, guess))
                         /\ after = Used(S, Below(attempts', lock', guess'))
    OBVIOUS
  <1>1. PinTypeOK /\ PinTypeOK'
    BY PinTypeKept DEF GuessesCounted
  <1>2. used \in Nat /\ after \in Nat
    BY BelowIs, UsedBounds
  <1>3. /\ wrongs \in Nat /\ attempts \in Nat /\ guess \in [Guessers -> Guess]
        /\ wrongs' \in Nat /\ attempts' \in Nat /\ guess' \in [Guessers -> Guess] /\ lock' \in Locks
    BY <1>1 DEF PinTypeOK, Locks
  <1>4. /\ Pot(attempts, guess) \in Nat
        /\ Pot(attempts', guess') \in Nat /\ Pot(attempts', guess') <= Stale
    BY <1>3, PotIs
  <1>5. /\ lock = "past" => wrongs + Pot(attempts, guess) <= Stale
        /\ lock # "past" => wrongs <= Stale + used
    BY DEF GuessesCounted
  <1> SUFFICES IF lock' = "past" THEN wrongs' + Pot(attempts', guess') <= Stale
               ELSE wrongs' <= Stale + after
    BY <1>1 DEF GuessesCounted
  <1>6. CASE UNCHANGED pinVars
    <2>1. /\ lock' = lock /\ wrongs' = wrongs /\ attempts' = attempts /\ guess' = guess
          /\ after = used
      BY <1>6 DEF pinVars
    <2> QED BY <1>5, <2>1
  <1>7. CASE LockExpires
    <2>1. wrongs' = 0 /\ lock' = "past"
      BY <1>7 DEF LockExpires
    <2> QED BY <1>4, <2>1
  <1>8. CASE \E g \in Guessers : CheckPin(g)
    <2> PICK g \in Guessers : CheckPin(g)
      BY <1>8
    <2> PICK x, y : x = Pot(attempts, guess) /\ y = Pot(attempts', guess')
      OBVIOUS
    <2>1. CASE lock # "past"
      <3>1. /\ lock' # "past"
            /\ \/ wrongs' = 0
               \/ wrongs' = wrongs /\ used <= after
               \/ wrongs' = wrongs + 1 /\ used + 1 <= after
        BY <1>1, <2>1, StepPays
      <3> QED BY <1>2, <1>3, <1>5, <2>1, <3>1, AtLeastOne
    <2>2. CASE lock = "past"
      <3>1. x \in Nat /\ y \in Nat /\ wrongs + x <= Stale
        BY <1>4, <1>5, <2>2
      <3>2. \/ wrongs' = 0 /\ lock' # "past"
            \/ lock' = "past" /\ wrongs' = wrongs /\ y <= x
            \/ lock' = "past" /\ wrongs' = wrongs + 1 /\ y + 1 <= x
            \/ lock' = "null" /\ wrongs' = wrongs
            \/ lock' = "null" /\ wrongs' = wrongs + 1 /\ x >= 1
            \/ lock' = "ahead" /\ wrongs' = wrongs + 1 /\ guess'[g].pc = "idle"
        BY <1>1, <2>2, StepStale
      <3>3. lock' = "ahead" /\ guess'[g].pc = "idle" => after >= 1
        BY <1>3, LockedUsed
      <3>4. CASE lock' = "past"
        <4>1. (y <= x /\ wrongs' = wrongs) \/ (y + 1 <= x /\ wrongs' = wrongs + 1)
          BY <3>2, <3>4
        <4>2. wrongs \in Nat /\ x \in Nat /\ y \in Nat /\ Stale \in Nat /\ wrongs + x <= Stale
          BY <1>3, <3>1, AtLeastOne
        <4>3. CASE y <= x /\ wrongs' = wrongs
          <5>1. wrongs + y <= Stale
            BY ONLY <4>2, <4>3
          <5> QED BY <3>4, <4>3, <5>1
        <4>4. CASE y + 1 <= x /\ wrongs' = wrongs + 1
          <5>1. (wrongs + 1) + y <= Stale
            BY ONLY <4>2, <4>4
          <5> QED BY <3>4, <4>4, <5>1
        <4> QED BY <4>1, <4>3, <4>4
      <3>5. CASE lock' # "past"
        <4>1. \/ wrongs' = 0
              \/ wrongs' = wrongs
              \/ wrongs' = wrongs + 1 /\ x >= 1
              \/ wrongs' = wrongs + 1 /\ after >= 1
          BY <3>2, <3>3, <3>5
        <4>2. wrongs' <= Stale + after
          BY ONLY <1>2, <1>3, <3>1, <4>1, AtLeastOne
        <4> QED BY <3>5, <4>2
      <3> QED BY <3>4, <3>5
    <2> QED BY <2>1, <2>2
  <1> QED BY <1>6, <1>7, <1>8 DEF NextPin

\* However the requests of one user interleave - in whichever of the two ways each
\* counts, and a loan application may write over what others have counted and over
\* the lock they set - no more wrong PINs are compared between a right one (or a
\* lock sat out) and the next than there are ways to choose attempts + 1 of
\* requests + attempts + 1, and attempts - 3: the 30 that the run reaches, with two
\* requests and five attempts.
THEOREM GuessesBoundedAlways ==
    ASSUME NEW S, Triangle(S),
           WrongInARow + 3 >= S[AtOnce + 1][MaxPinAttempts] + MaxPinAttempts
    PROVE  SpecPin => []GuessesBounded
  <1>1. InitPin => GuessesCounted(S)
    BY GuessesStart
  <1>2. GuessesCounted(S) /\ [NextPin]_pinVars => GuessesCounted(S)'
    BY GuessesStep
  <1>3. GuessesCounted(S) => GuessesBounded
    <2> SUFFICES ASSUME GuessesCounted(S) PROVE wrongs <= WrongInARow
      BY DEF GuessesBounded
    <2> PICK used, top : /\ used = Used(S, Below(attempts, lock, guess))
                         /\ top = S[AtOnce + 1][MaxPinAttempts]
      OBVIOUS
    <2>1. used \in Nat /\ used <= top - 1 - AtOnce
      BY BelowIs, UsedBounds
    <2>2. top \in Nat
      <3>1. AtOnce + 1 \in 0..(AtOnce + 1) /\ MaxPinAttempts \in 0..MaxPinAttempts
        BY AtLeastOne
      <3> QED BY <3>1 DEF Triangle, Pascal
    <2>3. wrongs \in Nat /\ attempts \in Nat /\ guess \in [Guessers -> Guess]
      BY DEF GuessesCounted, PinTypeOK
    <2>4. wrongs <= Stale + used
      <3>1. Pot(attempts, guess) \in Nat
        BY <2>3, PotIs
      <3> QED BY <2>1, <2>3, <3>1, AtLeastOne DEF GuessesCounted
    <2>5. WrongInARow \in Nat /\ WrongInARow + 3 >= top + MaxPinAttempts
      BY PinAssumption
    <2>6. Stale = MaxPinAttempts + AtOnce - 2
      BY DEF Stale
    <2> QED BY ONLY <2>1, <2>2, <2>3, <2>4, <2>5, <2>6, AtLeastOne
  <1> QED BY <1>1, <1>2, <1>3, PTL DEF SpecPin
=============================================================================
