----------------------------- MODULE DataFacts ------------------------------
(***************************************************************************)
(* Facts about numbers and sequences that the proofs of several modules    *)
(* use.                                                                    *)
(* The library's induction rules take the predicate as a parameter, which  *)
(* the provers cannot instantiate; that every nonempty set of numbers has  *)
(* a least element says the same and needs no parameter.                   *)
(***************************************************************************)
EXTENDS Integers, SequenceTheorems, WellFoundedInduction, TLAPS

\* The rule for arguments by a least counterexample: about each byte of a chunk,
\* or each frame of a stream.
LEMMA NatMin ==
    ASSUME NEW T \in SUBSET Nat, T # {}
    PROVE  \E x \in T : \A y \in T : x <= y
<1> DEFINE R == {ss \in Nat \X Nat : ss[1] < ss[2]}
<1>1. IsWellFoundedOn(R, Nat)
  BY NatLessThanWellFounded, Zenon DEF OpToRel
<1>2. PICK x \in T : \A y \in T : ~ (<<y, x>> \in R)
  <2> HIDE DEF R
  <2> QED BY <1>1, WFMin
<1>3. \A y \in T : ~ (y < x)
  <2> TAKE y \in T
  <2>1. <<y, x>> \in Nat \X Nat /\ <<y, x>>[1] = y /\ <<y, x>>[2] = x
    OBVIOUS
  <2> QED BY <1>2, <2>1
<1> QED BY <1>3

\* Quotient and remainder, as a length is cut into units.
LEMMA DivMod ==
    ASSUME NEW b \in Nat \ {0}, NEW n \in Nat
    PROVE  /\ n % b \in 0..(b - 1) /\ n \div b \in Nat
           /\ n = b * (n \div b) + (n % b)
  OBVIOUS

LEMMA ModSmall == ASSUME NEW b \in Nat \ {0}, NEW n \in 0..(b - 1) PROVE n % b = n
  OBVIOUS

\* A number that two units can say has a first unit.
LEMMA DivSmall ==
    ASSUME NEW b \in Nat \ {0}, NEW n \in 0..(b * b - 1)
    PROVE  n \div b \in 0..(b - 1)
<1> DEFINE q == n \div b
<1>1. q \in Nat /\ n >= b * q
  BY DivMod
<1> HIDE DEF q
<1>2. ASSUME q >= b PROVE FALSE
  <2>1. b * q >= b * b
    BY <1>1, <1>2
  <2>2. b * b \in Nat /\ b * q \in Nat
    BY <1>1
  <2> QED BY <1>1, <2>1, <2>2
<1> QED BY <1>1, <1>2 DEF q

\* Part of a sequence.
LEMMA SliceProperties ==
    ASSUME NEW S, NEW s \in Seq(S), NEW a \in Nat, NEW b \in Nat, a <= b, b <= Len(s)
    PROVE  /\ SubSeq(s, a + 1, b) \in Seq(S) /\ Len(SubSeq(s, a + 1, b)) = b - a
           /\ \A i \in 1..(b - a) : SubSeq(s, a + 1, b)[i] = s[a + i]
<1>1. a + 1 \in Int /\ b \in Int /\ \A i \in (a + 1)..b : s[i] \in S
  OBVIOUS
<1> DEFINE c == a + 1
           t == SubSeq(s, c, b)
<1> HIDE DEF c
<1>2. /\ t \in Seq(S) /\ Len(t) = IF c <= b THEN b - c + 1 ELSE 0
      /\ \A i \in 1..(b - c + 1) : t[i] = s[c + i - 1]
  BY <1>1, SubSeqProperties DEF c
<1> HIDE DEF t
<1>3. Len(t) = b - a /\ \A i \in 1..(b - a) : t[i] = s[a + i]
  BY <1>2 DEF c
<1> QED BY <1>2, <1>3 DEF t, c

=============================================================================
