------------------------------ MODULE Refusals ------------------------------
(* How a chain of checks that raise is written: an ordered list of rows     *)
(* <<condition, reason>>, the first true condition of which is the answer.  *)
EXTENDS Naturals, Sequences, FiniteSets, SequenceTheorems, WellFoundedInduction, TLAPS

None == [kind |-> "none"]
Fine == "ACCEPTED"

\* The reason of the first row whose condition holds: the order of the checks.
FirstFault(rows) ==
    IF \E i \in DOMAIN rows : rows[i][1]
    THEN rows[CHOOSE i \in DOMAIN rows :
                rows[i][1] /\ \A j \in 1 .. i - 1 : ~rows[j][1]][2]
    ELSE Fine

\* Checks made one item after the other: the first refusal counts.
FirstRefusal(verdicts) ==
    IF \E i \in DOMAIN verdicts : verdicts[i] # Fine
    THEN verdicts[CHOOSE i \in DOMAIN verdicts :
                    verdicts[i] # Fine /\ \A j \in 1 .. i - 1 : verdicts[j] = Fine]
    ELSE Fine

\* One row for every part of a declaration that may be malformed, in order.
PartRows(wrong, parts) ==
    [i \in DOMAIN parts |-> <<parts[i][1] \in wrong, parts[i][2]>>]

-----------------------------------------------------------------------------
(* What the answer `accepted' of a chain of checks says.                   *)

Then(s, t) == s \o t

(* A sequence of rows, with a reason for refusing in each.                 *)
Chain(rs, n) == rs = [i \in 1 .. n |-> rs[i]] /\ \A i \in 1 .. n : rs[i][2] # Fine
IsChain(rs) == \E n \in Nat : Chain(rs, n)

(* No condition of the chain holds.                                        *)
Clear(rs) == \A i \in DOMAIN rs : ~rs[i][1]

LEMMA ChainThen ==
  ASSUME NEW m \in Nat, NEW n \in Nat, NEW s, NEW t, Chain(s, m), Chain(t, n)
  PROVE  /\ Chain(Then(s, t), m + n)
         /\ \A i \in 1 .. m : Then(s, t)[i] = s[i]
         /\ \A i \in 1 .. n : Then(s, t)[m + i] = t[i]
<1> DEFINE S == {s[i] : i \in 1 .. m} \cup {t[i] : i \in 1 .. n}
<1>1. s \in [1 .. m -> S] /\ t \in [1 .. n -> S]
  BY DEF Chain
<1>2. \A x \in S : x[2] # Fine
  BY DEF Chain
<1> HIDE DEF S
<1>3. s \in Seq(S) /\ t \in Seq(S)
  BY <1>1, SeqDef
<1>4. Len(s) = m /\ Len(t) = n
  BY <1>1, <1>3, LenProperties
<1>5. Then(s, t) \in Seq(S) /\ Len(Then(s, t)) = m + n
  BY <1>3, <1>4, ConcatProperties DEF Then
<1>6. Then(s, t) \in [1 .. m + n -> S]
  BY <1>5, LenProperties
<1>7. \A i \in 1 .. m + n : Then(s, t)[i] = IF i <= m THEN s[i] ELSE t[i - m]
  BY <1>3, <1>4, ConcatProperties DEF Then
<1>8. ASSUME NEW i \in 1 .. n PROVE Then(s, t)[m + i] = t[i]
  <2>1. m + i \in 1 .. m + n /\ ~(m + i <= m) /\ (m + i) - m = i
    OBVIOUS
  <2> QED BY <1>7, <2>1
<1>9. ASSUME NEW i \in 1 .. m PROVE Then(s, t)[i] = s[i]
  <2>1. i \in 1 .. m + n /\ i <= m
    OBVIOUS
  <2> QED BY <1>7, <2>1
<1>10. Chain(Then(s, t), m + n)
  BY <1>2, <1>6 DEF Chain
<1> QED BY <1>8, <1>9, <1>10

(* A chain is accepted when no condition of it holds, and only then: the   *)
(* first that held would be the answer.                                    *)
LEMMA Accepted ==
  ASSUME NEW n \in Nat, NEW rs, Chain(rs, n)
  PROVE  FirstFault(rs) = Fine <=> \A i \in 1 .. n : ~rs[i][1]
<1> DEFINE T == {i \in 1 .. n : rs[i][1]}
<1>1. DOMAIN rs = 1 .. n
  BY DEF Chain
<1>2. CASE T = {}
  BY <1>1, <1>2 DEF FirstFault
<1>3. CASE T # {}
  <2>1. T \subseteq Nat
    OBVIOUS
  <2>2. \E i \in T : \A j \in T : ~(j < i)
    <3> DEFINE R == OpToRel(<, Nat)
    <3>1. IsWellFoundedOn(R, Nat)
      BY NatLessThanWellFounded
    <3>2. \A i, j \in Nat : j < i => <<j, i>> \in R
      BY DEF OpToRel
    <3> HIDE DEF R, T
    <3>3. \E i \in T : \A j \in T : ~(<<j, i>> \in R)
      BY <1>3, <2>1, <3>1, WFMin
    <3> QED BY <2>1, <3>2, <3>3
  <2>3. \E i \in DOMAIN rs : rs[i][1] /\ \A j \in 1 .. i - 1 : ~rs[j][1]
    BY <1>1, <2>2
  <2>4. PICK k \in DOMAIN rs : FirstFault(rs) = rs[k][2]
    BY <2>3 DEF FirstFault
  <2>5. FirstFault(rs) # Fine
    BY <1>1, <2>4 DEF Chain
  <2> QED BY <1>3, <2>5
<1> QED BY <1>2, <1>3

(* Parts of any length.                                                    *)
LEMMA ThenIsChain ==
  \A s, t : IsChain(s) /\ IsChain(t) =>
    IsChain(Then(s, t)) /\ (Clear(Then(s, t)) <=> Clear(s) /\ Clear(t))
<1> SUFFICES ASSUME NEW s, NEW t, NEW m \in Nat, NEW n \in Nat, Chain(s, m), Chain(t, n)
             PROVE  IsChain(Then(s, t)) /\ (Clear(Then(s, t)) <=> Clear(s) /\ Clear(t))
  BY DEF IsChain
<1>1. /\ Chain(Then(s, t), m + n) /\ m + n \in Nat
      /\ \A i \in 1 .. m : Then(s, t)[i] = s[i]
      /\ \A i \in 1 .. n : Then(s, t)[m + i] = t[i]
  BY ChainThen
<1>2. /\ DOMAIN s = 1 .. m /\ DOMAIN t = 1 .. n /\ DOMAIN Then(s, t) = 1 .. m + n
  BY <1>1 DEF Chain
<1>3. \A i \in 1 .. m + n : i \in 1 .. m \/ (i - m \in 1 .. n /\ m + (i - m) = i)
  OBVIOUS
<1>4. (\A i \in 1 .. m : i \in 1 .. m + n) /\ \A i \in 1 .. n : m + i \in 1 .. m + n
  OBVIOUS
<1>5. Clear(Then(s, t)) => Clear(s) /\ Clear(t)
  BY <1>1, <1>2, <1>4 DEF Clear
<1>6. Clear(s) /\ Clear(t) => Clear(Then(s, t))
  BY <1>1, <1>2, <1>3 DEF Clear
<1> QED BY <1>1, <1>5, <1>6 DEF IsChain

LEMMA AcceptedIsClear == \A rs : IsChain(rs) => (FirstFault(rs) = Fine <=> Clear(rs))
<1> SUFFICES ASSUME NEW rs, NEW n \in Nat, Chain(rs, n) PROVE FirstFault(rs) = Fine <=> Clear(rs)
  BY DEF IsChain
<1>1. FirstFault(rs) = Fine <=> \A i \in 1 .. n : ~rs[i][1]
  BY Accepted
<1>2. DOMAIN rs = 1 .. n
  BY DEF Chain
<1> QED BY <1>1, <1>2 DEF Clear

(* A chain of known length is read row by row.                             *)
LEMMA ChainClear ==
  \A rs, n : n \in Nat /\ Chain(rs, n) => IsChain(rs) /\ (Clear(rs) => \A i \in 1 .. n : ~rs[i][1])
BY DEF IsChain, Clear, Chain
=============================================================================
