------------------------------ MODULE CellSpec ------------------------------
(***************************************************************************)
(* The rules of spec.md section 4.4 for scalar normalisation and key       *)
(* inference, stated declaratively (sets and quantifiers, no scans), as    *)
(* references the code's helpers are checked against.                      *)
(***************************************************************************)
EXTENDS CellText

DigitValue(c) == CHOOSE k \in 0..9 : DigitOf[k + 1] = c
Value(d) == FoldLeft(LAMBDA acc, c : 10 * acc + DigitValue(c), 0, d)

\* ^[+-]?\d+(\.0+)$, split at its point.
IntegerFloatForm(t) ==
  \E k \in 1..Len(t) :
    /\ t[k] = "."
    /\ k < Len(t) /\ \A m \in (k + 1)..Len(t) : t[m] = "0"
    /\ LET pre == SubSeq(t, 1, k - 1)
           d   == IF pre # << >> /\ pre[1] \in {"+", "-"} THEN Tail(pre) ELSE pre
       IN  d # << >> /\ \A m \in 1..Len(d) : d[m] \in Digit

\* The canonical integer form of such a string.
CanonicalInteger(t) ==
  LET pre == SubSeq(t, 1, CHOOSE k \in 1..Len(t) : t[k] = "." )
      n   == Value(SelectSeq(pre, LAMBDA c : c \in Digit))
  IN  IF t[1] = "-" /\ n # 0 THEN <<"-">> \o Decimal(n) ELSE Decimal(n)

SpecNormalize(v) ==
  LET t == TrimSpace(v)
  IN  IF Lower(t) \in {<< >>} \cup NullWords THEN << >>
      ELSE IF IntegerFloatForm(t) THEN CanonicalInteger(t)
      ELSE t

\* spec.md 4.4: a column scores +10 if its header contains any keyword, +5
\* if all sampled values are key-like; the highest score wins, the earliest
\* on a tie; columns with a blank or repeated sampled value are out.
SpecGuess(heads, rows) ==
  LET n  == SampleSize(rows, 5)
      Q  == {c \in 1..Len(heads) : Qualifies(rows, n, c)}
      Sc(c) == (IF \E k \in 1..Len(PrimaryKeyCandidates) :
                     HasSubstring(Lower(heads[c]), Lower(PrimaryKeyCandidates[k]))
                THEN 10 ELSE 0)
               + IF \A i \in 1..n : Pkish(TrimSpace(rows[i][c])) THEN 5 ELSE 0
      B  == {c \in Q : \A d \in Q : Sc(d) < Sc(c) \/ (Sc(d) = Sc(c) /\ c <= d)}
  IN  IF B = {} THEN NoColumn ELSE heads[CHOOSE c \in B : TRUE]

=============================================================================
