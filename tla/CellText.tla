------------------------------ MODULE CellText ------------------------------
(***************************************************************************)
(* The text helpers of the diff engine (package excelcmp): scalar          *)
(* normalisation and the predicates behind key guessing (normalize.go),    *)
(* header normalisation (readxlsx.go) and GuessPrimaryKeyColumn            *)
(* (part_007).  A string is a sequence of one-character strings, so that   *)
(* trimming, case folding, scanning and the suffixes appended to headers   *)
(* are modelled by what they do.                                           *)
(*                                                                         *)
(* strconv.ParseFloat is modelled on decimal forms: an optional sign,     *)
(* digits with an optional fraction, or a fraction alone,                 *)
(* plus the NaN / Inf spellings; the cell alphabets of the runs contain no *)
(* exponent, hex or underscore characters, so no other form can occur.     *)
(***************************************************************************)
EXTENDS Integers, Sequences, SequencesExt, FiniteSets, TLC

Space == {" "}
Digit == {"0", "1", "2", "3", "4", "5", "6", "7", "8", "9"}
LowerOf == ("A" :> "a") @@ ("D" :> "d") @@ ("I" :> "i") @@ ("N" :> "n")
           @@ ("O" :> "o") @@ ("T" :> "t")
\* The CJK characters of the key keywords, one token each: BIAN 编, HAO 号,
\* MA 码, ZI 资, CHAN 产, XU 序, LIE 列.
CJK == {"BIAN", "HAO", "MA", "ZI", "CHAN", "XU", "LIE"}
\* unicode.IsLetter on the characters the runs use
Letter == DOMAIN LowerOf \cup {"a", "b", "c", "d", "e", "i", "n", "o", "t", "x"} \cup CJK

DigitOf == <<"0", "1", "2", "3", "4", "5", "6", "7", "8", "9">>

RECURSIVE Decimal(_)
\* strconv.Itoa of a natural number
Decimal(n) ==
  IF n < 10 THEN <<DigitOf[n + 1]>> ELSE Decimal(n \div 10) \o Decimal(n % 10)

\* strings.TrimSpace
TrimSpace(s) ==
  LET keep == {i \in 1..Len(s) : s[i] \notin Space}
  IN  IF keep = {} THEN << >> ELSE SubSeq(s, Min(keep), Max(keep))

\* strings.ToLower
Lower(s) == [i \in 1..Len(s) |-> IF s[i] \in DOMAIN LowerOf THEN LowerOf[s[i]] ELSE s[i]]

\* strings.Contains
HasSubstring(s, t) == t \in SubSeqs(s)

\* Length of the run of characters in C that starts after position i.
Run(s, i, C) == Max({n \in 0..(Len(s) - i) : \A m \in 1..n : s[i + m] \in C})

SignLen(s) == IF Len(s) > 0 /\ s[1] \in {"+", "-"} THEN 1 ELSE 0

\* The integer part's digits with leading zeros removed.
StripZeros(d) ==
  LET nz == {i \in 1..Len(d) : d[i] # "0"}
  IN  IF nz = {} THEN << >> ELSE SubSeq(d, Min(nz), Len(d))

\* |value of the digit string d| > 9e15, decided on the digits.
AboveLimit(d) ==
  LET t == StripZeros(d)
  IN  \/ Len(t) > 16
      \/ Len(t) = 16 /\ t[1] = "9" /\ \E i \in 2..16 : t[i] # "0"

\* Mutant: the fraction may be empty ("1." is accepted).
LooksLikeEmptyFraction(s) ==
  LET i0 == SignLen(s)
      d  == Run(s, i0, Digit)
  IN  /\ Len(s) > 0
      /\ i0 < Len(s)
      /\ d > 0
      /\ i0 + d # Len(s)
      /\ s[i0 + d + 1] = "."
      /\ LET z == Run(s, i0 + d + 1, {"0"})
         IN  z >= 0 /\ i0 + d + 1 + z = Len(s)

\* looksLikeIntegerFloatString: ^[+-]?\d+(\.0+)$ by a left-to-right scan.
LooksLikeIntegerFloatString(s) ==
  LET i0 == SignLen(s)
      d  == Run(s, i0, Digit)
  IN  /\ Len(s) > 0
      /\ i0 < Len(s)
      /\ d > 0
      /\ i0 + d # Len(s)
      /\ s[i0 + d + 1] = "."
      /\ LET z == Run(s, i0 + d + 1, {"0"})
         IN  z > 0 /\ i0 + d + 1 + z = Len(s)

IntDigits(s) == SubSeq(s, SignLen(s) + 1, SignLen(s) + Run(s, SignLen(s), Digit))

\* int64(ParseFloat(s)) formatted by FormatInt: exact below 9e15 < 2^53.
FormatIntOf(s) ==
  LET t == StripZeros(IntDigits(s))
  IN  IF t = << >> THEN <<"0">>
      ELSE IF s[1] = "-" THEN <<"-">> \o t ELSE t

NullWords == {<<"n", "a", "n">>, <<"n", "a", "t">>, <<"n", "o", "n", "e">>}

\* Mutant: the null words are tested on the untrimmed cell.
NormalizeNullBeforeTrim(v) ==
  LET s == TrimSpace(v)
  IN  IF s = << >> THEN << >>
      ELSE IF Lower(v) \in NullWords THEN << >>
      ELSE IF LooksLikeIntegerFloatString(s) /\ ~AboveLimit(IntDigits(s))
           THEN FormatIntOf(s)
      ELSE s

\* normalizeScalarForCompare
NormalizeScalarForCompare(v) ==
  LET s == TrimSpace(v)
  IN  IF s = << >> THEN << >>
      ELSE IF Lower(s) \in NullWords THEN << >>
      ELSE IF LooksLikeIntegerFloatString(s) /\ ~AboveLimit(IntDigits(s))
           THEN FormatIntOf(s)
      ELSE s

\* isAlnumUnicode
IsAlnumUnicode(s) == Len(s) > 0 /\ \A i \in 1..Len(s) : s[i] \in Letter \cup Digit

\* isIntegerLikeString
IsIntegerLikeString(s) ==
  /\ Len(s) > SignLen(s)
  /\ \A i \in (SignLen(s) + 1)..Len(s) : s[i] \in Digit

\* isFiniteIntegerFloatString: ParseFloat succeeds, |f| <= 9e15 and f is
\* integral.  NaN and Inf fail the range or the integral test.
IsFiniteIntegerFloatString(s) ==
  LET i0 == SignLen(s)
      a  == Run(s, i0, Digit)
  IN  /\ i0 < Len(s)
      /\ \/ i0 + a = Len(s)
         \/ /\ s[i0 + a + 1] = "."
            /\ LET f == Run(s, i0 + a + 1, Digit)
               IN  /\ i0 + a + 1 + f = Len(s)
                   /\ a + f > 0
                   /\ \A m \in 1..f : s[i0 + a + 1 + m] = "0"
      /\ ~AboveLimit(SubSeq(s, i0 + 1, i0 + a))

-----------------------------------------------------------------------------
(* Header row normalisation (readxlsx.go normalizeHeaders). *)

UnnamedPrefix == <<"U", "n", "n", "a", "m", "e", "d", ":", " ">>

\* Blank header cells become "Unnamed: i" (zero-based).
NamedHeaders(raw) ==
  [i \in 1..Len(raw) |-> IF TrimSpace(raw[i]) = << >>
                         THEN UnnamedPrefix \o Decimal(i - 1)
                         ELSE TrimSpace(raw[i])]

\* The k-th repeat of a name gets ".k"; seen[] counts the names before
\* suffixing, so a suffixed name is not checked against later ones.
NormalizeHeaders(raw) ==
  LET h == NamedHeaders(raw)
  IN  [i \in 1..Len(h) |->
         LET c == Cardinality({j \in 1..(i - 1) : h[j] = h[i]})
         IN  IF c = 0 THEN h[i] ELSE h[i] \o <<".">> \o Decimal(c)]

-----------------------------------------------------------------------------
(* Primary-key guessing (part_007 GuessPrimaryKeyColumn). *)

PrimaryKeyCandidates ==
  << <<"i", "d">>, <<"BIAN", "HAO">>, <<"BIAN", "MA">>,
     <<"ZI", "CHAN", "BIAN", "HAO">>, <<"ZI", "CHAN", "BIAN", "MA">>,
     <<"XU", "HAO">>, <<"ZI", "CHAN", "HAO">>, <<"c", "o", "d", "e">>,
     <<"n", "o">>, <<"XU", "LIE", "HAO">> >>

NoColumn == << >>

\* Rows sampled: checkRows (5 when not positive), at most the rows there are.
SampleSize(rows, checkRows) ==
  LET want == IF checkRows <= 0 THEN 5 ELSE checkRows
  IN  IF Len(rows) < want THEN Len(rows) ELSE want

\* A column qualifies when every sampled value is present, non-blank and
\* distinct (after trimming).
Qualifies(rows, n, c) ==
  /\ n > 0
  /\ \A i \in 1..n : c <= Len(rows[i]) /\ TrimSpace(rows[i][c]) # << >>
  /\ IsInjective([i \in 1..n |-> TrimSpace(rows[i][c])])

\* +10 for every keyword the lower-cased header contains.
KeywordScore(name) ==
  10 * Cardinality({k \in 1..Len(PrimaryKeyCandidates) :
                      HasSubstring(Lower(name), Lower(PrimaryKeyCandidates[k]))})

Pkish(v) == IsIntegerLikeString(v) \/ IsFiniteIntegerFloatString(v) \/ IsAlnumUnicode(v)

ColumnScore(headers, rows, n, c) ==
  KeywordScore(headers[c])
  + IF \A i \in 1..n : Pkish(TrimSpace(rows[i][c])) THEN 5 ELSE 0

\* The loop keeps the first column of the highest score ("score > best").
GuessPrimaryKeyColumn(headers, rows, checkRows) ==
  LET n  == SampleSize(rows, checkRows)
      Q  == {c \in 1..Len(headers) : Qualifies(rows, n, c)}
      Sc(c) == ColumnScore(headers, rows, n, c)
      B  == {c \in Q : \A d \in Q : Sc(d) < Sc(c) \/ (Sc(d) = Sc(c) /\ c <= d)}
  IN  IF B = {} THEN NoColumn ELSE headers[CHOOSE c \in B : TRUE]
-----------------------------------------------------------------------------
(* Sheet names (keyedread.go).  A CJK character is one token, so Len is    *)
(* the rune count utf8.RuneCountInString gives.                            *)

\* "文件", "相比", "增加", "减少", "变动项目"
WenJian == <<"WEN", "JIAN">>
XiangBi == <<"XIANG", "BI">>
ZengJia == <<"ZENG", "JIA">>
JianShao == <<"JIAN", "SHAO">>
BianDong == <<"BIAN", "DONG", "XIANG", "MU">>
MaxSheetName == 31

LastIndexOf(s, c) ==
  LET I == {i \in 1..Len(s) : s[i] = c}
  IN  IF I = {} THEN 0 ELSE Max(I)

\* filepath.Base: trailing slashes dropped, then the last element.
FilepathBase(s) ==
  LET nz == {i \in 1..Len(s) : s[i] # "/"}
      t  == IF nz = {} THEN << >> ELSE SubSeq(s, 1, Max(nz))
  IN  IF s = << >> THEN <<".">>
      ELSE IF t = << >> THEN <<"/">>
      ELSE SubSeq(t, LastIndexOf(t, "/") + 1, Len(t))

\* sheetBaseName: the base name without its extension (a leading dot is
\* kept), "文件" when nothing is left.
SheetBaseName(filename) ==
  LET name == TrimSpace(filename)
      b    == FilepathBase(name)
      d    == LastIndexOf(b, ".")
      s    == TrimSpace(IF d > 1 THEN SubSeq(b, 1, d - 1) ELSE b)
  IN  IF name = << >> \/ s = << >> THEN WenJian ELSE s

\* trimRunes
TrimRunes(s, n) ==
  IF n <= 0 THEN << >> ELSE IF Len(s) <= n THEN s ELSE SubSeq(s, 1, n)

\* safeSheetName: blank -> "Sheet", : \ / ? * [ ] -> _, at most 31 runes.
SafeSheetName(name) ==
  LET s0 == TrimSpace(name)
      s1 == IF s0 = << >> THEN <<"S", "h", "e", "e", "t">> ELSE s0
      s2 == [i \in 1..Len(s1) |-> IF s1[i] \in {":", "\\", "/", "?", "*", "[", "]"}
                                  THEN "_" ELSE s1[i]]
  IN  TrimRunes(s2, MaxSheetName)

\* The i-th name uniqueSheetName tries: the base, then base_2, base_3, ...
\* cut so that the suffixed name keeps to 31 runes.
SheetCandidate(base, i) ==
  IF i = 1 THEN base
  ELSE LET suffix == <<"_">> \o Decimal(i)
           maxLen == IF MaxSheetName - Len(suffix) < 1 THEN 1 ELSE MaxSheetName - Len(suffix)
       IN  TrimRunes(base, maxLen) \o suffix

\* Mutant: the base is not cut before the suffix.
UniqueSheetNameNoTrim(name, used) ==
  LET base == SafeSheetName(name)
      C(i) == IF i = 1 THEN base ELSE base \o <<"_">> \o Decimal(i)
      i0 == CHOOSE i \in 1..(Cardinality(used) + 2) :
              C(i) \notin used /\ \A j \in 1..(i - 1) : C(j) \in used
  IN  C(i0)

\* uniqueSheetName: the first candidate not used yet.  At most one
\* candidate repeats the base, so |used| + 2 tries always find one.
UniqueSheetName(name, used) ==
  LET base == SafeSheetName(name)
      i0 == CHOOSE i \in 1..(Cardinality(used) + 2) :
              SheetCandidate(base, i) \notin used
              /\ \A j \in 1..(i - 1) : SheetCandidate(base, j) \in used
  IN  SheetCandidate(base, i0)

\* export.go 46-52: the Added, Removed and Changed sheet names.
SheetNames(file1Name, file2Name) ==
  LET b1  == SheetBaseName(file1Name)
      b2  == SheetBaseName(file2Name)
      inc == UniqueSheetName(b2 \o XiangBi \o b1 \o ZengJia, {})
      red == UniqueSheetName(b2 \o XiangBi \o b1 \o JianShao, {inc})
  IN  <<inc, red, UniqueSheetName(BianDong, {inc, red})>>
=============================================================================
