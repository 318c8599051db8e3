----------------------------- MODULE MCCellText -----------------------------
(***************************************************************************)
(* Checks of the diff engine's text helpers over every small input.  Each  *)
(* helper is one call: the input is chosen in the initial state and the    *)
(* call's result is the one step.  The reference definitions restate       *)
(* spec.md section 4.4 declaratively, independently of the code's scans.   *)
(***************************************************************************)
EXTENDS CellSpec

\* Inputs, with their bounds.
MaxCellLen == 4
CellChars == {"0", "1", ".", "+", "-", " ", "n", "a", "t", "o", "e", "N"}
MaxHeaders == 3
HeaderNames ==
  {<< >>, <<"a">>, <<" ", "a">>, <<"a", ".", "1">>,
   UnnamedPrefix \o <<"1">>}
SampleRows == 2
SampleHeads ==
  [1..2 -> {<<"n", "o">>, <<"i", "d">>, <<"ZI", "CHAN", "BIAN", "HAO">>,
            <<"N", "a", "m", "e">>, <<"x">>}]
\* Upload file names: blank, plain, a path, forbidden characters, a hidden
\* file, and names long enough that the sheet names reach 31 runes.
Long == [i \in 1..14 |-> "a"] \o <<".", "x">>
FileNames ==
  {<< >>, <<"a", ".", "x">>, <<"d", "/", "a", ".", "x">>, <<"a", ":", "?">>,
   <<".", "x">>, <<" ", ".", "x", " ">>, Long, <<"b">> \o Long}

\* No exponent, hex or underscore forms (see CellText).
SampleCells ==
  {<<"1">>, <<"0", "1">>, <<"1", ".", "0">>, <<"1", ".", "5">>, <<" ">>,
   <<"a", "1">>}

\* kind names the helper under check, arg its input, out its result.
VARIABLES kind, arg, out, done
vars == <<kind, arg, out, done>>

-----------------------------------------------------------------------------
(* One call per helper: the input is chosen initially, the call is the step. *)

InitHeaders ==
  kind = "headers" /\ arg \in SeqOf(HeaderNames, MaxHeaders) /\ done = FALSE /\ out = << >>
InitGuess ==
  /\ kind = "guess"
  /\ arg \in [heads : SampleHeads, rows : [1..SampleRows -> SeqOf(SampleCells, 2)]]
  /\ done = FALSE /\ out = << >>

\* The result of the helper named by kind on arg.
Result ==
  CASE kind = "cell"    -> NormalizeScalarForCompare(arg)
    [] kind = "headers" -> NormalizeHeaders(arg)
    [] kind = "guess"   -> GuessPrimaryKeyColumn(arg.heads, arg.rows, 5)
    [] kind = "names"   -> SheetNames(arg[1], arg[2])

Call ==
  /\ ~done
  /\ out' = Result
  /\ done' = TRUE
  /\ UNCHANGED <<kind, arg>>

\* Cell normalisation and sheet naming together; each other helper alone.
InitText ==
  /\ kind \in {"cell", "names"}
  /\ arg \in IF kind = "cell" THEN SeqOf(CellChars, MaxCellLen) ELSE FileNames \X FileNames
  /\ done = FALSE /\ out = << >>
TextSpec == InitText /\ [][Call]_vars
HeadersSpec == InitHeaders /\ [][Call]_vars
GuessSpec == InitGuess /\ [][Call]_vars

-----------------------------------------------------------------------------
(* Properties. *)

\* spec.md section 8: normalizing a cell twice equals normalizing it once
\* (normalizeScalarForCompare applied to its own result changes nothing).
NormalizeIdempotent ==
  done /\ kind = "cell" => NormalizeScalarForCompare(out) = out

\* normalizeScalarForCompare agrees with the rules of spec.md 4.4 on every
\* cell: blank and null words become empty, ^[+-]?\d+(\.0+)$ becomes its
\* canonical integer ("1.00" -> "1", "-0.0" -> "0"), and anything else,
\* "001" included, is kept trimmed.
NormalizeMatchesSpec ==
  done /\ kind = "cell" => out = SpecNormalize(arg)

\* spec.md 4.4: duplicated header names are disambiguated, so the
\* normalised header row has no two equal names (normalizeHeaders).
HeadersUnique ==
  done => IsInjective(out)

\* spec.md 4.4: the three sheet names the export creates (sheetBaseName,
\* safeSheetName, uniqueSheetName) are distinct, non-empty, at most 31
\* runes and free of : \ / ? * [ ], whatever the upload names are.
SheetNamesValid ==
  done /\ kind = "names" =>
    /\ IsInjective(out)
    /\ \A i \in 1..3 :
         /\ 0 < Len(out[i]) /\ Len(out[i]) <= 31
         /\ \A j \in 1..Len(out[i]) : out[i][j] \notin {":", "\\", "/", "?", "*", "[", "]"}

\* GuessPrimaryKeyColumn picks the column spec.md 4.4 describes: +10 if
\* the header contains any keyword, +5 if all sampled values are key-like,
\* the highest score, the earliest on a tie.
GuessMatchesSpec ==
  done => out = SpecGuess(arg.heads, arg.rows)
=============================================================================
