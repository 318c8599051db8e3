---------------------------- MODULE MCDiffExport ----------------------------
(***************************************************************************)
(* TLC instance of DiffExport and the workbook spec.md 4.4 asks for,       *)
(* stated from the spec's rules: key inference (SpecGuess), scalar         *)
(* normalisation (SpecNormalize), the column union by name and the sorted  *)
(* key sets.                                                               *)
(***************************************************************************)
EXTENDS DiffExport, CellSpec

\* Cell text used in the sample files.
ID == <<"i", "d">>
ColA == <<"a">>
ColB == <<"b">>
Keys == {<<"2">>, <<"1", "0">>, <<"1", "0", ".", "0">>}
\* "x6" and "6x" have the same fingerprint modulo 2^8; "1.0" and "1"
\* normalise alike.
Vals1 == {<<"x", "6">>, <<"1", ".", "0">>}
Vals2 == {<<"6", "x">>, <<"1">>}

\* A data row as the row iterator yields it: the key, then a value unless
\* the value (and so the row's tail) is empty.
DataRows(V) == {<<k, v>> : k \in Keys, v \in V} \cup {<<k>> : k \in Keys}
Bodies(V) == {<<r>> : r \in DataRows(V)} \cup {<<r1, r2>> : r1, r2 \in DataRows(V)}

MCFiles1 == {<<<<ID, ColA>>>> \o b : b \in Bodies(Vals1)}
MCFiles2 == {<<h>> \o b : h \in {<<ID, ColA>>, <<ID, ColB, ColA>>}, b \in Bodies(Vals2)}
\* Header rows [id, a, a, a.1]: normalised to [id, a, a.1, a.1].
MCCollide == {<<<<ID, ColA, ColA, <<"a", ".", "1">>>>>> \o b :
                b \in {<<<<k, <<"x", "6">>, v>>>> : k \in Keys, v \in Vals1 \cup Vals2}}
\* A file 2 whose sheet has no row at all.
MCFiles2Empty == {<< >>} \cup {<<<<ID, ColA>>>> \o b : b \in {<<r>> : r \in DataRows(Vals1)}}

MCName1 == <<"o", "l", "d">>
MCName2 == <<"n", "e", "w">>

-----------------------------------------------------------------------------
(* The workbook of spec.md 4.4. *)

H1 == NormalizeHeaders(file1[1])
H2 == NormalizeHeaders(file2[1])
\* A data row cut or padded to its header's width.
Full(r, h) == [c \in 1..Len(h) |-> IF c <= Len(r) THEN r[c] ELSE << >>]
Data(f, h) == {Full(f[i], h) : i \in 2..Len(f)}
Sample(f, h) == [i \in 1..(IF Len(f) - 1 < 5 THEN Len(f) - 1 ELSE 5) |-> Full(f[i + 1], h)]

KeyName == SpecGuess(H1, Sample(file1, H1))
KeyCol(h) == CHOOSE i \in 1..Len(h) : h[i] = KeyName
KeyOf(r, h) == SpecNormalize(r[KeyCol(h)])
\* Two data rows of one file with the same non-blank normalised key.
HasDup(f, h) ==
  \E i, j \in 2..Len(f) : i # j /\ KeyOf(Full(f[i], h), h) # << >>
                             /\ KeyOf(Full(f[i], h), h) = KeyOf(Full(f[j], h), h)
KeySet(f, h) == {KeyOf(r, h) : r \in Data(f, h)} \ {<< >>}
RowOf(f, h, k) == CHOOSE r \in Data(f, h) : KeyOf(r, h) = k

\* Fail terminally: no key column, file 2 lacks it, or a duplicate key.
SpecAccepts ==
  /\ file1 # << >> /\ file2 # << >>
  /\ KeyName # NoColumn
  /\ \E i \in 1..Len(H2) : H2[i] = KeyName
  /\ ~HasDup(file1, H1) /\ ~HasDup(file2, H2)

Sorted(S) ==
  CHOOSE s \in [1..Cardinality(S) -> S] :
    Range(s) = S /\ \A i, j \in 1..Len(s) : i < j => KeyLess(s[i], s[j])

\* The rows of the keys in S, in key order, under the file's header row.
SpecSimple(f, h, S, msg) ==
  LET ks == Sorted(S)
  IN  IF S = {} THEN Placeholder(msg)
      ELSE << PlainRow(h) >>
           \o [j \in 1..Len(ks) |-> PlainRow([c \in 1..Len(h) |->
                                       SafeCellValue(RowOf(f, h, ks[j])[c])])]

\* File 1's columns but the key, then file 2's remaining ones.
Union == SelectSeq(H1, LAMBDA c : c # KeyName)
         \o SelectSeq(H2, LAMBDA c : c # KeyName /\ \A i \in 1..Len(H1) : H1[i] # c)
\* The value of column c in the row of key k ("" if the file lacks c).
ValueOf(f, h, k, c) ==
  IF \E i \in 1..Len(h) : h[i] = c
  THEN RowOf(f, h, k)[CHOOSE i \in 1..Len(h) : h[i] = c /\ \A j \in 1..(i - 1) : h[j] # c]
  ELSE << >>
Differs(k, c) ==
  SpecNormalize(ValueOf(file1, H1, k, c)) # SpecNormalize(ValueOf(file2, H2, k, c))

SpecChanged ==
  LET C  == {k \in KeySet(file1, H1) \cap KeySet(file2, H2) :
               \E i \in 1..Len(Union) : Differs(k, Union[i])}
      ks == Sorted(C)
      Pair(k, c) == << Cell(SafeCellValue(ValueOf(file1, H1, k, c)), Differs(k, c)),
                      Cell(SafeCellValue(ValueOf(file2, H2, k, c)), Differs(k, c)) >>
  IN  IF C = {} THEN Placeholder(NoChg)
      ELSE << << Cell(KeyName, FALSE) >>
              \o FlattenSeq([i \in 1..Len(Union) |->
                               << Cell(Label(Union[i], Name1), FALSE),
                                  Cell(Label(Union[i], Name2), FALSE) >>]) >>
           \o [j \in 1..Len(ks) |->
                 << Cell(SafeCellValue(ks[j]), FALSE) >>
                 \o FlattenSeq([i \in 1..Len(Union) |-> Pair(ks[j], Union[i])])]

-----------------------------------------------------------------------------
(* Properties. *)

\* GenerateCompareExportXLSX, unless an I/O call fails, ends as spec.md 4.4
\* says: it fails when no key column qualifies, file 2 lacks the key column
\* or a file repeats a normalised key; otherwise the Added sheet lists file
\* 2's own keys, the Removed sheet file 1's, both sorted with full rows, and
\* the Changed sheet has exactly the common keys with a differing column,
\* each pair of cells red exactly when its normalised values differ.
ExportMatchesSpec ==
  Finished /\ err # "io" =>
    IF SpecAccepts
    THEN /\ phase = "done"
         /\ inc = SpecSimple(file2, H2, KeySet(file2, H2) \ KeySet(file1, H1), NoInc)
         /\ red = SpecSimple(file1, H1, KeySet(file1, H1) \ KeySet(file2, H2), NoRed)
         /\ chg = SpecChanged
    ELSE phase = "error"
=============================================================================
