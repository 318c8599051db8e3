----------------------------- MODULE DiffExport -----------------------------
(***************************************************************************)
(* GenerateCompareExportXLSX (excelcmp/export.go) as a sequence of steps:  *)
(* load file 1 with key guessing, load file 2 by that key, build the       *)
(* artifacts, write the Added and Removed sheets, then the Changed sheet   *)
(* one common key at a time.  The Changed sheet's loop keeps state across  *)
(* keys (the diff bitmask with its dirty-word list, the header flag and    *)
(* the normalisation cache), so each key is a step of its own.             *)
(*                                                                         *)
(* A file is the sequence of rows excelize's row iterator yields (the      *)
(* first is the header row; Columns() drops trailing empty cells, so rows  *)
(* have any length).  A sheet written is a sequence of rows of cells       *)
(* [v, red].  Every I/O call (open, read, SetRow, Flush, create, write)    *)
(* can fail, which is the IOFail step.  The 64-bit mask words are          *)
(* WordBits wide (i >> 6 is i \div WordBits, i & 63 is i % WordBits), and  *)
(* the FNV-1a fingerprint is kept modulo 2^8: its low byte is computed     *)
(* exactly by the same recurrence on the low bytes of basis and prime.     *)
(***************************************************************************)
EXTENDS CellText, Functions

CONSTANTS
  Files1,     \* the workbooks file 1 may be
  Files2,     \* the workbooks file 2 may be
  Name1,      \* file1Name, trimmed (never blank in the callers)
  Name2,
  WordBits,   \* bits per mask word (64 in the code)
  CacheMax    \* normalisation cache capacity (80000 in the code)

ASSUME DiffExportAssumption ==
  WordBits \in Nat \ {0} /\ CacheMax \in Nat

VARIABLES
  file1, file2,   \* the inputs
  phase,          \* the step GenerateCompareExportXLSX is at
  err,            \* the error returned, "none" while there is none
  s1, s2,         \* the keyed sheets loaded
  art,            \* the artifacts
  inc, red, chg,  \* the three sheets written
  ki,             \* the index of the next common key
  mask, dirty,    \* the diff bitmask and its dirty words
  first,          \* firstWritten
  cache           \* the normalisation cache: raw -> [n, fp]

vars == <<file1, file2, phase, err, s1, s2, art, inc, red, chg, ki, mask,
          dirty, first, cache>>

-----------------------------------------------------------------------------
(* Loading a keyed sheet (keyedread.go). *)

MaxDups == 10
CacheRawMax == 64
EmptyMap == [k \in {} |-> << >>]

\* padRow: pad with "" or cut to the header's width.
PadRow(cols, n) ==
  IF n <= 0 THEN << >>
  ELSE [i \in 1..n |-> IF i <= Len(cols) THEN cols[i] ELSE << >>]

\* indexOfHeader, 1-based; 0 for -1.
IndexOfHeader(h, name) ==
  LET I == {i \in 1..Len(h) : h[i] = name}
  IN  IF I = {} THEN 0 ELSE Min(I)

\* The add closure: blank keys are dropped, the first row of a key is
\* kept, a repeated key is recorded once, up to MaxDups of them.
AddRow(st, row, keyIdx) ==
  LET k == NormalizeScalarForCompare(row[keyIdx])
  IN  IF keyIdx > Len(row) \/ TrimSpace(k) = << >> THEN st
      ELSE IF k \in DOMAIN st.byKey
      THEN IF k \in st.seen THEN st
           ELSE [st EXCEPT !.seen = @ \cup {k},
                           !.dups = IF Len(@) < MaxDups THEN Append(@, k) ELSE @]
      ELSE [st EXCEPT !.byKey = (k :> row) @@ @]

Loaded(h, key, byKey, dups) ==
  [err |-> "none", headers |-> h, key |-> key, byKey |-> byKey, dups |-> dups]
LoadError(e) == [Loaded(<< >>, << >>, EmptyMap, << >>) EXCEPT !.err = e]

\* The rows of every key once the key column is found at keyIdx.
AddRows(headers, data, keyUsed, keyIdx) ==
  IF keyIdx = 0 THEN LoadError("nokeycol")
  ELSE LET st == FoldLeft(LAMBDA s, r : AddRow(s, r, keyIdx),
                          [byKey |-> EmptyMap, dups |-> << >>, seen |-> {}], data)
       IN  Loaded(headers, keyUsed, st.byKey, st.dups)

\* The key checks: no guess, a blank key, a key column missing.
KeyedRows(headers, data, allowGuess, keyUsed) ==
  CASE allowGuess /\ keyUsed = NoColumn -> LoadError("noguess")
    [] keyUsed = << >>                  -> LoadError("emptykey")
    [] OTHER -> AddRows(headers, data, keyUsed, IndexOfHeader(headers, keyUsed))

\* The data rows padded to the header width; the first want of them are
\* the peeked rows the key is guessed from.
LoadRows(headers, file, want, key, allowGuess) ==
  LET data == [i \in 1..(Len(file) - 1) |-> PadRow(file[i + 1], Len(headers))]
  IN  KeyedRows(headers, data, allowGuess,
                IF allowGuess
                THEN GuessPrimaryKeyColumn(headers,
                       SubSeq(data, 1, IF Len(data) < want THEN Len(data) ELSE want), want)
                ELSE TrimSpace(key))

\* loadKeyedSheetXLSX: a sheet without rows loads empty with the key given;
\* otherwise headers are normalised, the first checkRows data rows are
\* peeked (and guessed from), and every data row is added in order.
LoadKeyedSheet(file, checkRows, key, allowGuess) ==
  IF file = << >> THEN Loaded(<< >>, key, EmptyMap, << >>)
  ELSE LoadRows(NormalizeHeaders(file[1]), file,
                IF checkRows <= 0 THEN 5 ELSE checkRows, key, allowGuess)

-----------------------------------------------------------------------------
(* Artifacts (part_007). *)

\* Byte values of the characters cells and keys are made of.
CharCode ==
  (" " :> 32) @@ ("+" :> 43) @@ ("-" :> 45) @@ ("." :> 46) @@ (":" :> 58)
  @@ [c \in Digit |-> 47 + CHOOSE i \in 1..10 : DigitOf[i] = c]
  @@ ("A" :> 65) @@ ("D" :> 68) @@ ("I" :> 73) @@ ("N" :> 78) @@ ("O" :> 79)
  @@ ("T" :> 84) @@ ("U" :> 85) @@ ("a" :> 97) @@ ("b" :> 98) @@ ("c" :> 99)
  @@ ("d" :> 100) @@ ("e" :> 101) @@ ("i" :> 105) @@ ("m" :> 109)
  @@ ("n" :> 110) @@ ("o" :> 111) @@ ("t" :> 116) @@ ("x" :> 120)
  @@ ("y" :> 121)

\* sort.Strings order: bytewise lexicographic.
KeyLess(a, b) ==
  \/ /\ Len(a) < Len(b) /\ a = SubSeq(b, 1, Len(a))
  \/ \E i \in 1..Len(a) :
       /\ i <= Len(b)
       /\ SubSeq(a, 1, i - 1) = SubSeq(b, 1, i - 1)
       /\ CharCode[a[i]] < CharCode[b[i]]

SortStrings(S) == SortSeq(SetToSeq(S), KeyLess)

\* orderedUnionCols: file 1's columns but the key (not deduplicated), then
\* file 2's columns not seen yet.
OrderedUnionCols(h1, h2, key) ==
  FoldLeft(LAMBDA acc, c : IF c = key \/ c \in Range(acc) THEN acc ELSE Append(acc, c),
           SelectSeq(h1, LAMBDA c : c # key), h2)

\* headerIndexMap: a later column of the same name overwrites an earlier.
HeaderIndex(h, c) ==
  LET I == {i \in 1..Len(h) : h[i] = c}
  IN  IF I = {} THEN 0 ELSE Max(I)

\* alignedColumnIndices for one file.
AlignedColumnIndices(cols, h) == [i \in 1..Len(cols) |-> HeaderIndex(h, cols[i])]

\* compareArtifactsFromMaps
CompareArtifactsFromMaps(h1, h2, m1, m2, key) ==
  LET cols == OrderedUnionCols(h1, h2, key)
  IN  [key     |-> key,
       reduced |-> SortStrings(DOMAIN m1 \ DOMAIN m2),
       incd    |-> SortStrings(DOMAIN m2 \ DOMAIN m1),
       common  |-> SortStrings(DOMAIN m1 \cap DOMAIN m2),
       h1 |-> h1, h2 |-> h2, cols |-> cols, left |-> m1, right |-> m2,
       idx1 |-> AlignedColumnIndices(cols, h1),
       idx2 |-> AlignedColumnIndices(cols, h2)]

-----------------------------------------------------------------------------
(* Writing (export.go). *)

Cell(v, isRed) == [v |-> v, red |-> isRed]
PlainRow(r) == [i \in 1..Len(r) |-> Cell(r[i], FALSE)]
Placeholder(msg) == << << Cell(msg, FALSE) >> >>
NoInc == <<"NO_INC">>
NoRed == <<"NO_RED">>
NoChg == <<"NO_CHG">>

\* safeCellValue
SafeCellValue(v) == IF TrimSpace(v) = << >> THEN << >> ELSE v

\* writeSimpleKeyedSheetStream
WriteSimpleKeyedSheet(headers, keys, byKey, emptyMsg) ==
  LET ks  == SelectSeq(keys, LAMBDA k : k \in DOMAIN byKey)
      Row(r) == [i \in 1..Len(headers) |-> IF i <= Len(r) THEN SafeCellValue(r[i]) ELSE << >>]
  IN  IF headers = << >> \/ keys = << >> THEN Placeholder(emptyMsg)
      ELSE << PlainRow(headers) >> \o [j \in 1..Len(ks) |-> PlainRow(Row(byKey[ks[j]]))]

\* fingerprint64 modulo 2^8: the low bytes of the FNV-1a 64 offset basis
\* and prime are 37 and 179.
\* h ^= uint64(s[i]) on the low byte.
XorByte(x, y) ==
  LET d(i) == IF (x \div 2^i) % 2 # (y \div 2^i) % 2 THEN 2^i ELSE 0
  IN  d(0) + d(1) + d(2) + d(3) + d(4) + d(5) + d(6) + d(7)
Fingerprint(s) ==
  FoldLeft(LAMBDA h, c : (XorByte(h, CharCode[c]) * 179) % 256, 37, s)

\* Every cell text of the input workbooks, and normalizeScalarForCompare
\* with its fingerprint on each: both are pure, so they are computed once.
CellTexts == UNION {UNION {Range(r) : r \in Range(f)} : f \in Files1 \cup Files2} \cup {<< >>}
NormFP == [v \in CellTexts |-> LET n == NormalizeScalarForCompare(v)
                               IN  [n |-> n, fp |-> Fingerprint(n)]]

\* cachedNormalizeFP: the result and the cache after the call.
CachedNormalizeFP(c, raw) ==
  IF Len(raw) <= CacheRawMax /\ raw \in DOMAIN c
  THEN [n |-> c[raw].n, fp |-> c[raw].fp, cache |-> c]
  ELSE LET n  == NormFP[raw].n
           fp == NormFP[raw].fp
       IN  [n |-> n, fp |-> fp,
            cache |-> IF Len(raw) <= CacheRawMax /\ Cardinality(DOMAIN c) < CacheMax
                      THEN (raw :> [n |-> n, fp |-> fp]) @@ c ELSE c]

\* diffMaskWords
DiffMaskWords(nCols) == IF nCols <= 0 THEN 0 ELSE (nCols + WordBits - 1) \div WordBits

\* Mutant: a word goes on the dirty list when it was already non-zero.
SetDiffDirtyInverted(st, i) ==
  LET w == i \div WordBits
  IN  IF w \notin DOMAIN st.mask THEN st
      ELSE [st EXCEPT !.mask[w] = @ \cup {i % WordBits},
                      !.dirty = IF st.mask[w] # {} THEN Append(@, w) ELSE @]

\* setDiff: set bit i; a word that was zero goes on the dirty list.
SetDiff(st, i) ==
  LET w == i \div WordBits
  IN  IF w \notin DOMAIN st.mask THEN st
      ELSE [st EXCEPT !.mask[w] = @ \cup {i % WordBits},
                      !.dirty = IF st.mask[w] = {} THEN Append(@, w) ELSE @]

\* resetMask: clear the dirty words only.
ResetMask(st) ==
  [st EXCEPT !.mask = [w \in DOMAIN @ |-> IF w \in Range(st.dirty) THEN {} ELSE @[w]],
             !.dirty = << >>]

\* diffMaskGet
DiffMaskGet(m, i) == i \div WordBits \in DOMAIN m /\ (i % WordBits) \in m[i \div WordBits]

\* The value of column i (0-based) of a row: "" when the file lacks it.
CellAt(row, idx) == IF idx > 0 /\ idx <= Len(row) THEN row[idx] ELSE << >>

\* Mutant: equal fingerprints are taken as equal values.
ColResultNoFallback(st, i, a, b) ==
  IF a.fp # b.fp THEN SetDiff([st EXCEPT !.cache = b.cache, !.has = TRUE], i)
  ELSE [st EXCEPT !.cache = b.cache]

\* The loop state after column i compared the results a and b (isDiff:
\* the fingerprints differ, or they agree and the values do not).
ColResult(st, i, a, b) ==
  LET isDiff == a.fp # b.fp \/ a.n # b.n
  IN  IF isDiff THEN SetDiff([st EXCEPT !.cache = b.cache, !.has = TRUE], i)
      ELSE [st EXCEPT !.cache = b.cache]

\* One column of the comparison loop (export.go 266-295).
CompareCol(st, i, left, right) ==
  LET a == CachedNormalizeFP(st.cache, CellAt(left, art.idx1[i + 1]))
  IN  ColResult(st, i, a, CachedNormalizeFP(a.cache, CellAt(right, art.idx2[i + 1])))

\* The comparison loop over every union column for the key at ki.
Scan ==
  LET k == art.common[ki]
      n == Len(art.cols)
      st[i \in 0..n] ==
        IF i = 0 THEN [mask |-> mask, dirty |-> dirty, cache |-> cache, has |-> FALSE]
        ELSE CompareCol(st[i - 1], i - 1, art.left[k], art.right[k])
  IN  st[n]

\* "%s（%s）" of a column and a file label.
Label(c, fn) == c \o <<"(">> \o fn \o <<")">>

DiffHeader ==
  << Cell(art.key, FALSE) >>
  \o FlattenSeq([i \in 1..Len(art.cols) |->
                   << Cell(Label(art.cols[i], Name1), FALSE),
                      Cell(Label(art.cols[i], Name2), FALSE) >>])

\* A data row of the Changed sheet, red where the mask has the column.
DiffRow(k, m) ==
  << Cell(SafeCellValue(k), FALSE) >>
  \o FlattenSeq([i \in 1..Len(art.cols) |->
                   LET red1 == DiffMaskGet(m, i - 1)
                   IN  << Cell(SafeCellValue(CellAt(art.left[k], art.idx1[i])), red1),
                          Cell(SafeCellValue(CellAt(art.right[k], art.idx2[i])), red1) >>])

-----------------------------------------------------------------------------
(* The steps. *)

Init ==
  /\ file1 \in Files1 /\ file2 \in Files2
  /\ phase = "load1" /\ err = "none"
  /\ s1 = Loaded(<< >>, << >>, EmptyMap, << >>) /\ s2 = s1
  /\ art = [key |-> << >>] /\ inc = << >> /\ red = << >> /\ chg = << >>
  /\ ki = 1 /\ mask = << >> /\ dirty = << >> /\ first = FALSE
  /\ cache = EmptyMap

Fail(e) == phase' = "error" /\ err' = e

\* The outcome r of loading file 1, then of file 2: an error, duplicates,
\* or the next phase.
Loaded1(r) ==
  CASE r.err # "none"  -> Fail(r.err) /\ UNCHANGED s1
    [] r.dups # << >>  -> Fail("dup1") /\ UNCHANGED s1
    [] OTHER           -> s1' = r /\ phase' = "load2" /\ UNCHANGED err
Loaded2(r) ==
  CASE r.err # "none"  -> Fail(r.err) /\ UNCHANGED s2
    [] r.dups # << >>  -> Fail("dup2") /\ UNCHANGED s2
    [] OTHER           -> s2' = r /\ phase' = "artifacts" /\ UNCHANGED err

\* export.go 23-29: file 1 with key guessing from 5 rows; duplicates abort.
Load1 ==
  /\ phase = "load1"
  /\ Loaded1(LoadKeyedSheet(file1, 5, << >>, TRUE))
  /\ UNCHANGED <<file1, file2, s2, art, inc, red, chg, ki, mask, dirty, first, cache>>

\* export.go 30-36: file 2 by file 1's key, no guessing.
Load2 ==
  /\ phase = "load2"
  /\ Loaded2(LoadKeyedSheet(file2, 0, s1.key, FALSE))
  /\ UNCHANGED <<file1, file2, s1, art, inc, red, chg, ki, mask, dirty, first, cache>>

\* export.go 37-41 (compareArtifactsFromMaps rejects a blank key).
Artifacts ==
  /\ phase = "artifacts"
  /\ IF TrimSpace(s1.key) = << >>
     THEN Fail("emptykey") /\ UNCHANGED art
     ELSE /\ art' = CompareArtifactsFromMaps(s1.headers, s2.headers, s1.byKey,
                                             s2.byKey, s1.key)
          /\ phase' = "inc" /\ UNCHANGED err
  /\ UNCHANGED <<file1, file2, s1, s2, inc, red, chg, ki, mask, dirty, first, cache>>

\* export.go 68-73: the Added and the Removed sheet.
WriteInc ==
  /\ phase = "inc"
  /\ inc' = WriteSimpleKeyedSheet(art.h2, art.incd, art.right, NoInc)
  /\ phase' = "red"
  /\ UNCHANGED <<file1, file2, err, s1, s2, art, red, chg, ki, mask, dirty, first, cache>>

WriteRed ==
  /\ phase = "red"
  /\ red' = WriteSimpleKeyedSheet(art.h1, art.reduced, art.left, NoRed)
  /\ phase' = "diffstart"
  /\ UNCHANGED <<file1, file2, err, s1, s2, art, inc, chg, ki, mask, dirty, first, cache>>

\* export.go 185-190 and 226-228: no common key, or the loop's set-up.
DiffStart ==
  /\ phase = "diffstart"
  /\ IF art.common = << >>
     THEN chg' = Placeholder(NoChg) /\ phase' = "save" /\ UNCHANGED mask
     ELSE /\ mask' = [w \in 0..(DiffMaskWords(Len(art.cols)) - 1) |-> {}]
          /\ phase' = "diff" /\ UNCHANGED chg
  /\ UNCHANGED <<file1, file2, err, s1, s2, art, inc, red, ki, dirty, first, cache>>

\* resetMask and the cache after the key's loop state st.
NextKey(st) ==
  /\ mask' = ResetMask(st).mask /\ dirty' = << >>
  /\ cache' = st.cache

\* The key's loop state st without a difference, then with one (key k).
SkipKey(st) == ~st.has /\ NextKey(st)
EmitKey(st, k) ==
  /\ st.has
  /\ chg' = chg \o (IF first THEN << >> ELSE << DiffHeader >>) \o << DiffRow(k, st.mask) >>
  /\ NextKey(st)

\* export.go 296-299: a key without a difference.
DiffSkip ==
  /\ phase = "diff" /\ ki <= Len(art.common)
  /\ SkipKey(Scan)
  /\ ki' = ki + 1
  /\ UNCHANGED <<file1, file2, phase, err, s1, s2, art, inc, red, chg, first>>

\* export.go 301-343: the header before the first row, the row with its red
\* cells, then resetMask.
DiffEmit ==
  /\ phase = "diff" /\ ki <= Len(art.common)
  /\ EmitKey(Scan, art.common[ki])
  /\ first' = TRUE /\ ki' = ki + 1
  /\ UNCHANGED <<file1, file2, phase, err, s1, s2, art, inc, red>>

\* export.go 345-350: the placeholder when no row differed.
DiffEnd ==
  /\ phase = "diff" /\ ki > Len(art.common)
  /\ chg' = IF first THEN chg ELSE Placeholder(NoChg)
  /\ phase' = "save"
  /\ UNCHANGED <<file1, file2, err, s1, s2, art, inc, red, ki, mask, dirty, first, cache>>

\* export.go 78-89: the workbook is written out.
Save ==
  /\ phase = "save"
  /\ phase' = "done"
  /\ UNCHANGED <<file1, file2, err, s1, s2, art, inc, red, chg, ki, mask, dirty, first, cache>>

\* Any I/O call of the current step fails and its error is returned.
IOFail ==
  /\ phase \in {"load1", "load2", "inc", "red", "diffstart", "diff", "save"}
  /\ Fail("io")
  /\ UNCHANGED <<file1, file2, s1, s2, art, inc, red, chg, ki, mask, dirty, first, cache>>

Finished == phase \in {"done", "error"}

Next ==
  \/ Load1 \/ Load2 \/ Artifacts \/ WriteInc \/ WriteRed
  \/ DiffStart \/ DiffSkip \/ DiffEmit \/ DiffEnd \/ Save \/ IOFail

Spec == Init /\ [][Next]_vars
=============================================================================
