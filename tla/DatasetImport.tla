---------------------------- MODULE DatasetImport ----------------------------
(***************************************************************************)
(* The import of datasets from CSV and JSON texts (modules/dataset): the   *)
(* text is split into lines and fields, the dataset is created, then its   *)
(* first version, and versions are read with the sensitive fields masked.  *)
(* Later versions, and deletions, are those of VersionedAssets.            *)
(*                                                                         *)
(* A text is a sequence of characters, "comma", "quote", "newline",        *)
(* "return" and "space" among them.  What it was written from (table, how) *)
(* is there for the properties only.                                       *)
(***************************************************************************)
EXTENDS Integers, SequencesExt

CONSTANTS
  Tables,  \* what is to be imported: [fields, rows, sensitive], rows of texts
  None

VARIABLES
  document,  \* [table, how, text]: how is "json" or how the CSV is written
  result     \* the answer: [error], or [dataset, version], version None at first

Blank == {"space", "newline", "return"}

\* String.prototype.trim.
Trim(text) ==
  LET ink == {i \in DOMAIN text : text[i] \notin Blank}
  IN  IF ink = {} THEN <<>> ELSE SubSeq(text, Min(ink), Max(ink))

-----------------------------------------------------------------------------
(* The parser.                                                             *)

AppendLine(lines, line) == IF Trim(line) = <<>> THEN lines ELSE Append(lines, Trim(line))

\* A newline inside quotes belongs to its field; empty lines are skipped.
SplitCsvLines(input) ==
  LET Read(s, ch) ==
        CASE ch = "quote" -> [s EXCEPT !.quoted = ~@, !.current = Append(@, ch)]
          [] ch = "newline" /\ ~s.quoted ->
               [s EXCEPT !.lines = AppendLine(@, s.current), !.current = <<>>]
          [] ch = "return" /\ ~s.quoted -> s
          [] OTHER -> [s EXCEPT !.current = Append(@, ch)]
      end == FoldLeft(Read, [lines |-> <<>>, current |-> <<>>, quoted |-> FALSE], input)
  IN  AppendLine(end.lines, end.current)

\* Mutant of ParseCsvLine: a doubled quote ends the field and begins it again.
ParseCsvLineUnescaped(line) ==
  LET Read(s, i) ==
        CASE line[i] = "quote" -> [s EXCEPT !.quoted = ~@]
          [] line[i] = "comma" /\ ~s.quoted ->
               [s EXCEPT !.fields = Append(@, Trim(s.current)), !.current = <<>>]
          [] OTHER -> [s EXCEPT !.current = Append(@, line[i])]
      start == [fields |-> <<>>, current |-> <<>>, quoted |-> FALSE]
      end == FoldLeft(Read, start, [i \in DOMAIN line |-> i])
  IN  Append(end.fields, Trim(end.current))

\* Two quotes inside quotes are one, which the second of them (escaped) is
\* passed over for.
ParseCsvLine(line) ==
  LET Doubled(i) == i < Len(line) /\ line[i + 1] = "quote"
      Read(s, i) ==
        CASE s.escaped -> [s EXCEPT !.escaped = FALSE]
          [] ~s.escaped /\ line[i] = "quote" ->
               IF s.quoted /\ Doubled(i)
               THEN [s EXCEPT !.current = Append(@, "quote"), !.escaped = TRUE]
               ELSE [s EXCEPT !.quoted = ~@]
          [] ~s.escaped /\ line[i] = "comma" /\ ~s.quoted ->
               [s EXCEPT !.fields = Append(@, Trim(s.current)), !.current = <<>>]
          [] OTHER -> [s EXCEPT !.current = Append(@, line[i])]
      start == [fields |-> <<>>, current |-> <<>>, quoted |-> FALSE, escaped |-> FALSE]
      end == FoldLeft(Read, start, [i \in DOMAIN line |-> i])
  IN  Append(end.fields, Trim(end.current))

ParseCsv(input) ==
  LET lines == SplitCsvLines(input)
  IN  IF lines = <<>> THEN [headers |-> <<>>, rows |-> <<>>]
      ELSE [headers |-> ParseCsvLine(Head(lines)),
            rows |-> [k \in DOMAIN Tail(lines) |-> ParseCsvLine(Tail(lines)[k])]]

\* A row as an object: of two equal headers the last counts, a value that is
\* missing is empty, and one that is too much is dropped.
DatasetRow(headers, values) ==
  [key \in ToSet(headers) |->
     LET i == Max({j \in DOMAIN headers : headers[j] = key})
     IN  IF i <= Len(values) THEN values[i] ELSE <<>>]

-----------------------------------------------------------------------------
(* The requests.                                                           *)

\* JSON.parse, of an array of objects.
JsonRows == [k \in DOMAIN document.table.rows |->
               DatasetRow(document.table.fields, document.table.rows[k])]

Imported ==
  IF document.how = "json" THEN JsonRows
  ELSE LET csv == ParseCsv(document.text)
       IN  [k \in DOMAIN csv.rows |-> DatasetRow(csv.headers, csv.rows[k])]

\* importDatasetFromJson, importDatasetFromCsv: what they refuse (422).
IsRefused ==
  IF document.how = "json" THEN JsonRows = <<>>
  ELSE ParseCsv(document.text).headers = <<>>

Refuse ==
  /\ result = None /\ IsRefused
  /\ result' = [error |-> "IMPORT_FAILED"]
  /\ UNCHANGED document

\* createDataset: committed, whatever becomes of the version.
CreateDataset ==
  /\ result = None /\ ~IsRefused
  /\ result' = [dataset |-> TRUE, version |-> None]
  /\ UNCHANGED document

Created == result # None /\ "dataset" \in DOMAIN result

\* createDatasetVersion: of an import without sensitive fields, which are
\* given with a version that is posted.
CreateDatasetVersion(sensitive) ==
  /\ Created /\ result.version = None
  /\ result' = [result EXCEPT !.version = [rows |-> Imported, sensitive |-> sensitive]]
  /\ UNCHANGED document

\* maskRows.
MaskRows(rows, sensitive) ==
  [k \in DOMAIN rows |->
     [key \in DOMAIN rows[k] |-> IF key \in sensitive THEN "***MASKED***" ELSE rows[k][key]]]

\* getDatasetVersion, listDatasetVersions.
RowToDatasetVersion(version) == MaskRows(version.rows, version.sensitive)

-----------------------------------------------------------------------------
(* How a table is written as CSV: every field in quotes, or those only     *)
(* that need them, with one line end or the other.                         *)

Escaped(text) ==
  FlattenSeq([i \in DOMAIN text |->
                IF text[i] = "quote" THEN <<"quote", "quote">> ELSE <<text[i]>>])
NeedsQuotes(text) == ToSet(text) \cap {"comma", "quote", "newline", "return"} # {}

Field(text, always) ==
  IF always \/ NeedsQuotes(text) THEN <<"quote">> \o Escaped(text) \o <<"quote">> ELSE text
Line(fields, always) ==
  FlattenSeq([i \in DOMAIN fields |->
    (IF i = 1 THEN <<>> ELSE <<"comma">>) \o Field(fields[i], always)])

Ways == [always : BOOLEAN, return : BOOLEAN]

Csv(table, way) ==
  FlattenSeq([k \in 1..Len(table.rows) + 1 |->
    Line(IF k = 1 THEN table.fields ELSE table.rows[k - 1], way.always)
      \o (IF way.return THEN <<"return", "newline">> ELSE <<"newline">>)])

Init ==
  /\ result = None
  /\ \E table \in Tables :
       \/ document = [table |-> table, how |-> "json", text |-> <<>>]
       \/ \E way \in Ways :
            document = [table |-> table, how |-> "csv", text |-> Csv(table, way)]

Next ==
  \/ Refuse \/ CreateDataset
  \/ \E sensitive \in {{}, document.table.sensitive} : CreateDatasetVersion(sensitive)

\* What a reader of the first version is to see: each row of the table with
\* its values, a sensitive one masked, and surrounding blanks lost (of a CSV).
Shown(table, how, sensitive) ==
  [k \in DOMAIN table.rows |->
     [key \in ToSet(table.fields) |->
        LET i == CHOOSE j \in DOMAIN table.fields : table.fields[j] = key
            value == IF i <= Len(table.rows[k]) THEN table.rows[k][i] ELSE <<>>
        IN  IF key \in sensitive THEN "***MASKED***"
            ELSE IF how = "csv" THEN Trim(value) ELSE value]]

(* However a table is written (quoted fields with commas, quotes and        *)
(* newlines, rows that are too short), what is read of the dataset that was *)
(* imported from it is that table, and never a sensitive value.             *)
DatasetIsFaithful ==
  Created /\ result.version # None =>
    RowToDatasetVersion(result.version) =
      Shown(document.table, document.how, result.version.sensitive)
=============================================================================
