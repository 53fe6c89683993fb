------------------------------ MODULE Chunking ------------------------------
(* How a large text is cut into the chunks that can be searched                *)
(* (runtime/ingestion.py).  A text is a sequence of lines, a line is what the  *)
(* parser of its format sees in it: blank, plain, an outer mark (a heading of  *)
(* level 1, a declaration, a time stamp, a table header, a key at the margin)  *)
(* or an inner one (a deeper heading or key).  A range <<a, b>> stands for the *)
(* lines a .. b-1; the offsets of the code are the ends of lines here.         *)
EXTENDS Naturals, Sequences, FiniteSets, Enumeration

CONSTANTS
  MaxLines,   \* bound of the model
  MaxLength,  \* max_chunk_chars, in lines
  MaxChunks   \* max_chunks

LengthAssumption == MaxLength \in Nat \ {0} /\ MaxLines \in Nat

Line == {"blank", "plain", "outer", "inner"}
Format == {"python", "code", "markdown", "text", "json", "yaml", "toml", "log",
           "binary"}

Mark(line) == line \in {"outer", "inner"}
Level(line) == IF line = "outer" THEN 1 ELSE 2
Marks(text) == {i \in DOMAIN text : Mark(text[i])}
EndOf(text) == Len(text) + 1
Least(S, default) ==
  IF S = {} THEN default ELSE CHOOSE i \in S : \A j \in S : i <= j

\* A mark's section ends at the next mark that is not deeper.
SectionEnd(text, i) ==
  Least({j \in Marks(text) : j > i /\ Level(text[j]) <= Level(text[i])},
        EndOf(text))
NextMark(text, i) == Least({j \in Marks(text) : j > i}, EndOf(text))

\* Maximal runs of plain lines.
Paragraphs(text) ==
  {p \in (1 .. Len(text)) \X (2 .. EndOf(text)) :
     /\ p[1] < p[2] /\ \A i \in p[1] .. p[2] - 1 : text[i] = "plain"
     /\ p[1] = 1 \/ text[p[1] - 1] # "plain"
     /\ p[2] = EndOf(text) \/ text[p[2]] # "plain"}
ClosedParagraphs(text) ==   \* Faulty variant: the paragraph at the end is not flushed
  {p \in Paragraphs(text) : p[2] # EndOf(text)}

FlushedParagraphs(text) == Paragraphs(text)

MarkdownUnits(text) ==
  {<<i, SectionEnd(text, i)>> : i \in Marks(text)}
    \cup {<<i, i + 1>> : i \in Marks(text)} \cup FlushedParagraphs(text)

\* Declarations run to the next one; without any, every line is a block.
CodeUnits(text) ==
  IF Marks(text) # {} THEN {<<i, NextMark(text, i)>> : i \in Marks(text)}
  ELSE {<<i, i + 1>> : i \in {j \in DOMAIN text : text[j] # "blank"}}

\* The whole file, and each structure inside it.
PythonUnits(text) ==
  {<<1, EndOf(text)>>} \cup {<<i, SectionEnd(text, i)>> : i \in Marks(text)}
YamlUnits(text) == PythonUnits(text)

TomlUnits(text) ==
  LET headers == {i \in DOMAIN text : text[i] = "outer"}
      End(i) == Least({j \in headers : j > i}, EndOf(text)) IN
  {<<1, Least(headers, EndOf(text))>>} \cup {<<i, End(i)>> : i \in headers}
    \cup {<<i, i + 1>> : i \in {j \in DOMAIN text : text[j] = "inner"}}

\* The root value, and each field or item inside it.
JsonUnits(text) ==
  LET written == {i \in DOMAIN text : text[i] # "blank"}
      end == 1 + Least({i \in written : \A j \in written : j <= i}, Len(text)) IN
  {<<Least(written, 1), end>>}
    \cup {<<i, Least({SectionEnd(text, i), end}, end)>> : i \in Marks(text)}

\* A record starts at a stamp, the first one at the first line with text.
LogUnits(text) ==
  LET first == Least({i \in DOMAIN text : text[i] # "blank"}, EndOf(text))
      starts == {i \in DOMAIN text : i = first \/ (i > first /\ Mark(text[i]))}
  IN {<<i, Least({j \in starts : j > i}, EndOf(text))>> : i \in starts}

Structure(text, format) ==
  CASE format = "python" -> PythonUnits(text)
    [] format = "code" -> CodeUnits(text)
    [] format \in {"markdown", "text"} -> MarkdownUnits(text)
    [] format = "json" -> JsonUnits(text)
    [] format = "yaml" -> YamlUnits(text)
    [] format = "toml" -> TomlUnits(text)
    [] format = "log" -> LogUnits(text)
    [] OTHER -> {}

\* No structure, or a text its parser refuses: one unit, cut by size alone.
UnitsFor(text, format, refused) ==
  LET units == {u \in Structure(text, format) : u[1] < u[2]} IN
  IF refused \/ units = {} THEN {<<1, EndOf(text)>>} ELSE units

\* _split_ranges: a piece starts every MaxLength lines.  (Where a piece has too
\* many bytes the code moves its end to the left, inside a line, and starts the
\* next one there: neither bytes nor offsets are in the model.)
Starts(unit) ==
  {unit[1] + k * MaxLength : k \in 0 .. unit[2] - unit[1]}
    \cap (unit[1] .. unit[2] - 1)
Pieces(unit) ==
  {<<i, IF i + MaxLength < unit[2] THEN i + MaxLength ELSE unit[2]>> :
     i \in Starts(unit)}

\* Enclosing units precede the nested ones, and a unit is cut from its start on.
Precedes(u, v) == u[1] < v[1] \/ (u[1] = v[1] /\ u[2] > v[2])
Cuts(units) == UNION {{u} \X Pieces(u) : u \in units}
Before(cuts, c) ==
  {d \in cuts : Precedes(d[1], c[1]) \/ (d[1] = c[1] /\ Precedes(d[2], c[2]))}

ChunksFromUnits(units) ==
  LET cuts == Cuts(units)
      ordered == InOrder(cuts, [c \in cuts |-> Before(cuts, c)])
  IN [n \in DOMAIN ordered |-> ordered[n][2]]

-----------------------------------------------------------------------------
VARIABLES
  text,     \* the input, until it is cut
  format,   \* "unknown", then what detect_content_type says
  chunks,   \* the chunks, in their order
  failed    \* the limit on their number was exceeded

vars == <<text, format, chunks, failed>>

TypeOK ==
  /\ text \in Seq(Line) /\ Len(text) <= MaxLines
  /\ format \in Format \cup {"unknown"}
  /\ chunks \in Seq(Nat \X Nat) /\ failed \in BOOLEAN

Init == text = <<>> /\ format = "unknown" /\ chunks = <<>> /\ failed = FALSE

Type(line) ==
  /\ format = "unknown" /\ Len(text) < MaxLines
  /\ text' = Append(text, line) /\ UNCHANGED <<format, chunks, failed>>

Ingest(f, refused) ==
  /\ format = "unknown" /\ text # <<>> /\ format' = f
  /\ refused => f \in {"python", "json", "toml"}
  /\ LET cut == IF f = "binary" THEN <<>>
                ELSE ChunksFromUnits(UnitsFor(text, f, refused)) IN
       /\ failed' = (Len(cut) > MaxChunks)
       /\ chunks' = IF failed' THEN <<>> ELSE cut
  /\ UNCHANGED text

Next ==
  \/ \E line \in Line : Type(line)
  \/ \E f \in Format, refused \in BOOLEAN : Ingest(f, refused)

Spec == Init /\ [][Next]_vars

-----------------------------------------------------------------------------
Within(i, chunk) == chunk[1] <= i /\ i < chunk[2]

\* What stands before the first declaration of a source file (imports, the
\* header) is lost: _generic_code_units starts its first unit there.
Lost ==
  {i \in DOMAIN text :
     format = "code" /\ Marks(text) # {} /\ \A k \in Marks(text) : i < k}
Searchable == {i \in DOMAIN text \ Lost : text[i] # "blank"}

(* Of a text in any format but one, every line with text is in a chunk that    *)
(* can be found again, however often a unit had to be cut.  The exception is   *)
(* a source file that is not Python and has declarations: what stands before   *)
(* the first of them is in no chunk, and nothing else is missing.  No chunk is *)
(* empty, longer than the limit, or reaches beyond the text.                   *)
EveryLineIsInAChunk ==
  format \notin {"unknown", "binary"} /\ ~failed =>
    /\ \A i \in Searchable : \E k \in DOMAIN chunks : Within(i, chunks[k])
    /\ \A i \in Lost : ~\E k \in DOMAIN chunks : Within(i, chunks[k])
    /\ \A k \in DOMAIN chunks :
         /\ chunks[k][1] < chunks[k][2] /\ chunks[k][2] - chunks[k][1] <= MaxLength
         /\ chunks[k][2] <= EndOf(text)
=============================================================================
