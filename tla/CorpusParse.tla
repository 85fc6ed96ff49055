----------------------------- MODULE CorpusParse -----------------------------
(***************************************************************************)
(* Markdown to chunks: training/.../corpus/parse.py. parse_file reads the  *)
(* body line by line, tracking the code fence it is in, and starts a       *)
(* section at every H1, H2 and H3 outside a fence; then a section with too *)
(* little prose is dropped and one with too many tokens is split at blank  *)
(* lines, by a scanner of its own that must agree with the first about     *)
(* where the fences are.                                                   *)
(*                                                                         *)
(* A line is its kind, and a text of the file d the set of the positions   *)
(* of its lines, read in their order; a blank line is empty, any other is  *)
(* one token and, outside a fence and a table, one unit of prose.          *)
(***************************************************************************)
EXTENDS Integers, Sequences, FiniteSetsExt

CONSTANTS
  Kinds,      \* the kinds of line a file is made of
  MaxLines,   \* bound on the lines of a file
  MaxTokens,  \* config.MAX_CHUNK_TOKENS
  MinProse    \* config.MIN_CHUNK_PROSE_CHARS

Fences == [backticks3 |-> <<"backtick", 3>>, backticks4 |-> <<"backtick", 4>>,
           tildes3 |-> <<"tilde", 3>>]
Levels == [h1 |-> 1, h2 |-> 2, h3 |-> 3, untitled2 |-> 2]
Untitled == {"untitled2"}   \* a heading with no visible text

ASSUME ParseAssumption ==
  /\ Kinds \subseteq {"text", "table", "blank"} \union DOMAIN Fences \union DOMAIN Levels
  /\ {MaxLines, MaxTokens, MinProse} \subseteq Nat \ {0}

VARIABLES
  doc,       \* the kinds of the lines read so far
  fence,     \* the line that opened the fence the scanner is in, or NoFence
  headings,  \* h1, h2, h3: the position of the heading line, NoHeading or Title
  current,   \* the section being read
  sections,  \* the sections so far: their heading path and text
  ended,     \* every line has been read
  chunked,   \* how many sections the chunks so far are of
  rest, buf, \* split_oversized: what is not yet gathered, and the part gathered
  returned   \* the chunks: heading path and text

lineVars == <<doc, fence, headings, current, sections, ended>>
parseVars == <<lineVars, chunked, rest, buf, returned>>

NoFence == ""
NoHeading == 0
Title == -1   \* the title of the front matter, which stands in for an H1

(***************************************************************************)
(* Texts.                                                                  *)
(***************************************************************************)
\* The fence after a line: the same rule in each of the three scanners.
FenceAfter(open, kind) ==
  IF kind \notin DOMAIN Fences THEN open
  ELSE IF open = NoFence THEN kind
  ELSE IF Fences[kind][1] = Fences[open][1] /\ Fences[kind][2] >= Fences[open][2] THEN NoFence
  ELSE open

\* The fence after each line, for a scanner that starts at line a.
Scan(d, a) ==
  LET open[p \in 0..Len(d)] == IF p < a THEN NoFence ELSE FenceAfter(open[p - 1], d[p])
  IN  open

\* Its lines that are not blank; str.strip(); count_tokens.
Ink(d, text) == {p \in text : d[p] # "blank"}
Strip(d, text) == {p \in text : \E q, r \in Ink(d, text) : q <= p /\ p <= r}
Tokens(d, text) == Cardinality(Ink(d, text))

\* strip_code_fences, prose_chars.
Prose(d, text) ==
  Cardinality({p \in Ink(d, text) : /\ d[p] # "table" /\ d[p] \notin DOMAIN Fences
                                    /\ Scan(d, Min(text))[p - 1] = NoFence})

\* Mutant: a blank line inside a fence ends a block too.
EveryBlank(d, text) == {p \in text : d[p] = "blank"}

\* Where split_oversized ends a block: at a blank line outside a fence.
BlockEnds(d, text) == {p \in text : d[p] = "blank" /\ Scan(d, Min(text))[p] = NoFence}

(***************************************************************************)
(* The lines of the file, to sections.                                     *)
(***************************************************************************)
ParseInit ==
  /\ doc = <<>> /\ fence = NoFence /\ current = {} /\ sections = <<>> /\ ended = FALSE
  /\ headings \in {<<h, NoHeading, NoHeading>> : h \in {NoHeading, Title}}
  /\ chunked = 0 /\ rest = {} /\ buf = {} /\ returned = <<>>

\* heading_path: the levels that have a heading, which come in their order.
HeadingPath == {headings[l] : l \in 1..3} \ {NoHeading}

\* flush: the section read so far, unless it is blank.
Flushed ==
  IF Ink(doc, current) = {} THEN sections
  ELSE Append(sections, [path |-> HeadingPath, lines |-> current])

IsHeading(kind) == fence = NoFence /\ kind \in DOMAIN Levels
Reads(kind) == ~ended /\ Len(doc) < MaxLines /\ doc' = Append(doc, kind)

\* A line inside a fence, a fence, or any line that is not a heading.
ReadLine(kind) ==
  /\ Reads(kind) /\ ~IsHeading(kind)
  /\ fence' = FenceAfter(fence, kind)
  /\ current' = current \union {Len(doc')}
  /\ UNCHANGED <<headings, sections, ended, chunked, rest, buf, returned>>

\* A heading outside a fence closes the section, clears the levels below it and
\* is the first line of the next section. One with no text is no part of a path.
ReadHeading(kind) ==
  /\ Reads(kind) /\ IsHeading(kind)
  /\ sections' = Flushed
  /\ headings' = [l \in 1..3 |->
       IF l < Levels[kind] THEN headings[l]
       ELSE IF l = Levels[kind] /\ kind \notin Untitled THEN Len(doc') ELSE NoHeading]
  /\ current' = {Len(doc')}
  /\ UNCHANGED <<fence, ended, chunked, rest, buf, returned>>

EndOfFile ==
  /\ ~ended /\ ended' = TRUE
  /\ sections' = Flushed /\ current' = {}
  /\ UNCHANGED <<doc, fence, headings, chunked, rest, buf, returned>>

(***************************************************************************)
(* The sections, to chunks.                                                *)
(***************************************************************************)
Content == Strip(doc, sections[chunked + 1].lines)

Takes == ended /\ chunked < Len(sections) /\ rest = {} /\ buf = {}

Return(text) ==
  returned' = Append(returned, [path |-> sections[chunked + 1].path, lines |-> Strip(doc, text)])

DropSection ==
  /\ Takes /\ Prose(doc, Content) < MinProse
  /\ chunked' = chunked + 1
  /\ UNCHANGED <<lineVars, rest, buf, returned>>

KeepSection ==
  /\ Takes /\ Prose(doc, Content) >= MinProse /\ Tokens(doc, Content) <= MaxTokens
  /\ Return(Content)
  /\ chunked' = chunked + 1
  /\ UNCHANGED <<lineVars, rest, buf>>

SplitSection ==
  /\ Takes /\ Prose(doc, Content) >= MinProse /\ Tokens(doc, Content) > MaxTokens
  /\ rest' = Content
  /\ UNCHANGED <<lineVars, chunked, buf, returned>>

\* The next block of what is left of the section.
Block == {p \in rest : ~\E q \in BlockEnds(doc, Content) \intersect rest : q < p}

\* Blocks are gathered while they fit; an empty line alone is the empty string,
\* and no buffer.
Gather ==
  /\ rest # {} /\ rest' = rest \ Block
  /\ IF Ink(doc, buf) = {} THEN buf' = Block /\ UNCHANGED returned
     ELSE IF Tokens(doc, buf \union Block) > MaxTokens THEN Return(buf) /\ buf' = Block
     ELSE buf' = buf \union Block /\ UNCHANGED returned
  /\ UNCHANGED <<lineVars, chunked>>

\* The content is not blank, so that there is a part to return (parse.py:172).
LastPart ==
  /\ rest = {} /\ buf # {} /\ buf' = {}
  /\ IF Ink(doc, buf) = {} THEN UNCHANGED returned ELSE Return(buf)
  /\ chunked' = chunked + 1
  /\ UNCHANGED <<lineVars, rest>>

ParseNext ==
  \/ \E kind \in Kinds : ReadLine(kind) \/ ReadHeading(kind)
  \/ EndOfFile
  \/ DropSection \/ KeepSection \/ SplitSection \/ Gather \/ LastPart

ParseSpec == ParseInit /\ [][ParseNext]_parseVars

(***************************************************************************)
(* Properties.                                                             *)
(***************************************************************************)
Pieces(d) == [path: SUBSET (DOMAIN d \union {Title}), lines: (SUBSET DOMAIN d) \ {{}}]

\* Every text is of lines that were read.
ParseTypeOK ==
  /\ doc \in Seq(Kinds) /\ Len(doc) <= MaxLines
  /\ fence \in {NoFence} \union DOMAIN Fences
  /\ headings \in [1..3 -> DOMAIN doc \union {NoHeading, Title}]
  /\ {current, rest, buf} \subseteq SUBSET DOMAIN doc
  /\ sections \in Seq(Pieces(doc)) /\ returned \in Seq(Pieces(doc))
  /\ ended \in BOOLEAN /\ chunked \in 0..Len(sections)

\* The file read as a whole, for comparison: the lines outside every fence, the
\* headings among them, those in force at a line, and the section of a line.
Outside(d, p) == Scan(d, 1)[p - 1] = NoFence
HeadingLines(d) == {p \in DOMAIN d : d[p] \in DOMAIN Levels /\ Outside(d, p)}
InForce(d, p) ==
  {h \in HeadingLines(d) : h <= p /\ \A r \in HeadingLines(d) :
     h < r /\ r <= p => Levels[d[r]] > Levels[d[h]]}
SectionOf(d, p) == {q \in DOMAIN d : \A h \in HeadingLines(d) : h <= p <=> h <= q}

\* No chunk begins or ends inside a code fence, save where the file never closes
\* its last fence; a chunk over the token limit has no place to be split at.
FenceIsWhole(d, text) ==
  /\ Outside(d, Min(text))
  /\ \A p \in text : \/ \E q \in text : q > p
                     \/ Scan(d, 1)[p] = NoFence
                     \/ \A q \in Ink(d, DOMAIN d) : q <= p
  /\ Tokens(d, text) > MaxTokens => \A p \in text : d[p] = "blank" => ~Outside(d, p)

Titled(d, p) == {h \in InForce(d, p) : d[h] \notin Untitled}

\* The headings in force at the first line that have a text; the first line alone
\* may be a heading, and the title goes with the first H1.
PathIsInForce(d, chunk) ==
  /\ chunk.path \ {Title} = Titled(d, Min(chunk.lines))
  /\ Title \in chunk.path => \A h \in InForce(d, Min(chunk.lines)) : Levels[d[h]] # 1
  /\ chunk.lines \intersect HeadingLines(d) \subseteq {Min(chunk.lines)}

\* The chunks keep, once and in the order of the file, every line that is not
\* blank of every section with enough prose.
NoLineIsLost(d, chunks) ==
  /\ UNION {Ink(d, chunks[i].lines) : i \in DOMAIN chunks} =
       {p \in Ink(d, DOMAIN d) : Prose(d, SectionOf(d, p)) >= MinProse}
  /\ \A i, j \in DOMAIN chunks : i < j => \A p \in chunks[i].lines, q \in chunks[j].lines : p < q
  /\ \A i \in DOMAIN chunks : \A p, q \in chunks[i].lines : p..q \subseteq chunks[i].lines

\* Once parse_file has returned (parse.py:1, "Splits on H2 and H3 ... a # inside a
\* code block is never mistaken for a heading", and split_oversized, "never inside
\* a code fence"), its chunks are a partition of the sections worth keeping, under
\* the right headings and with whole fences: the scanners of parse_file,
\* split_oversized and strip_code_fences agree although the last two start afresh
\* in every section.
ChunksFollowTheOutline ==
  ended /\ chunked = Len(sections) =>
    /\ \A i \in DOMAIN returned :
         FenceIsWhole(doc, returned[i].lines) /\ PathIsInForce(doc, returned[i])
    /\ NoLineIsLost(doc, returned)
==============================================================================
