------------------------------ MODULE Chunking ------------------------------
(***************************************************************************)
(* src/chunking.rs: cutting a document into overlapping passages, and  *)
(* the check src/engine/graph.rs makes of the passages it is given.    *)
(*                                                                         *)
(* A document is a sequence of lines [kind, letters].  The kind of a line  *)
(* is what Markdown makes of it: "atx" is a heading, "setext" makes one of *)
(* the text line before it, "fence" opens and closes code, "code" is       *)
(* indented, "text" is the rest.  Letters are classes of characters: a     *)
(* word, a space, the newline, a stop that needs white space behind it, a  *)
(* full-width stop that does not, and a closing quote or bracket.          *)
(* Positions count characters; the byte offsets of the code are their      *)
(* image under an increasing map.                                          *)
(***************************************************************************)
EXTENDS Rows

CONSTANTS Word, Space, Newline, Stop, WideStop, Closer

White(c) == c \in {Space, Newline}
Characters(document) == FlattenSeq([i \in DOMAIN document |-> document[i].letters])

(* The position before the first letter of line i.                         *)
LineStart(document, i) == Len(Characters(SubSeq(document, 1, i - 1)))
-----------------------------------------------------------------------------
(* Headings.  Inside a fence nothing is one.                               *)
FenceOpenBefore(document, i) ==
  Cardinality({j \in 1..(i - 1) : document[j].kind = "fence"}) % 2 = 1

Blank(letters) == \A i \in DOMAIN letters : White(letters[i])

UnderlinesText(document, i) ==
  /\ document[i].kind = "setext" /\ i > 1
  /\ document[i - 1].kind = "text" /\ ~Blank(document[i - 1].letters)

HeadingLines(document) ==
  {i \in DOMAIN document : document[i].kind = "atx" /\ ~FenceOpenBefore(document, i)}
  \cup
  {i - 1 : i \in {j \in DOMAIN document :
                    UnderlinesText(document, j) /\ ~FenceOpenBefore(document, j)}}

HeadingStarts(document) == {LineStart(document, i) : i \in HeadingLines(document)}
-----------------------------------------------------------------------------
(* Natural boundaries: after position p there is the end of an empty line  *)
(* (3), of a sentence with what closes it and the space behind (2), of     *)
(* white space (1), or none (0).                                           *)
EndsEmptyLine(text, p) ==
  /\ p > 0 /\ text[p] = Newline
  /\ LET lines == {0} \cup {i \in 1..(p - 1) : text[i] = Newline}
     IN  \A i \in (Max(lines) + 1)..(p - 1) : White(text[i])

RunEnd(text, p, Class(_)) ==
  CHOOSE e \in p..Len(text) :
    /\ \A i \in (p + 1)..e : Class(text[i])
    /\ e = Len(text) \/ ~Class(text[e + 1])

SentenceEnds(text) ==
  LET closed(i) == RunEnd(text, i, LAMBDA c : c = Closer)
      ends(i) == \/ text[i] = WideStop
                 \/ text[i] = Stop /\ (closed(i) = Len(text) \/ White(text[closed(i) + 1]))
  IN  {RunEnd(text, closed(i), White) : i \in {j \in DOMAIN text : ends(j)}}

EndsWhite(text, p) ==
  p > 0 /\ White(text[p]) /\ (p = Len(text) \/ ~White(text[p + 1]))

Boundaries(text) ==
  LET sentences == SentenceEnds(text)
  IN  [p \in 0..Len(text) |-> CASE EndsEmptyLine(text, p) -> 3
                                [] p \in sentences -> 2
                                [] EndsWhite(text, p) -> 1
                                [] OTHER -> 0]

(* The last of the best boundaries in the range, or its end.               *)
PreferredEnd(boundaries, minimum, maximum) ==
  LET best == Max({boundaries[p] : p \in minimum..maximum})
  IN  IF best = 0 THEN maximum
      ELSE Max({p \in minimum..maximum : boundaries[p] = best})
-----------------------------------------------------------------------------
(* A configuration is [max_characters, overlap_characters, max_chunks].    *)
ValidConfig(config) ==
  /\ config.max_characters > 0 /\ config.max_chunks > 0
  /\ config.overlap_characters < config.max_characters

Half(n) == n \div 2

(* Where the next chunk begins: behind the section when it ends, else back *)
(* by the overlap, at the first boundary there is in it.                   *)
NextStartAcrossSections(boundaries, start, end, section_end, config) ==
  end - Min({config.overlap_characters, Half(end - start)})
NextStart(boundaries, start, end, section_end, config) ==
  LET earliest == end - Min({config.overlap_characters, Half(end - start)})
      natural == {p \in earliest..(end - 1) : boundaries[p] > 0}
  IN  IF end = section_end THEN end
      ELSE IF natural = {} THEN earliest ELSE Min(natural)

Cut(chunks)   == [outcome |-> "chunks", chunks |-> chunks]
TooManyChunks == [outcome |-> "too many", chunks |-> <<>>]

(* One turn of the loop: nothing once the text is covered, else one chunk. *)
Covered(chunks) == IF chunks = <<>> THEN 0 ELSE Last(chunks).end

AddChunk(cut, n, headings, boundaries, config) ==
  LET start == cut.start
      section_end == Min({h \in headings : h > start} \cup {n})
      hard_end == Min({start + config.max_characters, section_end})
      minimum == Max({start + Max({Half(config.max_characters), 1}), Covered(cut.chunks) + 1})
      end == IF hard_end = section_end THEN hard_end
             ELSE PreferredEnd(boundaries, minimum, hard_end)
  IN  IF Covered(cut.chunks) = n THEN cut
      ELSE [chunks |-> Append(cut.chunks,
                              [start |-> start, end |-> end,
                               heading |-> Max({h \in headings : h <= start} \cup {-1})]),
            start |-> NextStart(boundaries, start, end, section_end, config)]

ChunksFrom(n, headings, boundaries, config) ==
  LET cut[turn \in 0..config.max_chunks] ==
        IF turn = 0 THEN [chunks |-> <<>>, start |-> 0]
        ELSE AddChunk(cut[turn - 1], n, headings, boundaries, config)
  IN  cut[config.max_chunks].chunks

ChunkText(document, config) ==
  LET text == Characters(document)
      chunks == ChunksFrom(Len(text), HeadingStarts(document), Boundaries(text), config)
  IN  IF text = <<>> THEN Cut(<<>>)
      ELSE IF Len(text) > config.max_characters * config.max_chunks THEN TooManyChunks
      ELSE IF Covered(chunks) # Len(text) THEN TooManyChunks
      ELSE Cut(chunks)
-----------------------------------------------------------------------------
(* The graph leaves blank chunks out and stores the others only if they    *)
(* advance and cover everything that is not white (validate_preview).      *)
Part(text, from, to) == SubSeq(text, from + 1, to)

Stored(text, chunks) ==
  Where(chunks, LAMBDA c : ~Blank(Part(text, c.start, c.end)))

ValidPreview(text, chunks) ==
  LET Behind(i) == IF i = 1 THEN 0 ELSE chunks[i - 1].end
  IN  /\ chunks # <<>>
      /\ \A i \in DOMAIN chunks :
           /\ chunks[i].start < chunks[i].end
           /\ chunks[i].start > Behind(i) => Blank(Part(text, Behind(i), chunks[i].start))
           /\ i > 1 => /\ chunks[i].start > chunks[i - 1].start
                       /\ chunks[i].end > Behind(i)
      /\ Blank(Part(text, Last(chunks).end, Len(text)))
=============================================================================
