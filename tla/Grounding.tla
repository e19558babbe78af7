----------------------------- MODULE Grounding -----------------------------
(***************************************************************************)
(* src/api/rag_chat_quality.rs: what becomes of a generated answer     *)
(* before a client sees it.                                                *)
(*                                                                         *)
(* An answer is a sequence of tokens: a word, a question mark, markup that *)
(* cannot be spoken, <<"label", n>> for the citation [Sn], and Torn for a  *)
(* citation that is not closed or not a number.  A source is the sequence  *)
(* of letters of the passage a label stands for.  A generated answer is    *)
(*   [refused, incomplete, wellformed, status, answer, evidence]           *)
(* where evidence is a sequence of [label, quote] and status, answer and   *)
(* evidence are what the provider put in the required JSON object.         *)
(***************************************************************************)
EXTENDS Rows

CONSTANTS MinimumQuote,   \* letters a quotation needs, 16 in the code
          MaxEvidence, MaxSpokenWords,
          BlankLetter

Label(n)     == <<"label", n>>
Torn         == <<"torn", 0>>
AWord        == <<"word", 0>>
Question     == <<"question", 0>>
Markup       == <<"markup", 0>>
OwnWords     == <<<<"server", 0>>>>      \* the fixed text of an abstention
IsLabel(t)   == t[1] = "label"

NoAnswer == <<>>

(* The labels of an answer that name a source, and whether others occur.   *)
CitedLabels(answer, sources) ==
  {t[2] : t \in {x \in Range(answer) : IsLabel(x)}} \cap DOMAIN sources
InvalidLabels(answer, sources) ==
  \E t \in Range(answer) : t = Torn \/ (IsLabel(t) /\ t[2] \notin DOMAIN sources)

Result(answer, status, citations, cited, evidence) ==
  [answer |-> answer, status |-> status, citations |-> citations,
   cited |-> cited, evidence |-> evidence, speech |-> NoAnswer]

Withheld(status)  == Result(NoAnswer, status, "not_applicable", {}, <<>>)
InvalidGrounding  == Result(NoAnswer, "invalid_grounding", "invalid", {}, <<>>)
-----------------------------------------------------------------------------
(* Speech: the accepted answer without its markers, when what is left can  *)
(* be spoken.                                                              *)
Spoken(result) ==
  Where(result.answer, LAMBDA t : ~(IsLabel(t) /\ t[2] \in result.cited))

AddSpeech(result) ==
  LET text == Spoken(result)
  IN  IF \/ text = <<>> \/ Len(text) > MaxSpokenWords
         \/ \E t \in Range(text) : t \in {Markup, Torn} \/ IsLabel(t)
      THEN result
      ELSE [result EXCEPT !.speech = text]

Voiced(result, style) == IF style = "voice" THEN AddSpeech(result) ELSE result
-----------------------------------------------------------------------------
(* Quotations.                                                             *)
Trimmed(letters) ==
  LET ink == {i \in DOMAIN letters : letters[i] # BlankLetter}
  IN  IF ink = {} THEN <<>> ELSE SubSeq(letters, Min(ink), Max(ink))

Within(quote, source) ==
  \E i \in 0..(Len(source) - Len(quote)) :
    SubSeq(source, i + 1, i + Len(quote)) = quote

SupportsAnyFragment(evidence, sources) ==
  evidence.label \in DOMAIN sources /\ Within(evidence.quote, sources[evidence.label])

Supports(evidence, sources) ==
  /\ evidence.label \in DOMAIN sources
  /\ LET source == sources[evidence.label]
         minimum == Min({Len(Trimmed(source)), MinimumQuote})
     IN  /\ minimum > 0
         /\ Len(Trimmed(evidence.quote)) >= minimum
         /\ Within(evidence.quote, source)

EvidenceLabels(evidence) == {evidence[i].label : i \in DOMAIN evidence}

AcceptedAnswer(g, sources, style) ==
  LET cited == CitedLabels(g.answer, sources)
  IN  IF /\ cited # {} /\ g.evidence # <<>>
         /\ \A i \in DOMAIN g.evidence : Supports(g.evidence[i], sources)
         /\ EvidenceLabels(g.evidence) = cited
      THEN Voiced(Result(g.answer, "answered", "valid_labels", cited, g.evidence), style)
      ELSE InvalidGrounding

Abstained(g, sources, style) ==
  IF CitedLabels(g.answer, sources) # {} \/ g.evidence # <<>> THEN InvalidGrounding
  ELSE IF g.status = "insufficient_evidence"
       THEN Voiced(Result(OwnWords, g.status, "not_applicable", {}, <<>>), style)
  ELSE IF Last(g.answer) = Question
       THEN Voiced(Result(g.answer, g.status, "not_applicable", {}, <<>>), style)
  ELSE InvalidGrounding

Strict(g, sources, style) ==
  IF \/ ~g.wellformed
     \/ g.answer = <<>> /\ g.status # "insufficient_evidence"
     \/ Len(g.evidence) > MaxEvidence
     \/ InvalidLabels(g.answer, sources)
  THEN InvalidGrounding
  ELSE IF g.status = "answered" THEN AcceptedAnswer(g, sources, style)
  ELSE Abstained(g, sources, style)

Standard(g, sources, style) ==
  LET cited == CitedLabels(g.answer, sources)
      citations == IF InvalidLabels(g.answer, sources) THEN "invalid"
                   ELSE IF cited = {} THEN "missing" ELSE "valid_labels"
      result == Result(g.answer, "answered", citations, cited, <<>>)
  IN  IF citations = "valid_labels" THEN Voiced(result, style) ELSE result

(* A refused or unfinished text is kept only in standard mode, under a     *)
(* status that says what it is.                                            *)
Finalize(g, sources, grounding, style) ==
  IF g.refused \/ g.incomplete
  THEN LET withheld == Withheld(IF g.refused THEN "refused" ELSE "incomplete")
       IN  IF grounding = "standard" THEN [withheld EXCEPT !.answer = g.answer]
           ELSE withheld
  ELSE IF grounding = "standard" THEN Standard(g, sources, style)
  ELSE Strict(g, sources, style)
=============================================================================
