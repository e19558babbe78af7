-------------------------- MODULE GraphReadsProofs --------------------------
(***************************************************************************)
(* What every read of a collection's documents promises, for every request.*)
(***************************************************************************)
EXTENDS GraphReads, RowsProofs, FiniteSetTheorems

LEMMA ListIsSeq == ASSUME NEW s PROVE IsList(s) <=> IsSeq(s)
BY DEF IsList, IsSeq, Range, ToSet

(* An answer is what the handler computes from the request.                *)
Answers ==
  /\ request \in ChunkRequests \cup NeighborhoodRequests \cup SearchRequests
                   \cup RagRequests \cup ContextRequests \cup GroundingRequests
  /\ IsAnswered("chunk") => answer = ChunkText(request.document, request.config)
  /\ IsAnswered("neighborhood") => answer = GraphNeighborhood(request.graph, request.bounds)
  /\ IsAnswered("search") => answer = GraphSearch(request.graph, request.bounds)
  /\ IsAnswered("context") => answer = FinalizeContext(request.snapshot, request.options)
  /\ IsAnswered("generated") =>
       answer = Finalize(request.generated, request.sources, request.grounding, request.style)

LEMMA AnswersHold == GraphSpec => []Answers
<1>1. GraphInit => Answers
  BY DEF GraphInit, Answers, IsAnswered, Pending
<1>2. Answers /\ [GraphNext]_vars => Answers'
  <2> SUFFICES ASSUME Answers, [GraphNext]_vars PROVE Answers'
    OBVIOUS
  <2> USE DEF Answers, IsAnswered
  <2>1. CASE UNCHANGED vars
    BY <2>1 DEF vars
  <2>2. CASE Answered
    BY <2>2 DEF Answered, vars
  <2>3. CASE Chunk
    BY <2>3 DEF Chunk, Asked
  <2>4. CASE Neighborhood
    BY <2>4 DEF Neighborhood, Asked
  <2>5. CASE Search
    BY <2>5 DEF Search, Asked
  <2>6. CASE Retrieve
    BY <2>6 DEF Retrieve, Asked
  <2>7. CASE SelectContext
    BY <2>7 DEF SelectContext, Asked
  <2>8. CASE Ground
    BY <2>8 DEF Ground, Asked
  <2> QED BY <2>1, <2>2, <2>3, <2>4, <2>5, <2>6, <2>7, <2>8 DEF GraphNext
<1> QED BY <1>1, <1>2, PTL DEF GraphSpec
-----------------------------------------------------------------------------
(* Grounding.  A trimmed text runs from its first letter that is not blank *)
(* to its last.                                                            *)
Ink(letters) == {i \in DOMAIN letters : letters[i] # BlankLetter}

LEMMA TrimmedIs ==
    ASSUME NEW s, IsSeq(s)
    PROVE  IF Ink(s) = {} THEN Trimmed(s) = <<>>
           ELSE \E a, b \in Ink(s) : /\ \A i \in Ink(s) : a <= i /\ i <= b
                                     /\ Trimmed(s) = SubSeq(s, a, b)
                                     /\ Len(Trimmed(s)) = b - a + 1
<1> DEFINE n == Len(s)
<1>1. n \in Nat /\ DOMAIN s = 1 .. n /\ s \in Seq(ToSet(s))
  BY SeqDomain DEF IsSeq
<1> SUFFICES ASSUME Ink(s) # {}
             PROVE  \E a, b \in Ink(s) : /\ \A i \in Ink(s) : a <= i /\ i <= b
                                         /\ Trimmed(s) = SubSeq(s, a, b)
                                         /\ Len(Trimmed(s)) = b - a + 1
  BY DEF Trimmed, Ink
<1>2. Ink(s) \subseteq 1 .. n /\ Ink(s) \subseteq 0 .. n /\ Ink(s) \subseteq Nat
  BY <1>1 DEF Ink
<1>3. PICK a : a = Min(Ink(s))
  OBVIOUS
<1>4. PICK b : b = Max(Ink(s))
  OBVIOUS
<1> HIDE DEF n
<1>5. a \in Ink(s) /\ \A i \in Ink(s) : a <= i
  BY <1>1, <1>2, <1>3, SmallestPlace
<1>6. b \in Ink(s) /\ \A i \in Ink(s) : b >= i
  BY <1>1, <1>2, <1>4, GreatestPlace
<1>7. a \in 1 .. n /\ b \in 1 .. n /\ a <= b
  BY <1>1, <1>2, <1>5, <1>6
<1>8. Trimmed(s) = SubSeq(s, a, b)
  BY <1>3, <1>4 DEF Trimmed, Ink
<1>9. Len(SubSeq(s, a, b)) = b - a + 1
  BY <1>1, <1>7 DEF n
<1> QED BY <1>1, <1>2, <1>5, <1>6, <1>7, <1>8, <1>9

LEMMA SupportIsSubstantial ==
    ASSUME NEW sources, NEW e, IsSeq(e.quote), Supports(e, sources), IsSeq(sources[e.label])
    PROVE  e.label \in DOMAIN sources /\ Substantial(e.quote, sources[e.label])
<1>1. PICK source : source = sources[e.label]
  OBVIOUS
<1>2. PICK quote : quote = e.quote
  OBVIOUS
<1>3. /\ IsSeq(source) /\ IsSeq(quote) /\ Len(source) \in Nat /\ Len(quote) \in Nat
      /\ DOMAIN source = 1 .. Len(source) /\ DOMAIN quote = 1 .. Len(quote)
      /\ source \in Seq(ToSet(source)) /\ quote \in Seq(ToSet(quote))
  BY <1>1, <1>2, SeqDomain DEF IsSeq
<1>4. PICK minimum : minimum = Min({Len(Trimmed(source)), MinimumQuote})
  OBVIOUS
<1>5. minimum > 0 /\ Len(Trimmed(quote)) >= minimum /\ Within(quote, source)
  BY <1>1, <1>2, <1>4 DEF Supports
<1>6. Len(Trimmed(source)) \in Nat /\ Len(Trimmed(quote)) \in Nat
  <2>1. ASSUME NEW s, IsSeq(s) PROVE Len(Trimmed(s)) \in Nat
    <3>1. CASE Ink(s) = {}
      BY <2>1, <3>1, TrimmedIs
    <3>2. CASE Ink(s) # {}
      <4>1. Ink(s) \subseteq Nat
        BY <2>1, SeqDomain DEF Ink
      <4> QED BY <2>1, <3>2, <4>1, TrimmedIs
    <3> QED BY <3>1, <3>2
  <2> QED BY <1>3, <2>1
<1>7. minimum \in {Len(Trimmed(source)), MinimumQuote}
  BY <1>4, <1>6, GroundingAssumption, SmallestPlace
<1>8. Ink(quote) # {}
  <2> SUFFICES ASSUME Ink(quote) = {} PROVE FALSE
    OBVIOUS
  <2>1. Len(Trimmed(quote)) = 0
    BY <1>3, TrimmedIs
  <2> QED BY <1>5, <1>6, <1>7, <2>1, GroundingAssumption
<1>9. quote # <<>> /\ ~(Range(quote) \subseteq {BlankLetter})
  <2>1. PICK i \in DOMAIN quote : quote[i] # BlankLetter
    BY <1>8 DEF Ink
  <2>2. quote[i] \in Range(quote)
    BY <2>1 DEF Range
  <2>3. quote # <<>>
    BY <1>3, <2>1
  <2> QED BY <2>1, <2>2, <2>3
<1>10. PICK k \in 0 .. (Len(source) - Len(quote)) : SubSeq(source, k + 1, k + Len(quote)) = quote
  BY <1>5 DEF Within
<1>11. Len(quote) > 0 /\ k \in Nat /\ k + Len(quote) <= Len(source)
  BY <1>3, <1>8, <1>10 DEF Ink
<1>12. k + 1 \in DOMAIN source /\ k + Len(quote) \in DOMAIN source
  BY <1>3, <1>11
<1>13. \A i \in 1 .. Len(quote) : quote[i] = source[k + i]
  BY <1>3, <1>10, <1>11
<1>14. ASSUME minimum = Len(Trimmed(source)) PROVE Trimmed(quote) = Trimmed(source)
  <2>1. \A i \in Ink(quote) : k + i \in Ink(source)
    BY <1>3, <1>11, <1>13 DEF Ink
  <2>2. Ink(source) # {}
    BY <1>8, <2>1
  <2>3. PICK a, b \in Ink(quote) : /\ \A i \in Ink(quote) : a <= i /\ i <= b
                                   /\ Trimmed(quote) = SubSeq(quote, a, b)
                                   /\ Len(Trimmed(quote)) = b - a + 1
    BY <1>3, <1>8, TrimmedIs
  <2>4. PICK c, d \in Ink(source) : /\ \A i \in Ink(source) : c <= i /\ i <= d
                                    /\ Trimmed(source) = SubSeq(source, c, d)
                                    /\ Len(Trimmed(source)) = d - c + 1
    BY <1>3, <2>2, TrimmedIs
  <2>5. /\ a \in 1 .. Len(quote) /\ b \in 1 .. Len(quote) /\ a <= b
        /\ c \in 1 .. Len(source) /\ d \in 1 .. Len(source) /\ c <= d
    BY <1>3, <2>3, <2>4 DEF Ink
  <2>6. c <= k + a /\ k + b <= d
    BY <2>1, <2>3, <2>4
  <2>7. b - a + 1 >= d - c + 1
    BY <1>5, <1>14, <2>3, <2>4
  <2>8. c = k + a /\ d = k + b
    BY ONLY <1>11, <2>5, <2>6, <2>7
  <2>9. /\ SubSeq(quote, a, b) = [i \in 1 .. (b - a + 1) |-> quote[a + i - 1]]
        /\ SubSeq(source, c, d) = [i \in 1 .. (d - c + 1) |-> source[c + i - 1]]
    BY <1>3, <2>5
  <2>10. d - c + 1 = b - a + 1
    BY <1>11, <2>5, <2>8
  <2>11. \A i \in 1 .. (b - a + 1) : quote[a + i - 1] = source[c + i - 1]
    <3> SUFFICES ASSUME NEW i \in 1 .. (b - a + 1) PROVE quote[a + i - 1] = source[c + i - 1]
      OBVIOUS
    <3>1. a + i - 1 \in 1 .. Len(quote) /\ k + (a + i - 1) = c + i - 1
      BY <1>3, <1>11, <2>5, <2>8
    <3> QED BY <1>13, <3>1
  <2> QED BY <2>3, <2>4, <2>9, <2>10, <2>11
<1>15. Len(Trimmed(quote)) >= MinimumQuote \/ Trimmed(quote) = Trimmed(source)
  BY <1>5, <1>7, <1>14
<1>16. e.label \in DOMAIN sources
  BY DEF Supports
<1>17. \E i, j \in DOMAIN source : SubSeq(source, i, j) = quote
  BY <1>10, <1>12
<1> QED BY <1>1, <1>2, <1>9, <1>15, <1>16, <1>17 DEF Substantial

Labels(tokens) == {t[2] : t \in {x \in Range(tokens) : IsLabel(x)}}

(* What speech adds to a result, and where it comes from.                  *)
Unlabelled(text) == Where(text, LAMBDA t : ~IsLabel(t))

SpeaksOf(result, text, style) ==
  result.speech # NoAnswer =>
    /\ style = "voice"
    /\ ~\E t \in Range(result.speech) : IsLabel(t) \/ t \in {Torn, Markup}
    /\ result.speech = Unlabelled(text)

LEMMA VoicedIs ==
    ASSUME NEW text, IsList(text), NEW status, NEW citations, NEW cited, NEW evidence, NEW style,
           NEW result, result = Voiced(Result(text, status, citations, cited, evidence), style)
    PROVE  /\ result.answer = text /\ result.status = status /\ result.citations = citations
           /\ result.cited = cited /\ result.evidence = evidence
           /\ SpeaksOf(result, text, style)
<1>1. PICK plain : plain = Result(text, status, citations, cited, evidence)
  OBVIOUS
<1>2. /\ plain.answer = text /\ plain.status = status /\ plain.citations = citations
      /\ plain.cited = cited /\ plain.evidence = evidence /\ plain.speech = NoAnswer
  BY <1>1 DEF Result
<1>3. PICK spoken : spoken = Spoken(plain)
  OBVIOUS
<1>4. result = plain \/ result = [plain EXCEPT !.speech = spoken]
  BY <1>1, <1>3 DEF Voiced, AddSpeech
<1>5. DOMAIN plain = {"answer", "status", "citations", "cited", "evidence", "speech"}
  BY <1>1 DEF Result
<1>6. /\ result.answer = text /\ result.status = status /\ result.citations = citations
      /\ result.cited = cited /\ result.evidence = evidence
  BY <1>2, <1>4, <1>5
<1>7. ASSUME result.speech # NoAnswer
      PROVE  /\ style = "voice" /\ result.speech = spoken
             /\ ~\E t \in Range(spoken) : IsLabel(t) \/ t \in {Torn, Markup}
  <2>1. result # plain
    BY <1>2, <1>7
  <2>2. style = "voice"
    BY <1>1, <2>1 DEF Voiced
  <2>3. /\ result = [plain EXCEPT !.speech = spoken]
        /\ ~\E t \in Range(spoken) : t \in {Markup, Torn} \/ IsLabel(t)
    BY <1>1, <1>3, <2>1 DEF Voiced, AddSpeech
  <2>4. result.speech = spoken
    BY <1>5, <2>3
  <2> QED BY <2>2, <2>3, <2>4
<1>8. ASSUME \A t \in Range(spoken) : ~IsLabel(t)
      PROVE  spoken = Unlabelled(text)
  <2> DEFINE E == {t \in ToSet(text) : ~(IsLabel(t) /\ t[2] \in cited)}
             F == {t \in ToSet(text) : ~IsLabel(t)}
  <2>1. IsSeq(text) /\ \A i \in DOMAIN text : text[i] \in ToSet(text)
    BY ListIsSeq, SeqDomain
  <2>2. spoken = Only(text, E)
    <3>1. [n \in DOMAIN text |-> ~(IsLabel(text[n]) /\ text[n][2] \in cited)]
            = [n \in DOMAIN text |-> text[n] \in E]
      BY <2>1
    <3> QED BY <1>2, <1>3, <3>1 DEF Spoken, Where, Only
  <2>3. Unlabelled(text) = Only(text, F)
    <3>1. [n \in DOMAIN text |-> ~IsLabel(text[n])] = [n \in DOMAIN text |-> text[n] \in F]
      BY <2>1
    <3> QED BY <3>1 DEF Unlabelled, Where, Only
  <2>4. ToSet(Only(text, E)) = ToSet(text) \cap E
    BY <2>1, OnlyElements
  <2>5. \A t \in ToSet(spoken) : ~IsLabel(t)
    BY <1>8 DEF Range, ToSet
  <2>6. \A t \in ToSet(text) : t \in E <=> t \in F
    BY <2>2, <2>4, <2>5
  <2>7. Only(text, E) = Only(text, F)
    BY <2>1, <2>6, OnlySame
  <2> QED BY <2>2, <2>3, <2>7
<1> QED BY <1>6, <1>7, <1>8 DEF SpeaksOf

(* The parts of AcceptedIsGrounded, of a result and the request behind it. *)
IsGrounded(result, sources) ==
  LET labels == Labels(result.answer)
  IN  /\ labels # {} /\ labels = result.cited
      /\ labels \subseteq DOMAIN sources /\ Torn \notin Range(result.answer)
      /\ \A n \in labels : \E i \in DOMAIN result.evidence :
           /\ result.evidence[i].label = n
           /\ Substantial(result.evidence[i].quote, sources[n])
      /\ \A i \in DOMAIN result.evidence :
           /\ result.evidence[i].label \in labels
           /\ Substantial(result.evidence[i].quote, sources[result.evidence[i].label])

CarriesNothing(result) ==
  Labels(result.answer) = {} /\ result.cited = {} /\ result.evidence = <<>>

Accepted == {"answered", "insufficient_evidence", "clarification_needed"}

LabelsAreValid(result, sources) ==
  result.citations = "valid_labels" =>
    Labels(result.answer) # {} /\ Labels(result.answer) \subseteq DOMAIN sources

SpeechIsPlain(result, style) ==
  result.speech # NoAnswer =>
    /\ style = "voice" /\ result.status \in Accepted
    /\ result.citations \in {"valid_labels", "not_applicable"}
    /\ ~\E t \in Range(result.speech) : IsLabel(t) \/ t \in {Torn, Markup}
    /\ result.speech = Unlabelled(result.answer)

StrictIsSound(result, sources, style) ==
  /\ result.status = "answered" => IsGrounded(result, sources)
  /\ result.status # "answered" => CarriesNothing(result)
  /\ result.status \notin Accepted => result.answer = NoAnswer
  /\ LabelsAreValid(result, sources) /\ SpeechIsPlain(result, style)

LEMMA LabelsOfNothing == Labels(<<>>) = {} /\ Labels(OwnWords) = {}
BY DEF Labels, OwnWords, Range, IsLabel

LEMMA WithheldIsSound ==
    ASSUME NEW sources, NEW style, NEW status, status \notin Accepted, NEW citations,
           citations \in {"not_applicable", "invalid"}
    PROVE  StrictIsSound(Result(NoAnswer, status, citations, {}, <<>>), sources, style)
<1> DEFINE result == Result(NoAnswer, status, citations, {}, <<>>)
<1>1. /\ result.answer = <<>> /\ result.status = status /\ result.citations = citations
      /\ result.cited = {} /\ result.evidence = <<>> /\ result.speech = NoAnswer
  BY DEF Result, NoAnswer
<1>2. status # "answered" /\ citations # "valid_labels"
  BY DEF Accepted
<1> HIDE DEF result
<1>3. CarriesNothing(result)
  BY <1>1, LabelsOfNothing DEF CarriesNothing
<1>4. StrictIsSound(result, sources, style)
  BY <1>1, <1>2, <1>3 DEF StrictIsSound, LabelsAreValid, SpeechIsPlain, NoAnswer
<1> QED BY <1>4 DEF result

LEMMA InvalidIsSound ==
    ASSUME NEW sources, NEW style PROVE StrictIsSound(InvalidGrounding, sources, style)
BY WithheldIsSound DEF InvalidGrounding, Accepted

LEMMA CitedAreLabels ==
    ASSUME NEW text, NEW sources
    PROVE  /\ CitedLabels(text, sources) = Labels(text) \cap DOMAIN sources
           /\ ~InvalidLabels(text, sources) =>
                /\ Labels(text) \subseteq DOMAIN sources /\ Torn \notin Range(text)
                /\ CitedLabels(text, sources) = Labels(text)
<1>1. CitedLabels(text, sources) = Labels(text) \cap DOMAIN sources
  BY DEF CitedLabels, Labels
<1>2. ASSUME ~InvalidLabels(text, sources)
      PROVE  Labels(text) \subseteq DOMAIN sources /\ Torn \notin Range(text)
  BY <1>2 DEF InvalidLabels, Labels
<1> QED BY <1>1, <1>2

LEMMA AcceptedIsSound ==
    ASSUME NEW g, NEW sources, NEW style, IsList(g.answer), IsList(g.evidence),
           \A e \in Range(g.evidence) : IsList(e.quote), IsList(sources),
           \A source \in Range(sources) : IsList(source), ~InvalidLabels(g.answer, sources)
    PROVE  StrictIsSound(AcceptedAnswer(g, sources, style), sources, style)
<1>1. PICK cited : cited = CitedLabels(g.answer, sources)
  OBVIOUS
<1>2. CASE AcceptedAnswer(g, sources, style) = InvalidGrounding
  BY <1>2, InvalidIsSound
<1>3. CASE AcceptedAnswer(g, sources, style) # InvalidGrounding
  <2>1. /\ cited # {} /\ \A i \in DOMAIN g.evidence : Supports(g.evidence[i], sources)
        /\ EvidenceLabels(g.evidence) = cited
    BY <1>1, <1>3 DEF AcceptedAnswer
  <2>2. PICK result : result = AcceptedAnswer(g, sources, style)
    OBVIOUS
  <2>3. result = Voiced(Result(g.answer, "answered", "valid_labels", cited, g.evidence), style)
    BY <1>1, <1>3, <2>2 DEF AcceptedAnswer
  <2>4. /\ result.answer = g.answer /\ result.status = "answered"
        /\ result.citations = "valid_labels" /\ result.cited = cited
        /\ result.evidence = g.evidence
        /\ SpeaksOf(result, g.answer, style)
    BY <2>3, VoicedIs
  <2>5. /\ Labels(g.answer) = cited /\ cited \subseteq DOMAIN sources
        /\ Torn \notin Range(g.answer)
    BY <1>1, CitedAreLabels
  <2>6. ASSUME NEW i \in DOMAIN g.evidence
        PROVE  /\ g.evidence[i].label \in cited
               /\ Substantial(g.evidence[i].quote, sources[g.evidence[i].label])
    <3>1. g.evidence[i].label \in cited
      BY <2>1 DEF EvidenceLabels
    <3>2. IsSeq(g.evidence[i].quote) /\ IsSeq(sources[g.evidence[i].label])
      BY <2>5, <3>1, ListIsSeq DEF Range
    <3> QED BY <2>1, <3>1, <3>2, SupportIsSubstantial
  <2>7. \A n \in cited : \E i \in DOMAIN g.evidence : g.evidence[i].label = n
    BY <2>1 DEF EvidenceLabels
  <2>8. IsGrounded(result, sources)
    BY <2>1, <2>4, <2>5, <2>6, <2>7 DEF IsGrounded
  <2>9. SpeechIsPlain(result, style) /\ LabelsAreValid(result, sources)
    BY <2>1, <2>4, <2>5 DEF SpeechIsPlain, SpeaksOf, LabelsAreValid, Accepted
  <2> QED BY <2>2, <2>4, <2>8, <2>9 DEF StrictIsSound, Accepted
<1> QED BY <1>2, <1>3

LEMMA AbstainedIsSound ==
    ASSUME NEW g, NEW sources, NEW style, IsList(g.answer), ~InvalidLabels(g.answer, sources),
           g.status \in Accepted, g.status # "answered"
    PROVE  StrictIsSound(Abstained(g, sources, style), sources, style)
<1>1. CASE Abstained(g, sources, style) = InvalidGrounding
  BY <1>1, InvalidIsSound
<1>2. CASE Abstained(g, sources, style) # InvalidGrounding
  <2>1. PICK result : result = Abstained(g, sources, style)
    OBVIOUS
  <2>2. CitedLabels(g.answer, sources) = {}
    BY <1>2 DEF Abstained
  <2>3. Labels(g.answer) = {}
    BY <2>2, CitedAreLabels
  <2>4. PICK text \in {OwnWords, g.answer} :
          result = Voiced(Result(text, g.status, "not_applicable", {}, <<>>), style)
    BY <1>2, <2>1 DEF Abstained
  <2>5. IsList(OwnWords)
    BY SeqOne, ListIsSeq DEF OwnWords
  <2>6. IsList(text) /\ Labels(text) = {}
    BY <2>3, <2>4, <2>5, LabelsOfNothing
  <2>7. /\ result.answer = text /\ result.status = g.status
        /\ result.citations = "not_applicable" /\ result.cited = {} /\ result.evidence = <<>>
        /\ SpeaksOf(result, text, style)
    BY <2>4, <2>6, VoicedIs
  <2>8. CarriesNothing(result) /\ LabelsAreValid(result, sources)
    BY <2>6, <2>7 DEF CarriesNothing, LabelsAreValid
  <2>9. SpeechIsPlain(result, style)
    BY <2>7 DEF SpeechIsPlain, SpeaksOf
  <2> QED BY <2>1, <2>7, <2>8, <2>9 DEF StrictIsSound
<1> QED BY <1>1, <1>2

LEMMA StandardIsSound ==
    ASSUME NEW g, NEW sources, NEW style, IsList(g.answer)
    PROVE  LET result == Standard(g, sources, style)
           IN  LabelsAreValid(result, sources) /\ SpeechIsPlain(result, style)
<1>1. PICK cited : cited = CitedLabels(g.answer, sources)
  OBVIOUS
<1>2. PICK citations : citations = IF InvalidLabels(g.answer, sources) THEN "invalid"
                                   ELSE IF cited = {} THEN "missing" ELSE "valid_labels"
  OBVIOUS
<1>3. PICK plain : plain = Result(g.answer, "answered", citations, cited, <<>>)
  OBVIOUS
<1>4. PICK result : result = Standard(g, sources, style)
  OBVIOUS
<1>5. result = IF citations = "valid_labels" THEN Voiced(plain, style) ELSE plain
  BY <1>1, <1>2, <1>3, <1>4 DEF Standard
<1>6. CASE citations = "valid_labels"
  <2>1. /\ result.answer = g.answer /\ result.status = "answered"
        /\ result.citations = "valid_labels"
        /\ SpeaksOf(result, g.answer, style)
    BY <1>3, <1>5, <1>6, VoicedIs
  <2>2. ~InvalidLabels(g.answer, sources) /\ cited # {}
    BY <1>2, <1>6
  <2>3. Labels(g.answer) # {} /\ Labels(g.answer) \subseteq DOMAIN sources
    BY <1>1, <2>2, CitedAreLabels
  <2> QED BY <1>4, <2>1, <2>3 DEF LabelsAreValid, SpeechIsPlain, SpeaksOf, Accepted
<1>7. CASE citations # "valid_labels"
  <2>1. result.citations = citations /\ result.speech = NoAnswer
    BY <1>3, <1>5, <1>7 DEF Result
  <2> QED BY <1>4, <1>7, <2>1 DEF LabelsAreValid, SpeechIsPlain
<1> QED BY <1>6, <1>7

LEMMA FinalizeIsSound ==
    ASSUME NEW q \in GroundingRequests
    PROVE  LET result == Finalize(q.generated, q.sources, q.grounding, q.style)
           IN  /\ q.grounding = "strict" => StrictIsSound(result, q.sources, q.style)
               /\ LabelsAreValid(result, q.sources) /\ SpeechIsPlain(result, q.style)
               /\ q.generated.refused \/ q.generated.incomplete => result.status \notin Accepted
<1>1. PICK g : g = q.generated
  OBVIOUS
<1>2. PICK sources : sources = q.sources
  OBVIOUS
<1>3. PICK style : style = q.style
  OBVIOUS
<1>4. PICK result : result = Finalize(g, sources, q.grounding, style)
  OBVIOUS
<1>5. /\ IsList(g.answer) /\ IsList(g.evidence) /\ \A e \in Range(g.evidence) : IsList(e.quote)
      /\ IsList(sources) /\ g.status \in Accepted
      /\ \A source \in Range(sources) : IsList(source)
  BY <1>1, <1>2, GroundingAssumption DEF Accepted
<1>6. CASE g.refused \/ g.incomplete
  <2>1. PICK status \in {"refused", "incomplete"} :
          result = IF q.grounding = "standard" THEN [Withheld(status) EXCEPT !.answer = g.answer]
                   ELSE Withheld(status)
    BY <1>4, <1>6 DEF Finalize
  <2>2. status \notin Accepted
    BY <2>1 DEF Accepted
  <2>3. result.status = status /\ result.citations = "not_applicable" /\ result.speech = NoAnswer
    BY <2>1 DEF Withheld, Result
  <2>4. LabelsAreValid(result, sources) /\ SpeechIsPlain(result, style)
    BY <2>3 DEF LabelsAreValid, SpeechIsPlain
  <2>5. ASSUME q.grounding = "strict" PROVE StrictIsSound(result, sources, style)
    <3>1. result = Result(NoAnswer, status, "not_applicable", {}, <<>>)
      BY <2>1, <2>5 DEF Withheld
    <3> QED BY <2>2, <3>1, WithheldIsSound
  <2> QED BY <1>1, <1>2, <1>3, <1>4, <2>2, <2>3, <2>4, <2>5
<1>7. CASE ~(g.refused \/ g.incomplete) /\ q.grounding = "standard"
  <2>1. result = Standard(g, sources, style)
    BY <1>4, <1>7 DEF Finalize
  <2>2. LabelsAreValid(result, sources) /\ SpeechIsPlain(result, style)
    BY <1>5, <2>1, StandardIsSound
  <2> QED BY <1>1, <1>2, <1>3, <1>4, <1>7, <2>2
<1>8. CASE ~(g.refused \/ g.incomplete) /\ q.grounding # "standard"
  <2>1. result = Strict(g, sources, style)
    BY <1>4, <1>8 DEF Finalize
  <2>2. \/ result = InvalidGrounding
        \/ /\ ~InvalidLabels(g.answer, sources)
           /\ result = IF g.status = "answered" THEN AcceptedAnswer(g, sources, style)
                       ELSE Abstained(g, sources, style)
    BY <2>1 DEF Strict
  <2>3. StrictIsSound(result, sources, style)
    <3>1. CASE result = InvalidGrounding
      BY <3>1, InvalidIsSound
    <3>2. CASE /\ ~InvalidLabels(g.answer, sources) /\ g.status = "answered"
               /\ result = AcceptedAnswer(g, sources, style)
      <4>1. StrictIsSound(AcceptedAnswer(g, sources, style), sources, style)
        BY <1>5, <3>2, AcceptedIsSound
      <4> QED BY <3>2, <4>1
    <3>3. CASE /\ ~InvalidLabels(g.answer, sources) /\ g.status # "answered"
               /\ result = Abstained(g, sources, style)
      <4>1. StrictIsSound(Abstained(g, sources, style), sources, style)
        BY <1>5, <3>3, AbstainedIsSound
      <4> QED BY <3>3, <4>1
    <3> QED BY <2>2, <3>1, <3>2, <3>3
  <2>4. LabelsAreValid(result, sources) /\ SpeechIsPlain(result, style)
    BY <2>3 DEF StrictIsSound
  <2> QED BY <1>1, <1>2, <1>3, <1>4, <1>8, <2>3, <2>4
<1> QED BY <1>6, <1>7, <1>8

(* AcceptedIsGrounded holds of every answer: whatever a provider returns,  *)
(* for any sources.                                                        *)
THEOREM AcceptedGrounded == GraphSpec => []AcceptedIsGrounded
<1>1. Answers => AcceptedIsGrounded
  <2> SUFFICES ASSUME Answers, IsAnswered("generated") PROVE AcceptedIsGrounded
    BY DEF AcceptedIsGrounded
  <2>1. request \in GroundingRequests
    BY RequestsAssumption DEF Answers, IsAnswered
  <2>2. PICK q : q = request
    OBVIOUS
  <2>3. PICK result : result = answer
    OBVIOUS
  <2>4. result = Finalize(q.generated, q.sources, q.grounding, q.style)
    BY <2>2, <2>3 DEF Answers
  <2>5. /\ q.grounding = "strict" => StrictIsSound(result, q.sources, q.style)
        /\ LabelsAreValid(result, q.sources) /\ SpeechIsPlain(result, q.style)
        /\ q.generated.refused \/ q.generated.incomplete => result.status \notin Accepted
    BY <2>1, <2>2, <2>4, FinalizeIsSound
  <2>6. q.grounding = "strict" =>
          /\ result.status = "answered" => IsGrounded(result, q.sources)
          /\ result.status # "answered" => CarriesNothing(result)
          /\ result.status \notin Accepted => result.answer = NoAnswer
    BY <2>5 DEF StrictIsSound
  <2> QED BY ONLY <2>2, <2>3, <2>5, <2>6
          DEF AcceptedIsGrounded, IsGrounded, CarriesNothing, LabelsAreValid, SpeechIsPlain,
              Labels, Accepted, Unlabelled, Where
<1> QED BY <1>1, AnswersHold, PTL
LEMMA HalfIs == ASSUME NEW x \in Nat PROVE Half(x) \in Nat /\ 2 * Half(x) <= x /\ x <= 2 * Half(x) + 1
BY DEF Half

LEMMA SmallerIs == ASSUME NEW a \in Nat, NEW b \in Nat PROVE Min({a, b}) = IF a <= b THEN a ELSE b
<1>1. Min({a, b}) \in {a, b} /\ \A y \in {a, b} : Min({a, b}) <= y
  BY SmallestPlace
<1> QED BY <1>1

LEMMA GreaterIs == ASSUME NEW a \in Nat, NEW b \in Nat PROVE Max({a, b}) = IF a >= b THEN a ELSE b
<1>1. {a, b} \in SUBSET (0 .. a + b) /\ {a, b} # {} /\ a + b \in Nat
  OBVIOUS
<1>2. Max({a, b}) \in {a, b} /\ \A y \in {a, b} : Max({a, b}) >= y
  BY <1>1, GreatestPlace
<1> QED BY <1>2

LEMMA LeastIs ==
    ASSUME NEW S \in SUBSET Nat, NEW m \in S, \A y \in S : m <= y PROVE Min(S) = m
<1>1. Min(S) \in S /\ Min(S) <= m
  BY SmallestPlace
<1>2. m <= Min(S) /\ Min(S) \in Nat /\ m \in Nat
  BY <1>1
<1> QED BY <1>1, <1>2

-----------------------------------------------------------------------------
(* What cutting is given: the length of a text that is not empty, where    *)
(* its headings start, the boundaries in it, and a configuration.          *)
Setting(n, headings, boundaries, config) ==
  /\ n \in Nat \ {0} /\ headings \subseteq Nat /\ boundaries \in [0 .. n -> 0 .. 3]
  /\ config.max_characters \in Nat \ {0} /\ config.overlap_characters \in Nat
  /\ config.overlap_characters < config.max_characters

(* A chunk ends at the best boundary in its reach.                         *)
BestEnd(boundaries, minimum, maximum, end) ==
  /\ end \in minimum .. maximum
  /\ end # maximum => boundaries[end] > 0
  /\ boundaries[end] > 0 \/ end = maximum
  /\ end < maximum => \A p \in end + 1 .. maximum : boundaries[p] < boundaries[end]

LEMMA PreferredEndIs ==
    ASSUME NEW n \in Nat, NEW boundaries \in [0 .. n -> 0 .. 3], NEW minimum \in 0 .. n,
           NEW maximum \in 0 .. n, minimum <= maximum
    PROVE  BestEnd(boundaries, minimum, maximum, PreferredEnd(boundaries, minimum, maximum))
<1> DEFINE S == {boundaries[p] : p \in minimum .. maximum}
<1>1. PICK best : best = Max(S)
  OBVIOUS
<1>2. S \in SUBSET (0 .. 3) /\ S # {}
  <2>1. minimum \in minimum .. maximum /\ minimum .. maximum \subseteq 0 .. n
    OBVIOUS
  <2> QED BY <2>1
<1>3. best \in S /\ \A y \in S : best >= y
  <2> HIDE DEF S
  <2> QED BY <1>1, <1>2, GreatestPlace
<1>4. \A p \in minimum .. maximum : boundaries[p] \in 0 .. 3 /\ boundaries[p] <= best
  BY <1>2, <1>3
<1>5. best \in 0 .. 3
  BY <1>2, <1>3
<1>6. CASE best = 0
  <2>1. PreferredEnd(boundaries, minimum, maximum) = maximum
    BY <1>1, <1>6 DEF PreferredEnd
  <2> QED BY <2>1 DEF BestEnd
<1>7. CASE best # 0
  <2> DEFINE T == {p \in minimum .. maximum : boundaries[p] = best}
  <2>1. PICK end : end = Max(T)
    OBVIOUS
  <2>2. T \in SUBSET (0 .. n) /\ T # {}
    BY <1>3
  <2>3. end \in T /\ \A y \in T : end >= y
    <3> HIDE DEF T
    <3> QED BY <2>1, <2>2, GreatestPlace
  <2>4. end \in minimum .. maximum /\ boundaries[end] = best /\ best > 0
    BY <1>5, <1>7, <2>3
  <2>5. ASSUME NEW p \in end + 1 .. maximum PROVE boundaries[p] < boundaries[end]
    <3>1. p \in minimum .. maximum /\ ~ end >= p
      BY <2>4
    <3>2. boundaries[p] # best
      BY <2>3, <3>1
    <3> QED BY <1>4, <1>5, <2>4, <3>1, <3>2
  <2>6. PreferredEnd(boundaries, minimum, maximum) = end
    BY <1>1, <1>7, <2>1 DEF PreferredEnd
  <2> QED BY <2>4, <2>5, <2>6 DEF BestEnd
<1> QED BY <1>6, <1>7

(* Where a chunk that starts behind the first headings and covers new text *)
(* ends: not behind the next heading, nor too far.                         *)
SectionEnd(start, n, headings) == Min({h \in headings : h > start} \cup {n})
HardEnd(start, n, headings, config) ==
  Min({start + config.max_characters, SectionEnd(start, n, headings)})
EndOf(start, covered, n, headings, boundaries, config) ==
  LET hard_end == HardEnd(start, n, headings, config)
      minimum == Max({start + Max({Half(config.max_characters), 1}), covered + 1})
  IN  IF hard_end = SectionEnd(start, n, headings) THEN hard_end
      ELSE PreferredEnd(boundaries, minimum, hard_end)
ReachOf(start, n, headings, config) ==
  Min({start + config.max_characters, n} \cup {h \in headings : h > start})

Starts(start, covered, n, headings, config) ==
  /\ start \in Nat /\ covered \in Nat /\ start <= covered /\ covered < n
  /\ covered - start <= config.overlap_characters
  /\ \A h \in headings : h > start => h > covered

LEMMA SectionEndIs ==
    ASSUME NEW n \in Nat, NEW headings \in SUBSET Nat, NEW start \in Nat
    PROVE  LET section_end == SectionEnd(start, n, headings)
           IN  /\ section_end \in Nat /\ section_end <= n
               /\ \A h \in headings : h > start => h >= section_end
               /\ section_end = n \/ (section_end \in headings /\ section_end > start)
<1> DEFINE S == {h \in headings : h > start} \cup {n}
<1>1. S \in SUBSET Nat /\ S # {}
  OBVIOUS
<1>2. PICK section_end : section_end = SectionEnd(start, n, headings)
  OBVIOUS
<1>3. section_end \in S /\ \A y \in S : section_end <= y
  <2>1. section_end = Min(S)
    BY <1>2 DEF SectionEnd
  <2> HIDE DEF S
  <2> QED BY <1>1, <2>1, SmallestPlace
<1>4. section_end \in Nat /\ section_end <= n
  BY <1>1, <1>3
<1>5. \A h \in headings : h > start => h >= section_end
  BY <1>3
<1>6. section_end = n \/ (section_end \in headings /\ section_end > start)
  BY <1>3
<1> QED BY <1>2, <1>4, <1>5, <1>6

LEMMA HardEndIs ==
    ASSUME NEW n, NEW headings, NEW boundaries, NEW config,
           Setting(n, headings, boundaries, config), NEW start \in Nat, start < n
    PROVE  LET hard_end == HardEnd(start, n, headings, config)
           IN  /\ hard_end \in 0 .. n /\ start < hard_end
               /\ hard_end <= start + config.max_characters
               /\ \A h \in headings : h > start => h >= hard_end
               /\ hard_end = ReachOf(start, n, headings, config)
               /\ \/ hard_end = SectionEnd(start, n, headings)
                  \/ hard_end = start + config.max_characters
<1> USE DEF Setting
<1>1. PICK section_end : section_end = SectionEnd(start, n, headings)
  OBVIOUS
<1>2. /\ section_end \in Nat /\ section_end <= n
      /\ \A h \in headings : h > start => h >= section_end
      /\ section_end = n \/ (section_end \in headings /\ section_end > start)
  BY <1>1, SectionEndIs
<1>3. PICK most : most = config.max_characters
  OBVIOUS
<1>4. most \in Nat \ {0}
  BY <1>3
<1>5. PICK hard_end : hard_end = HardEnd(start, n, headings, config)
  OBVIOUS
<1>6. hard_end = IF start + most <= section_end THEN start + most ELSE section_end
  <2>1. start + most \in Nat
    BY <1>4
  <2>2. hard_end = Min({start + most, section_end})
    BY <1>1, <1>3, <1>5 DEF HardEnd
  <2> QED BY <1>2, <2>1, <2>2, SmallerIs
<1>7. section_end > start
  BY <1>2
<1>8. hard_end \in 0 .. n /\ start < hard_end /\ hard_end <= start + most
  BY <1>2, <1>4, <1>6, <1>7
<1>9. \A h \in headings : h > start => h >= hard_end
  BY <1>2, <1>4, <1>6
<1>10. hard_end = ReachOf(start, n, headings, config)
  <2> DEFINE S == {start + config.max_characters, n} \cup {h \in headings : h > start}
  <2>1. S \in SUBSET Nat
    <3>1. start + config.max_characters \in Nat /\ n \in Nat /\ headings \in SUBSET Nat
      BY <1>3, <1>4
    <3> QED BY <3>1
  <2>2. hard_end \in S
    BY <1>2, <1>3, <1>6
  <2>3. \A y \in S : hard_end <= y
    <3>1. hard_end <= start + config.max_characters /\ hard_end <= n
      BY <1>3, <1>8
    <3> QED BY <1>8, <1>9, <3>1
  <2>4. Min(S) = hard_end
    <3> HIDE DEF S
    <3> QED BY <2>1, <2>2, <2>3, LeastIs
  <2> QED BY <2>4 DEF ReachOf
<1> QED BY <1>1, <1>3, <1>5, <1>6, <1>8, <1>9, <1>10

GoodEnd(start, end, n, headings, boundaries, config) ==
  LET reach == ReachOf(start, n, headings, config)
  IN  /\ start < end /\ end <= reach
      /\ end # reach => boundaries[end] > 0
      /\ end < reach /\ reach \notin headings \cup {n} =>
           \A p \in end + 1 .. reach : boundaries[p] < boundaries[end]

LEMMA EndIs ==
    ASSUME NEW n, NEW headings, NEW boundaries, NEW config,
           Setting(n, headings, boundaries, config), NEW start, NEW covered,
           Starts(start, covered, n, headings, config)
    PROVE  LET end == EndOf(start, covered, n, headings, boundaries, config)
           IN  /\ end \in 0 .. n /\ covered < end /\ start < end
               /\ end <= start + config.max_characters
               /\ \A h \in headings : h > start => h >= end
               /\ GoodEnd(start, end, n, headings, boundaries, config)
<1>0. /\ n \in Nat \ {0} /\ headings \in SUBSET Nat /\ boundaries \in [0 .. n -> 0 .. 3]
      /\ start \in Nat /\ covered \in Nat /\ start <= covered /\ covered < n /\ start < n
      /\ covered - start <= config.overlap_characters
      /\ \A h \in headings : h > start => h > covered
  BY DEF Setting, Starts
<1>1. PICK most : most = config.max_characters
  OBVIOUS
<1>2. most \in Nat \ {0} /\ config.overlap_characters \in Nat /\ config.overlap_characters < most
  BY <1>1 DEF Setting
<1>3. PICK hard_end : hard_end = HardEnd(start, n, headings, config)
  OBVIOUS
<1>4. PICK section_end : section_end = SectionEnd(start, n, headings)
  OBVIOUS
<1>5. /\ hard_end \in 0 .. n /\ start < hard_end /\ hard_end <= start + most
      /\ \A h \in headings : h > start => h >= hard_end
      /\ hard_end = ReachOf(start, n, headings, config)
      /\ hard_end = section_end \/ hard_end = start + most
  BY <1>0, <1>1, <1>3, <1>4, HardEndIs
<1>6. PICK end : end = EndOf(start, covered, n, headings, boundaries, config)
  OBVIOUS
<1>7. CASE hard_end = section_end
  <2>1. end = hard_end
    BY <1>3, <1>4, <1>6, <1>7 DEF EndOf
  <2>2. covered < hard_end
    <3>1. section_end = n \/ (section_end \in headings /\ section_end > start)
      BY <1>0, <1>4, SectionEndIs
    <3> QED BY <1>0, <1>7, <3>1
  <2>3. GoodEnd(start, end, n, headings, boundaries, config)
    BY <1>5, <2>1 DEF GoodEnd
  <2> QED BY <1>1, <1>5, <1>6, <2>1, <2>2, <2>3
<1>8. CASE hard_end # section_end
  <2>1. PICK minimum : minimum = Max({start + Max({Half(most), 1}), covered + 1})
    OBVIOUS
  <2>2. end = PreferredEnd(boundaries, minimum, hard_end)
    BY <1>1, <1>3, <1>4, <1>6, <1>8, <2>1 DEF EndOf
  <2>3. PICK half : half = Half(most)
    OBVIOUS
  <2>4. half \in Nat /\ half <= most
    <3>1. half \in Nat /\ 2 * half <= most
      BY <1>2, <2>3, HalfIs
    <3> QED BY <1>2, <3>1
  <2>5. PICK step : step = Max({half, 1})
    OBVIOUS
  <2>6. step \in Nat /\ 1 <= step /\ step <= most
    BY <1>2, <2>4, <2>5, GreaterIs
  <2>7. minimum = IF start + step >= covered + 1 THEN start + step ELSE covered + 1
    <3>1. start + step \in Nat /\ covered + 1 \in Nat
      BY <1>0, <2>6
    <3> QED BY <2>1, <2>3, <2>5, <3>1, GreaterIs
  <2>8. hard_end = start + most
    BY <1>5, <1>8
  <2>9. minimum \in 0 .. n /\ minimum <= hard_end /\ covered < minimum
    BY <1>0, <1>2, <1>5, <2>6, <2>7, <2>8
  <2>10. BestEnd(boundaries, minimum, hard_end, end)
    BY <1>0, <1>5, <2>2, <2>9, PreferredEndIs
  <2>11. end \in minimum .. hard_end
    BY <2>10 DEF BestEnd
  <2>12. end \in 0 .. n /\ covered < end /\ start < end /\ end <= hard_end
    BY <1>0, <1>5, <2>9, <2>11
  <2>13. GoodEnd(start, end, n, headings, boundaries, config)
    BY <1>5, <2>10, <2>12 DEF BestEnd, GoodEnd
  <2>14. end <= start + most
    BY <2>8, <2>12
  <2>15. \A h \in headings : h > start => h >= end
    <3> SUFFICES ASSUME NEW h \in headings, h > start PROVE h >= end
      OBVIOUS
    <3>1. h \in Nat /\ h >= hard_end
      BY <1>0, <1>5
    <3> QED BY <1>5, <2>12, <3>1
  <2> QED BY <1>1, <1>6, <2>12, <2>13, <2>14, <2>15
<1> QED BY <1>7, <1>8

(* Where the next one starts.                                              *)
Overlaps(start, end, next, headings, config) ==
  /\ start < next /\ next <= end
  /\ end - next <= config.overlap_characters /\ 2 * (end - next) <= end - start
  /\ end \in headings => next = end

LEMMA NextStartIs ==
    ASSUME NEW n, NEW headings, NEW boundaries, NEW config,
           Setting(n, headings, boundaries, config), NEW start \in Nat, NEW end \in 0 .. n,
           start < end, \A h \in headings : h > start => h >= end
    PROVE  LET next == NextStart(boundaries, start, end, SectionEnd(start, n, headings), config)
           IN  next \in Nat /\ Overlaps(start, end, next, headings, config)
<1>0. /\ n \in Nat \ {0} /\ headings \in SUBSET Nat /\ config.overlap_characters \in Nat
      /\ end \in Nat /\ start \in Nat
  BY DEF Setting
<1>1. PICK section_end : section_end = SectionEnd(start, n, headings)
  OBVIOUS
<1>2. PICK next : next = NextStart(boundaries, start, end, section_end, config)
  OBVIOUS
<1>3. PICK back : back = Min({config.overlap_characters, Half(end - start)})
  OBVIOUS
<1>4. back \in Nat /\ back <= config.overlap_characters /\ 2 * back <= end - start /\ back < end - start
  <2>1. end - start \in Nat \ {0}
    BY <1>0
  <2>2. Half(end - start) \in Nat /\ 2 * Half(end - start) <= end - start
    BY <2>1, HalfIs
  <2>3. back = IF config.overlap_characters <= Half(end - start) THEN config.overlap_characters
               ELSE Half(end - start)
    BY <1>0, <1>3, <2>2, SmallerIs
  <2> QED BY <1>0, <2>1, <2>2, <2>3
<1>5. PICK earliest : earliest = end - back
  OBVIOUS
<1>6. earliest \in Nat /\ start < earliest /\ earliest <= end
  BY <1>0, <1>4, <1>5
<1> DEFINE natural == {p \in earliest .. end - 1 : boundaries[p] > 0}
<1>7. next = IF end = section_end THEN end ELSE IF natural = {} THEN earliest ELSE Min(natural)
  BY <1>2, <1>3, <1>5 DEF NextStart
<1>8. ASSUME natural # {} PROVE Min(natural) \in earliest .. end - 1
  <2>1. natural \in SUBSET Nat
    BY <1>6
  <2>2. Min(natural) \in natural
    <3> HIDE DEF natural
    <3> QED BY <1>8, <2>1, SmallestPlace
  <2> QED BY <2>2
<1>9. next \in earliest .. end
  BY <1>0, <1>6, <1>7, <1>8
<1>10. ASSUME end \in headings PROVE next = end
  <2>1. /\ section_end \in Nat /\ section_end <= n
        /\ \A h \in headings : h > start => h >= section_end
        /\ section_end = n \/ (section_end \in headings /\ section_end > start)
    BY <1>0, <1>1, SectionEndIs
  <2>2. end >= section_end
    BY <1>10, <2>1
  <2>3. section_end >= end
    BY <1>0, <2>1
  <2> QED BY <1>0, <1>7, <2>1, <2>2, <2>3
<1>11. next \in Nat /\ start < next /\ next <= end /\ end - next <= back
  <2> HIDE DEF natural
  <2> QED BY <1>0, <1>4, <1>5, <1>6, <1>9
<1>12. end - next <= config.overlap_characters /\ 2 * (end - next) <= end - start
  BY ONLY <1>0, <1>4, <1>11
<1> QED BY <1>1, <1>2, <1>10, <1>11, <1>12 DEF Overlaps

-----------------------------------------------------------------------------
(* Every chunk that is cut holds, and follows the one before it.           *)
ChunkHolds(c, n, headings, boundaries, config) ==
  /\ c.start \in Nat /\ c.end \in 0 .. n
  /\ GoodEnd(c.start, c.end, n, headings, boundaries, config)
  /\ c.heading = Max({h \in headings : h <= c.start} \cup {-1})

ChunkFollows(c, d, headings, config) ==
  Overlaps(c.start, c.end, d.start, headings, config) /\ c.end < d.end

ChunksHold(chunks, n, headings, boundaries, config) ==
  /\ IsSeq(chunks)
  /\ chunks # <<>> => chunks[1].start = 0
  /\ \A i \in 1 .. Len(chunks) :
       /\ ChunkHolds(chunks[i], n, headings, boundaries, config)
       /\ i > 1 => ChunkFollows(chunks[i - 1], chunks[i], headings, config)

Measured(chunks, n, config) ==
  /\ Covered(chunks) \in 0 .. n /\ Len(chunks) <= Covered(chunks)
  /\ Covered(chunks) <= Len(chunks) * config.max_characters

Ready(cut, headings, config) ==
  /\ cut.start \in Nat
  /\ IF cut.chunks = <<>> THEN cut.start = 0
     ELSE LET c == Last(cut.chunks)
          IN  /\ c.start \in Nat /\ Overlaps(c.start, c.end, cut.start, headings, config)
              /\ \A h \in headings : h > c.start => h >= c.end

CutHolds(cut, k, n, headings, boundaries, config) ==
  /\ ChunksHold(cut.chunks, n, headings, boundaries, config)
  /\ Measured(cut.chunks, n, config)
  /\ Ready(cut, headings, config)
  /\ Len(cut.chunks) <= k /\ (Covered(cut.chunks) # n => Len(cut.chunks) = k)

LEMMA CoveredIs ==
    ASSUME NEW chunks, IsSeq(chunks), NEW c
    PROVE  /\ Covered(Append(chunks, c)) = c.end /\ Last(Append(chunks, c)) = c
           /\ Append(chunks, c) # <<>> /\ IsSeq(Append(chunks, c))
           /\ Covered(<<>>) = 0 /\ chunks # <<>> => Covered(chunks) = Last(chunks).end
<1>1. /\ IsSeq(Append(chunks, c)) /\ Len(Append(chunks, c)) = Len(chunks) + 1 /\ Len(chunks) \in Nat
      /\ Append(chunks, c)[Len(chunks) + 1] = c /\ Append(chunks, c) # <<>>
  BY SeqAppend, SeqDomain, AppendProperties DEF IsSeq
<1> QED BY <1>1 DEF Covered, Last

LEMMA ReadyStarts ==
    ASSUME NEW n, NEW headings, NEW boundaries, NEW config,
           Setting(n, headings, boundaries, config), NEW cut, IsSeq(cut.chunks),
           Covered(cut.chunks) \in 0 .. n, Covered(cut.chunks) # n, Ready(cut, headings, config)
    PROVE  Starts(cut.start, Covered(cut.chunks), n, headings, config)
<1>1. /\ n \in Nat \ {0} /\ headings \in SUBSET Nat /\ config.overlap_characters \in Nat
  BY DEF Setting
<1>2. PICK start : start = cut.start
  OBVIOUS
<1>3. PICK covered : covered = Covered(cut.chunks)
  OBVIOUS
<1>4. start \in Nat /\ covered \in Nat /\ covered < n
  BY <1>1, <1>2, <1>3 DEF Ready
<1>5. CASE cut.chunks = <<>>
  <2>1. start = 0 /\ covered = 0
    BY <1>2, <1>3, <1>5 DEF Ready, Covered
  <2> QED BY <1>1, <1>2, <1>3, <1>4, <2>1 DEF Starts
<1>6. CASE cut.chunks # <<>>
  <2>1. PICK c : c = Last(cut.chunks)
    OBVIOUS
  <2>2. PICK from : from = c.start
    OBVIOUS
  <2>3. c.end = covered
    BY <1>3, <1>6, <2>1 DEF Covered
  <2>4. /\ from \in Nat /\ Overlaps(from, covered, start, headings, config)
        /\ \A h \in headings : h > from => h >= covered
    BY <1>2, <1>6, <2>1, <2>2, <2>3 DEF Ready
  <2>5. /\ from < start /\ start <= covered /\ covered - start <= config.overlap_characters
        /\ covered \in headings => start = covered
    BY <2>4 DEF Overlaps
  <2>6. ASSUME NEW h \in headings, h > start PROVE h > covered
    <3>1. h \in Nat
      BY <1>1
    <3>2. h > from
      BY <1>4, <2>4, <2>5, <2>6, <3>1
    <3>3. h >= covered
      BY <2>4, <3>2
    <3> QED BY <1>4, <2>5, <2>6, <3>1, <3>3
  <2> QED BY <1>2, <1>3, <1>4, <2>5, <2>6 DEF Starts
<1> QED BY <1>5, <1>6

LEMMA ChunkAdded ==
    ASSUME NEW n, NEW headings, NEW boundaries, NEW config,
           Setting(n, headings, boundaries, config), NEW cut, NEW k \in Nat,
           CutHolds(cut, k, n, headings, boundaries, config), Covered(cut.chunks) # n
    PROVE  \E c : LET next == AddChunk(cut, n, headings, boundaries, config)
                  IN  /\ next.chunks = Append(cut.chunks, c)
                      /\ ChunkHolds(c, n, headings, boundaries, config)
                      /\ IF cut.chunks = <<>> THEN c.start = 0
                         ELSE ChunkFollows(Last(cut.chunks), c, headings, config)
                      /\ Covered(cut.chunks) < c.end
                      /\ c.end <= Covered(cut.chunks) + config.max_characters
                      /\ Ready(next, headings, config)
<1>1. /\ IsSeq(cut.chunks) /\ Covered(cut.chunks) \in 0 .. n /\ Ready(cut, headings, config)
      /\ n \in Nat /\ config.max_characters \in Nat
  BY DEF CutHolds, ChunksHold, Measured, Setting
<1>2. PICK start : start = cut.start
  OBVIOUS
<1>3. PICK covered : covered = Covered(cut.chunks)
  OBVIOUS
<1>4. Starts(start, covered, n, headings, config)
  BY <1>1, <1>2, <1>3, ReadyStarts
<1>5. /\ start \in Nat /\ covered \in Nat /\ start < n /\ start <= covered
  BY <1>1, <1>4 DEF Starts
<1>6. PICK end : end = EndOf(start, covered, n, headings, boundaries, config)
  OBVIOUS
<1>7. /\ end \in 0 .. n /\ covered < end /\ start < end /\ end <= start + config.max_characters
      /\ \A h \in headings : h > start => h >= end
      /\ GoodEnd(start, end, n, headings, boundaries, config)
  BY <1>4, <1>6, EndIs
<1>8. PICK then : then = NextStart(boundaries, start, end, SectionEnd(start, n, headings), config)
  OBVIOUS
<1>9. then \in Nat /\ Overlaps(start, end, then, headings, config)
  BY <1>5, <1>7, <1>8, NextStartIs
<1>10. PICK heading : heading = Max({h \in headings : h <= start} \cup {-1})
  OBVIOUS
<1>11. PICK c : c = [start |-> start, end |-> end, heading |-> heading]
  OBVIOUS
<1>12. c.start = start /\ c.end = end /\ c.heading = heading
  BY <1>11
<1>13. PICK next : next = AddChunk(cut, n, headings, boundaries, config)
  OBVIOUS
<1>14. next = [chunks |-> Append(cut.chunks, c), start |-> then]
  BY <1>2, <1>3, <1>6, <1>8, <1>10, <1>11, <1>13 DEF AddChunk, EndOf, HardEnd, SectionEnd
<1>15. next.chunks = Append(cut.chunks, c) /\ next.start = then
  BY <1>14
<1>16. ChunkHolds(c, n, headings, boundaries, config)
  BY <1>5, <1>7, <1>10, <1>12 DEF ChunkHolds
<1>17. Ready(next, headings, config)
  <2>1. Last(next.chunks) = c /\ next.chunks # <<>>
    BY <1>1, <1>15, CoveredIs
  <2> QED BY <1>5, <1>7, <1>9, <1>12, <1>15, <2>1 DEF Ready
<1>18. IF cut.chunks = <<>> THEN c.start = 0
       ELSE ChunkFollows(Last(cut.chunks), c, headings, config)
  <2>1. CASE cut.chunks = <<>>
    BY <1>1, <1>2, <1>12, <2>1 DEF Ready
  <2>2. CASE cut.chunks # <<>>
    <3>1. covered = Last(cut.chunks).end
      BY <1>3, <2>2 DEF Covered
    <3>2. Overlaps(Last(cut.chunks).start, Last(cut.chunks).end, start, headings, config)
      BY <1>1, <1>2, <2>2 DEF Ready
    <3> QED BY <1>7, <1>12, <2>2, <3>1, <3>2 DEF ChunkFollows
  <2> QED BY <2>1, <2>2
<1>19. covered < c.end /\ c.end <= covered + config.max_characters
  BY <1>1, <1>5, <1>7, <1>12
<1> QED BY <1>3, <1>13, <1>15, <1>16, <1>17, <1>18, <1>19

LEMMA ChunkAppended ==
    ASSUME NEW n, NEW headings, NEW boundaries, NEW config,
           Setting(n, headings, boundaries, config), NEW cut, NEW k \in Nat,
           CutHolds(cut, k, n, headings, boundaries, config), Covered(cut.chunks) # n,
           NEW next, next = AddChunk(cut, n, headings, boundaries, config)
    PROVE  Len(next.chunks) = Len(cut.chunks) + 1
<1>1. PICK c : /\ next.chunks = Append(cut.chunks, c)
               /\ ChunkHolds(c, n, headings, boundaries, config)
               /\ IF cut.chunks = <<>> THEN c.start = 0
                  ELSE ChunkFollows(Last(cut.chunks), c, headings, config)
               /\ Covered(cut.chunks) < c.end
               /\ c.end <= Covered(cut.chunks) + config.max_characters
               /\ Ready(next, headings, config)
  BY ChunkAdded
<1>2. IsSeq(cut.chunks)
  BY DEF CutHolds, ChunksHold
<1> QED BY <1>1, <1>2, SeqAppend

LEMMA ChunksHoldAppend ==
    ASSUME NEW n, NEW headings, NEW boundaries, NEW config, NEW chunks, IsSeq(chunks), NEW c
    PROVE  ChunksHold(Append(chunks, c), n, headings, boundaries, config) <=>
             /\ ChunksHold(chunks, n, headings, boundaries, config)
             /\ ChunkHolds(c, n, headings, boundaries, config)
             /\ IF chunks = <<>> THEN c.start = 0
                ELSE ChunkFollows(Last(chunks), c, headings, config)
<1>1. PICK more : more = Append(chunks, c)
  OBVIOUS
<1>2. PICK m : m = Len(chunks)
  OBVIOUS
<1>3. /\ m \in Nat /\ DOMAIN chunks = 1 .. m /\ Len(more) = m + 1 /\ more[m + 1] = c
      /\ more # <<>> /\ \A i \in 1 .. m : more[i] = chunks[i]
      /\ chunks = <<>> <=> m = 0
  <2>1. PICK S : chunks \in Seq(S) /\ c \in S
    <3>1. chunks \in Seq(ToSet(chunks) \cup {c})
      BY SeqIs, SeqMonotonic DEF IsSeq
    <3> QED BY <3>1
  <2> QED BY <1>1, <1>2, <2>1, AppendProperties
<1>4. IsSeq(more)
  BY <1>1, CoveredIs
<1> DEFINE Holds(d) == ChunkHolds(d, n, headings, boundaries, config)
           Follows(d, e) == ChunkFollows(d, e, headings, config)
<1>5. ChunksHold(more, n, headings, boundaries, config) <=>
        /\ more[1].start = 0
        /\ \A i \in 1 .. m + 1 : Holds(more[i]) /\ (i > 1 => Follows(more[i - 1], more[i]))
  BY <1>3, <1>4 DEF ChunksHold
<1>6. ChunksHold(chunks, n, headings, boundaries, config) <=>
        /\ m # 0 => chunks[1].start = 0
        /\ \A i \in 1 .. m : Holds(chunks[i]) /\ (i > 1 => Follows(chunks[i - 1], chunks[i]))
  BY <1>2, <1>3 DEF ChunksHold
<1>7. m # 0 => Last(chunks) = chunks[m] /\ m \in 1 .. m
  BY <1>2, <1>3 DEF Last
<1> HIDE DEF Holds, Follows
<1>8. \A i \in 1 .. m + 1 : i \in 1 .. m \/ i = m + 1
  BY <1>3
<1>9. ASSUME m = 0
      PROVE  ChunksHold(more, n, headings, boundaries, config) <=> Holds(c) /\ c.start = 0
  BY <1>3, <1>5, <1>9
<1>10. ASSUME m # 0
       PROVE  (\A i \in 1 .. m + 1 : Holds(more[i]) /\ (i > 1 => Follows(more[i - 1], more[i])))
                <=> /\ \A i \in 1 .. m : Holds(chunks[i]) /\ (i > 1 => Follows(chunks[i - 1], chunks[i]))
                    /\ Holds(c) /\ Follows(chunks[m], c)
  <2>1. m + 1 \in 1 .. m + 1 /\ m + 1 > 1 /\ m + 1 - 1 = m /\ m \in 1 .. m
    BY <1>3, <1>10
  <2>2. \A i \in 1 .. m : i > 1 => i - 1 \in 1 .. m
    BY <1>3
  <2>3. \A i \in 1 .. m : i \in 1 .. m + 1
    BY <1>3
  <2>4. ASSUME \A i \in 1 .. m + 1 : Holds(more[i]) /\ (i > 1 => Follows(more[i - 1], more[i]))
        PROVE  /\ \A i \in 1 .. m : Holds(chunks[i]) /\ (i > 1 => Follows(chunks[i - 1], chunks[i]))
               /\ Holds(c) /\ Follows(chunks[m], c)
    <3>1. Holds(more[m + 1]) /\ Follows(more[m + 1 - 1], more[m + 1])
      BY <2>1, <2>4
    <3>2. ASSUME NEW i \in 1 .. m
          PROVE  Holds(chunks[i]) /\ (i > 1 => Follows(chunks[i - 1], chunks[i]))
      <4>1. Holds(more[i]) /\ (i > 1 => Follows(more[i - 1], more[i]))
        BY <2>3, <2>4
      <4> QED BY <1>3, <2>2, <4>1
    <3> QED BY <1>3, <2>1, <3>1, <3>2
  <2>5. ASSUME /\ \A i \in 1 .. m : Holds(chunks[i]) /\ (i > 1 => Follows(chunks[i - 1], chunks[i]))
               /\ Holds(c) /\ Follows(chunks[m], c)
        PROVE  \A i \in 1 .. m + 1 : Holds(more[i]) /\ (i > 1 => Follows(more[i - 1], more[i]))
    <3>1. Holds(more[m + 1]) /\ Follows(more[m + 1 - 1], more[m + 1])
      BY <1>3, <2>1, <2>5
    <3>2. ASSUME NEW i \in 1 .. m
          PROVE  Holds(more[i]) /\ (i > 1 => Follows(more[i - 1], more[i]))
      BY <1>3, <2>2, <2>5
    <3> SUFFICES ASSUME NEW i \in 1 .. m + 1
                 PROVE  Holds(more[i]) /\ (i > 1 => Follows(more[i - 1], more[i]))
      OBVIOUS
    <3>3. CASE i = m + 1
      <4>1. more[i] = more[m + 1] /\ more[i - 1] = more[m + 1 - 1]
        BY <1>3, <3>3
      <4> QED BY <3>1, <4>1
    <3>4. CASE i \in 1 .. m
      BY ONLY <3>2, <3>4
    <3> QED BY <1>8, <3>3, <3>4
  <2> QED BY <2>4, <2>5
<1>11. ASSUME m # 0
       PROVE  ChunksHold(more, n, headings, boundaries, config) <=>
                /\ ChunksHold(chunks, n, headings, boundaries, config)
                /\ Holds(c) /\ Follows(Last(chunks), c)
  <2>1. more[1] = chunks[1]
    BY <1>3, <1>11
  <2> QED BY <1>5, <1>6, <1>7, <1>10, <1>11, <2>1
<1>12. m = 0 => ChunksHold(chunks, n, headings, boundaries, config)
  BY <1>3, <1>6
<1> QED BY <1>1, <1>3, <1>9, <1>11, <1>12 DEF Holds, Follows

LEMMA CutHoldsNext ==
    ASSUME NEW n, NEW headings, NEW boundaries, NEW config,
           Setting(n, headings, boundaries, config), NEW cut, NEW k \in Nat,
           CutHolds(cut, k, n, headings, boundaries, config)
    PROVE  CutHolds(AddChunk(cut, n, headings, boundaries, config), k + 1,
                    n, headings, boundaries, config)
<1>1. CASE Covered(cut.chunks) = n
  <2>1. AddChunk(cut, n, headings, boundaries, config) = cut
    BY <1>1 DEF AddChunk
  <2>2. Len(cut.chunks) \in Nat /\ Len(cut.chunks) <= k + 1
    BY SeqDomain DEF CutHolds, ChunksHold
  <2> QED BY <1>1, <2>1, <2>2 DEF CutHolds
<1>2. CASE Covered(cut.chunks) # n
  <2>1. PICK next : next = AddChunk(cut, n, headings, boundaries, config)
    OBVIOUS
  <2>2. PICK c : /\ next.chunks = Append(cut.chunks, c)
                 /\ ChunkHolds(c, n, headings, boundaries, config)
                 /\ IF cut.chunks = <<>> THEN c.start = 0
                    ELSE ChunkFollows(Last(cut.chunks), c, headings, config)
                 /\ Covered(cut.chunks) < c.end
                 /\ c.end <= Covered(cut.chunks) + config.max_characters
                 /\ Ready(next, headings, config)
    BY <1>2, <2>1, ChunkAdded
  <2>3. IsSeq(cut.chunks)
    BY DEF CutHolds, ChunksHold
  <2>4. ChunksHold(next.chunks, n, headings, boundaries, config)
    BY <2>2, <2>3, ChunksHoldAppend DEF CutHolds
  <2>5. Covered(next.chunks) = c.end /\ Len(next.chunks) = Len(cut.chunks) + 1
    BY <2>2, <2>3, CoveredIs, SeqAppend
  <2>6. PICK m : m = Len(cut.chunks)
    OBVIOUS
  <2>7. PICK covered : covered = Covered(cut.chunks)
    OBVIOUS
  <2>8. PICK most : most = config.max_characters
    OBVIOUS
  <2>9. m \in Nat /\ n \in Nat /\ most \in Nat
    BY <2>3, <2>6, <2>8, SeqDomain DEF Setting
  <2>10. covered \in 0 .. n /\ m <= covered /\ covered <= m * most /\ m = k
    BY <1>2, <2>6, <2>7, <2>8 DEF CutHolds, Measured
  <2>11. PICK end : end = c.end
    OBVIOUS
  <2>12. end \in 0 .. n /\ covered < end /\ end <= covered + most
    BY <2>2, <2>7, <2>8, <2>11 DEF ChunkHolds
  <2>13. (m + 1) * most = m * most + most /\ m * most \in Nat
    BY <2>9
  <2>14. m + 1 <= end /\ end <= (m + 1) * most
    BY ONLY <2>9, <2>10, <2>12, <2>13
  <2>15. Measured(next.chunks, n, config)
    BY <2>5, <2>6, <2>8, <2>11, <2>12, <2>14 DEF Measured
  <2>16. Len(next.chunks) = k + 1
    BY <2>5, <2>6, <2>10
  <2> QED BY <2>1, <2>2, <2>4, <2>9, <2>15, <2>16 DEF CutHolds
<1> QED BY <1>1, <1>2

-----------------------------------------------------------------------------
(* The turns of the loop.                                                  *)
CutNext(cuts, k, n, headings, boundaries, config) ==
  IF k = 0 THEN [chunks |-> <<>>, start |-> 0]
  ELSE AddChunk(cuts[k - 1], n, headings, boundaries, config)
CutUpTo(cuts, turns, n, headings, boundaries, config) ==
  cuts = [k \in 0 .. turns |-> CutNext(cuts, k, n, headings, boundaries, config)]

LEMMA CutUpToExists ==
    ASSUME NEW n, NEW headings, NEW boundaries, NEW config
    PROVE  \A turns \in Nat : \E cuts : CutUpTo(cuts, turns, n, headings, boundaries, config)
<1> DEFINE Next(cuts, k) == CutNext(cuts, k, n, headings, boundaries, config)
           N == {t \in Nat : \E cuts : CutUpTo(cuts, t, n, headings, boundaries, config)}
<1>1. 0 \in N
  <2> DEFINE cuts == [k \in 0 .. 0 |-> [chunks |-> <<>>, start |-> 0]]
  <2>1. CutUpTo(cuts, 0, n, headings, boundaries, config)
    BY DEF CutUpTo, CutNext
  <2> QED BY <2>1
<1>2. \A t \in N : t + 1 \in N
  <2> SUFFICES ASSUME NEW t \in N
               PROVE  \E cuts : CutUpTo(cuts, t + 1, n, headings, boundaries, config)
    OBVIOUS
  <2>1. PICK cuts : CutUpTo(cuts, t, n, headings, boundaries, config)
    OBVIOUS
  <2> DEFINE more == [k \in 0 .. t + 1 |-> IF k = t + 1 THEN Next(cuts, k) ELSE cuts[k]]
  <2>2. \A k \in 0 .. t : more[k] = cuts[k] /\ cuts[k] = Next(cuts, k)
    <3> SUFFICES ASSUME NEW k \in 0 .. t PROVE more[k] = cuts[k] /\ cuts[k] = Next(cuts, k)
      OBVIOUS
    <3>1. t \in Nat /\ k \in 0 .. t + 1 /\ k # t + 1
      OBVIOUS
    <3>2. more[k] = cuts[k]
      BY ONLY <3>1
    <3>3. cuts = [c \in 0 .. t |-> Next(cuts, c)]
      BY <2>1 DEF CutUpTo
    <3>4. cuts[k] = Next(cuts, k)
      <4> HIDE DEF Next
      <4> QED BY <3>3
    <3> QED BY <3>2, <3>4
  <2>3. \A k \in 0 .. t + 1 : Next(more, k) = Next(cuts, k)
    <3> HIDE DEF more
    <3> QED BY <2>2 DEF CutNext
  <2>4. \A k \in 0 .. t + 1 : more[k] = Next(more, k)
    <3>1. \A k \in 0 .. t + 1 : k \in 0 .. t \/ k = t + 1
      OBVIOUS
    <3>2. more[t + 1] = Next(cuts, t + 1)
      OBVIOUS
    <3> HIDE DEF Next, more
    <3>3. \A k \in 0 .. t : more[k] = Next(cuts, k)
      BY <2>2
    <3>4. \A k \in 0 .. t + 1 : more[k] = Next(cuts, k)
      BY <3>1, <3>2, <3>3
    <3> QED BY <2>3, <3>4
  <2>5. CutUpTo(more, t + 1, n, headings, boundaries, config)
    BY <2>4 DEF CutUpTo
  <2> QED BY <2>5
<1>3. N = Nat
  <2> HIDE DEF N
  <2> QED BY <1>1, <1>2, NaturalSets DEF N
<1> QED BY <1>3

LEMMA ChunksFromIs ==
    ASSUME NEW n, NEW headings, NEW boundaries, NEW config, config.max_chunks \in Nat
    PROVE  \E cuts : /\ CutUpTo(cuts, config.max_chunks, n, headings, boundaries, config)
                     /\ ChunksFrom(n, headings, boundaries, config)
                          = cuts[config.max_chunks].chunks
<1> DEFINE cuts == CHOOSE f : CutUpTo(f, config.max_chunks, n, headings, boundaries, config)
<1>1. CutUpTo(cuts, config.max_chunks, n, headings, boundaries, config)
  BY CutUpToExists
<1>2. ChunksFrom(n, headings, boundaries, config) = cuts[config.max_chunks].chunks
  BY DEF ChunksFrom, CutUpTo, CutNext
<1> QED BY <1>1, <1>2

LEMMA CutStep ==
    ASSUME NEW cuts, NEW turns \in Nat, NEW n, NEW headings, NEW boundaries, NEW config,
           CutUpTo(cuts, turns, n, headings, boundaries, config)
    PROVE  /\ cuts[0] = [chunks |-> <<>>, start |-> 0]
           /\ \A k \in Nat : k + 1 <= turns =>
                cuts[k + 1] = AddChunk(cuts[k], n, headings, boundaries, config)
<1> DEFINE Next(k) == CutNext(cuts, k, n, headings, boundaries, config)
<1>1. \A k \in 0 .. turns : cuts[k] = Next(k)
  <2> HIDE DEF Next
  <2>1. cuts = [k \in 0 .. turns |-> Next(k)]
    BY DEF CutUpTo, Next
  <2> QED BY <2>1
<1>2. \A k \in Nat : k + 1 <= turns => k + 1 \in 0 .. turns /\ k + 1 # 0 /\ k + 1 - 1 = k
  OBVIOUS
<1>3. 0 \in 0 .. turns
  OBVIOUS
<1>4. Next(0) = [chunks |-> <<>>, start |-> 0]
  BY DEF CutNext
<1>5. ASSUME NEW k \in Nat
      PROVE  Next(k + 1) = AddChunk(cuts[k], n, headings, boundaries, config)
  <2>1. k + 1 # 0 /\ k + 1 - 1 = k
    OBVIOUS
  <2> QED BY <2>1 DEF CutNext
<1> HIDE DEF Next
<1> QED BY <1>1, <1>2, <1>3, <1>4, <1>5

LEMMA CutsHold ==
    ASSUME NEW n, NEW headings, NEW boundaries, NEW config,
           Setting(n, headings, boundaries, config), NEW cuts, NEW turns \in Nat,
           CutUpTo(cuts, turns, n, headings, boundaries, config)
    PROVE  \A k \in 0 .. turns : CutHolds(cuts[k], k, n, headings, boundaries, config)
<1> DEFINE N == {k \in Nat : k <= turns => CutHolds(cuts[k], k, n, headings, boundaries, config)}
<1>1. 0 \in N
  <2>1. PICK cut : cut = cuts[0]
    OBVIOUS
  <2>2. cut.chunks = <<>> /\ cut.start = 0
    BY <2>1, CutStep
  <2>3. IsSeq(<<>>) /\ Len(<<>>) = 0 /\ Covered(<<>>) = 0 /\ n \in Nat /\ config.max_characters \in Nat
    BY SeqNone DEF Covered, Setting
  <2>4. ChunksHold(cut.chunks, n, headings, boundaries, config)
    BY <2>2, <2>3 DEF ChunksHold
  <2>5. Measured(cut.chunks, n, config)
    BY <2>2, <2>3 DEF Measured
  <2>6. Ready(cut, headings, config)
    BY <2>2 DEF Ready
  <2> QED BY <2>1, <2>2, <2>3, <2>4, <2>5, <2>6 DEF CutHolds
<1>2. \A k \in N : k + 1 \in N
  <2> SUFFICES ASSUME NEW k \in N, k + 1 <= turns
               PROVE  CutHolds(cuts[k + 1], k + 1, n, headings, boundaries, config)
    OBVIOUS
  <2>1. k \in Nat /\ CutHolds(cuts[k], k, n, headings, boundaries, config)
    OBVIOUS
  <2>2. cuts[k + 1] = AddChunk(cuts[k], n, headings, boundaries, config)
    BY <2>1, CutStep
  <2> QED BY <2>1, <2>2, CutHoldsNext
<1>3. N = Nat
  <2> HIDE DEF N
  <2> QED BY <1>1, <1>2, NaturalSets DEF N
<1> QED BY <1>3

(* The number of chunks asked for does not change what is cut.             *)
LEMMA CutsAgree ==
    ASSUME NEW n, NEW headings, NEW boundaries, NEW config, NEW other,
           other.max_characters = config.max_characters,
           other.overlap_characters = config.overlap_characters,
           NEW cuts, NEW turns \in Nat, CutUpTo(cuts, turns, n, headings, boundaries, config),
           NEW more, NEW most \in Nat, CutUpTo(more, most, n, headings, boundaries, other)
    PROVE  \A k \in Nat : k <= turns /\ k <= most => cuts[k] = more[k]
<1> DEFINE N == {k \in Nat : k <= turns /\ k <= most => cuts[k] = more[k]}
<1>1. 0 \in N
  BY CutStep
<1>2. \A k \in N : k + 1 \in N
  <2> SUFFICES ASSUME NEW k \in N, k + 1 <= turns, k + 1 <= most
               PROVE  cuts[k + 1] = more[k + 1]
    OBVIOUS
  <2>1. k \in Nat /\ cuts[k] = more[k]
    OBVIOUS
  <2>2. /\ cuts[k + 1] = AddChunk(cuts[k], n, headings, boundaries, config)
        /\ more[k + 1] = AddChunk(more[k], n, headings, boundaries, other)
    BY <2>1, CutStep
  <2>3. ASSUME NEW cut
        PROVE  AddChunk(cut, n, headings, boundaries, config)
                 = AddChunk(cut, n, headings, boundaries, other)
    BY DEF AddChunk, NextStart
  <2> QED BY <2>1, <2>2, <2>3
<1>3. N = Nat
  <2> HIDE DEF N
  <2> QED BY <1>1, <1>2, NaturalSets DEF N
<1> QED BY <1>3

(* A text that is not covered needs another chunk.                         *)
LEMMA UncoveredNeedsMore ==
    ASSUME NEW n, NEW headings, NEW boundaries, NEW config,
           Setting(n, headings, boundaries, config), NEW cuts, NEW turns \in Nat,
           CutUpTo(cuts, turns, n, headings, boundaries, config), NEW k \in Nat, k < turns,
           Covered(cuts[k].chunks) # n
    PROVE  Len(cuts[turns].chunks) > k
<1> DEFINE N == {i \in Nat : k + 1 + i <= turns => Len(cuts[k + 1 + i].chunks) > k}
<1>1. 0 \in N
  <2>1. CutHolds(cuts[k], k, n, headings, boundaries, config)
    BY CutsHold
  <2>2. cuts[k + 1] = AddChunk(cuts[k], n, headings, boundaries, config)
    BY CutStep
  <2>3. Len(cuts[k].chunks) = k
    BY <2>1 DEF CutHolds
  <2>4. Len(cuts[k + 1].chunks) = Len(cuts[k].chunks) + 1
    BY <2>1, <2>2, ChunkAppended
  <2> QED BY <2>3, <2>4
<1>2. \A i \in N : i + 1 \in N
  <2> SUFFICES ASSUME NEW i \in N, k + 1 + (i + 1) <= turns
               PROVE  Len(cuts[k + 1 + (i + 1)].chunks) > k
    OBVIOUS
  <2>1. PICK j \in Nat : j = k + 1 + i
    OBVIOUS
  <2>2. j + 1 = k + 1 + (i + 1) /\ j + 1 <= turns /\ j \in 0 .. turns
    BY <2>1
  <2>3. Len(cuts[j].chunks) > k
    BY <2>1, <2>2
  <2>4. cuts[j + 1] = AddChunk(cuts[j], n, headings, boundaries, config)
    BY <2>2, CutStep
  <2>5. CutHolds(cuts[j], j, n, headings, boundaries, config)
    BY <2>2, CutsHold
  <2>6. CASE Covered(cuts[j].chunks) = n
    BY <2>2, <2>3, <2>4, <2>6 DEF AddChunk
  <2>7. CASE Covered(cuts[j].chunks) # n
    <3>1. Len(cuts[j].chunks) \in Nat
      BY <2>5, SeqDomain DEF CutHolds, ChunksHold
    <3>2. Len(cuts[j + 1].chunks) = Len(cuts[j].chunks) + 1
      BY <2>4, <2>5, <2>7, ChunkAppended
    <3> QED BY <2>2, <2>3, <3>1, <3>2
  <2> QED BY <2>6, <2>7
<1>3. N = Nat
  <2> HIDE DEF N
  <2> QED BY <1>1, <1>2, NaturalSets DEF N
<1>4. PICK i : i = turns - k - 1
  OBVIOUS
<1>5. i \in Nat /\ k + 1 + i = turns /\ k + 1 + i <= turns
  BY <1>4
<1>6. i \in N
  BY <1>3, <1>5
<1> QED BY <1>5, <1>6

-----------------------------------------------------------------------------
(* A document that is not empty is such a setting.                         *)
LEMMA CharactersAreList ==
    ASSUME NEW document, IsSeq(document), \A line \in ToSet(document) : IsSeq(line.letters)
    PROVE  IsSeq(Characters(document))
<1> DEFINE lines == [i \in DOMAIN document |-> document[i].letters]
<1>1. DOMAIN document = 1 .. Len(document) /\ Len(document) \in Nat
  BY SeqDomain
<1>2. DOMAIN lines = 1 .. Len(document) /\ lines = [i \in 1 .. Len(document) |-> lines[i]]
  BY <1>1
<1>3. \A i \in 1 .. Len(document) : IsSeq(lines[i])
  BY <1>1 DEF ToSet
<1>4. PICK ss : ss = lines
  OBVIOUS
<1> HIDE DEF lines
<1>5. IsSeq(ss)
  BY <1>1, <1>2, <1>4, SeqIsFunction
<1>6. \A s \in ToSet(ss) : IsSeq(s)
  BY <1>2, <1>3, <1>4 DEF ToSet
<1>7. IsSeq(FlattenSeq(ss))
  BY <1>5, <1>6, FlatElements
<1> QED BY <1>4, <1>7 DEF Characters, lines

LEMMA BoundariesAre ==
    ASSUME NEW text PROVE Boundaries(text) \in [0 .. Len(text) -> 0 .. 3]
<1> DEFINE B(p) == CASE EndsEmptyLine(text, p) -> 3
                     [] p \in SentenceEnds(text) -> 2
                     [] EndsWhite(text, p) -> 1
                     [] OTHER -> 0
<1>1. \A p \in 0 .. Len(text) : B(p) \in 0 .. 3
  <2> SUFFICES ASSUME NEW p \in 0 .. Len(text) PROVE B(p) \in 0 .. 3
    OBVIOUS
  <2> QED OBVIOUS
<1>2. Boundaries(text) = [p \in 0 .. Len(text) |-> B(p)]
  BY DEF Boundaries
<1> HIDE DEF B
<1> QED BY <1>1, <1>2

LEMMA HeadingsAre ==
    ASSUME NEW document, IsSeq(document), \A line \in ToSet(document) : IsSeq(line.letters)
    PROVE  HeadingStarts(document) \subseteq Nat
<1>1. DOMAIN document = 1 .. Len(document) /\ Len(document) \in Nat
  BY SeqDomain
<1>2. HeadingLines(document) \subseteq 1 .. Len(document)
  BY <1>1 DEF HeadingLines, UnderlinesText
<1>3. ASSUME NEW i \in 1 .. Len(document) PROVE LineStart(document, i) \in Nat
  <2>1. PICK part : part = SubSeq(document, 1, i - 1)
    OBVIOUS
  <2>2. IsSeq(part)
    BY <1>1, <2>1, SeqAround
  <2>3. part \in Seq(ToSet(document))
    BY <1>1, <2>1 DEF IsSeq
  <2>4. ToSet(part) \subseteq ToSet(document)
    BY <2>3, SeqIs
  <2>5. IsSeq(Characters(part))
    BY <2>2, <2>4, CharactersAreList
  <2> QED BY <2>1, <2>5, SeqDomain DEF LineStart
<1> QED BY <1>2, <1>3 DEF HeadingStarts

-----------------------------------------------------------------------------
(* The chunks that are not blank leave out only white space.               *)
BlankIn(text, from, to) == \A p \in from + 1 .. to : White(text[p])
HasInk(text, c) == ~Blank(Part(text, c.start, c.end))

LEMMA BlankPart ==
    ASSUME NEW text, IsSeq(text), NEW from \in 0 .. Len(text), NEW to \in 0 .. Len(text)
    PROVE  Blank(Part(text, from, to)) <=> BlankIn(text, from, to)
<1>1. text \in Seq(ToSet(text)) /\ Len(text) \in Nat
  BY SeqDomain DEF IsSeq
<1>2. PICK part : part = SubSeq(text, from + 1, to)
  OBVIOUS
<1>3. CASE from < to
  <2>1. DOMAIN part = 1 .. to - from /\ \A i \in 1 .. to - from : part[i] = text[from + i]
    BY <1>1, <1>2, <1>3
  <2>2. ASSUME \A i \in 1 .. to - from : White(text[from + i]), NEW p \in from + 1 .. to
        PROVE  White(text[p])
    <3>1. p - from \in 1 .. to - from /\ from + (p - from) = p
      OBVIOUS
    <3>2. White(text[from + (p - from)])
      BY <2>2, <3>1
    <3> QED BY <3>1, <3>2
  <2>3. ASSUME \A p \in from + 1 .. to : White(text[p]), NEW i \in 1 .. to - from
        PROVE  White(text[from + i])
    <3>1. from + i \in from + 1 .. to
      OBVIOUS
    <3> QED BY <2>3, <3>1
  <2>4. Blank(part) <=> \A i \in 1 .. to - from : White(text[from + i])
    BY <2>1 DEF Blank
  <2> QED BY <1>2, <2>2, <2>3, <2>4 DEF Part, BlankIn
<1>4. CASE ~ from < to
  <2>1. DOMAIN part = {} /\ from + 1 .. to = {}
    BY <1>1, <1>2, <1>4
  <2> QED BY <1>2, <2>1 DEF Part, BlankIn, Blank
<1> QED BY <1>3, <1>4

LEMMA StoredIs ==
    ASSUME NEW text, NEW chunks, IsSeq(chunks), NEW c
    PROVE  /\ Stored(text, <<>>) = <<>>
           /\ IsSeq(Stored(text, chunks))
           /\ Stored(text, Append(chunks, c)) =
                IF HasInk(text, c) THEN Append(Stored(text, chunks), c) ELSE Stored(text, chunks)
<1> DEFINE S == ToSet(chunks) \cup {c}
           E == {d \in S : HasInk(text, d)}
<1>1. chunks \in Seq(S) /\ c \in S /\ Append(chunks, c) \in Seq(S) /\ <<>> \in Seq(S)
  BY SeqIs, SeqMonotonic, AppendProperties DEF IsSeq
<1>2. ASSUME NEW rows \in Seq(S) PROVE Stored(text, rows) = Only(rows, E)
  <2>1. [n \in DOMAIN rows |-> ~Blank(Part(text, rows[n].start, rows[n].end))]
          = [n \in DOMAIN rows |-> rows[n] \in E]
    <3>1. \A n \in DOMAIN rows : rows[n] \in S
      BY <1>2
    <3> HIDE DEF S
    <3> QED BY <3>1 DEF HasInk
  <2> QED BY <2>1 DEF Stored, Where, Only
<1>3. c \in E <=> HasInk(text, c)
  OBVIOUS
<1> HIDE DEF S, E
<1>4. Stored(text, <<>>) = <<>>
  BY <1>1, <1>2, OnlyNone
<1>5. IsSeq(Only(chunks, E))
  BY OnlyElements
<1>6. Only(Append(chunks, c), E) = IF c \in E THEN Append(Only(chunks, E), c) ELSE Only(chunks, E)
  BY <1>1, OnlyMore
<1>7. /\ Stored(text, chunks) = Only(chunks, E)
      /\ Stored(text, Append(chunks, c)) = Only(Append(chunks, c), E)
  BY <1>1, <1>2
<1> QED BY <1>3, <1>4, <1>5, <1>6, <1>7

(* A stored chunk and the one before it.                                   *)
Advances(text, before, c) ==
  /\ c.start < c.end
  /\ c.start > before.end => BlankIn(text, before.end, c.start)
  /\ before.start < c.start /\ before.end < c.end

StoredHolds(text, stored) ==
  /\ IsSeq(stored)
  /\ \A i \in 1 .. Len(stored) :
       /\ stored[i].start \in 0 .. Len(text) /\ stored[i].end \in 0 .. Len(text)
       /\ stored[i].start < stored[i].end
       /\ i = 1 /\ stored[i].start > 0 => BlankIn(text, 0, stored[i].start)
       /\ i > 1 => Advances(text, stored[i - 1], stored[i])

LEMMA StoredHoldsAppend ==
    ASSUME NEW text, NEW stored, StoredHolds(text, stored), NEW c,
           c.start \in 0 .. Len(text), c.end \in 0 .. Len(text), c.start < c.end,
           IF stored = <<>> THEN c.start > 0 => BlankIn(text, 0, c.start)
           ELSE Advances(text, Last(stored), c)
    PROVE  StoredHolds(text, Append(stored, c))
<1>1. PICK more : more = Append(stored, c)
  OBVIOUS
<1>2. PICK m : m = Len(stored)
  OBVIOUS
<1>3. /\ m \in Nat /\ DOMAIN stored = 1 .. m /\ Len(more) = m + 1 /\ more[m + 1] = c
      /\ \A i \in 1 .. m : more[i] = stored[i]
      /\ stored = <<>> <=> m = 0
  <2>1. PICK S : stored \in Seq(S) /\ c \in S
    <3>1. stored \in Seq(ToSet(stored) \cup {c})
      BY SeqIs, SeqMonotonic DEF IsSeq, StoredHolds
    <3> QED BY <3>1
  <2> QED BY <1>1, <1>2, <2>1, AppendProperties
<1>4. IsSeq(more)
  BY <1>1, CoveredIs DEF StoredHolds
<1> DEFINE Good(s, i) ==
             /\ s[i].start \in 0 .. Len(text) /\ s[i].end \in 0 .. Len(text)
             /\ s[i].start < s[i].end
             /\ i = 1 /\ s[i].start > 0 => BlankIn(text, 0, s[i].start)
             /\ i > 1 => Advances(text, s[i - 1], s[i])
<1>5. \A i \in 1 .. m : Good(stored, i)
  BY <1>2 DEF StoredHolds
<1>6. ASSUME NEW i \in 1 .. m + 1 PROVE Good(more, i)
  <2>1. CASE i \in 1 .. m
    <3>1. more[i] = stored[i] /\ (i > 1 => more[i - 1] = stored[i - 1])
      BY <1>3, <2>1
    <3>2. Good(stored, i)
      BY <1>5, <2>1
    <3> QED BY <3>1, <3>2
  <2>2. CASE i = m + 1
    <3>1. more[i] = c
      BY <1>3, <2>2
    <3>2. CASE m = 0
      <4>1. ~ i > 1
        BY <2>2, <3>2
      <4> QED BY <1>3, <3>1, <3>2, <4>1
    <3>3. CASE m # 0
      <4>1. i # 1 /\ i - 1 = m /\ m \in 1 .. m
        BY <1>3, <2>2, <3>3
      <4>2. more[i - 1] = Last(stored)
        BY <1>2, <1>3, <4>1 DEF Last
      <4> QED BY <1>3, <3>1, <3>3, <4>1, <4>2
    <3> QED BY <3>2, <3>3
  <2> QED BY <1>3, <2>1, <2>2
<1>7. \A i \in 1 .. Len(more) : Good(more, i)
  BY <1>3, <1>6
<1> QED BY <1>1, <1>4, <1>7 DEF StoredHolds

PassagesHold(text, chunks) ==
  LET stored == Stored(text, chunks)
  IN  /\ StoredHolds(text, stored)
      /\ Covered(stored) \in 0 .. Len(text) /\ Covered(stored) <= Covered(chunks)
      /\ stored # <<>> =>
           chunks # <<>> /\ Last(stored).start \in Nat /\ Last(stored).start <= Last(chunks).start
      /\ BlankIn(text, Covered(stored), Covered(chunks))

LEMMA PassagesHoldAppend ==
    ASSUME NEW text, IsSeq(text), NEW chunks, IsSeq(chunks), NEW c, PassagesHold(text, chunks),
           c.start \in Nat, c.end \in 0 .. Len(text), c.start < c.end,
           Covered(chunks) \in 0 .. Len(text), c.start <= Covered(chunks), Covered(chunks) < c.end,
           chunks # <<>> => Last(chunks).start \in Nat /\ Last(chunks).start < c.start
    PROVE  PassagesHold(text, Append(chunks, c))
<1>1. PICK stored : stored = Stored(text, chunks)
  OBVIOUS
<1>2. PICK m \in Nat : m = Covered(stored)
  BY <1>1 DEF PassagesHold
<1>3. PICK n \in Nat : n = Len(text)
  BY SeqDomain
<1>4. PICK k \in Nat : k = Covered(chunks)
  OBVIOUS
<1>5. /\ StoredHolds(text, stored) /\ m \in 0 .. n /\ m <= k /\ BlankIn(text, m, k)
      /\ stored # <<>> =>
           chunks # <<>> /\ Last(stored).start \in Nat /\ Last(stored).start <= Last(chunks).start
  BY <1>1, <1>2, <1>3, <1>4 DEF PassagesHold
<1>6. PICK start \in Nat : start = c.start
  OBVIOUS
<1>7. PICK end \in Nat : end = c.end
  OBVIOUS
<1>8. /\ start < end /\ end <= n /\ k <= n /\ start <= k /\ k < end
      /\ chunks # <<>> => Last(chunks).start \in Nat /\ Last(chunks).start < start
  BY <1>3, <1>4, <1>6, <1>7
<1>9. PICK more : more = Append(chunks, c)
  OBVIOUS
<1>10. /\ Covered(more) = end /\ Last(more) = c /\ more # <<>>
  BY <1>7, <1>9, CoveredIs
<1>11. IsSeq(stored)
  BY <1>1, StoredIs
<1>12. stored # <<>> => Last(stored).end = m
  BY <1>2 DEF Covered
<1>13. stored = <<>> => m = 0
  BY <1>2 DEF Covered
<1>14. CASE HasInk(text, c)
  <2>1. PICK next : next = Append(stored, c)
    OBVIOUS
  <2>2. Stored(text, more) = next
    BY <1>1, <1>9, <1>14, <2>1, StoredIs
  <2>3. Covered(next) = end /\ Last(next) = c
    BY <1>7, <1>11, <2>1, CoveredIs
  <2>4. BlankIn(text, m, start) /\ BlankIn(text, end, end)
    <3>1. BlankIn(text, m, start)
      BY <1>5, <1>8 DEF BlankIn
    <3> QED BY <3>1 DEF BlankIn
  <2>5. IF stored = <<>> THEN c.start > 0 => BlankIn(text, 0, c.start)
        ELSE Advances(text, Last(stored), c)
    <3>1. CASE stored = <<>>
      BY <1>6, <1>13, <2>4, <3>1
    <3>2. CASE stored # <<>>
      <4>1. Last(stored).start < start
        BY <1>5, <1>8, <3>2
      <4>2. m < end
        BY <1>5, <1>8
      <4> QED BY <1>6, <1>7, <1>8, <1>12, <2>4, <3>2, <4>1, <4>2 DEF Advances
    <3> QED BY <3>1, <3>2
  <2>6. c.start \in 0 .. Len(text) /\ c.end \in 0 .. Len(text) /\ c.start < c.end
    BY <1>3, <1>6, <1>7, <1>8
  <2>7. StoredHolds(text, next)
    BY <1>5, <2>1, <2>5, <2>6, StoredHoldsAppend
  <2>8. Last(next).start \in Nat /\ Last(next).start <= Last(more).start
    BY <1>6, <1>10, <2>3
  <2>9. Covered(next) \in 0 .. Len(text) /\ Covered(next) <= Covered(more)
    BY <1>3, <1>8, <1>10, <2>3
  <2> QED BY <1>9, <1>10, <2>2, <2>3, <2>4, <2>7, <2>8, <2>9 DEF PassagesHold
<1>15. CASE ~HasInk(text, c)
  <2>1. Stored(text, more) = stored
    BY <1>1, <1>9, <1>15, StoredIs
  <2>2. BlankIn(text, start, end)
    <3>1. Blank(Part(text, start, end))
      BY <1>6, <1>7, <1>15 DEF HasInk
    <3> QED BY <1>3, <1>8, <3>1, BlankPart
  <2>3. BlankIn(text, m, end)
    <3> SUFFICES ASSUME NEW p \in m + 1 .. end PROVE White(text[p])
      BY DEF BlankIn
    <3>1. p \in m + 1 .. k \/ p \in start + 1 .. end
      BY <1>8
    <3> QED BY <1>5, <2>2, <3>1 DEF BlankIn
  <2>4. stored # <<>> => Last(stored).start \in Nat /\ Last(stored).start <= Last(more).start
    BY <1>5, <1>6, <1>8, <1>10
  <2>5. Covered(stored) \in 0 .. Len(text) /\ Covered(stored) <= Covered(more)
    BY <1>2, <1>3, <1>5, <1>8, <1>10
  <2> QED BY <1>2, <1>5, <1>9, <1>10, <2>1, <2>3, <2>4, <2>5 DEF PassagesHold
<1> QED BY <1>14, <1>15

LEMMA PassagesAre ==
    ASSUME NEW text, IsSeq(text), NEW headings, NEW boundaries, NEW config, NEW chunks,
           ChunksHold(chunks, Len(text), headings, boundaries, config)
    PROVE  PassagesHold(text, chunks) /\ Covered(chunks) \in 0 .. Len(text)
<1> DEFINE S == ToSet(chunks)
           Holds(r) == ChunksHold(r, Len(text), headings, boundaries, config)
           Right(r) == PassagesHold(text, r) /\ Covered(r) \in 0 .. Len(text)
           P == {r \in Seq(S) : Holds(r) => Right(r)}
<1>0. Len(text) \in Nat
  BY SeqDomain
<1>1. <<>> \in P
  <2>1. /\ Stored(text, <<>>) = <<>> /\ Covered(<<>>) = 0
    <3>1. Stored(text, Append(<<>>, 0)) = Stored(text, Append(<<>>, 0)) /\ IsSeq(<<>>)
      BY SeqNone
    <3>2. Stored(text, <<>>) = <<>>
      BY ONLY <3>1, StoredIs
    <3> QED BY <3>2 DEF Covered
  <2>2. StoredHolds(text, <<>>)
    BY SeqNone DEF StoredHolds
  <2>3. BlankIn(text, 0, 0)
    BY DEF BlankIn
  <2>4. Right(<<>>)
    BY <1>0, <2>1, <2>2, <2>3 DEF PassagesHold
  <2>5. <<>> \in Seq(S)
    OBVIOUS
  <2> QED BY <2>4, <2>5
<1>2. \A r \in P : \A c \in S : Append(r, c) \in P
  <2> SUFFICES ASSUME NEW r \in Seq(S), Holds(r) => Right(r), NEW c \in S, Holds(Append(r, c))
               PROVE  Right(Append(r, c)) /\ Append(r, c) \in Seq(S)
    OBVIOUS
  <2>1. IsSeq(r)
    BY SeqIs
  <2>2. /\ Holds(r) /\ ChunkHolds(c, Len(text), headings, boundaries, config)
        /\ IF r = <<>> THEN c.start = 0 ELSE ChunkFollows(Last(r), c, headings, config)
    BY <2>1, ChunksHoldAppend
  <2>3. PassagesHold(text, r) /\ Covered(r) \in 0 .. Len(text)
    BY <2>2
  <2>4. c.start \in Nat /\ c.end \in 0 .. Len(text) /\ c.start < c.end
    BY <2>2 DEF ChunkHolds, GoodEnd
  <2>5. CASE r = <<>>
    <3>1. Covered(r) = 0 /\ c.start = 0
      BY <2>2, <2>5 DEF Covered
    <3>2. c.start <= Covered(r) /\ Covered(r) < c.end
      BY <2>4, <3>1
    <3>3. PassagesHold(text, Append(r, c))
      BY <2>1, <2>3, <2>4, <2>5, <3>2, PassagesHoldAppend
    <3> QED BY <2>1, <2>4, <3>3, CoveredIs
  <2>6. CASE r # <<>>
    <3>1. ChunkFollows(Last(r), c, headings, config) /\ Covered(r) = Last(r).end
      BY <2>2, <2>6 DEF Covered
    <3>2. c.start <= Covered(r) /\ Covered(r) < c.end /\ Last(r).start < c.start
      BY <3>1 DEF ChunkFollows, Overlaps
    <3>3. Last(r).start \in Nat
      <4>1. Len(r) \in 1 .. Len(r)
        BY <2>1, <2>6, SeqDomain DEF IsSeq
      <4>2. ChunkHolds(r[Len(r)], Len(text), headings, boundaries, config)
        BY <2>2, <4>1 DEF ChunksHold
      <4> QED BY <4>2 DEF ChunkHolds, Last
    <3>4. PassagesHold(text, Append(r, c))
      BY <2>1, <2>3, <2>4, <3>2, <3>3, PassagesHoldAppend
    <3> QED BY <2>1, <2>4, <3>4, CoveredIs
  <2> QED BY <2>5, <2>6
<1>3. Seq(S) \subseteq P
  <2> HIDE DEF P
  <2>1. P \subseteq Seq(S)
    BY DEF P
  <2> QED BY <1>1, <1>2, <2>1, SequenceSets
<1>4. chunks \in Seq(S)
  BY DEF ChunksHold, IsSeq
<1> QED BY <1>3, <1>4

LEMMA StoredIsValid ==
    ASSUME NEW text, IsSeq(text), NEW headings, NEW boundaries, NEW config, NEW chunks,
           ChunksHold(chunks, Len(text), headings, boundaries, config),
           Covered(chunks) = Len(text), Stored(text, chunks) # <<>>
    PROVE  ValidPreview(text, Stored(text, chunks))
<1>1. PICK stored : stored = Stored(text, chunks)
  OBVIOUS
<1>2. PICK n \in Nat : n = Len(text)
  BY SeqDomain
<1>3. /\ StoredHolds(text, stored) /\ Covered(stored) \in 0 .. n
      /\ BlankIn(text, Covered(stored), n)
  BY <1>1, <1>2, PassagesAre DEF PassagesHold
<1>4. IsSeq(stored) /\ DOMAIN stored = 1 .. Len(stored) /\ Len(stored) \in Nat
  BY <1>3, SeqDomain DEF StoredHolds
<1>5. Covered(stored) = Last(stored).end
  BY <1>1 DEF Covered
<1>6. Blank(Part(text, Last(stored).end, Len(text)))
  BY <1>2, <1>3, <1>5, BlankPart
<1> DEFINE Behind(i) == IF i = 1 THEN 0 ELSE stored[i - 1].end
<1>7. ASSUME NEW i \in 1 .. Len(stored)
      PROVE  /\ stored[i].start < stored[i].end
             /\ stored[i].start > Behind(i) => Blank(Part(text, Behind(i), stored[i].start))
             /\ i > 1 => stored[i].start > stored[i - 1].start /\ stored[i].end > Behind(i)
  <2>1. /\ stored[i].start \in 0 .. n /\ stored[i].end \in 0 .. n
        /\ stored[i].start < stored[i].end
        /\ i = 1 /\ stored[i].start > 0 => BlankIn(text, 0, stored[i].start)
        /\ i > 1 => Advances(text, stored[i - 1], stored[i])
    BY <1>2, <1>3 DEF StoredHolds
  <2>2. CASE i = 1
    <3>1. Behind(i) = 0 /\ 0 \in 0 .. n /\ ~ i > 1
      BY <2>2
    <3> HIDE DEF Behind
    <3>2. BlankIn(text, 0, stored[i].start) => Blank(Part(text, 0, stored[i].start))
      BY <1>2, <2>1, <3>1, BlankPart
    <3> QED BY <2>1, <2>2, <3>1, <3>2
  <2>3. CASE i # 1
    <3>1. Behind(i) = stored[i - 1].end /\ i > 1 /\ i - 1 \in 1 .. Len(stored)
      BY <1>4, <2>3
    <3>2. stored[i - 1].end \in 0 .. n /\ stored[i - 1].start \in 0 .. n
      BY <1>2, <1>3, <3>1 DEF StoredHolds
    <3>3. Advances(text, stored[i - 1], stored[i])
      BY <2>1, <3>1
    <3> HIDE DEF Behind
    <3>4. BlankIn(text, stored[i - 1].end, stored[i].start)
            => Blank(Part(text, stored[i - 1].end, stored[i].start))
      BY <1>2, <2>1, <3>2, BlankPart
    <3> QED BY <2>1, <3>1, <3>2, <3>3, <3>4 DEF Advances
  <2> QED BY <2>2, <2>3
<1> QED BY <1>1, <1>4, <1>6, <1>7 DEF ValidPreview

-----------------------------------------------------------------------------
(* The parts of ChunksCoverText.                                           *)
ChunksCut(chunks, n, headings, boundaries, config) ==
  /\ chunks # <<>> /\ chunks[1].start = 0 /\ Last(chunks).end = n
  /\ Len(chunks) <= config.max_chunks
  /\ \A i \in DOMAIN chunks :
       LET c == chunks[i]
           reach == ReachOf(c.start, n, headings, config)
       IN  /\ c.start < c.end /\ c.end <= reach
           /\ c.end # reach => boundaries[c.end] > 0
           /\ c.end < reach /\ reach \notin headings \cup {n} =>
                \A p \in (c.end + 1)..reach : boundaries[p] < boundaries[c.end]
           /\ c.heading = Max({h \in headings : h <= c.start} \cup {-1})
           /\ i > 1 => ChunkFollows(chunks[i - 1], c, headings, config)

LEMMA MoreTurns ==
    ASSUME NEW a \in Nat, NEW b \in Nat, NEW most \in Nat, a <= b PROVE a * most <= b * most
<1>1. PICK d \in Nat : b = a + d
  <2>1. b - a \in Nat /\ b = a + (b - a)
    OBVIOUS
  <2> QED BY <2>1
<1>2. b * most = a * most + d * most /\ a * most \in Nat /\ d * most \in Nat
  BY <1>1
<1> QED BY <1>2

(* A document that is refused needs more chunks than there may be.         *)
LEMMA RefusedNeedsMore ==
    ASSUME NEW document, NEW text, text = Characters(document), IsSeq(text), text # <<>>,
           NEW config, config \in [max_characters : Nat, overlap_characters : Nat, max_chunks : Nat],
           Setting(Len(text), HeadingStarts(document), Boundaries(text), config),
           ChunkText(document, config) = TooManyChunks
    PROVE  Len(ChunkText(document, [config EXCEPT !.max_chunks = Len(text)]).chunks)
             > config.max_chunks
<1>1. PICK n : n = Len(text)
  OBVIOUS
<1>2. PICK headings : headings = HeadingStarts(document)
  OBVIOUS
<1>3. PICK boundaries : boundaries = Boundaries(text)
  OBVIOUS
<1>4. PICK most : most = config.max_characters
  OBVIOUS
<1>5. PICK other : other = [config EXCEPT !.max_chunks = n]
  OBVIOUS
<1>6. /\ other.max_characters = most /\ other.max_chunks = n
      /\ other.overlap_characters = config.overlap_characters
  BY <1>4, <1>5
<1>7. PICK turns \in Nat : turns = config.max_chunks
  OBVIOUS
<1>8. n \in Nat \ {0} /\ most \in Nat \ {0}
  BY <1>1, <1>4 DEF Setting
<1>9. Setting(n, headings, boundaries, config) /\ Setting(n, headings, boundaries, other)
  BY <1>1, <1>2, <1>3, <1>4, <1>6 DEF Setting
<1>10. PICK cuts : /\ CutUpTo(cuts, turns, n, headings, boundaries, config)
                   /\ ChunksFrom(n, headings, boundaries, config) = cuts[turns].chunks
  BY <1>7, ChunksFromIs
<1>11. PICK more : /\ CutUpTo(more, n, n, headings, boundaries, other)
                   /\ ChunksFrom(n, headings, boundaries, other) = more[n].chunks
  <2>1. \E more : /\ CutUpTo(more, other.max_chunks, n, headings, boundaries, other)
                  /\ ChunksFrom(n, headings, boundaries, other) = more[other.max_chunks].chunks
    BY <1>6, <1>8, ChunksFromIs
  <2> QED BY <1>6, <2>1
<1>12. CutHolds(more[n], n, n, headings, boundaries, other) /\ n \in 0 .. n /\ turns \in 0 .. turns
  <2>1. \A k \in 0 .. n : CutHolds(more[k], k, n, headings, boundaries, other)
    BY <1>8, <1>9, <1>11, CutsHold
  <2> QED BY <1>8, <2>1
<1>13. PICK chunks : chunks = more[n].chunks
  OBVIOUS
<1>14. PICK m \in Nat : m = Len(chunks)
  BY <1>12, <1>13, SeqDomain DEF CutHolds, ChunksHold
<1>15. /\ Covered(chunks) \in 0 .. n /\ m <= Covered(chunks) /\ Covered(chunks) <= m * most
       /\ Covered(chunks) # n => m = n
  BY <1>6, <1>12, <1>13, <1>14 DEF CutHolds, Measured
<1>16. Covered(chunks) = n
  BY <1>8, <1>15
<1>17. m > turns
  <2>1. CASE n > most * turns
    <3> SUFFICES ASSUME m <= turns PROVE FALSE
      OBVIOUS
    <3>1. m * most <= turns * most /\ turns * most = most * turns
      BY <1>8, MoreTurns
    <3>2. m * most \in Nat /\ turns * most \in Nat
      BY <1>8
    <3> QED BY ONLY <1>8, <1>15, <1>16, <2>1, <3>1, <3>2
  <2>2. CASE Covered(cuts[turns].chunks) # n
    <3>1. CutHolds(cuts[turns], turns, n, headings, boundaries, config)
      BY <1>9, <1>10, <1>12, CutsHold
    <3>2. /\ Covered(cuts[turns].chunks) \in 0 .. n /\ turns <= Covered(cuts[turns].chunks)
      BY <2>2, <3>1 DEF CutHolds, Measured
    <3>3. turns < n
      BY <1>8, <2>2, <3>2
    <3>4. cuts[turns] = more[turns]
      BY <1>4, <1>6, <1>8, <1>10, <1>11, <3>3, CutsAgree
    <3>5. Covered(more[turns].chunks) # n
      BY <2>2, <3>4
    <3> QED BY <1>8, <1>9, <1>11, <1>13, <1>14, <3>3, <3>5, UncoveredNeedsMore
  <2>3. n > most * turns \/ Covered(cuts[turns].chunks) # n
    <3>1. ~(n > most * turns) /\ Covered(cuts[turns].chunks) = n =>
            ChunkText(document, config) = Cut(cuts[turns].chunks)
      BY <1>1, <1>2, <1>3, <1>4, <1>7, <1>10 DEF ChunkText
    <3>2. \A s : Cut(s) # TooManyChunks
      BY DEF Cut, TooManyChunks
    <3> QED BY <3>1, <3>2
  <2> QED BY <2>1, <2>2, <2>3
<1>18. ChunkText(document, other) = Cut(chunks)
  <2>1. ~ n > most * n
    <3>1. 1 * n <= most * n
      BY <1>8, MoreTurns
    <3>2. most * n \in Nat
      BY <1>8
    <3> QED BY <1>8, <3>1, <3>2
  <2> QED BY <1>1, <1>2, <1>3, <1>6, <1>11, <1>13, <1>16, <2>1 DEF ChunkText
<1>19. Cut(chunks).chunks = chunks
  BY DEF Cut
<1> QED BY <1>1, <1>5, <1>7, <1>14, <1>17, <1>18, <1>19

LEMMA CutIsRight ==
    ASSUME NEW document, NEW text, text = Characters(document), IsSeq(text), text # <<>>,
           NEW config, config.max_chunks \in Nat,
           Setting(Len(text), HeadingStarts(document), Boundaries(text), config),
           ChunkText(document, config) # TooManyChunks
    PROVE  LET chunks == ChunkText(document, config).chunks
           IN  /\ ChunksCut(chunks, Len(text), HeadingStarts(document), Boundaries(text), config)
               /\ Stored(text, chunks) # <<>> => ValidPreview(text, Stored(text, chunks))
<1>1. PICK n : n = Len(text)
  OBVIOUS
<1>2. PICK headings : headings = HeadingStarts(document)
  OBVIOUS
<1>3. PICK boundaries : boundaries = Boundaries(text)
  OBVIOUS
<1>4. PICK turns \in Nat : turns = config.max_chunks
  OBVIOUS
<1>5. Setting(n, headings, boundaries, config) /\ n \in Nat \ {0}
  BY <1>1, <1>2, <1>3 DEF Setting
<1>6. PICK cuts : /\ CutUpTo(cuts, turns, n, headings, boundaries, config)
                  /\ ChunksFrom(n, headings, boundaries, config) = cuts[turns].chunks
  BY <1>4, ChunksFromIs
<1>7. PICK chunks : chunks = cuts[turns].chunks
  OBVIOUS
<1>8. ChunkText(document, config) = Cut(chunks) /\ Covered(chunks) = n
  BY <1>1, <1>2, <1>3, <1>6, <1>7 DEF ChunkText
<1>9. ChunkText(document, config).chunks = chunks
  BY <1>8 DEF Cut
<1>10. CutHolds(cuts[turns], turns, n, headings, boundaries, config)
  <2>1. turns \in 0 .. turns
    OBVIOUS
  <2> QED BY <1>5, <1>6, <2>1, CutsHold
<1>11. ChunksHold(chunks, n, headings, boundaries, config) /\ Len(chunks) <= turns
  BY <1>7, <1>10 DEF CutHolds
<1>12. chunks # <<>>
  BY <1>5, <1>8 DEF Covered
<1>13. chunks[1].start = 0 /\ Last(chunks).end = n
  BY <1>8, <1>11, <1>12 DEF ChunksHold, Covered
<1>14. DOMAIN chunks = 1 .. Len(chunks)
  BY <1>11, SeqDomain DEF ChunksHold
<1>15. ASSUME NEW i \in DOMAIN chunks
       PROVE  LET c == chunks[i]
                  reach == ReachOf(c.start, n, headings, config)
              IN  /\ c.start < c.end /\ c.end <= reach
                  /\ c.end # reach => boundaries[c.end] > 0
                  /\ c.end < reach /\ reach \notin headings \cup {n} =>
                       \A p \in (c.end + 1)..reach : boundaries[p] < boundaries[c.end]
                  /\ c.heading = Max({h \in headings : h <= c.start} \cup {-1})
                  /\ i > 1 => ChunkFollows(chunks[i - 1], c, headings, config)
  BY <1>11, <1>14 DEF ChunksHold, ChunkHolds, GoodEnd
<1>16. ChunksCut(chunks, n, headings, boundaries, config)
  BY <1>4, <1>11, <1>12, <1>13, <1>15 DEF ChunksCut
<1>17. Stored(text, chunks) # <<>> => ValidPreview(text, Stored(text, chunks))
  BY <1>1, <1>8, <1>11, StoredIsValid
<1> QED BY <1>1, <1>2, <1>3, <1>9, <1>16, <1>17

(* ChunksCoverText holds of every document, cut by any configuration.      *)
THEOREM ChunksCover == GraphSpec => []ChunksCoverText
<1>1. Answers => ChunksCoverText
  <2> SUFFICES ASSUME Answers, IsAnswered("chunk") PROVE ChunksCoverText
    BY DEF ChunksCoverText
  <2>1. request \in ChunkRequests
    BY RequestsAssumption DEF Answers, IsAnswered
  <2>2. PICK document : document = request.document
    OBVIOUS
  <2>3. PICK config : config = request.config
    OBVIOUS
  <2>4. PICK text : text = Characters(document)
    OBVIOUS
  <2>5. answer = ChunkText(document, config)
    BY <2>2, <2>3 DEF Answers
  <2>6. /\ IsSeq(document) /\ \A line \in ToSet(document) : IsSeq(line.letters)
        /\ config \in [max_characters : Nat, overlap_characters : Nat, max_chunks : Nat]
        /\ ValidConfig(config)
    BY <2>1, <2>2, <2>3, ChunkingAssumption, ListIsSeq DEF Range, ToSet
  <2>7. IsSeq(text)
    BY <2>4, <2>6, CharactersAreList
  <2>8. CASE text = <<>>
    <3>1. answer = Cut(<<>>)
      BY <2>4, <2>5, <2>8 DEF ChunkText
    <3>2. answer # TooManyChunks /\ answer.chunks = <<>>
      BY <3>1 DEF Cut, TooManyChunks
    <3>3. Stored(text, <<>>) = <<>> /\ Len(<<>>) = 0 /\ DOMAIN <<>> = {} /\ 0 <= config.max_chunks
      <4>1. Stored(text, Append(<<>>, 0)) = Stored(text, Append(<<>>, 0)) /\ IsSeq(<<>>)
        BY SeqNone
      <4>2. Stored(text, <<>>) = <<>>
        BY ONLY <4>1, StoredIs
      <4> QED BY <2>6, <4>2
    <3> QED BY <2>2, <2>3, <2>4, <2>8, <3>2, <3>3 DEF ChunksCoverText
  <2>9. CASE text # <<>>
    <3>1. PICK n : n = Len(text)
      OBVIOUS
    <3>2. PICK headings : headings = HeadingStarts(document)
      OBVIOUS
    <3>3. PICK boundaries : boundaries = Boundaries(text)
      OBVIOUS
    <3>4. n \in Nat \ {0}
      BY <2>7, <2>9, <3>1 DEF IsSeq
    <3>5. Setting(n, headings, boundaries, config)
      BY <2>6, <3>1, <3>2, <3>3, <3>4, BoundariesAre, HeadingsAre DEF Setting, ValidConfig
    <3>6. CASE answer = TooManyChunks
      <4>1. Len(ChunkText(document, [config EXCEPT !.max_chunks = n]).chunks) > config.max_chunks
        BY <2>4, <2>5, <2>6, <2>7, <2>9, <3>1, <3>2, <3>3, <3>5, <3>6, RefusedNeedsMore
      <4> QED BY <2>2, <2>3, <2>4, <3>1, <3>6, <4>1 DEF ChunksCoverText
    <3>7. CASE answer # TooManyChunks
      <4>1. PICK chunks : chunks = answer.chunks
        OBVIOUS
      <4>2. /\ ChunksCut(chunks, n, headings, boundaries, config)
            /\ Stored(text, chunks) # <<>> => ValidPreview(text, Stored(text, chunks))
        BY <2>4, <2>5, <2>6, <2>7, <2>9, <3>1, <3>2, <3>3, <3>5, <3>7, <4>1, CutIsRight
      <4> QED BY <2>2, <2>3, <2>4, <3>1, <3>2, <3>3, <3>7, <4>1, <4>2, ZenonT(40)
              DEF ChunksCoverText, ChunksCut, ChunkFollows, Overlaps, ReachOf
    <3> QED BY <3>6, <3>7
  <2> QED BY <2>8, <2>9
<1> QED BY <1>1, AnswersHold, PTL

-----------------------------------------------------------------------------
(* Selection.  A finite set that is not empty has a best member.           *)
LEMMA BestFitting ==
    ASSUME NEW S, IsFiniteSet(S), S # {}, NEW score \in [S -> Int],
           \A c \in S : c.chunk \in Int, \A c, d \in S : c.chunk = d.chunk => c = d
    PROVE  \E b \in S : \A d \in S \ {b} : \/ score[b] > score[d]
                                           \/ (score[b] = score[d] /\ b.chunk < d.chunk)
<1> DEFINE Better(c, d) == score[c] > score[d] \/ (score[c] = score[d] /\ c.chunk < d.chunk)
           Best(T) == \E b \in T : \A d \in T \ {b} : Better(b, d)
           N == {n \in Nat : \A T \in SUBSET S : T # {} /\ Cardinality(T) = n => Best(T)}
<1>1. 0 \in N
  BY FS_Subset, FS_EmptySet
<1>2. \A n \in N : n + 1 \in N
  <2> SUFFICES ASSUME NEW n \in N, NEW T \in SUBSET S, T # {}, Cardinality(T) = n + 1
               PROVE  Best(T)
    OBVIOUS
  <2>1. PICK x \in T : TRUE
    OBVIOUS
  <2> DEFINE U == T \ {x}
  <2>2. IsFiniteSet(T) /\ Cardinality(U) = n /\ U \in SUBSET S
    <3>1. IsFiniteSet(T)
      BY FS_Subset
    <3>2. Cardinality(U) = Cardinality(T) - 1
      BY <2>1, <3>1, FS_RemoveElement
    <3> QED BY <3>1, <3>2
  <2>3. CASE U = {}
    BY <2>1, <2>3
  <2>4. CASE U # {}
    <3>1. Best(U)
      BY <2>2, <2>4
    <3>2. PICK b \in U : \A d \in U \ {b} : Better(b, d)
      BY <3>1
    <3>3. Better(b, x) \/ Better(x, b)
      <4>1. /\ score[b] \in Int /\ score[x] \in Int /\ b.chunk \in Int /\ x.chunk \in Int
            /\ b.chunk # x.chunk
        BY <2>1
      <4> QED BY <4>1
    <3>4. CASE Better(b, x)
      BY <2>1, <3>2, <3>4
    <3>5. CASE Better(x, b)
      <4>1. ASSUME NEW d \in T \ {x} PROVE Better(x, d)
        BY <2>1, <3>2, <3>5, <4>1
      <4> QED BY <2>1, <4>1
    <3> QED BY <3>3, <3>4, <3>5
  <2> QED BY <2>3, <2>4
<1>3. N = Nat
  <2> HIDE DEF N
  <2> QED BY <1>1, <1>2, NaturalSets DEF N
<1>4. Cardinality(S) \in N
  BY <1>3, FS_CardinalityType
<1> QED BY <1>4

LEMMA GreatestIs ==
    ASSUME NEW S \in SUBSET Int, NEW m \in S, \A y \in S : m >= y PROVE Max(S) = m
<1>1. Max(S) \in S /\ \A y \in S : Max(S) >= y
  BY DEF Max
<1>2. Max(S) >= m /\ m >= Max(S) /\ m \in Int /\ Max(S) \in Int
  BY <1>1
<1> QED BY <1>2

LEMMA SmallestIs ==
    ASSUME NEW S \in SUBSET Int, NEW m \in S, \A y \in S : m <= y PROVE Min(S) = m
<1>1. Min(S) \in S /\ \A y \in S : Min(S) <= y
  BY DEF Min
<1>2. Min(S) <= m /\ m <= Min(S) /\ m \in Int /\ Min(S) \in Int
  BY <1>1
<1> QED BY <1>2

LEMMA TwoExtremes ==
    ASSUME NEW a \in Int, NEW b \in Int
    PROVE  /\ Max({a, b}) = IF a >= b THEN a ELSE b
           /\ Min({a, b}) = IF a <= b THEN a ELSE b
<1>1. {a, b} \in SUBSET Int /\ a \in {a, b} /\ b \in {a, b}
  OBVIOUS
<1>2. CASE a < b
  <2>1. Max({a, b}) = b
    BY <1>1, <1>2, GreatestIs
  <2>2. Min({a, b}) = a
    BY <1>1, <1>2, SmallestIs
  <2> QED BY <1>2, <2>1, <2>2
<1>3. CASE a >= b
  <2>1. Max({a, b}) = a
    BY <1>1, <1>3, GreatestIs
  <2>2. Min({a, b}) = b
    BY <1>1, <1>3, SmallestIs
  <2> QED BY <1>3, <2>1, <2>2
<1> QED BY <1>2, <1>3

(* Candidates as finalize takes them.                                      *)
Candidates(all) ==
  /\ IsFiniteSet(all)
  /\ \A c \in all : /\ c.start \in Nat /\ c.end \in Nat /\ c.start <= c.end
                    /\ c.score \in Int /\ c.direction \in Int /\ c.chunk \in Int
  /\ \A c, d \in all : c.chunk = d.chunk => c = d

LEMMA RedundantIs ==
    ASSUME NEW all, Candidates(all), NEW c \in all, NEW d \in all
    PROVE  Bytes(c) \in Nat /\ Redundant(c, d) \in Nat
<1>1. /\ c.start \in Nat /\ c.end \in Nat /\ c.start <= c.end /\ c.direction \in Int
      /\ d.start \in Nat /\ d.end \in Nat /\ d.start <= d.end /\ d.direction \in Int
  BY DEF Candidates
<1>2. Bytes(c) \in Nat /\ Bytes(d) \in Nat
  BY <1>1 DEF Bytes
<1>3. Shorter(c, d) \in Nat
  <2>1. Bytes(c) \in Int /\ Bytes(d) \in Int
    BY <1>2
  <2>2. Min({Bytes(c), Bytes(d)}) = IF Bytes(c) <= Bytes(d) THEN Bytes(c) ELSE Bytes(d)
    BY <2>1, TwoExtremes
  <2> QED BY <1>2, <2>2 DEF Shorter
<1>4. Common(c, d) \in Nat
  <2>1. PICK x : x = Min({c.end, d.end}) - Max({c.start, d.start})
    OBVIOUS
  <2>2. x \in Int
    BY <1>1, <2>1, TwoExtremes
  <2>3. Max({0, x}) \in Nat
    BY <2>2, TwoExtremes
  <2> QED BY <2>1, <2>3 DEF Common
<1>5. SourceOverlap(c, d) \in Nat
  <2>1. Shorter(c, d) # 0 => (One * Common(c, d)) \div Shorter(c, d) \in Nat
    <3>1. ASSUME NEW x \in Nat, NEW y \in Nat, y # 0 PROVE (One * x) \div y \in Nat
      BY <3>1 DEF One
    <3> QED BY <1>3, <1>4, <3>1
  <2> QED BY <2>1 DEF SourceOverlap
<1>6. Cosine(c, d) \in Nat
  <2>1. PICK x : x = One - Max({c.direction - d.direction, d.direction - c.direction})
    OBVIOUS
  <2>2. x \in Int
    <3>1. c.direction - d.direction \in Int /\ d.direction - c.direction \in Int
      BY <1>1
    <3>2. Max({c.direction - d.direction, d.direction - c.direction}) \in Int
      BY <3>1, TwoExtremes
    <3> QED BY <2>1, <3>2 DEF One
  <2>3. Max({0, x}) \in Nat
    BY <2>2, TwoExtremes
  <2> QED BY <2>1, <2>3 DEF Cosine
<1> QED BY <1>2, <1>5, <1>6, TwoExtremes DEF Redundant

(* Relevance orders candidates as their scores do.                         *)
LEMMA RelevanceIs ==
    ASSUME NEW all, Candidates(all), NEW c \in all, NEW d \in all
    PROVE  /\ Relevance(all, c) \in Int /\ Spread(all) \in Int
           /\ Relevance(all, c) >= Relevance(all, d) => c.score >= d.score
<1>1. /\ IsFiniteSet(all) /\ all # {}
      /\ \A x \in all : x.score \in Int /\ x.chunk \in Int
      /\ \A x, y \in all : x.chunk = y.chunk => x = y
  BY DEF Candidates
<1>2. PICK high \in all : \A x \in all : high.score >= x.score
  <2> DEFINE up == [x \in all |-> x.score]
  <2>1. up \in [all -> Int] /\ \A x \in all : up[x] = x.score
    BY <1>1
  <2> HIDE DEF up
  <2>2. \E b \in all : \A x \in all \ {b} : \/ up[b] > up[x]
                                           \/ (up[b] = up[x] /\ b.chunk < x.chunk)
    BY <1>1, <2>1, BestFitting, SMTT(30)
  <2>3. PICK b \in all : \A x \in all \ {b} : up[b] >= up[x]
    BY <2>1, <2>2
  <2>4. ASSUME NEW x \in all PROVE b.score >= x.score
    BY <1>1, <2>1, <2>3
  <2> QED BY <2>4
<1>3. PICK low \in all : \A x \in all : low.score <= x.score
  <2> DEFINE down == [x \in all |-> 0 - x.score]
  <2>1. down \in [all -> Int] /\ \A x \in all : down[x] = 0 - x.score
    BY <1>1
  <2> HIDE DEF down
  <2>2. \E b \in all : \A x \in all \ {b} : \/ down[b] > down[x]
                                           \/ (down[b] = down[x] /\ b.chunk < x.chunk)
    BY <1>1, <2>1, BestFitting, SMTT(30)
  <2>3. PICK b \in all : \A x \in all \ {b} : down[b] >= down[x]
    BY <2>1, <2>2
  <2>4. ASSUME NEW x \in all PROVE b.score <= x.score
    BY <1>1, <2>1, <2>3
  <2> QED BY <2>4
<1>4. Scores(all) \in SUBSET Int /\ \A x \in all : x.score \in Scores(all)
  BY <1>1 DEF Scores
<1>5. Max(Scores(all)) = high.score
  <2>1. \A y \in Scores(all) : high.score >= y
    BY <1>2 DEF Scores
  <2> QED BY <1>2, <1>4, <2>1, GreatestIs
<1>6. Min(Scores(all)) = low.score
  <2>1. \A y \in Scores(all) : low.score <= y
    BY <1>3 DEF Scores
  <2> QED BY <1>3, <1>4, <2>1, SmallestIs
<1>7. /\ c.score \in Int /\ d.score \in Int /\ high.score \in Int /\ low.score \in Int
      /\ low.score <= c.score /\ c.score <= high.score
      /\ low.score <= d.score /\ d.score <= high.score
  BY <1>1, <1>2, <1>3
<1>8. CASE Alike(all)
  BY <1>5, <1>6, <1>7, <1>8 DEF Relevance, Spread, Alike
<1>9. CASE ~Alike(all)
  <2>1. /\ Relevance(all, c) = c.score - low.score /\ Relevance(all, d) = d.score - low.score
        /\ Spread(all) = high.score - low.score
    BY <1>5, <1>6, <1>9 DEF Relevance, Spread
  <2> QED BY <1>7, <2>1
<1> QED BY <1>8, <1>9

(* Bytes of hits, by their recursion.                                      *)
SumNext(hits, f, k) == IF k = 0 THEN 0 ELSE f[k - 1] + Bytes(hits[k])
SumUpTo(hits, f, n) == f = [k \in 0 .. n |-> SumNext(hits, f, k)]

LEMMA SumUpToExists ==
    ASSUME NEW hits
    PROVE  \A n \in Nat : \E f : SumUpTo(hits, f, n)
<1> DEFINE N == {n \in Nat : \E f : SumUpTo(hits, f, n)}
<1>1. 0 \in N
  <2> DEFINE f == [k \in 0 .. 0 |-> 0]
  <2>1. SumUpTo(hits, f, 0)
    BY DEF SumUpTo, SumNext
  <2> QED BY <2>1
<1>2. \A n \in N : n + 1 \in N
  <2> SUFFICES ASSUME NEW n \in N PROVE \E f : SumUpTo(hits, f, n + 1)
    OBVIOUS
  <2>1. PICK f : SumUpTo(hits, f, n)
    OBVIOUS
  <2> DEFINE g == [k \in 0 .. n + 1 |-> IF k = n + 1 THEN SumNext(hits, f, k) ELSE f[k]]
  <2>2. \A k \in 0 .. n : g[k] = f[k] /\ f[k] = SumNext(hits, f, k)
    <3>1. \A k \in 0 .. n : f[k] = SumNext(hits, f, k)
      BY <2>1 DEF SumUpTo
    <3>2. n \in Nat
      OBVIOUS
    <3>3. \A k \in 0 .. n : k # n + 1 /\ k \in 0 .. n + 1
      BY ONLY <3>2
    <3>4. \A k \in 0 .. n + 1 : k # n + 1 => g[k] = f[k]
      OBVIOUS
    <3> HIDE DEF g
    <3> QED BY ONLY <3>1, <3>3, <3>4
  <2>3. \A k \in 0 .. n + 1 : SumNext(hits, g, k) = SumNext(hits, f, k)
    <3> HIDE DEF g
    <3> QED BY <2>2 DEF SumNext
  <2>4. \A k \in 0 .. n + 1 : g[k] = SumNext(hits, g, k)
    BY <2>2, <2>3
  <2>5. SumUpTo(hits, g, n + 1)
    BY <2>4 DEF SumUpTo
  <2> QED BY <2>5
<1>3. N = Nat
  <2> HIDE DEF N
  <2> QED BY <1>1, <1>2, NaturalSets DEF N
<1> QED BY <1>3

LEMMA BytesOfIs ==
    ASSUME NEW hits, Len(hits) \in Nat
    PROVE  \E f : SumUpTo(hits, f, Len(hits)) /\ BytesOf(hits) = f[Len(hits)]
<1> DEFINE f == CHOOSE f : SumUpTo(hits, f, Len(hits))
<1>1. SumUpTo(hits, f, Len(hits))
  BY SumUpToExists
<1>2. BytesOf(hits) = f[Len(hits)]
  BY DEF BytesOf, SumUpTo, SumNext
<1> QED BY <1>1, <1>2

LEMMA BytesOfNone == BytesOf(<<>>) = 0
<1>1. Len(<<>>) = 0
  OBVIOUS
<1>2. PICK f : SumUpTo(<<>>, f, 0) /\ BytesOf(<<>>) = f[0]
  BY <1>1, BytesOfIs
<1> QED BY <1>2 DEF SumUpTo, SumNext

LEMMA BytesOfAppend ==
    ASSUME NEW S, NEW hits \in Seq(S), NEW c \in S
    PROVE  BytesOf(Append(hits, c)) = BytesOf(hits) + Bytes(c)
<1> DEFINE more == Append(hits, c)
           n == Len(hits)
<1>2. /\ n \in Nat /\ Len(more) = n + 1 /\ more[n + 1] = c
      /\ \A i \in 1 .. n : more[i] = hits[i]
  BY AppendProperties
<1> HIDE DEF more, n
<1>3. PICK f : SumUpTo(hits, f, n) /\ BytesOf(hits) = f[n]
  BY <1>2, BytesOfIs DEF n
<1>4. PICK g : SumUpTo(more, g, n + 1) /\ BytesOf(more) = g[n + 1]
  BY <1>2, BytesOfIs
<1> DEFINE N == {i \in Nat : i <= n => f[i] = g[i]}
<1>5. 0 \in N
  BY <1>2, <1>3, <1>4 DEF SumUpTo, SumNext
<1>6. \A i \in N : i + 1 \in N
  <2> SUFFICES ASSUME NEW i \in N, i + 1 <= n PROVE f[i + 1] = g[i + 1]
    OBVIOUS
  <2>1. /\ f[i] = g[i] /\ i + 1 - 1 = i /\ i + 1 # 0 /\ more[i + 1] = hits[i + 1]
    BY <1>2
  <2>2. i + 1 \in 0 .. n /\ i + 1 \in 0 .. n + 1
    BY <1>2
  <2>3. f[i + 1] = SumNext(hits, f, i + 1)
    BY <1>3, <2>2 DEF SumUpTo
  <2>4. g[i + 1] = SumNext(more, g, i + 1)
    BY <1>4, <2>2 DEF SumUpTo
  <2> QED BY <2>1, <2>3, <2>4 DEF SumNext
<1>7. N = Nat
  <2> HIDE DEF N
  <2> QED BY <1>5, <1>6, NaturalSets DEF N
<1>8. f[n] = g[n]
  BY <1>2, <1>7
<1>9. g[n + 1] = g[n] + Bytes(c)
  <2>1. n + 1 \in 0 .. n + 1 /\ n + 1 # 0 /\ n + 1 - 1 = n
    BY <1>2
  <2>2. g[n + 1] = SumNext(more, g, n + 1)
    BY <1>4, <2>1 DEF SumUpTo
  <2> QED BY <1>2, <2>1, <2>2 DEF SumNext
<1> QED BY <1>3, <1>4, <1>8, <1>9 DEF more

(* The places of the chosen candidates of a document, and the candidates.  *)
Places(hits, d) == {i \in DOMAIN hits : hits[i].document = d}
OfDocument(hits, d) == {c \in Range(hits) : c.document = d}

LEMMA PlacesAre ==
    ASSUME NEW S, NEW hits \in Seq(S), IsInjective(hits), NEW d
    PROVE  /\ IsFiniteSet(Places(hits, d)) /\ Cardinality(Places(hits, d)) \in Nat
           /\ Cardinality(OfDocument(hits, d)) = Cardinality(Places(hits, d))
<1> DEFINE P == Places(hits, d)
           f == [i \in P |-> hits[i]]
<1>1. DOMAIN hits = 1 .. Len(hits) /\ Len(hits) \in Nat
  OBVIOUS
<1>2. P \in SUBSET (1 .. Len(hits)) /\ IsFiniteSet(1 .. Len(hits))
  BY <1>1, FS_Interval DEF Places
<1>3. IsFiniteSet(P) /\ Cardinality(P) \in Nat
  <2> HIDE DEF P
  <2> QED BY <1>2, FS_Subset, FS_CardinalityType
<1>4. f \in Bijection(P, OfDocument(hits, d))
  <2>1. \A i, j \in DOMAIN hits : hits[i] = hits[j] => i = j
    BY DEF IsInjective
  <2>2. f \in [P -> OfDocument(hits, d)]
    BY DEF Places, OfDocument, Range
  <2>3. \A c \in OfDocument(hits, d) : \E i \in P : f[i] = c
    BY DEF Places, OfDocument, Range
  <2>4. \A i, j \in P : f[i] = f[j] => i = j
    BY <2>1 DEF Places
  <2> HIDE DEF f, P
  <2> QED BY <2>2, <2>3, <2>4 DEF Bijection, Injection, Surjection, IsInjective
<1>5. Cardinality(OfDocument(hits, d)) = Cardinality(P)
  <2>1. ExistsBijection(P, OfDocument(hits, d))
    BY <1>4 DEF ExistsBijection
  <2> HIDE DEF P
  <2> QED BY <1>3, <2>1, FS_Bijection
<1> QED BY <1>3, <1>5

LEMMA PlacesMore ==
    ASSUME NEW S, NEW hits \in Seq(S), IsInjective(hits), NEW c \in S \ Range(hits), NEW d
    PROVE  /\ IsInjective(Append(hits, c)) /\ Range(Append(hits, c)) = Range(hits) \cup {c}
           /\ Cardinality(Places(Append(hits, c), d))
                = IF c.document = d THEN Cardinality(Places(hits, d)) + 1
                  ELSE Cardinality(Places(hits, d))
<1> DEFINE more == Append(hits, c)
           n == Len(hits)
<1>1. /\ n \in Nat /\ Len(more) = n + 1 /\ more[n + 1] = c /\ more \in Seq(S)
      /\ DOMAIN more = 1 .. n + 1 /\ DOMAIN hits = 1 .. n
      /\ \A i \in 1 .. n : more[i] = hits[i]
  BY AppendProperties
<1> HIDE DEF more, n
<1>2. \A i \in 1 .. n + 1 : i \in 1 .. n \/ i = n + 1
  BY <1>1
<1>3. n + 1 \notin 1 .. n /\ n + 1 \in 1 .. n + 1 /\ \A i \in 1 .. n : i \in 1 .. n + 1
  BY <1>1
<1>4. Range(more) = Range(hits) \cup {c}
  BY <1>1, <1>2, <1>3 DEF Range
<1>5. IsInjective(more)
  <2>1. \A i \in 1 .. n : hits[i] # c
    BY <1>1 DEF Range
  <2>2. \A i, j \in 1 .. n : hits[i] = hits[j] => i = j
    BY <1>1 DEF IsInjective
  <2>3. \A i, j \in 1 .. n + 1 : more[i] = more[j] => i = j
    BY <1>1, <1>2, <2>1, <2>2
  <2> QED BY <1>1, <2>3 DEF IsInjective
<1>6. CASE c.document = d
  <2>1. Places(more, d) = Places(hits, d) \cup {n + 1} /\ n + 1 \notin Places(hits, d)
    BY <1>1, <1>2, <1>3, <1>6 DEF Places
  <2>2. Cardinality(Places(more, d)) = Cardinality(Places(hits, d)) + 1
    <3>1. IsFiniteSet(Places(hits, d))
      BY PlacesAre
    <3> QED BY <2>1, <3>1, FS_AddElement
  <2> QED BY <1>4, <1>5, <1>6, <2>2 DEF more
<1>7. CASE c.document # d
  <2>1. Places(more, d) = Places(hits, d)
    BY <1>1, <1>2, <1>3, <1>7 DEF Places
  <2> QED BY <1>4, <1>5, <1>7, <2>1 DEF more
<1> QED BY <1>6, <1>7

(* The greatest redundancy with the first n hits.                          *)
MostRedundant(hits, c, n) == Max({0} \cup {Redundant(hits[i], c) : i \in 1 .. n})

LEMMA HasMost ==
    ASSUME NEW all, Candidates(all), NEW hits \in Seq(all), NEW c \in all,
           NEW n \in 0 .. Len(hits)
    PROVE  LET R == {0} \cup {Redundant(hits[j], c) : j \in 1 .. n}
           IN  /\ R \in SUBSET Nat /\ MostRedundant(hits, c, n) \in R
               /\ \A y \in R : MostRedundant(hits, c, n) >= y
<1> DEFINE R(i) == {0} \cup {Redundant(hits[j], c) : j \in 1 .. i}
           N == {i \in Nat : i <= Len(hits) => \E m \in R(i) : \A y \in R(i) : m >= y}
<1>1. \A i \in 1 .. Len(hits) : Redundant(hits[i], c) \in Nat
  BY RedundantIs
<1>2. R(0) = {0}
  OBVIOUS
<1>3. \A i \in Nat : i + 1 <= Len(hits) =>
         R(i + 1) = R(i) \cup {Redundant(hits[i + 1], c)} /\ i + 1 \in 1 .. Len(hits)
  OBVIOUS
<1>4. \A i \in Nat : i <= Len(hits) => R(i) \in SUBSET Nat
  BY <1>1
<1>5. 0 \in N
  <2> HIDE DEF R
  <2> QED BY <1>2
<1>6. \A i \in N : i + 1 \in N
  <2> HIDE DEF R
  <2> SUFFICES ASSUME NEW i \in N, i + 1 <= Len(hits)
               PROVE  \E m \in R(i + 1) : \A y \in R(i + 1) : m >= y
    OBVIOUS
  <2>1. PICK m \in R(i) : \A y \in R(i) : m >= y
    OBVIOUS
  <2> DEFINE x == Redundant(hits[i + 1], c)
  <2>2. R(i + 1) = R(i) \cup {x} /\ x \in Nat /\ R(i) \in SUBSET Nat
    BY <1>1, <1>3, <1>4
  <2> HIDE DEF x
  <2>3. CASE m >= x
    BY <2>1, <2>2, <2>3
  <2>4. CASE x > m
    BY <2>1, <2>2, <2>4
  <2> QED BY <2>1, <2>2, <2>3, <2>4
<1>7. N = Nat
  <2> HIDE DEF N
  <2> QED BY <1>5, <1>6, NaturalSets DEF N
<1>8. n \in N /\ n <= Len(hits) /\ n \in Nat
  BY <1>7
<1> HIDE DEF R
<1>9. PICK m \in R(n) : \A y \in R(n) : m >= y
  BY <1>8
<1>10. R(n) \in SUBSET Nat
  BY <1>4, <1>8
<1>11. Max(R(n)) = m
  <2>1. R(n) \in SUBSET Int
    BY <1>10
  <2> QED BY <1>9, <2>1, GreatestIs
<1> QED BY <1>9, <1>10, <1>11 DEF MostRedundant, R

LEMMA MostRedundantFirst == ASSUME NEW hits, NEW c PROVE MostRedundant(hits, c, 0) = 0
<1>1. {0} \cup {Redundant(hits[j], c) : j \in 1 .. 0} = {0}
  OBVIOUS
<1>2. {0} \in SUBSET Int /\ 0 \in {0} /\ \A y \in {0} : 0 >= y
  OBVIOUS
<1>3. Max({0}) = 0
  BY <1>2, GreatestIs
<1> QED BY <1>1, <1>3 DEF MostRedundant

LEMMA MostRedundantKept ==
    ASSUME NEW S, NEW hits \in Seq(S), NEW b \in S, NEW c, NEW n \in 0 .. Len(hits)
    PROVE  MostRedundant(Append(hits, b), c, n) = MostRedundant(hits, c, n)
<1> DEFINE more == Append(hits, b)
           R(h) == {0} \cup {Redundant(h[j], c) : j \in 1 .. n}
<1>1. \A i \in 1 .. n : more[i] = hits[i]
  <2>1. \A i \in 1 .. Len(hits) : more[i] = hits[i]
    BY AppendProperties
  <2> HIDE DEF more
  <2> QED BY <2>1
<1>2. R(more) = R(hits)
  <2> HIDE DEF more
  <2> QED BY <1>1
<1> QED BY <1>2 DEF MostRedundant

LEMMA MostRedundantMore ==
    ASSUME NEW all, Candidates(all), NEW hits \in Seq(all), NEW b \in all, NEW c \in all
    PROVE  MostRedundant(Append(hits, b), c, Len(hits) + 1)
             = Max({MostRedundant(hits, c, Len(hits)), Redundant(b, c)})
<1> DEFINE more == Append(hits, b)
           k == Len(hits)
           R(h, i) == {0} \cup {Redundant(h[j], c) : j \in 1 .. i}
<1>1. /\ k \in Nat /\ more[k + 1] = b /\ more \in Seq(all)
      /\ \A i \in 1 .. k : more[i] = hits[i]
  BY AppendProperties
<1>5. R(more, k + 1) = R(hits, k) \cup {Redundant(b, c)}
  <2> HIDE DEF more
  <2>1. \A i \in 1 .. k + 1 : i \in 1 .. k \/ i = k + 1
    BY <1>1
  <2>2. k + 1 \in 1 .. k + 1 /\ \A i \in 1 .. k : i \in 1 .. k + 1
    BY <1>1
  <2> QED BY <1>1, <2>1, <2>2
<1>6. MostRedundant(more, c, k + 1) = Max({MostRedundant(hits, c, k), Redundant(b, c)})
  <2> DEFINE m == MostRedundant(hits, c, k)
             x == Redundant(b, c)
  <2>1. \A i \in 1 .. k : Redundant(hits[i], c) \in Nat
    BY RedundantIs
  <2>4. R(hits, k) \in SUBSET Nat /\ m \in R(hits, k) /\ \A y \in R(hits, k) : m >= y
    <3>1. k \in 0 .. Len(hits)
      BY <1>1
    <3> QED BY <3>1, HasMost
  <2>2. x \in Nat /\ m \in Nat
    BY <2>4, RedundantIs
  <2>3. R(hits, k) \in SUBSET Nat
    BY <2>4
  <2>5. MostRedundant(more, c, k + 1) = Max(R(hits, k) \cup {x})
    BY <1>5 DEF MostRedundant
  <2> HIDE DEF m, x, R
  <2>6. R(hits, k) \cup {x} \in SUBSET Int
    BY <2>2, <2>3
  <2>7. CASE m >= x
    <3>1. Max(R(hits, k) \cup {x}) = m
      BY <2>4, <2>6, <2>7, GreatestIs
    <3> QED BY <2>2, <2>5, <2>7, <3>1, TwoExtremes DEF m, x
  <2>8. CASE x > m
    <3>1. \A y \in R(hits, k) \cup {x} : x >= y
      BY <2>2, <2>3, <2>4, <2>8
    <3>2. Max(R(hits, k) \cup {x}) = x
      BY <2>6, <3>1, GreatestIs
    <3> QED BY <2>2, <2>5, <2>8, <3>2, TwoExtremes DEF m, x
  <2> QED BY <2>2, <2>7, <2>8
<1> QED BY <1>6

-----------------------------------------------------------------------------
(* A round of selection: what still fits, the best of it, and what stays   *)
(* available when that is chosen.                                          *)
Fitting(s, o) == {c \in s.available : Fits(c, s, o)}
Ahead(c, d, s, all, o) ==
  \/ MarginalScore(c, s, all, o) > MarginalScore(d, s, all, o)
  \/ (MarginalScore(c, s, all, o) = MarginalScore(d, s, all, o) /\ c.chunk < d.chunk)
Staying(s, o, b) ==
  IF o.diversity = 0 THEN Fitting(s, o) \ {b} ELSE {c \in Fitting(s, o) \ {b} : ~Repeats(b, c)}
Closed(s) == [s EXCEPT !.available = {}, !.truncated = @ \/ s.available # {}]
Took(s, o, b) ==
  [chosen |-> Append(s.chosen, b),
   bytes |-> s.bytes + Bytes(b),
   available |-> Staying(s, o, b),
   redundancy |-> [c \in DOMAIN s.redundancy |->
                     IF c \in Staying(s, o, b) /\ o.diversity > 0
                     THEN Max({s.redundancy[c], Redundant(b, c)})
                     ELSE s.redundancy[c]],
   truncated |-> \/ s.truncated
                 \/ Fitting(s, o) # s.available \/ Staying(s, o, b) # Fitting(s, o) \ {b}]

LEMMA ChooseIs ==
    ASSUME NEW s, NEW all, NEW o
    PROVE  Choose(s, all, o)
             = IF Fitting(s, o) = {} THEN Closed(s)
               ELSE Took(s, o, CHOOSE b \in Fitting(s, o) :
                                 \A d \in Fitting(s, o) \ {b} : Ahead(b, d, s, all, o))
BY DEF Choose, Fitting, Closed, Took, Staying, Ahead

AtPlace(hits, c, i, all, o) == Marginal(all, c, MostRedundant(hits, c, i - 1), o.diversity)
Prevails(hits, i, c, all, o) ==
  /\ IF i = 1 THEN hits[1].score >= c.score
     ELSE AtPlace(hits, hits[i], i, all, o) >= AtPlace(hits, c, i, all, o)
  /\ o.diversity > 0 => ~Repeats(hits[i], c)
Outcast(hits, bytes, c, o) ==
  \/ bytes + Bytes(c) > o.max_context_bytes
  \/ Cardinality(Places(hits, c.document)) >= o.max_per_document
  \/ o.diversity > 0 /\ \E h \in Range(hits) : Repeats(h, c)

(* What holds after k rounds: the budgets; that each choice prevails over  *)
(* later ones and over what is available; why the others are out.          *)
IsRound(s) == DOMAIN s = {"chosen", "bytes", "available", "redundancy", "truncated"}
Budgeted(s, all, o) ==
  /\ s.chosen \in Seq(all) /\ IsInjective(s.chosen)
  /\ s.available \subseteq all \ Range(s.chosen)
  /\ s.bytes = BytesOf(s.chosen) /\ s.bytes \in Nat /\ s.bytes <= o.max_context_bytes
  /\ \A c \in all : Cardinality(Places(s.chosen, c.document)) <= o.max_per_document
Compared(s, all, o) ==
  /\ s.redundancy \in [all -> Nat]
  /\ o.diversity > 0 => \A c \in s.available :
                          s.redundancy[c] = MostRedundant(s.chosen, c, Len(s.chosen))
  /\ \A i \in 1 .. Len(s.chosen) :
       /\ \A c \in s.available : Prevails(s.chosen, i, c, all, o)
       /\ \A j \in 1 .. Len(s.chosen) : i < j => Prevails(s.chosen, i, s.chosen[j], all, o)
Out(s, all) == all \ (Range(s.chosen) \cup s.available)
Explained(s, all, o, t) ==
  /\ \A c \in Out(s, all) : Outcast(s.chosen, s.bytes, c, o)
  /\ s.truncated = (t \/ Out(s, all) # {})
Selecting(s, k, all, o, t) ==
  /\ IsRound(s) /\ Budgeted(s, all, o) /\ Compared(s, all, o) /\ Explained(s, all, o, t)
  /\ Len(s.chosen) <= k /\ (Len(s.chosen) = k \/ s.available = {})

Options(o) ==
  /\ o.limit \in Nat /\ o.max_context_bytes \in Nat /\ o.max_per_document \in Nat
  /\ o.diversity \in 0 .. One

LEMMA AtPlaceIs ==
    ASSUME NEW hits, NEW c, NEW n \in Nat, NEW all, NEW o
    PROVE  AtPlace(hits, c, n + 1, all, o)
             = Marginal(all, c, MostRedundant(hits, c, n), o.diversity)
<1>1. PICK i : i = n + 1
  OBVIOUS
<1>2. i - 1 = n
  BY <1>1
<1>3. AtPlace(hits, c, i, all, o) = Marginal(all, c, MostRedundant(hits, c, n), o.diversity)
  BY <1>2 DEF AtPlace
<1> QED BY <1>1, <1>3

LEMMA ScoreIs ==
    ASSUME NEW all, Candidates(all), NEW o, Options(o), NEW c \in all, NEW m \in Nat
    PROVE  /\ Marginal(all, c, m, o.diversity) \in Int
           /\ o.diversity = 0 => \A n \in Nat : Marginal(all, c, n, o.diversity)
                                                  = Marginal(all, c, m, o.diversity)
<1>1. o.diversity \in Nat /\ One - o.diversity \in Int /\ One * (One - o.diversity) \in Int
  BY DEF Options, One
<1>2. Relevance(all, c) \in Int /\ Spread(all) \in Int
  BY RelevanceIs
<1>3. ASSUME NEW x \in Int, NEW y \in Int PROVE x * y \in Int
  OBVIOUS
<1>4. PICK x, y : x = Relevance(all, c) /\ y = Spread(all)
  OBVIOUS
<1>5. x \in Int /\ y \in Int
  BY <1>2, <1>4
<1>6. Marginal(all, c, m, o.diversity) \in Int
  <2>1. One * (One - o.diversity) * x \in Int /\ y * o.diversity \in Int
    BY <1>1, <1>3, <1>5
  <2>2. y * o.diversity * m \in Int
    BY <1>3, <2>1
  <2> QED BY <1>4, <2>1, <2>2 DEF Marginal
<1>7. ASSUME o.diversity = 0, NEW n \in Nat
      PROVE  Marginal(all, c, n, o.diversity) = Marginal(all, c, m, o.diversity)
  <2>1. y * 0 = 0
    BY <1>5
  <2>2. y * o.diversity * n = 0 /\ y * o.diversity * m = 0
    BY <1>7, <2>1
  <2> QED BY <1>4, <2>2 DEF Marginal
<1> QED BY <1>6, <1>7

LEMMA BestIs ==
    ASSUME NEW all, Candidates(all), NEW o, Options(o), NEW s, Budgeted(s, all, o),
           Compared(s, all, o), Fitting(s, o) # {}
    PROVE  \E b \in Fitting(s, o) :
             /\ \A d \in Fitting(s, o) \ {b} : Ahead(b, d, s, all, o)
             /\ Choose(s, all, o) = Took(s, o, b)
<1> DEFINE F == Fitting(s, o)
           score == [c \in F |-> MarginalScore(c, s, all, o)]
<1>1. F \in SUBSET all
  BY DEF Budgeted, Fitting
<1> HIDE DEF F
<1>2. /\ IsFiniteSet(F) /\ F # {}
      /\ \A c \in F : c.chunk \in Int
      /\ \A c, d \in F : c.chunk = d.chunk => c = d
  BY <1>1, FS_Subset DEF Candidates, F
<1>3. \A c \in F : MarginalScore(c, s, all, o) \in Int
  <2> SUFFICES ASSUME NEW c \in F PROVE MarginalScore(c, s, all, o) \in Int
    OBVIOUS
  <2>1. c \in all /\ s.redundancy[c] \in Nat
    BY <1>1 DEF Compared
  <2>2. Marginal(all, c, s.redundancy[c], o.diversity) \in Int
    BY <2>1, ScoreIs
  <2>3. Relevance(all, c) \in Int
    BY <2>1, RelevanceIs
  <2> QED BY <2>2, <2>3 DEF MarginalScore
<1>4. score \in [F -> Int] /\ \A c \in F : score[c] = MarginalScore(c, s, all, o)
  BY <1>3
<1> HIDE DEF score
<1>5. \E b \in F : \A d \in F \ {b} : \/ score[b] > score[d]
                                     \/ (score[b] = score[d] /\ b.chunk < d.chunk)
  BY <1>2, <1>4, BestFitting, SMTT(30)
<1>6. \E b \in F : \A d \in F \ {b} : Ahead(b, d, s, all, o)
  BY <1>4, <1>5 DEF Ahead
<1> DEFINE b == CHOOSE b \in F : \A d \in F \ {b} : Ahead(b, d, s, all, o)
<1>7. b \in F /\ \A d \in F \ {b} : Ahead(b, d, s, all, o)
  BY <1>6
<1>8. Choose(s, all, o) = Took(s, o, b)
  BY <1>2, ChooseIs DEF F
<1> HIDE DEF b
<1> QED BY <1>7, <1>8 DEF F

LEMMA CloseHolds ==
    ASSUME NEW all, Candidates(all), NEW o, Options(o), NEW t \in BOOLEAN, NEW s, NEW k \in Nat,
           Selecting(s, k, all, o, t), Fitting(s, o) = {}
    PROVE  Selecting(Closed(s), k + 1, all, o, t)
<1> DEFINE r == Closed(s)
<1>1. /\ r.chosen = s.chosen /\ r.bytes = s.bytes /\ r.available = {}
      /\ r.redundancy = s.redundancy /\ r.truncated = (s.truncated \/ s.available # {})
      /\ IsRound(r)
  <2>1. IsRound(s)
    BY DEF Selecting
  <2>2. PICK v : v = (s.truncated \/ s.available # {})
    OBVIOUS
  <2>3. r = [s EXCEPT !.available = {}, !.truncated = v]
    BY <2>2 DEF Closed
  <2> HIDE DEF r
  <2>4. /\ IsRound(r) /\ r.chosen = s.chosen /\ r.bytes = s.bytes /\ r.available = {}
        /\ r.redundancy = s.redundancy /\ r.truncated = v
    BY <2>1, <2>3 DEF IsRound
  <2> QED BY <2>2, <2>4
<1> HIDE DEF r
<1>2. Budgeted(r, all, o) /\ Compared(r, all, o)
  BY <1>1 DEF Selecting, Budgeted, Compared
<1>3. Len(s.chosen) \in Nat /\ Len(s.chosen) <= k
  BY DEF Selecting, Budgeted
<1>4. Out(r, all) = Out(s, all) \cup s.available
  BY <1>1 DEF Out, Selecting, Budgeted
<1>5. \A c \in s.available : Outcast(s.chosen, s.bytes, c, o)
  <2> SUFFICES ASSUME NEW c \in s.available PROVE Outcast(s.chosen, s.bytes, c, o)
    OBVIOUS
  <2>1. c \in all /\ ~Fits(c, s, o) /\ s.bytes \in Nat /\ o.max_context_bytes \in Nat
        /\ o.max_per_document \in Nat /\ s.chosen \in Seq(all) /\ IsInjective(s.chosen)
    BY DEF Fitting, Selecting, Budgeted, Options
  <2>2. Bytes(c) \in Nat
    BY <2>1, RedundantIs
  <2>3. Cardinality(Places(s.chosen, c.document)) \in Nat
    BY <2>1, PlacesAre
  <2> QED BY <2>1, <2>2, <2>3 DEF Fits, Outcast, Places
<1>6. Explained(r, all, o, t)
  <2>1. Explained(s, all, o, t)
    BY DEF Selecting
  <2> QED BY <1>1, <1>4, <1>5, <2>1 DEF Explained
<1> QED BY <1>1, <1>2, <1>3, <1>6 DEF Selecting, r

(* Choosing the best keeps what holds: its fields,                         *)
LEMMA TookIs ==
    ASSUME NEW all, Candidates(all), NEW o, Options(o), NEW s, Budgeted(s, all, o),
           s.redundancy \in [all -> Nat], NEW b \in Fitting(s, o)
    PROVE  LET r == Took(s, o, b)
               n == Len(s.chosen)
           IN  /\ IsRound(r) /\ r.chosen = Append(s.chosen, b) /\ r.bytes = s.bytes + Bytes(b)
               /\ r.available = Staying(s, o, b) /\ r.redundancy \in [all -> Nat]
               /\ n \in Nat /\ r.chosen \in Seq(all) /\ Len(r.chosen) = n + 1
               /\ r.chosen[n + 1] = b
               /\ \A i \in 1 .. n : r.chosen[i] = s.chosen[i] /\ s.chosen[i] \in all
               /\ b \in all \ Range(s.chosen) /\ Bytes(b) \in Nat
               /\ Staying(s, o, b) \subseteq Fitting(s, o) \ {b}
               /\ Fitting(s, o) \subseteq s.available
<1> DEFINE r == Took(s, o, b)
           n == Len(s.chosen)
<1>1. Fitting(s, o) \subseteq s.available /\ s.available \subseteq all \ Range(s.chosen)
  BY DEF Fitting, Budgeted
<1>2. Staying(s, o, b) \subseteq Fitting(s, o) \ {b}
  BY DEF Staying
<1>3. b \in all \ Range(s.chosen) /\ Bytes(b) \in Nat
  BY <1>1, RedundantIs
<1>4. s.chosen \in Seq(all)
  BY DEF Budgeted
<1>5. /\ n \in Nat /\ Append(s.chosen, b) \in Seq(all) /\ Len(Append(s.chosen, b)) = n + 1
      /\ Append(s.chosen, b)[n + 1] = b
      /\ \A i \in 1 .. n : Append(s.chosen, b)[i] = s.chosen[i] /\ s.chosen[i] \in all
  BY <1>3, <1>4, AppendProperties
<1>6. IsRound(r)
  BY DEF IsRound, Took
<1>7. /\ r.chosen = Append(s.chosen, b) /\ r.bytes = s.bytes + Bytes(b)
      /\ r.available = Staying(s, o, b)
  BY DEF Took
<1>8. r.redundancy \in [all -> Nat]
  <2>1. \A c \in all : Max({s.redundancy[c], Redundant(b, c)}) \in Nat
    <3> SUFFICES ASSUME NEW c \in all PROVE Max({s.redundancy[c], Redundant(b, c)}) \in Nat
      OBVIOUS
    <3>1. s.redundancy[c] \in Nat /\ Redundant(b, c) \in Nat
      BY <1>3, RedundantIs
    <3> QED BY <3>1, TwoExtremes
  <2>2. DOMAIN s.redundancy = all /\ \A c \in all : s.redundancy[c] \in Nat
    OBVIOUS
  <2>3. r.redundancy = [c \in all |-> IF c \in Staying(s, o, b) /\ o.diversity > 0
                                      THEN Max({s.redundancy[c], Redundant(b, c)})
                                      ELSE s.redundancy[c]]
    BY <2>2 DEF Took
  <2> QED BY <2>1, <2>2, <2>3
<1> HIDE DEF r, n
<1> QED BY <1>1, <1>2, <1>3, <1>5, <1>6, <1>7, <1>8 DEF r, n

(* the budgets,                                                            *)
LEMMA TookBudgeted ==
    ASSUME NEW all, Candidates(all), NEW o, Options(o), NEW s, Budgeted(s, all, o),
           s.redundancy \in [all -> Nat], NEW b \in Fitting(s, o)
    PROVE  /\ Budgeted(Took(s, o, b), all, o)
           /\ Range(Took(s, o, b).chosen) = Range(s.chosen) \cup {b}
           /\ \A d : Cardinality(Places(Took(s, o, b).chosen, d))
                       >= Cardinality(Places(s.chosen, d))
<1> DEFINE r == Took(s, o, b)
<1>1. /\ r.chosen = Append(s.chosen, b) /\ r.bytes = s.bytes + Bytes(b)
      /\ r.available = Staying(s, o, b) /\ r.chosen \in Seq(all)
      /\ b \in all \ Range(s.chosen) /\ Bytes(b) \in Nat
      /\ Staying(s, o, b) \subseteq Fitting(s, o) \ {b} /\ Fitting(s, o) \subseteq s.available
  BY TookIs
<1> HIDE DEF r
<1>2. /\ s.chosen \in Seq(all) /\ IsInjective(s.chosen)
      /\ s.available \subseteq all \ Range(s.chosen)
      /\ s.bytes = BytesOf(s.chosen) /\ s.bytes \in Nat /\ o.max_context_bytes \in Nat
      /\ o.max_per_document \in Nat
      /\ \A c \in all : Cardinality(Places(s.chosen, c.document)) <= o.max_per_document
  BY DEF Budgeted, Options
<1>3. IsInjective(r.chosen) /\ Range(r.chosen) = Range(s.chosen) \cup {b}
  BY <1>1, <1>2, PlacesMore
<1>4. r.available \subseteq all \ Range(r.chosen)
  BY <1>1, <1>2, <1>3
<1>5. r.bytes = BytesOf(r.chosen)
  BY <1>1, <1>2, BytesOfAppend
<1>6. Bytes(b) <= o.max_context_bytes - s.bytes
      /\ Cardinality(Places(s.chosen, b.document)) < o.max_per_document
  BY DEF Fitting, Fits, Places
<1>7. r.bytes \in Nat /\ r.bytes <= o.max_context_bytes
  BY <1>1, <1>2, <1>6
<1>8. ASSUME NEW d
      PROVE  /\ Cardinality(Places(s.chosen, d)) \in Nat
             /\ Cardinality(Places(r.chosen, d))
                  = IF b.document = d THEN Cardinality(Places(s.chosen, d)) + 1
                    ELSE Cardinality(Places(s.chosen, d))
  <2>1. Cardinality(Places(s.chosen, d)) \in Nat
    BY <1>2, PlacesAre
  <2>2. Cardinality(Places(Append(s.chosen, b), d))
          = IF b.document = d THEN Cardinality(Places(s.chosen, d)) + 1
            ELSE Cardinality(Places(s.chosen, d))
    BY <1>1, <1>2, PlacesMore
  <2> QED BY <1>1, <2>1, <2>2
<1>9. \A c \in all : Cardinality(Places(r.chosen, c.document)) <= o.max_per_document
  <2> SUFFICES ASSUME NEW c \in all
               PROVE  Cardinality(Places(r.chosen, c.document)) <= o.max_per_document
    OBVIOUS
  <2>1. CASE b.document = c.document
    BY <1>2, <1>6, <1>8, <2>1
  <2>2. CASE b.document # c.document
    BY <1>2, <1>8, <2>2
  <2> QED BY <2>1, <2>2
<1>10. \A d : Cardinality(Places(r.chosen, d)) >= Cardinality(Places(s.chosen, d))
  <2> TAKE d
  <2>1. CASE b.document = d
    BY <1>8, <2>1
  <2>2. CASE b.document # d
    BY <1>8, <2>2
  <2> QED BY <2>1, <2>2
<1> QED BY <1>1, <1>3, <1>4, <1>5, <1>7, <1>9, <1>10 DEF Budgeted, r

(* the comparisons,                                                        *)
LEMMA TookCompared ==
    ASSUME NEW all, Candidates(all), NEW o, Options(o), NEW s, Budgeted(s, all, o),
           Compared(s, all, o), NEW b \in Fitting(s, o),
           \A d \in Fitting(s, o) \ {b} : Ahead(b, d, s, all, o)
    PROVE  Compared(Took(s, o, b), all, o)
<1> DEFINE r == Took(s, o, b)
           n == Len(s.chosen)
<1>0. s.redundancy \in [all -> Nat] /\ s.chosen \in Seq(all) /\ s.available \subseteq all
  BY DEF Compared, Budgeted
<1>1. /\ r.chosen = Append(s.chosen, b) /\ r.available = Staying(s, o, b)
      /\ r.redundancy \in [all -> Nat] /\ n \in Nat /\ Len(r.chosen) = n + 1
      /\ r.chosen[n + 1] = b
      /\ \A i \in 1 .. n : r.chosen[i] = s.chosen[i] /\ s.chosen[i] \in all
      /\ b \in all /\ Staying(s, o, b) \subseteq Fitting(s, o) \ {b}
      /\ Fitting(s, o) \subseteq s.available /\ Staying(s, o, b) \subseteq all
  BY <1>0, TookIs
<1>2. ASSUME NEW c \in all
      PROVE  /\ \A i \in 0 .. n : MostRedundant(r.chosen, c, i) = MostRedundant(s.chosen, c, i)
             /\ \A i \in 0 .. n : MostRedundant(s.chosen, c, i) \in Nat
             /\ MostRedundant(r.chosen, c, n + 1)
                  = Max({MostRedundant(s.chosen, c, n), Redundant(b, c)})
  <2>1. ASSUME NEW i \in 0 .. n
        PROVE  /\ MostRedundant(r.chosen, c, i) = MostRedundant(s.chosen, c, i)
               /\ MostRedundant(s.chosen, c, i) \in Nat
    <3>1. i \in 0 .. Len(s.chosen)
      OBVIOUS
    <3>2. MostRedundant(s.chosen, c, i) \in Nat
      BY <1>0, <3>1, HasMost
    <3>3. MostRedundant(Append(s.chosen, b), c, i) = MostRedundant(s.chosen, c, i)
      <4> HIDE DEF r, n
      <4>1. b \in all
        BY <1>1
      <4> QED BY <1>0, <3>1, <4>1, MostRedundantKept
    <3> QED BY <1>1, <3>2, <3>3
  <2>2. n \in 0 .. Len(s.chosen)
    BY <1>1
  <2>3. MostRedundant(Append(s.chosen, b), c, n + 1)
          = Max({MostRedundant(s.chosen, c, n), Redundant(b, c)})
    <3>1. b \in all
      BY <1>1
    <3> QED BY <1>0, <3>1, MostRedundantMore
  <2> QED BY <1>1, <2>1, <2>3
<1>3. o.diversity > 0 => \A c \in r.available :
                           r.redundancy[c] = MostRedundant(r.chosen, c, Len(r.chosen))
  <2> SUFFICES ASSUME o.diversity > 0, NEW c \in Staying(s, o, b)
               PROVE  r.redundancy[c] = MostRedundant(r.chosen, c, n + 1)
    BY <1>1
  <2>1. c \in all /\ c \in s.available
    BY <1>1
  <2>2. s.redundancy[c] = MostRedundant(s.chosen, c, n)
    BY <2>1 DEF Compared
  <2>3. r.redundancy[c] = Max({s.redundancy[c], Redundant(b, c)})
    BY <1>0, <2>1 DEF Took
  <2> QED BY <1>2, <2>1, <2>2, <2>3
<1> HIDE DEF r, n
\* an earlier choice
<1>4. ASSUME NEW i \in 1 .. n, NEW c \in all, Prevails(s.chosen, i, c, all, o)
      PROVE  Prevails(r.chosen, i, c, all, o)
  <2>1. /\ i - 1 \in 0 .. n /\ i \in 1 .. n /\ r.chosen[i] = s.chosen[i]
        /\ s.chosen[i] \in all
    BY <1>1
  <2>2. AtPlace(r.chosen, c, i, all, o) = AtPlace(s.chosen, c, i, all, o)
    BY <1>2, <2>1 DEF AtPlace
  <2>3. AtPlace(r.chosen, r.chosen[i], i, all, o) = AtPlace(s.chosen, s.chosen[i], i, all, o)
    BY <1>2, <2>1 DEF AtPlace
  <2>4. i = 1 => r.chosen[1] = s.chosen[1]
    BY <2>1
  <2> QED BY <1>4, <2>1, <2>2, <2>3, <2>4 DEF Prevails
\* the new one
<1>5. ASSUME NEW c \in Staying(s, o, b) PROVE Prevails(r.chosen, n + 1, c, all, o)
  <2>1. c \in all /\ c \in Fitting(s, o) \ {b} /\ b \in all
    BY <1>1
  <2>2. o.diversity > 0 => ~Repeats(b, c)
    BY DEF Staying
  <2>3. Ahead(b, c, s, all, o)
    BY <2>1
  <2>4. CASE n = 0
    <3>1. s.chosen = <<>>
      BY <1>0, <2>4, EmptySeq DEF n
    <3>2. /\ MarginalScore(b, s, all, o) = Relevance(all, b)
          /\ MarginalScore(c, s, all, o) = Relevance(all, c)
      BY <3>1 DEF MarginalScore
    <3>3. Relevance(all, b) \in Int /\ Relevance(all, c) \in Int
      BY <2>1, RelevanceIs
    <3>4. Relevance(all, b) >= Relevance(all, c)
      BY <2>3, <3>2, <3>3 DEF Ahead
    <3>5. b.score >= c.score
      BY <2>1, <3>4, RelevanceIs
    <3> QED BY <1>1, <2>2, <2>4, <3>5 DEF Prevails
  <2>5. CASE n # 0
    <3>1. s.chosen # <<>> /\ n + 1 # 1 /\ n + 1 - 1 = n /\ n \in 0 .. n
      BY <1>0, <1>1, <2>5, EmptySeq DEF n
    <3>2. ASSUME NEW x \in {b, c}
          PROVE  /\ MarginalScore(x, s, all, o) = AtPlace(r.chosen, x, n + 1, all, o)
                 /\ MarginalScore(x, s, all, o) \in Int
      <4>1. x \in all /\ x \in s.available
        BY <1>1, <2>1
      <4>2. MarginalScore(x, s, all, o) = Marginal(all, x, s.redundancy[x], o.diversity)
        BY <3>1 DEF MarginalScore
      <4>3. AtPlace(r.chosen, x, n + 1, all, o)
              = Marginal(all, x, MostRedundant(s.chosen, x, n), o.diversity)
        <5>1. MostRedundant(r.chosen, x, n) = MostRedundant(s.chosen, x, n)
          BY <1>2, <3>1, <4>1
        <5>2. AtPlace(r.chosen, x, n + 1, all, o)
                = Marginal(all, x, MostRedundant(r.chosen, x, n), o.diversity)
          BY <1>1, AtPlaceIs
        <5> QED BY <5>1, <5>2
      <4>4. s.redundancy[x] \in Nat /\ MostRedundant(s.chosen, x, n) \in Nat
        BY <1>0, <1>2, <3>1, <4>1
      <4>5. MarginalScore(x, s, all, o) \in Int
        BY <4>1, <4>2, <4>4, ScoreIs
      <4>6. CASE o.diversity > 0
        <5>1. s.redundancy[x] = MostRedundant(s.chosen, x, n)
          BY <4>1, <4>6 DEF Compared, n
        <5> QED BY <4>2, <4>3, <4>5, <5>1
      <4>7. CASE o.diversity = 0
        <5>1. Marginal(all, x, s.redundancy[x], o.diversity)
                = Marginal(all, x, MostRedundant(s.chosen, x, n), o.diversity)
          BY <4>1, <4>4, <4>7, ScoreIs
        <5> QED BY <4>2, <4>3, <4>5, <5>1
      <4>8. o.diversity \in Nat
        BY DEF Options, One
      <4> QED BY <4>6, <4>7, <4>8
    <3>3. AtPlace(r.chosen, b, n + 1, all, o) >= AtPlace(r.chosen, c, n + 1, all, o)
      BY <2>3, <3>2 DEF Ahead
    <3> QED BY <1>1, <2>2, <3>1, <3>3 DEF Prevails
  <2> QED BY <2>4, <2>5
<1>6. ASSUME NEW i \in 1 .. n + 1
      PROVE  /\ \A c \in r.available : Prevails(r.chosen, i, c, all, o)
             /\ \A j \in 1 .. n + 1 : i < j => Prevails(r.chosen, i, r.chosen[j], all, o)
  <2>1. CASE i \in 1 .. n
    <3>1. /\ \A c \in s.available : Prevails(s.chosen, i, c, all, o)
          /\ \A j \in 1 .. n : i < j => Prevails(s.chosen, i, s.chosen[j], all, o)
      BY <2>1 DEF Compared, n
    <3>2. \A c \in s.available : Prevails(r.chosen, i, c, all, o)
      BY <1>0, <1>4, <2>1, <3>1
    <3>3. ASSUME NEW j \in 1 .. n + 1, i < j PROVE Prevails(r.chosen, i, r.chosen[j], all, o)
      <4>1. CASE j \in 1 .. n
        BY <1>1, <1>4, <2>1, <3>1, <3>3, <4>1
      <4>2. CASE j = n + 1
        BY <1>1, <3>2, <4>2
      <4> QED BY <1>1, <4>1, <4>2
    <3> QED BY <1>1, <3>2, <3>3
  <2>2. CASE i = n + 1
    <3>1. \A j \in 1 .. n + 1 : ~(i < j)
      BY <1>1, <2>2
    <3> QED BY <1>1, <1>5, <2>2, <3>1
  <2> QED BY <1>1, <2>1, <2>2
<1> QED BY <1>1, <1>3, <1>6 DEF Compared, r

(* and the reasons of the others.                                          *)
LEMMA TookExplained ==
    ASSUME NEW all, Candidates(all), NEW o, Options(o), NEW t \in BOOLEAN, NEW s,
           Budgeted(s, all, o), s.redundancy \in [all -> Nat], Explained(s, all, o, t),
           NEW b \in Fitting(s, o)
    PROVE  Explained(Took(s, o, b), all, o, t)
<1> DEFINE r == Took(s, o, b)
<1>1. /\ r.bytes = s.bytes + Bytes(b) /\ r.available = Staying(s, o, b)
      /\ b \in all \ Range(s.chosen) /\ Bytes(b) \in Nat
      /\ Staying(s, o, b) \subseteq Fitting(s, o) \ {b} /\ Fitting(s, o) \subseteq s.available
  BY TookIs
<1>2. /\ Range(r.chosen) = Range(s.chosen) \cup {b}
      /\ \A d : Cardinality(Places(r.chosen, d)) >= Cardinality(Places(s.chosen, d))
      /\ r.chosen \in Seq(all) /\ IsInjective(r.chosen)
  BY TookBudgeted DEF Budgeted
<1>3. r.truncated = \/ s.truncated
                    \/ Fitting(s, o) # s.available \/ Staying(s, o, b) # Fitting(s, o) \ {b}
  BY DEF Took
<1> HIDE DEF r
<1>4. /\ s.available \subseteq all \ Range(s.chosen) /\ s.bytes \in Nat
      /\ o.max_context_bytes \in Nat /\ o.max_per_document \in Nat
      /\ o.diversity \in Nat /\ s.chosen \in Seq(all) /\ IsInjective(s.chosen)
  BY DEF Budgeted, Options, One
<1>5. Out(r, all) = Out(s, all) \cup (s.available \ Fitting(s, o))
                      \cup ((Fitting(s, o) \ {b}) \ Staying(s, o, b))
  BY <1>1, <1>2, <1>4 DEF Out
<1>6. ASSUME NEW d PROVE /\ Cardinality(Places(s.chosen, d)) \in Nat
                         /\ Cardinality(Places(r.chosen, d)) \in Nat
                         /\ Cardinality(Places(r.chosen, d)) >= Cardinality(Places(s.chosen, d))
  <2>1. Cardinality(Places(s.chosen, d)) \in Nat
    BY <1>4, PlacesAre
  <2>2. Cardinality(Places(r.chosen, d)) \in Nat
    BY <1>2, PlacesAre
  <2> QED BY <1>2, <2>1, <2>2
<1>7. ASSUME NEW c \in all, Outcast(s.chosen, s.bytes, c, o)
      PROVE  Outcast(r.chosen, r.bytes, c, o)
  <2>1. Bytes(c) \in Nat
    BY RedundantIs
  <2>2. CASE s.bytes + Bytes(c) > o.max_context_bytes
    BY <1>1, <1>4, <2>1, <2>2 DEF Outcast
  <2>3. CASE Cardinality(Places(s.chosen, c.document)) >= o.max_per_document
    BY <1>4, <1>6, <2>3 DEF Outcast
  <2>4. CASE o.diversity > 0 /\ \E h \in Range(s.chosen) : Repeats(h, c)
    BY <1>2, <2>4 DEF Outcast
  <2> QED BY <1>7, <2>2, <2>3, <2>4 DEF Outcast
<1>8. \A c \in s.available \ Fitting(s, o) : Outcast(s.chosen, s.bytes, c, o)
  <2> SUFFICES ASSUME NEW c \in s.available \ Fitting(s, o)
               PROVE  Outcast(s.chosen, s.bytes, c, o)
    OBVIOUS
  <2>1. c \in all /\ ~Fits(c, s, o)
    BY <1>4 DEF Fitting
  <2>2. Bytes(c) \in Nat
    BY <2>1, RedundantIs
  <2>3. Cardinality(Places(s.chosen, c.document)) \in Nat
    BY <1>6
  <2> QED BY <1>4, <2>1, <2>2, <2>3 DEF Fits, Outcast, Places
<1>9. \A c \in (Fitting(s, o) \ {b}) \ Staying(s, o, b) : Outcast(r.chosen, r.bytes, c, o)
  BY <1>2, <1>4 DEF Staying, Outcast
<1>10. \A c \in Out(r, all) : Outcast(r.chosen, r.bytes, c, o)
  <2>1. \A c \in Out(s, all) : c \in all /\ Outcast(s.chosen, s.bytes, c, o)
    BY DEF Explained, Out
  <2> QED BY <1>4, <1>5, <1>7, <1>8, <1>9, <2>1
<1>11. r.truncated = (t \/ Out(r, all) # {})
  <2>1. s.truncated = (t \/ Out(s, all) # {})
    BY DEF Explained
  <2>2. Fitting(s, o) # s.available <=> s.available \ Fitting(s, o) # {}
    BY <1>1
  <2>3. Staying(s, o, b) # Fitting(s, o) \ {b}
          <=> (Fitting(s, o) \ {b}) \ Staying(s, o, b) # {}
    BY <1>1
  <2> QED BY <1>3, <1>5, <2>1, <2>2, <2>3
<1> QED BY <1>10, <1>11 DEF Explained, r

LEMMA ChooseHolds ==
    ASSUME NEW all, Candidates(all), NEW o, Options(o), NEW t \in BOOLEAN, NEW s, NEW k \in Nat,
           Selecting(s, k, all, o, t)
    PROVE  Selecting(Choose(s, all, o), k + 1, all, o, t)
<1>1. CASE Fitting(s, o) = {}
  <2>1. Choose(s, all, o) = Closed(s)
    BY <1>1, ChooseIs
  <2> QED BY <1>1, <2>1, CloseHolds
<1>2. CASE Fitting(s, o) # {}
  <2>1. /\ Budgeted(s, all, o) /\ Compared(s, all, o) /\ Explained(s, all, o, t)
        /\ Len(s.chosen) <= k /\ (Len(s.chosen) = k \/ s.available = {})
        /\ s.redundancy \in [all -> Nat]
    BY DEF Selecting, Compared
  <2>2. PICK b \in Fitting(s, o) : /\ \A d \in Fitting(s, o) \ {b} : Ahead(b, d, s, all, o)
                                   /\ Choose(s, all, o) = Took(s, o, b)
    BY <1>2, <2>1, BestIs
  <2>3. Budgeted(Took(s, o, b), all, o)
    BY <2>1, TookBudgeted
  <2>4. Compared(Took(s, o, b), all, o)
    BY <2>1, <2>2, TookCompared
  <2>5. Explained(Took(s, o, b), all, o, t)
    BY <2>1, TookExplained
  <2>6. /\ IsRound(Took(s, o, b)) /\ Len(s.chosen) \in Nat
        /\ Len(Took(s, o, b).chosen) = Len(s.chosen) + 1
    BY <2>1, TookIs
  <2>7. s.available # {}
    BY <1>2 DEF Fitting
  <2> QED BY <2>1, <2>2, <2>3, <2>4, <2>5, <2>6, <2>7 DEF Selecting
<1> QED BY <1>1, <1>2

-----------------------------------------------------------------------------
(* The rounds of selection.                                                *)
RoundNext(snapshot, options, round, k) ==
  IF k = 0
  THEN [chosen |-> <<>>, bytes |-> 0, available |-> snapshot.candidates,
        redundancy |-> [c \in snapshot.candidates |-> 0],
        truncated |-> snapshot.truncated]
  ELSE Choose(round[k - 1], snapshot.candidates, options)
RoundUpTo(snapshot, options, round, n) ==
  round = [k \in 0 .. n |-> RoundNext(snapshot, options, round, k)]

LEMMA RoundUpToExists ==
    ASSUME NEW snapshot, NEW options
    PROVE  \A n \in Nat : \E round : RoundUpTo(snapshot, options, round, n)
<1> DEFINE Next(round, k) == RoundNext(snapshot, options, round, k)
           N == {n \in Nat : \E round : RoundUpTo(snapshot, options, round, n)}
<1>1. 0 \in N
  <2> DEFINE round == [k \in 0 .. 0 |-> Next(<<>>, 0)]
  <2>1. \A k \in 0 .. 0 : round[k] = Next(round, k)
    BY DEF RoundNext
  <2>2. RoundUpTo(snapshot, options, round, 0)
    BY <2>1 DEF RoundUpTo
  <2> QED BY <2>2
<1>2. \A n \in N : n + 1 \in N
  <2> SUFFICES ASSUME NEW n \in N PROVE \E round : RoundUpTo(snapshot, options, round, n + 1)
    OBVIOUS
  <2>1. PICK round : RoundUpTo(snapshot, options, round, n)
    OBVIOUS
  <2> DEFINE more == [k \in 0 .. n + 1 |-> IF k = n + 1 THEN Next(round, k) ELSE round[k]]
  <2>2. \A k \in 0 .. n : more[k] = round[k] /\ round[k] = Next(round, k)
    <3>1. round = [k \in 0 .. n |-> Next(round, k)]
      BY <2>1 DEF RoundUpTo
    <3> HIDE DEF Next
    <3> QED BY <3>1
  <2>3. \A k \in 0 .. n + 1 : Next(more, k) = Next(round, k)
    <3> HIDE DEF more
    <3> QED BY <2>2 DEF RoundNext
  <2>4. \A k \in 0 .. n + 1 : more[k] = Next(more, k)
    <3>1. \A k \in 0 .. n + 1 : k \in 0 .. n \/ k = n + 1
      OBVIOUS
    <3>2. more[n + 1] = Next(round, n + 1)
      OBVIOUS
    <3> HIDE DEF Next, more
    <3>3. \A k \in 0 .. n : more[k] = Next(round, k)
      BY <2>2
    <3>4. \A k \in 0 .. n + 1 : more[k] = Next(round, k)
      BY <3>1, <3>2, <3>3
    <3> QED BY <2>3, <3>4
  <2>5. RoundUpTo(snapshot, options, more, n + 1)
    BY <2>4 DEF RoundUpTo
  <2> QED BY <2>5
<1>3. N = Nat
  <2> HIDE DEF N
  <2> QED BY <1>1, <1>2, NaturalSets DEF N
<1> QED BY <1>3

LEMMA FinalizeIs ==
    ASSUME NEW snapshot, NEW options, options.limit \in Nat
    PROVE  \E round : /\ RoundUpTo(snapshot, options, round, options.limit)
                      /\ FinalizeContext(snapshot, options)
                           = ContextOf(round[options.limit], snapshot)
<1> DEFINE round == CHOOSE f : RoundUpTo(snapshot, options, f, options.limit)
<1>1. RoundUpTo(snapshot, options, round, options.limit)
  BY RoundUpToExists
<1>2. FinalizeContext(snapshot, options) = ContextOf(round[options.limit], snapshot)
  BY DEF FinalizeContext, RoundUpTo, RoundNext
<1> QED BY <1>1, <1>2

LEMMA RoundStep ==
    ASSUME NEW snapshot, NEW options, NEW n \in Nat, NEW round,
           RoundUpTo(snapshot, options, round, n)
    PROVE  \A k \in 0 .. n : round[k] = RoundNext(snapshot, options, round, k)
<1> DEFINE Next(k) == RoundNext(snapshot, options, round, k)
<1>1. round = [k \in 0 .. n |-> Next(k)]
  BY DEF RoundUpTo
<1>2. \A k \in 0 .. n : round[k] = Next(k)
  <2> HIDE DEF Next
  <2> QED BY <1>1
<1> QED BY <1>2

LEMMA FirstRound ==
    ASSUME NEW all, Candidates(all), NEW o, Options(o), NEW t \in BOOLEAN, NEW s,
           s = [chosen |-> <<>>, bytes |-> 0, available |-> all,
                redundancy |-> [c \in all |-> 0], truncated |-> t]
    PROVE  Selecting(s, 0, all, o, t)
<1>1. /\ IsRound(s) /\ s.chosen = <<>> /\ s.bytes = 0 /\ s.available = all
      /\ s.redundancy = [c \in all |-> 0] /\ s.truncated = t
  BY DEF IsRound
<1>2. <<>> \in Seq(all) /\ Len(<<>>) = 0 /\ DOMAIN <<>> = {}
  OBVIOUS
<1>3. Range(<<>>) = {} /\ IsInjective(<<>>)
  BY <1>2 DEF Range, IsInjective
<1>4. BytesOf(<<>>) = 0
  BY BytesOfNone
<1>5. \A d : Cardinality(Places(<<>>, d)) = 0
  BY <1>2, FS_EmptySet DEF Places
<1>6. Budgeted(s, all, o)
  BY <1>1, <1>2, <1>3, <1>4, <1>5 DEF Budgeted, Options
<1>7. Compared(s, all, o)
  BY <1>1, <1>2, MostRedundantFirst DEF Compared
<1>8. Explained(s, all, o, t)
  BY <1>1, <1>3 DEF Explained, Out
<1> QED BY <1>1, <1>2, <1>6, <1>7, <1>8 DEF Selecting

LEMMA RoundsHold ==
    ASSUME NEW snapshot, NEW o, Options(o), Candidates(snapshot.candidates),
           snapshot.truncated \in BOOLEAN
    PROVE  \E s : /\ Selecting(s, o.limit, snapshot.candidates, o, snapshot.truncated)
                  /\ FinalizeContext(snapshot, o) = ContextOf(s, snapshot)
<1> DEFINE n == o.limit
<1>1. n \in Nat
  BY DEF Options
<1>2. PICK round : /\ RoundUpTo(snapshot, o, round, n)
                   /\ FinalizeContext(snapshot, o) = ContextOf(round[n], snapshot)
  BY <1>1, FinalizeIs
<1> HIDE DEF n
<1>3. \A k \in 0 .. n : round[k] = RoundNext(snapshot, o, round, k)
  BY <1>1, <1>2, RoundStep
<1> DEFINE Holds(k) == Selecting(round[k], k, snapshot.candidates, o, snapshot.truncated)
           N == {k \in Nat : k <= n => Holds(k)}
<1>4. 0 \in N
  <2>1. round[0] = [chosen |-> <<>>, bytes |-> 0, available |-> snapshot.candidates,
                    redundancy |-> [c \in snapshot.candidates |-> 0],
                    truncated |-> snapshot.truncated]
    <3>1. round[0] = RoundNext(snapshot, o, round, 0)
      BY <1>1, <1>3
    <3> QED BY <3>1 DEF RoundNext
  <2> QED BY <2>1, FirstRound
<1>5. \A k \in N : k + 1 \in N
  <2> SUFFICES ASSUME NEW k \in N, k + 1 <= n PROVE Holds(k + 1)
    OBVIOUS
  <2>1. k \in Nat /\ k <= n
    BY <1>1
  <2>2. round[k + 1] = Choose(round[k], snapshot.candidates, o)
    <3>1. round[k + 1] = RoundNext(snapshot, o, round, k + 1) /\ k + 1 # 0 /\ k + 1 - 1 = k
      BY <1>1, <1>3, <2>1
    <3> QED BY <3>1 DEF RoundNext
  <2>3. Holds(k)
    BY <2>1
  <2> QED BY <2>1, <2>2, <2>3, ChooseHolds
<1>6. N = Nat
  <2> HIDE DEF N
  <2> QED BY <1>4, <1>5, NaturalSets DEF N
<1>7. Holds(n)
  BY <1>1, <1>6
<1> QED BY <1>2, <1>7 DEF n

-----------------------------------------------------------------------------
(* What is left out is exactly what the counts say.                        *)
LEMMA LeftIs ==
    ASSUME NEW all, IsFiniteSet(all), NEW hits \in Seq(all), IsInjective(hits)
    PROVE  Len(hits) < Cardinality(all) <=> all \ Range(hits) # {}
<1> DEFINE n == Len(hits)
<1>1. n \in Nat /\ DOMAIN hits = 1 .. n /\ \A i \in 1 .. n : hits[i] \in all
  OBVIOUS
<1>2. Range(hits) \subseteq all
  BY <1>1 DEF Range
<1>3. Cardinality(Range(hits)) = n
  <2> DEFINE f == [i \in 1 .. n |-> hits[i]]
  <2>1. f \in [1 .. n -> Range(hits)] /\ \A i \in 1 .. n : f[i] = hits[i]
    BY <1>1 DEF Range
  <2>2. \A i, j \in 1 .. n : hits[i] = hits[j] => i = j
    BY <1>1 DEF IsInjective
  <2>3. \A c \in Range(hits) : \E i \in 1 .. n : hits[i] = c
    BY <1>1 DEF Range
  <2>4. f \in Bijection(1 .. n, Range(hits))
    <3> HIDE DEF f, n
    <3> QED BY <2>1, <2>2, <2>3 DEF Bijection, Injection, Surjection, IsInjective
  <2>5. ExistsBijection(1 .. n, Range(hits))
    BY <2>4 DEF ExistsBijection
  <2>6. IsFiniteSet(1 .. n) /\ Cardinality(1 .. n) = n
    <3> HIDE DEF n
    <3> QED BY <1>1, FS_Interval
  <2> HIDE DEF n
  <2> QED BY <2>5, <2>6, FS_Bijection
<1>4. /\ Cardinality(all) \in Nat /\ Cardinality(Range(hits)) \in Nat
      /\ Cardinality(Range(hits)) <= Cardinality(all)
      /\ Cardinality(Range(hits)) = Cardinality(all) => Range(hits) = all
  BY <1>2, FS_Subset, FS_CardinalityType
<1>5. CASE Range(hits) = all
  BY <1>1, <1>3, <1>4, <1>5
<1>6. CASE Range(hits) # all
  <2>1. all \ Range(hits) # {}
    BY <1>2, <1>6
  <2>2. Cardinality(Range(hits)) # Cardinality(all)
    BY <1>4, <1>6
  <2> QED BY <1>1, <1>3, <1>4, <2>1, <2>2
<1> QED BY <1>5, <1>6

(* The whole selection, as ContextFits states it.                          *)
LEMMA SelectionFits ==
    ASSUME NEW all, Candidates(all), NEW o, Options(o), NEW t \in BOOLEAN, NEW s,
           Selecting(s, o.limit, all, o, t)
    PROVE  LET hits == s.chosen
               left == all \ Range(hits)
           IN  /\ Len(hits) <= o.limit /\ IsInjective(hits) /\ Range(hits) \subseteq all
               /\ s.bytes = BytesOf(hits) /\ s.bytes <= o.max_context_bytes
               /\ \A c \in all : Cardinality(OfDocument(hits, c.document)) <= o.max_per_document
               /\ \A i, j \in DOMAIN hits : i < j => Prevails(hits, i, hits[j], all, o)
               /\ Len(hits) < o.limit =>
                    \A c \in left :
                      \/ s.bytes + Bytes(c) > o.max_context_bytes
                      \/ Cardinality(OfDocument(hits, c.document)) = o.max_per_document
                      \/ (o.diversity > 0 /\ \E h \in Range(hits) : Repeats(h, c))
               /\ (s.truncated \/ Len(hits) < Cardinality(all)) = (left # {} \/ t)
<1> DEFINE hits == s.chosen
           left == all \ Range(hits)
<1>1. /\ Budgeted(s, all, o) /\ Compared(s, all, o) /\ Explained(s, all, o, t)
      /\ Len(hits) <= o.limit /\ (Len(hits) = o.limit \/ s.available = {})
  BY DEF Selecting
<1>2. /\ hits \in Seq(all) /\ IsInjective(hits)
      /\ s.bytes = BytesOf(hits) /\ s.bytes \in Nat /\ s.bytes <= o.max_context_bytes
      /\ \A c \in all : Cardinality(Places(hits, c.document)) <= o.max_per_document
  BY <1>1 DEF Budgeted
<1>3. \A i \in 1 .. Len(hits) : \A j \in 1 .. Len(hits) :
         i < j => Prevails(hits, i, hits[j], all, o)
  BY <1>1 DEF Compared
<1>4. \A c \in Out(s, all) : Outcast(hits, s.bytes, c, o)
  BY <1>1 DEF Explained
<1>5. s.truncated = (t \/ Out(s, all) # {})
  BY <1>1 DEF Explained
<1>6. Out(s, all) \subseteq left /\ (s.available = {} => Out(s, all) = left)
  BY DEF Out
<1> HIDE DEF hits, left
<1>7. DOMAIN hits = 1 .. Len(hits) /\ Range(hits) \subseteq all /\ Len(hits) \in Nat
  BY <1>2 DEF Range
<1>8. \A d : /\ Cardinality(Places(hits, d)) \in Nat
             /\ Cardinality(OfDocument(hits, d)) = Cardinality(Places(hits, d))
  BY <1>2, PlacesAre
<1>9. \A c \in all : Cardinality(OfDocument(hits, c.document)) <= o.max_per_document
  BY <1>2, <1>8
<1>10. ASSUME Len(hits) < o.limit, NEW c \in left
       PROVE  \/ s.bytes + Bytes(c) > o.max_context_bytes
              \/ Cardinality(OfDocument(hits, c.document)) = o.max_per_document
              \/ (o.diversity > 0 /\ \E h \in Range(hits) : Repeats(h, c))
  <2>1. o.limit \in Nat /\ o.max_per_document \in Nat
    BY DEF Options
  <2>2. c \in Out(s, all) /\ c \in all
    BY <1>1, <1>6, <1>7, <1>10, <2>1 DEF hits, left
  <2>3. Outcast(hits, s.bytes, c, o)
    BY <1>4, <2>2
  <2>4. CASE Cardinality(Places(hits, c.document)) >= o.max_per_document
    <3>1. Cardinality(Places(hits, c.document)) <= o.max_per_document
      BY <1>2, <2>2
    <3> QED BY <1>8, <2>1, <2>4, <3>1
  <2> QED BY <2>3, <2>4 DEF Outcast
<1>11. (s.truncated \/ Len(hits) < Cardinality(all)) = (left # {} \/ t)
  <2>1. Len(hits) < Cardinality(all) <=> left # {}
    BY <1>2, LeftIs DEF Candidates, left
  <2>2. Out(s, all) # {} => left # {}
    BY <1>6
  <2> QED BY <1>5, <2>1, <2>2
<1> QED BY <1>1, <1>2, <1>3, <1>7, <1>9, <1>10, <1>11 DEF hits, left

(* ContextFits holds of every context, selected under any options.         *)
THEOREM ContextsFit == GraphSpec => []ContextFits
<1>1. Answers => ContextFits
  <2> SUFFICES ASSUME Answers, IsAnswered("context") PROVE ContextFits
    BY DEF ContextFits
  <2>1. request \in ContextRequests
    BY RequestsAssumption DEF Answers, IsAnswered
  <2> DEFINE all == request.snapshot.candidates
             o == request.options
             t == request.snapshot.truncated
  <2>2. Candidates(all) /\ Options(o) /\ t \in BOOLEAN
    <3>1. /\ IsFiniteSet(all)
          /\ \A c \in all : /\ c.start \in Nat /\ c.end \in Nat /\ c.start <= c.end
                            /\ c.score \in Int /\ c.direction \in Int /\ c.chunk \in Int
          /\ \A c, d \in all : c.chunk = d.chunk => c = d
          /\ o \in [limit : Nat, diversity : 0..One, max_context_bytes : Nat,
                    max_per_document : Nat]
          /\ t \in BOOLEAN
      BY <2>1, ContextAssumption
    <3> HIDE DEF all, o, t
    <3> QED BY <3>1 DEF Candidates, Options
  <2>3. answer = FinalizeContext(request.snapshot, o)
    BY DEF Answers
  <2>4. PICK s : /\ Selecting(s, o.limit, all, o, t)
                 /\ answer = ContextOf(s, request.snapshot)
    BY <2>2, <2>3, RoundsHold
  <2>5. /\ answer.hits = s.chosen /\ answer.bytes = s.bytes
        /\ answer.truncated = (s.truncated \/ Len(s.chosen) < Cardinality(all))
        /\ answer.edges = {e \in request.snapshot.edges :
                             /\ e.from \in {c.chunk : c \in Range(s.chosen)}
                             /\ e.to \in {c.chunk : c \in Range(s.chosen)}}
    BY <2>4 DEF ContextOf
  <2> DEFINE hits == answer.hits
             left == all \ Range(hits)
  <2>6. /\ Len(hits) <= o.limit /\ IsInjective(hits) /\ Range(hits) \subseteq all
        /\ answer.bytes = BytesOf(hits) /\ answer.bytes <= o.max_context_bytes
        /\ \A c \in all : Cardinality(OfDocument(hits, c.document)) <= o.max_per_document
        /\ \A i, j \in DOMAIN hits : i < j => Prevails(hits, i, hits[j], all, o)
        /\ Len(hits) < o.limit =>
             \A c \in left :
               \/ answer.bytes + Bytes(c) > o.max_context_bytes
               \/ Cardinality(OfDocument(hits, c.document)) = o.max_per_document
               \/ (o.diversity > 0 /\ \E h \in Range(hits) : Repeats(h, c))
        /\ answer.truncated = (left # {} \/ t)
    <3> HIDE DEF all, o, t
    <3> QED BY <2>2, <2>4, <2>5, SelectionFits
  <2>7. \A e \in request.snapshot.edges :
          e \in answer.edges <=> {e.from, e.to} \subseteq {h.chunk : h \in Range(hits)}
    BY <2>5
  <2> HIDE DEF all, o, t, hits, left
  <2>8. /\ \A i, j \in DOMAIN hits : i < j =>
             /\ IF i = 1 THEN hits[1].score >= hits[j].score
                ELSE Marginal(all, hits[i], Max({0} \cup {Redundant(hits[h], hits[i]) :
                                                            h \in 1 .. (i - 1)}), o.diversity)
                       >= Marginal(all, hits[j], Max({0} \cup {Redundant(hits[h], hits[j]) :
                                                            h \in 1 .. (i - 1)}), o.diversity)
             /\ o.diversity > 0 => ~Repeats(hits[i], hits[j])
    BY <2>6 DEF Prevails, AtPlace, MostRedundant
  <2>9. \A d : OfDocument(hits, d) = {c \in Range(hits) : c.document = d}
    BY DEF OfDocument
  <2> QED BY <2>6, <2>7, <2>8, <2>9 DEF ContextFits, all, o, t, hits, left
<1> QED BY <1>1, AnswersHold, PTL
-----------------------------------------------------------------------------
(* The first elements of a finite set in a strict order, given as a set of *)
(* pairs so that what holds of every order can be stated once.             *)
InStrictOrder(S, R) ==
  /\ \A x \in S : <<x, x>> \notin R
  /\ \A x, y \in S : x = y \/ <<x, y>> \in R \/ <<y, x>> \in R
  /\ \A x, y, z \in S : <<x, y>> \in R /\ <<y, z>> \in R => <<x, z>> \in R
Before(S, R, x) == {y \in S : <<y, x>> \in R}
First(S, limit, R) == {x \in S : Cardinality(Before(S, R, x)) < limit}

LEMMA SubsetOrder ==
    ASSUME NEW S, NEW R, InStrictOrder(S, R), NEW T \in SUBSET S
    PROVE  InStrictOrder(T, R)
BY DEF InStrictOrder

LEMMA BeforeIs ==
    ASSUME NEW S, IsFiniteSet(S), NEW R, NEW x
    PROVE  /\ IsFiniteSet(Before(S, R, x)) /\ Cardinality(Before(S, R, x)) \in Nat
           /\ \A T \in SUBSET Before(S, R, x) :
                /\ IsFiniteSet(T) /\ Cardinality(T) \in Nat
                /\ Cardinality(T) <= Cardinality(Before(S, R, x))
<1>1. Before(S, R, x) \in SUBSET S
  BY DEF Before
<1>2. IsFiniteSet(Before(S, R, x)) /\ Cardinality(Before(S, R, x)) \in Nat
  BY <1>1, FS_Subset, FS_CardinalityType
<1> QED BY <1>2, FS_Subset, FS_CardinalityType

LEMMA HasLast ==
    ASSUME NEW S, IsFiniteSet(S), S # {}, NEW R, InStrictOrder(S, R)
    PROVE  \E z \in S : \A y \in S \ {z} : <<y, z>> \in R
<1> DEFINE IsLast(T) == \E z \in T : \A y \in T \ {z} : <<y, z>> \in R
           N == {n \in Nat : \A T \in SUBSET S : T # {} /\ Cardinality(T) = n => IsLast(T)}
<1>1. 0 \in N
  BY FS_Subset, FS_EmptySet
<1>2. \A n \in N : n + 1 \in N
  <2> SUFFICES ASSUME NEW n \in N, NEW T \in SUBSET S, T # {}, Cardinality(T) = n + 1
               PROVE  IsLast(T)
    OBVIOUS
  <2>1. PICK x \in T : TRUE
    OBVIOUS
  <2> DEFINE U == T \ {x}
  <2>2. IsFiniteSet(T) /\ Cardinality(U) = n /\ U \in SUBSET S
    <3>1. IsFiniteSet(T)
      BY FS_Subset
    <3>2. Cardinality(U) = Cardinality(T) - 1
      BY <2>1, <3>1, FS_RemoveElement
    <3> QED BY <3>1, <3>2
  <2>3. CASE U = {}
    BY <2>1, <2>3
  <2>4. CASE U # {}
    <3>1. IsLast(U)
      BY <2>2, <2>4
    <3>2. PICK z \in U : \A y \in U \ {z} : <<y, z>> \in R
      BY <3>1
    <3>3. <<z, x>> \in R \/ <<x, z>> \in R
      BY <2>1, <3>2 DEF InStrictOrder
    <3>4. CASE <<x, z>> \in R
      BY <2>1, <3>2, <3>4
    <3>5. CASE <<z, x>> \in R
      <4>1. ASSUME NEW y \in T \ {x} PROVE <<y, x>> \in R
        BY <2>1, <3>2, <3>5, <4>1 DEF InStrictOrder
      <4> QED BY <2>1, <4>1
    <3> QED BY <3>3, <3>4, <3>5
  <2> QED BY <2>3, <2>4
<1>3. N = Nat
  <2> HIDE DEF N
  <2> QED BY <1>1, <1>2, NaturalSets DEF N
<1>4. Cardinality(S) \in N
  BY <1>3, FS_CardinalityType
<1> QED BY <1>4

LEMMA HasFirst ==
    ASSUME NEW S, IsFiniteSet(S), S # {}, NEW R, InStrictOrder(S, R)
    PROVE  \E z \in S : \A y \in S \ {z} : <<z, y>> \in R
<1> DEFINE Q == {p \in S \X S : <<p[2], p[1]>> \in R}
<1>1. \A x \in S, y \in S : <<x, y>> \in Q <=> <<y, x>> \in R
  OBVIOUS
<1> HIDE DEF Q
<1>2. InStrictOrder(S, Q)
  BY <1>1 DEF InStrictOrder
<1>3. PICK z \in S : \A y \in S \ {z} : <<y, z>> \in Q
  BY <1>2, HasLast
<1> QED BY <1>1, <1>3

LEMMA FirstOrdered ==
    ASSUME NEW S, IsFiniteSet(S), NEW R, InStrictOrder(S, R), NEW limit \in Nat
    PROVE  /\ First(S, limit, R) \subseteq S
           /\ \A x \in First(S, limit, R) : Before(S, R, x) \subseteq First(S, limit, R)
           /\ \A x \in First(S, limit, R) : \A y \in S \ First(S, limit, R) : <<x, y>> \in R
<1>1. First(S, limit, R) \subseteq S
  BY DEF First
<1>2. ASSUME NEW x \in First(S, limit, R), NEW y \in Before(S, R, x)
      PROVE  y \in First(S, limit, R)
  <2>1. Before(S, R, y) \in SUBSET Before(S, R, x) /\ y \in S
    BY <1>1 DEF Before, InStrictOrder
  <2>2. /\ Cardinality(Before(S, R, y)) \in Nat /\ Cardinality(Before(S, R, x)) \in Nat
        /\ Cardinality(Before(S, R, y)) <= Cardinality(Before(S, R, x))
    BY <2>1, BeforeIs
  <2>3. Cardinality(Before(S, R, x)) < limit
    BY DEF First
  <2> QED BY <2>1, <2>2, <2>3 DEF First
<1>3. ASSUME NEW x \in First(S, limit, R), NEW y \in S \ First(S, limit, R)
      PROVE  <<x, y>> \in R
  <2>1. x # y /\ x \in S /\ y \notin Before(S, R, x)
    BY <1>1, <1>2
  <2> QED BY <2>1 DEF Before, InStrictOrder
<1> QED BY <1>1, <1>2, <1>3

LEMMA FirstCount ==
    ASSUME NEW S, IsFiniteSet(S), NEW R, InStrictOrder(S, R), NEW limit \in Nat
    PROVE  /\ IsFiniteSet(First(S, limit, R))
           /\ Cardinality(First(S, limit, R))
                = IF Cardinality(S) > limit THEN limit ELSE Cardinality(S)
           /\ Cardinality(S) <= limit <=> First(S, limit, R) = S
<1> DEFINE Counted(T) ==
             Cardinality(First(T, limit, R))
               = IF Cardinality(T) > limit THEN limit ELSE Cardinality(T)
           N == {n \in Nat : \A T \in SUBSET S : Cardinality(T) = n => Counted(T)}
<1>1. \A T \in SUBSET S : IsFiniteSet(T) /\ Cardinality(T) \in Nat /\ InStrictOrder(T, R)
  BY SubsetOrder, FS_Subset, FS_CardinalityType
<1>2. ASSUME NEW T \in SUBSET S, Cardinality(T) <= limit PROVE First(T, limit, R) = T
  <2> SUFFICES ASSUME NEW x \in T PROVE Cardinality(Before(T, R, x)) < limit
    BY DEF First
  <2>1. Before(T, R, x) \in SUBSET (T \ {x})
    BY DEF Before, InStrictOrder
  <2>2. IsFiniteSet(T \ {x}) /\ Cardinality(T \ {x}) = Cardinality(T) - 1
    BY <1>1, FS_RemoveElement
  <2>3. Cardinality(Before(T, R, x)) <= Cardinality(T \ {x})
    BY <2>1, <2>2, FS_Subset
  <2>4. Cardinality(Before(T, R, x)) \in Nat /\ Cardinality(T) \in Nat
    BY <1>1, BeforeIs
  <2> QED BY <1>2, <2>2, <2>3, <2>4
<1>3. 0 \in N
  <2> SUFFICES ASSUME NEW T \in SUBSET S, Cardinality(T) = 0 PROVE Counted(T)
    OBVIOUS
  <2>1. First(T, limit, R) = T
    BY <1>2
  <2> QED BY <2>1
<1>4. \A n \in N : n + 1 \in N
  <2> SUFFICES ASSUME NEW n \in N, NEW T \in SUBSET S, Cardinality(T) = n + 1
               PROVE  Counted(T)
    OBVIOUS
  <2>1. CASE n + 1 <= limit
    <3>1. First(T, limit, R) = T
      BY <1>2, <2>1
    <3> QED BY <2>1, <3>1
  <2>2. CASE n + 1 > limit
    <3>1. T # {}
      BY FS_EmptySet
    <3>2. PICK z \in T : \A y \in T \ {z} : <<y, z>> \in R
      BY <1>1, <3>1, HasLast
    <3> DEFINE U == T \ {z}
    <3>3. U \in SUBSET S /\ Cardinality(U) = n
      <4>1. Cardinality(U) = Cardinality(T) - 1
        BY <1>1, FS_RemoveElement
      <4> QED BY <4>1
    <3>4. Before(T, R, z) = U
      BY <1>1, <3>2 DEF Before, InStrictOrder
    <3>5. z \notin First(T, limit, R)
      <4>1. Cardinality(Before(T, R, z)) = n /\ n \in Nat
        BY <3>3, <3>4
      <4>2. ~(n < limit)
        BY <2>2, <4>1
      <4> QED BY ONLY <4>1, <4>2 DEF First
    <3>6. \A x \in U : Before(T, R, x) = Before(U, R, x)
      <4>1. InStrictOrder(T, R)
        BY <1>1
      <4>2. \A x \in U : <<z, x>> \notin R
        BY <3>2, <4>1 DEF InStrictOrder
      <4> QED BY <4>2 DEF Before
    <3>7. First(T, limit, R) = First(U, limit, R)
      BY <3>5, <3>6 DEF First
    <3>8. Counted(U)
      BY <3>3
    <3> QED BY <2>2, <3>3, <3>7, <3>8
  <2> QED BY <2>1, <2>2
<1>5. N = Nat
  <2> HIDE DEF N
  <2> QED BY <1>3, <1>4, NaturalSets DEF N
<1>6. Counted(S) /\ Cardinality(S) \in Nat
  BY <1>1, <1>5
<1>7. First(S, limit, R) \in SUBSET S
  BY DEF First
<1>8. IsFiniteSet(First(S, limit, R))
  BY <1>7, FS_Subset
<1> QED BY <1>2, <1>6, <1>8

(* What is in a smaller set that keeps the first elements has them first.  *)
LEMMA FirstOfMiddle ==
    ASSUME NEW S, IsFiniteSet(S), NEW R, InStrictOrder(S, R), NEW limit \in Nat,
           NEW M \in SUBSET S, First(S, limit, R) \subseteq M
    PROVE  First(M, limit, R) = First(S, limit, R)
<1>1. IsFiniteSet(M)
  BY FS_Subset
<1>2. ASSUME NEW x \in First(S, limit, R) PROVE x \in First(M, limit, R)
  <2>1. Before(M, R, x) \in SUBSET Before(S, R, x)
    BY DEF Before
  <2>2. /\ Cardinality(Before(M, R, x)) \in Nat /\ Cardinality(Before(S, R, x)) \in Nat
        /\ Cardinality(Before(M, R, x)) <= Cardinality(Before(S, R, x))
    BY <2>1, BeforeIs
  <2>3. Cardinality(Before(S, R, x)) < limit
    BY DEF First
  <2> QED BY <2>2, <2>3 DEF First
<1>3. ASSUME NEW x \in First(M, limit, R) PROVE x \in First(S, limit, R)
  <2> SUFFICES ASSUME x \notin First(S, limit, R) PROVE FALSE
    OBVIOUS
  <2>1. x \in S \ First(S, limit, R) /\ Cardinality(Before(M, R, x)) < limit
    BY DEF First
  <2>2. First(S, limit, R) \in SUBSET Before(M, R, x)
    BY <2>1, FirstOrdered DEF Before
  <2>3. Cardinality(First(S, limit, R)) <= Cardinality(Before(M, R, x))
    BY <1>1, <2>2, BeforeIs
  <2>4. Cardinality(First(S, limit, R)) = limit
    <3>1. ~(Cardinality(S) <= limit) /\ Cardinality(S) \in Nat
      BY <2>1, FirstCount, FS_CardinalityType
    <3>2. Cardinality(First(S, limit, R))
            = IF Cardinality(S) > limit THEN limit ELSE Cardinality(S)
      BY FirstCount
    <3> QED BY <3>1, <3>2
  <2>5. Cardinality(Before(M, R, x)) \in Nat
    BY <1>1, BeforeIs
  <2> QED BY <2>1, <2>3, <2>4, <2>5
<1> QED BY <1>2, <1>3

-----------------------------------------------------------------------------
(* Folds, by the recursion of MapThenFoldSet.  o says what a turn does.    *)
Beyond(near, links) == near \cup {l[2] : l \in {x \in links : x[1] \in near}}
Turn(o, v, x) ==
  CASE o.kind = "layer" -> Layer(v, o.sequence[x], o.graph, o.r)
    [] o.kind = "insert" -> InsertEdge(v, x, o.limit)
    [] o.kind = "beyond" -> Beyond(v, o.links)
    [] o.kind = "admit" -> AdmitNeighbor(v, o.links[x], o.depth, o.r)
    [] o.kind = "visit" -> VisitNext(v, o.graph, o.r)
FoldNext(o, base, pick, fold, T) ==
  IF T = {} THEN base ELSE Turn(o, fold[T \ {pick[T]}], pick[T])
Folds(o, base, S, pick, fold) == fold = [T \in SUBSET S |-> FoldNext(o, base, pick, fold, T)]
Picks(S, pick) == \A T \in SUBSET S : T # {} => pick[T] \in T

LEMMA FoldExists ==
    ASSUME NEW S, IsFiniteSet(S), NEW o, NEW base, NEW pick, Picks(S, pick)
    PROVE  \E fold : Folds(o, base, S, pick, fold)
<1> DEFINE D(n) == {T \in SUBSET S : Cardinality(T) <= n}
           Holds(f, n) == f = [T \in D(n) |-> FoldNext(o, base, pick, f, T)]
           N == {n \in Nat : \E f : Holds(f, n)}
<1>1. \A T \in SUBSET S : /\ IsFiniteSet(T) /\ Cardinality(T) \in Nat
                          /\ Cardinality(T) <= Cardinality(S)
  BY FS_Subset, FS_CardinalityType
<1>2. ASSUME NEW T \in SUBSET S, T # {}, NEW n \in Nat, Cardinality(T) <= n + 1
      PROVE  T \ {pick[T]} \in D(n)
  <2>1. pick[T] \in T
    BY <1>2 DEF Picks
  <2>2. Cardinality(T \ {pick[T]}) = Cardinality(T) - 1
    BY <1>1, <2>1, FS_RemoveElement
  <2>3. Cardinality(T) \in Nat
    BY <1>1
  <2> QED BY <1>2, <2>2, <2>3
<1>3. 0 \in N
  <2> DEFINE f == [T \in D(0) |-> base]
  <2>1. \A T \in D(0) : T = {}
    BY <1>1, FS_EmptySet
  <2>2. \A T \in D(0) : FoldNext(o, base, pick, f, T) = base
    BY <2>1 DEF FoldNext
  <2>3. Holds(f, 0)
    <3> HIDE DEF D
    <3> QED BY <2>2
  <2> QED BY <2>3
<1>4. ASSUME NEW n \in Nat, NEW f, Holds(f, n) PROVE \E more : Holds(more, n + 1)
  <2> DEFINE more == [T \in D(n + 1) |-> IF T \in D(n) THEN f[T] ELSE FoldNext(o, base, pick, f, T)]
  <2>1. \A T \in D(n) : T \in D(n + 1)
    BY <1>1
  <2> HIDE DEF D
  <2>2. \A T \in D(n) : f[T] = FoldNext(o, base, pick, f, T)
    BY <1>4
  <2>3. \A T \in D(n) : more[T] = f[T]
    BY <2>1
  <2>4. \A T \in D(n + 1) : more[T] = FoldNext(o, base, pick, f, T)
    BY <2>2
  <2>5. \A T \in D(n + 1) : FoldNext(o, base, pick, more, T) = FoldNext(o, base, pick, f, T)
    <3> HIDE DEF more
    <3>1. \A T \in D(n + 1) : T # {} => T \ {pick[T]} \in D(n)
      BY <1>2 DEF D
    <3> QED BY <2>3, <3>1 DEF FoldNext
  <2>6. more = [T \in D(n + 1) |-> more[T]]
    OBVIOUS
  <2> HIDE DEF more
  <2>7. Holds(more, n + 1)
    BY <2>4, <2>5, <2>6
  <2> QED BY <2>7
<1>5. N = Nat
  <2> HIDE DEF Holds
  <2>1. \A n \in N : n + 1 \in N
    BY <1>4
  <2> HIDE DEF N
  <2> QED BY <1>3, <2>1, NaturalSets DEF N
<1>6. Cardinality(S) \in N /\ D(Cardinality(S)) = SUBSET S
  BY <1>1, <1>5
<1> QED BY <1>6 DEF Folds

(* A fold over a sequence of turns, one place after the other.             *)
Runs(o, base, f, n) == f[0] = base /\ \A i \in 1 .. n : f[i] = Turn(o, f[i - 1], i)
Latest(n) == [T \in SUBSET (1 .. n) |-> Max(T)]

LEMMA LatestIs ==
    ASSUME NEW n \in Nat
    PROVE  /\ Picks(1 .. n, Latest(n))
           /\ \A i \in 1 .. n : 1 .. i \in SUBSET (1 .. n) /\ Latest(n)[1 .. i] = i
<1>1. ASSUME NEW T \in SUBSET (1 .. n), T # {} PROVE Max(T) \in T
  <2>1. T \in SUBSET (0 .. n)
    OBVIOUS
  <2> QED BY <1>1, <2>1, GreatestPlace
<1>2. ASSUME NEW i \in 1 .. n PROVE 1 .. i \in SUBSET (1 .. n) /\ Max(1 .. i) = i
  <2>1. 1 .. i \in SUBSET Int /\ i \in 1 .. i /\ \A y \in 1 .. i : i >= y
    OBVIOUS
  <2>2. Max(1 .. i) = i
    BY <2>1, GreatestIs
  <2> QED BY <2>2
<1> QED BY <1>1, <1>2 DEF Picks, Latest

LEMMA FoldRuns ==
    ASSUME NEW o, NEW base, NEW n \in Nat, NEW fold, Folds(o, base, 1 .. n, Latest(n), fold)
    PROVE  \E f : Runs(o, base, f, n) /\ fold[1 .. n] = f[n]
<1> DEFINE f == [i \in 0 .. n |-> fold[1 .. i]]
<1>1. f[0] = base
  <2>1. 1 .. 0 = {} /\ {} \in SUBSET (1 .. n) /\ f[0] = fold[1 .. 0]
    OBVIOUS
  <2>2. fold[{}] = base
    BY <2>1 DEF Folds, FoldNext
  <2> QED BY <2>1, <2>2
<1>2. ASSUME NEW i \in 1 .. n PROVE f[i] = Turn(o, f[i - 1], i)
  <2>1. i - 1 \in 0 .. n /\ i \in 0 .. n
    OBVIOUS
  <2>2. 1 .. i \in SUBSET (1 .. n) /\ Latest(n)[1 .. i] = i /\ i \in 1 .. i
    BY LatestIs
  <2>3. (1 .. i) \ {i} = 1 .. i - 1
    OBVIOUS
  <2>4. fold[1 .. i] = Turn(o, fold[1 .. i - 1], i)
    <3>1. fold[1 .. i] = FoldNext(o, base, Latest(n), fold, 1 .. i)
      BY <2>2 DEF Folds
    <3> QED BY <2>2, <2>3, <3>1 DEF FoldNext
  <2> QED BY <2>1, <2>4
<1>3. fold[1 .. n] = f[n]
  OBVIOUS
<1> HIDE DEF f
<1> QED BY <1>1, <1>2, <1>3 DEF Runs

LayersOf(graph, r, start, sequence) ==
  FoldLeft(LAMBDA state, d : Layer(state, d, graph, r), start, sequence)
InsertsOf(S, limit) == FoldSet(LAMBDA e, k : InsertEdge(k, e, limit), NoEdges, S)

LEMMA LayerRuns ==
    ASSUME NEW graph, NEW r, NEW start, NEW n \in Nat, NEW sequence,
           DOMAIN sequence = 1 .. n, NEW o,
           o = [kind |-> "layer", sequence |-> sequence, graph |-> graph, r |-> r]
    PROVE  \E f : Runs(o, start, f, n) /\ LayersOf(graph, r, start, sequence) = f[n]
<1> DEFINE Is(fold) == fold = [T \in SUBSET (1 .. n) |->
                         IF T = {} THEN start
                         ELSE Layer(fold[T \ {Max(T)}], sequence[Max(T)], graph, r)]
<1>1. \A v, x : Turn(o, v, x) = Layer(v, sequence[x], graph, r)
  <2>1. o.kind = "layer" /\ o.sequence = sequence /\ o.graph = graph /\ o.r = r
    OBVIOUS
  <2> QED BY ONLY <2>1 DEF Turn
<1>2. DOMAIN sequence = 1 .. n
  OBVIOUS
<1>3. \A fold : Is(fold) <=> Folds(o, start, 1 .. n, Latest(n), fold)
  BY ONLY <1>1, ZenonT(40) DEF Folds, FoldNext, Latest
<1> DEFINE fold == CHOOSE fold : Is(fold)
<1>4. Is(fold)
  <2>1. \E it : Folds(o, start, 1 .. n, Latest(n), it)
    <3>1. IsFiniteSet(1 .. n) /\ Picks(1 .. n, Latest(n))
      BY LatestIs, FS_Interval
    <3> QED BY <3>1, FoldExists
  <2> HIDE DEF Is
  <2> QED BY <1>3, <2>1
<1>5. LayersOf(graph, r, start, sequence) = fold[1 .. n]
  BY <1>2 DEF LayersOf, FoldLeft, MapThenFoldSet
<1> HIDE DEF Is, fold
<1>6. Folds(o, start, 1 .. n, Latest(n), fold)
  BY <1>3, <1>4
<1>7. \E f : Runs(o, start, f, n) /\ fold[1 .. n] = f[n]
  BY ONLY n \in Nat, <1>6, FoldRuns
<1> QED BY <1>5, <1>7

LEMMA InsertFolds ==
    ASSUME NEW S, IsFiniteSet(S), NEW limit, NEW o, o = [kind |-> "insert", limit |-> limit]
    PROVE  \E pick, fold : /\ Picks(S, pick) /\ Folds(o, NoEdges, S, pick, fold)
                           /\ InsertsOf(S, limit) = fold[S]
<1> DEFINE pick == [T \in SUBSET S |-> CHOOSE x \in T : TRUE]
           Is(fold) == fold = [T \in SUBSET S |->
                         IF T = {} THEN NoEdges
                         ELSE InsertEdge(fold[T \ {CHOOSE x \in T : TRUE}],
                                         CHOOSE x \in T : TRUE, limit)]
<1>1. \A v, x : Turn(o, v, x) = InsertEdge(v, x, limit)
  <2>1. o.kind = "insert" /\ o.limit = limit
    OBVIOUS
  <2> QED BY ONLY <2>1 DEF Turn
<1>2. Picks(S, pick)
  BY DEF Picks
<1>3. \A fold : Is(fold) <=> Folds(o, NoEdges, S, pick, fold)
  BY ONLY <1>1 DEF Folds, FoldNext
<1> DEFINE fold == CHOOSE fold : Is(fold)
<1>4. Is(fold)
  <2>1. \E it : Folds(o, NoEdges, S, pick, it)
    <3> HIDE DEF pick
    <3> QED BY <1>2, FoldExists
  <2> HIDE DEF Is
  <2> QED BY <1>3, <2>1
<1>5. InsertsOf(S, limit) = fold[S]
  BY DEF InsertsOf, FoldSet, MapThenFoldSet
<1> HIDE DEF Is, fold, pick
<1> QED BY <1>2, <1>3, <1>4, <1>5

(* What is reached in one hop more.                                        *)
LEMMA ReachedRuns ==
    ASSUME NEW nodes, NEW links, NEW n \in Nat, NEW o, o = [kind |-> "beyond", links |-> links]
    PROVE  \E f : Runs(o, nodes, f, n) /\ Reached(nodes, links, n) = f[n]
<1> DEFINE Is(fold) == fold = [T \in SUBSET (1 .. n) |->
                         IF T = {} THEN nodes ELSE Beyond(fold[T \ {Max(T)}], links)]
           sequence == [d \in 1 .. n |-> d]
<1>1. \A v, x : Turn(o, v, x) = Beyond(v, links)
  <2>1. o.kind = "beyond" /\ o.links = links
    OBVIOUS
  <2> QED BY ONLY <2>1 DEF Turn
<1>2. DOMAIN sequence = 1 .. n
  OBVIOUS
<1>3. \A fold : Is(fold) <=> Folds(o, nodes, 1 .. n, Latest(n), fold)
  BY ONLY <1>1 DEF Folds, FoldNext, Latest
<1> DEFINE fold == CHOOSE fold : Is(fold)
<1>4. Is(fold)
  <2>1. \E it : Folds(o, nodes, 1 .. n, Latest(n), it)
    <3>1. IsFiniteSet(1 .. n) /\ Picks(1 .. n, Latest(n))
      BY LatestIs, FS_Interval
    <3> QED BY <3>1, FoldExists
  <2> HIDE DEF Is
  <2> QED BY <1>3, <2>1
<1>5. Reached(nodes, links, n) = fold[1 .. n]
  BY <1>2 DEF Reached, FoldLeft, MapThenFoldSet, Beyond
<1> HIDE DEF Is, fold
<1> QED BY <1>3, <1>4, <1>5, FoldRuns

LEMMA ReachedIs ==
    ASSUME NEW nodes, NEW links
    PROVE  /\ Reached(nodes, links, 0) = nodes
           /\ \A n \in Nat : Reached(nodes, links, n + 1) = Beyond(Reached(nodes, links, n), links)
<1> DEFINE o == [kind |-> "beyond", links |-> links]
<1>1. \A v, x : Turn(o, v, x) = Beyond(v, links)
  <2>1. o.kind = "beyond" /\ o.links = links
    OBVIOUS
  <2> QED BY ONLY <2>1 DEF Turn
<1>2. \A n \in Nat : \E f : Runs(o, nodes, f, n) /\ Reached(nodes, links, n) = f[n]
  BY ReachedRuns
<1> HIDE DEF o
<1>3. Reached(nodes, links, 0) = nodes
  BY <1>2 DEF Runs
<1>4. ASSUME NEW n \in Nat
      PROVE  Reached(nodes, links, n + 1) = Beyond(Reached(nodes, links, n), links)
  <2>1. PICK f : Runs(o, nodes, f, n) /\ Reached(nodes, links, n) = f[n]
    BY <1>2
  <2>2. PICK g : Runs(o, nodes, g, n + 1) /\ Reached(nodes, links, n + 1) = g[n + 1]
    BY <1>2
  <2> DEFINE N == {i \in Nat : i <= n => f[i] = g[i]}
  <2>3. 0 \in N
    BY <2>1, <2>2 DEF Runs
  <2>4. \A i \in N : i + 1 \in N
    <3> SUFFICES ASSUME NEW i \in N, i + 1 <= n PROVE f[i + 1] = g[i + 1]
      OBVIOUS
    <3>1. i + 1 \in 1 .. n /\ i + 1 \in 1 .. n + 1 /\ i + 1 - 1 = i /\ f[i] = g[i]
      OBVIOUS
    <3> QED BY <2>1, <2>2, <3>1 DEF Runs
  <2>5. N = Nat
    <3> HIDE DEF N
    <3> QED BY <2>3, <2>4, NaturalSets DEF N
  <2>6. f[n] = g[n]
    BY <2>5
  <2>7. n + 1 \in 1 .. n + 1 /\ n + 1 - 1 = n
    OBVIOUS
  <2> QED BY <1>1, <2>1, <2>2, <2>6, <2>7 DEF Runs
<1> QED BY <1>3, <1>4

-----------------------------------------------------------------------------
(* The strongest edges of a stream.                                        *)
IsEdges(E) == IsFiniteSet(E) /\ E \subseteq [from : Int, to : Int, kind : Int, weight : Int]
StrongerPairs(E) == {p \in E \X E : StrongerEdge(p[1], p[2])}
StrongestOf(S, limit) == Foremost(S, limit, StrongerEdge)

LEMMA EdgeFields ==
    ASSUME NEW E, IsEdges(E), NEW e \in E, NEW f \in E
    PROVE  /\ e.from \in Int /\ e.to \in Int /\ e.kind \in Int /\ e.weight \in Int
           /\ SameLink(e, f) <=> e.from = f.from /\ e.to = f.to /\ e.kind = f.kind
           /\ SameLink(e, f) /\ e.weight = f.weight => e = f
<1>1. e \in [from : Int, to : Int, kind : Int, weight : Int]
      /\ f \in [from : Int, to : Int, kind : Int, weight : Int]
  BY DEF IsEdges
<1>2. SameLink(e, f) <=> e.from = f.from /\ e.to = f.to /\ e.kind = f.kind
  BY DEF SameLink, KeyOfEdge
<1> QED BY <1>1, <1>2

LEMMA StrongerOrders ==
    ASSUME NEW E, IsEdges(E)
    PROVE  InStrictOrder(E, StrongerPairs(E))
<1>1. \A e \in E, f \in E : <<e, f>> \in StrongerPairs(E) <=> StrongerEdge(e, f)
  BY DEF StrongerPairs
<1>2. ASSUME NEW e \in E PROVE ~StrongerEdge(e, e)
  BY EdgeFields DEF StrongerEdge, EdgeOrder
<1>3. ASSUME NEW e \in E, NEW f \in E PROVE e = f \/ StrongerEdge(e, f) \/ StrongerEdge(f, e)
  <2>1. /\ e.from \in Int /\ e.to \in Int /\ e.kind \in Int /\ e.weight \in Int
        /\ f.from \in Int /\ f.to \in Int /\ f.kind \in Int /\ f.weight \in Int
        /\ e.from = f.from /\ e.to = f.to /\ e.kind = f.kind /\ e.weight = f.weight => e = f
    BY EdgeFields
  <2> QED BY <2>1 DEF StrongerEdge, EdgeOrder
<1>4. ASSUME NEW e \in E, NEW f \in E, NEW g \in E, StrongerEdge(e, f), StrongerEdge(f, g)
      PROVE  StrongerEdge(e, g)
  <2>1. /\ e.from \in Int /\ e.to \in Int /\ e.kind \in Int /\ e.weight \in Int
        /\ f.from \in Int /\ f.to \in Int /\ f.kind \in Int /\ f.weight \in Int
        /\ g.from \in Int /\ g.to \in Int /\ g.kind \in Int /\ g.weight \in Int
    BY EdgeFields
  <2> QED BY <1>4, <2>1 DEF StrongerEdge, EdgeOrder
<1> QED BY <1>1, <1>2, <1>3, <1>4 DEF InStrictOrder

LEMMA StrongestOfIs ==
    ASSUME NEW E, NEW S \in SUBSET E, NEW limit
    PROVE  StrongestOf(S, limit) = First(S, limit, StrongerPairs(E))
<1>1. \A x \in S : {y \in S : StrongerEdge(y, x)} = Before(S, StrongerPairs(E), x)
  BY DEF Before, StrongerPairs
<1> QED BY <1>1 DEF StrongestOf, Foremost, First

LEMMA StrongestAreOne ==
    ASSUME NEW E, IsEdges(E), NEW T \in SUBSET E
    PROVE  /\ StrongestRows(T) \subseteq T /\ IsFiniteSet(StrongestRows(T))
           /\ \A e, f \in StrongestRows(T) : SameLink(e, f) => e = f
<1>1. StrongestRows(T) \subseteq T
  BY DEF StrongestRows
<1>2. IsFiniteSet(StrongestRows(T))
  BY <1>1, FS_Subset DEF IsEdges
<1>3. ASSUME NEW e \in StrongestRows(T), NEW f \in StrongestRows(T), SameLink(e, f)
      PROVE  e = f
  <2>1. /\ e \in E /\ f \in E /\ e.weight \in Int /\ f.weight \in Int
        /\ SameLink(f, e)
    BY <1>1, <1>3, EdgeFields DEF SameLink
  <2>2. e.weight <= f.weight /\ f.weight <= e.weight
    BY <1>1, <1>3, <2>1 DEF StrongestRows
  <2> QED BY <1>3, <2>1, <2>2, EdgeFields
<1> QED BY <1>1, <1>2, <1>3

(* One element more, or one in place of a lesser one.                      *)
LEMMA FirstOfMore ==
    ASSUME NEW E, IsFiniteSet(E), NEW R, InStrictOrder(E, R), NEW limit \in Nat,
           NEW S \in SUBSET E, NEW e \in E \ S
    PROVE  /\ First(S \cup {e}, limit, R) \subseteq First(S, limit, R) \cup {e}
           /\ Cardinality(S \cup {e}) = Cardinality(S) + 1 /\ Cardinality(S) \in Nat
<1>1. IsFiniteSet(S) /\ IsFiniteSet(S \cup {e})
  BY FS_Subset, FS_AddElement
<1>2. ASSUME NEW x \in First(S \cup {e}, limit, R), x # e PROVE x \in First(S, limit, R)
  <2>1. Before(S, R, x) \in SUBSET Before(S \cup {e}, R, x)
    BY DEF Before
  <2>2. /\ Cardinality(Before(S, R, x)) \in Nat /\ Cardinality(Before(S \cup {e}, R, x)) \in Nat
        /\ Cardinality(Before(S, R, x)) <= Cardinality(Before(S \cup {e}, R, x))
    BY <1>1, <2>1, BeforeIs
  <2> QED BY <1>2, <2>2 DEF First
<1> QED BY <1>1, <1>2, FS_AddElement, FS_CardinalityType

LEMMA FirstOfSwapped ==
    ASSUME NEW E, IsFiniteSet(E), NEW R, InStrictOrder(E, R), NEW limit \in Nat,
           NEW S \in SUBSET E, NEW e \in E \ S, NEW g \in S, <<e, g>> \in R
    PROVE  LET swapped == (S \ {g}) \cup {e}
           IN  /\ First(swapped, limit, R) \subseteq (First(S, limit, R) \ {g}) \cup {e}
               /\ Cardinality(swapped) = Cardinality(S) /\ Cardinality(S) \in Nat
<1> DEFINE swapped == (S \ {g}) \cup {e}
<1>1. IsFiniteSet(S) /\ IsFiniteSet(S \ {g}) /\ IsFiniteSet(swapped)
  BY FS_Subset, FS_AddElement
<1>2. Cardinality(swapped) = Cardinality(S) /\ Cardinality(S) \in Nat
  <2>1. Cardinality(S \ {g}) = Cardinality(S) - 1
    BY <1>1, FS_RemoveElement
  <2>2. Cardinality(swapped) = Cardinality(S \ {g}) + 1
    BY <1>1, FS_AddElement
  <2>3. Cardinality(S) \in Nat
    BY <1>1, FS_CardinalityType
  <2> QED BY <2>1, <2>2, <2>3
<1>3. ASSUME NEW x \in First(swapped, limit, R), x # e PROVE x \in First(S, limit, R)
  <2>1. x \in S /\ x \in E /\ Cardinality(Before(swapped, R, x)) < limit
    BY <1>3 DEF First
  <2>2. Cardinality(Before(S, R, x)) \in Nat /\ Cardinality(Before(swapped, R, x)) \in Nat
    BY <1>1, BeforeIs
  <2>3. CASE <<g, x>> \notin R
    <3>1. Before(S, R, x) \in SUBSET Before(swapped, R, x)
      BY <2>3 DEF Before
    <3>2. Cardinality(Before(S, R, x)) <= Cardinality(Before(swapped, R, x))
      BY <1>1, <3>1, BeforeIs
    <3> QED BY <2>1, <2>2, <3>2 DEF First
  <2>4. CASE <<g, x>> \in R
    <3> DEFINE others == Before(S, R, x) \ {g}
    <3>1. <<e, x>> \in R
      BY <2>1, <2>4 DEF InStrictOrder
    <3>2. g \in Before(S, R, x) /\ Before(swapped, R, x) = others \cup {e} /\ e \notin others
      BY <2>4, <3>1 DEF Before
    <3>3. IsFiniteSet(Before(S, R, x)) /\ IsFiniteSet(others)
      <4>1. IsFiniteSet(Before(S, R, x))
        BY <1>1, BeforeIs
      <4> QED BY <4>1, FS_RemoveElement
    <3>4. Cardinality(others) = Cardinality(Before(S, R, x)) - 1
      BY <3>2, <3>3, FS_RemoveElement
    <3>5. Cardinality(others \cup {e}) = Cardinality(others) + 1
      BY <3>2, <3>3, FS_AddElement
    <3>6. Cardinality(Before(S, R, x)) = Cardinality(Before(swapped, R, x))
      <4>1. PICK a : a = Cardinality(Before(S, R, x))
        OBVIOUS
      <4>2. PICK b : b = Cardinality(Before(swapped, R, x))
        OBVIOUS
      <4>3. b = Cardinality(others) + 1 /\ Cardinality(others) = a - 1 /\ a \in Nat
        BY <2>2, <3>2, <3>4, <3>5, <4>1, <4>2
      <4> QED BY ONLY <4>1, <4>2, <4>3
    <3> QED BY <2>1, <3>6 DEF First
  <2> QED BY <2>3, <2>4
<1>4. \A x \in First(swapped, limit, R) : x # g
  <2>1. g # e
    OBVIOUS
  <2> QED BY <2>1 DEF First
<1> QED BY <1>2, <1>3, <1>4

(* One element after all that are kept changes nothing.                    *)
LEMMA FirstOfBehind ==
    ASSUME NEW E, IsFiniteSet(E), NEW R, InStrictOrder(E, R), NEW limit \in Nat,
           NEW S \in SUBSET E, NEW e \in E \ S, NEW g \in S \ First(S, limit, R), <<g, e>> \in R
    PROVE  LET kept == First(S, limit, R)
           IN  /\ First(kept \cup {e}, limit, R) = kept
               /\ Cardinality(kept \cup {e}) > limit /\ Cardinality(S) > limit
<1> DEFINE kept == First(S, limit, R)
<1>1. IsFiniteSet(S) /\ InStrictOrder(S, R)
  BY SubsetOrder, FS_Subset
<1>2. kept \subseteq S /\ \A x \in kept : <<x, g>> \in R
  BY <1>1, FirstOrdered
<1>3. \A x \in kept : <<x, e>> \in R
  BY <1>2 DEF InStrictOrder
<1>4. IsFiniteSet(kept) /\ Cardinality(kept) = limit /\ Cardinality(S) > limit
  <2>1. Cardinality(S) \in Nat /\ ~(Cardinality(S) <= limit)
    BY <1>1, FirstCount, FS_CardinalityType
  <2> QED BY <1>1, <2>1, FirstCount
<1>5. Cardinality(kept \cup {e}) = limit + 1
  BY <1>2, <1>4, FS_AddElement
<1>6. Before(kept \cup {e}, R, e) = kept
  <2>1. <<e, e>> \notin R
    BY DEF InStrictOrder
  <2> QED BY <1>3, <2>1 DEF Before
<1>7. \A x \in kept : Before(kept \cup {e}, R, x) = Before(S, R, x)
  <2> SUFFICES ASSUME NEW x \in kept PROVE Before(kept \cup {e}, R, x) = Before(S, R, x)
    OBVIOUS
  <2>1. Before(S, R, x) \subseteq kept
    BY <1>1, FirstOrdered
  <2>2. <<e, x>> \notin R
    <3>1. <<x, e>> \in R /\ x \in E /\ <<x, x>> \notin R
      BY <1>2, <1>3 DEF InStrictOrder
    <3> QED BY <3>1 DEF InStrictOrder
  <2> QED BY <1>2, <2>1, <2>2 DEF Before
<1>8. \A x \in kept : Cardinality(Before(S, R, x)) < limit
  BY DEF First
<1>9. First(kept \cup {e}, limit, R) = kept
  <2> HIDE DEF kept
  <2>1. e \notin First(kept \cup {e}, limit, R)
    BY <1>4, <1>6 DEF First
  <2>2. \A x \in kept : x \in First(kept \cup {e}, limit, R)
    BY <1>7, <1>8 DEF First
  <2> QED BY <2>1, <2>2 DEF First
<1> QED BY <1>4, <1>5, <1>9

(* What is kept of a stream are the first of its strongest rows.           *)
KeepsFirst(k, T, limit, E) ==
  k = [edges |-> First(StrongestRows(T), limit, StrongerPairs(E)),
       truncated |-> Cardinality(StrongestRows(T)) > limit]

LEMMA StrongestExists ==
    ASSUME NEW E, IsEdges(E), NEW T \in SUBSET E, NEW e \in T
    PROVE  \E f \in StrongestRows(T) : SameLink(f, e) /\ f.weight >= e.weight
<1> DEFINE X == {x \in T : SameLink(x, e)}
<1>1. X \in SUBSET E /\ e \in X
  BY DEF SameLink
<1>2. IsFiniteSet(X) /\ X # {} /\ InStrictOrder(X, StrongerPairs(E))
  <2>1. IsFiniteSet(E)
    BY DEF IsEdges
  <2> HIDE DEF X
  <2> QED BY <1>1, <2>1, StrongerOrders, SubsetOrder, FS_Subset
<1>3. PICK f \in X : \A y \in X \ {f} : <<f, y>> \in StrongerPairs(E)
  <2> HIDE DEF X
  <2> QED BY <1>2, HasFirst
<1>4. ASSUME NEW y \in X PROVE y.weight <= f.weight
  <2>1. y.weight \in Int /\ f.weight \in Int /\ e.weight \in Int
    BY <1>1, EdgeFields
  <2>2. y # f => StrongerEdge(f, y)
    BY <1>3 DEF StrongerPairs
  <2> QED BY <2>1, <2>2 DEF StrongerEdge
<1>5. f \in StrongestRows(T)
  <2>1. \A y \in T : SameLink(f, y) => y \in X
    BY DEF SameLink
  <2> QED BY <1>4, <2>1 DEF StrongestRows
<1>6. f.weight \in Int /\ e.weight \in Int
  BY <1>1, EdgeFields
<1> QED BY <1>1, <1>4, <1>5, <1>6

(* What one row more does to the strongest ones.                           *)
RowStays(S, more, e, E) ==
  /\ more = S
  /\ \E g \in S : SameLink(g, e) /\ g.weight >= e.weight
  /\ \A g \in S : SameLink(g, e) => <<g, e>> \in StrongerPairs(E)
RowEnters(S, more, e) == more = S \cup {e} /\ \A g \in S : ~SameLink(g, e)
RowReplaces(S, more, e, E) ==
  \E g \in S : /\ SameLink(g, e) /\ more = (S \ {g}) \cup {e}
               /\ <<e, g>> \in StrongerPairs(E) /\ g.weight < e.weight
               /\ \A f \in S : SameLink(f, e) => f = g

LEMMA RowsOfMore ==
    ASSUME NEW E, IsEdges(E), NEW T \in SUBSET E, NEW e \in E \ T
    PROVE  \/ RowStays(StrongestRows(T), StrongestRows(T \cup {e}), e, E)
           \/ RowEnters(StrongestRows(T), StrongestRows(T \cup {e}), e)
           \/ RowReplaces(StrongestRows(T), StrongestRows(T \cup {e}), e, E)
<1> DEFINE S == StrongestRows(T)
           more == StrongestRows(T \cup {e})
<1>1. S \subseteq T /\ \A f, g \in S : SameLink(f, g) => f = g
  BY StrongestAreOne
<1>2. \A f, g \in E : /\ f.weight \in Int /\ (SameLink(f, g) => SameLink(g, f))
                      /\ SameLink(f, f)
                      /\ \A h \in E : SameLink(f, g) /\ SameLink(g, h) => SameLink(f, h)
  BY EdgeFields DEF SameLink
<1>3. \A f \in T : f \in S <=> \A g \in T : SameLink(f, g) => g.weight <= f.weight
  BY DEF StrongestRows
<1>4. \A f \in T \cup {e} : f \in more
                             <=> \A g \in T \cup {e} : SameLink(f, g) => g.weight <= f.weight
  BY DEF StrongestRows
<1>5. S \subseteq E /\ more \subseteq T \cup {e}
  BY <1>1 DEF StrongestRows
<1> SUFFICES RowStays(S, more, e, E) \/ RowEnters(S, more, e) \/ RowReplaces(S, more, e, E)
  OBVIOUS
<1> HIDE DEF S, more
\* e is only among them if nothing that strong is
<1>6. \A f \in T : f \in more <=> f \in S /\ (SameLink(f, e) => e.weight <= f.weight)
  BY <1>1, <1>3, <1>4
<1>7. ASSUME NEW g \in S, SameLink(g, e), g.weight >= e.weight
      PROVE  more = S /\ \A f \in S : SameLink(f, e) => <<f, e>> \in StrongerPairs(E)
  <2>1. ~(SameLink(g, e) /\ g.weight = e.weight)
    BY <1>1, <1>5, EdgeFields
  <2>2. g.weight > e.weight
    BY <1>2, <1>5, <1>7, <2>1
  <2>3. e \notin more
    BY <1>1, <1>2, <1>4, <1>5, <1>7, <2>2
  <2>4. \A f \in S : SameLink(f, e) => f = g
    BY <1>1, <1>2, <1>5, <1>7
  <2>5. more = S
    BY <1>1, <1>5, <1>6, <1>7, <2>3, <2>4
  <2>6. <<g, e>> \in StrongerPairs(E)
    BY <1>5, <2>2 DEF StrongerPairs, StrongerEdge
  <2> QED BY <2>4, <2>5, <2>6
<1>8. CASE e \notin more
  <2>1. PICK h \in T : SameLink(e, h) /\ h.weight > e.weight
    <3>1. PICK h \in T \cup {e} : SameLink(e, h) /\ ~(h.weight <= e.weight)
      BY <1>4, <1>8
    <3>2. h.weight \in Int /\ e.weight \in Int
      BY <1>2
    <3> QED BY <3>1, <3>2
  <2>2. PICK g \in S : SameLink(g, h) /\ g.weight >= h.weight
    BY StrongestExists DEF S
  <2>3. SameLink(g, e) /\ g.weight >= e.weight
    BY <1>2, <1>5, <2>1, <2>2
  <2> QED BY <1>7, <2>3 DEF RowStays
<1>9. CASE e \in more /\ \A g \in S : ~SameLink(g, e)
  <2>1. more = S \cup {e}
    BY <1>1, <1>5, <1>6, <1>9
  <2> QED BY <1>9, <2>1 DEF RowEnters
<1>10. CASE e \in more /\ \E g \in S : SameLink(g, e)
  <2>1. PICK g \in S : SameLink(g, e)
    BY <1>10
  <2>2. g.weight <= e.weight /\ g.weight # e.weight
    <3>1. g.weight = e.weight => g = e
      BY <1>5, <2>1, EdgeFields
    <3>2. g # e /\ g \in T /\ SameLink(e, g)
      BY <1>1, <1>2, <1>5, <2>1
    <3> QED BY <1>4, <1>10, <3>1, <3>2
  <2>3. g.weight < e.weight
    BY <1>2, <1>5, <2>2
  <2>4. \A f \in S : SameLink(f, e) => f = g
    BY <1>1, <1>2, <1>5, <2>1
  <2>5. more = (S \ {g}) \cup {e}
    <3>1. g \notin more
      <4>1. ~(e.weight <= g.weight)
        BY <1>2, <1>5, <2>3
      <4> QED BY <1>1, <1>6, <2>1, <4>1
    <3> QED BY <1>1, <1>5, <1>6, <1>10, <2>4, <3>1
  <2>6. <<e, g>> \in StrongerPairs(E)
    BY <1>5, <2>3 DEF StrongerPairs, StrongerEdge
  <2> QED BY <2>1, <2>3, <2>4, <2>5, <2>6 DEF RowReplaces
<1> QED BY <1>8, <1>9, <1>10

LEMMA InsertKeeps ==
    ASSUME NEW E, IsEdges(E), NEW T \in SUBSET E, NEW e \in E \ T, NEW limit \in Nat, NEW k,
           KeepsFirst(k, T, limit, E)
    PROVE  KeepsFirst(InsertEdge(k, e, limit), T \cup {e}, limit, E)
<1> DEFINE R == StrongerPairs(E)
           S == StrongestRows(T)
           F == First(S, limit, R)
           rows == StrongestRows(T \cup {e})
           more == {f \in F : ~SameLink(f, e)} \cup {e}
<1>1. IsFiniteSet(E) /\ InStrictOrder(E, R) /\ S \in SUBSET E /\ S \in SUBSET T
  BY StrongerOrders, StrongestAreOne DEF IsEdges
<1>2. k.edges = F /\ k.truncated = (Cardinality(S) > limit) /\ F \subseteq S
  BY DEF KeepsFirst, First
<1>3. RowStays(S, rows, e, E) \/ RowEnters(S, rows, e) \/ RowReplaces(S, rows, e, E)
  BY RowsOfMore
<1>4. \A f \in S : f.weight \in Int /\ e.weight \in Int
  BY <1>1, EdgeFields
<1>5. more \in SUBSET E
  BY <1>1, <1>2
<1>6. StrongestOf(more, limit) = First(more, limit, R)
  BY <1>5, StrongestOfIs
<1>7. InsertEdge(k, e, limit)
        = IF \E f \in F : SameLink(f, e) /\ f.weight >= e.weight THEN k
          ELSE [edges |-> StrongestOf(more, limit),
                truncated |-> k.truncated \/ Cardinality(more) > limit]
  BY <1>2 DEF InsertEdge, StrongestOf
<1>8. IsFiniteSet(S) /\ InStrictOrder(S, R) /\ Cardinality(S) \in Nat
  BY <1>1, SubsetOrder, FS_Subset, FS_CardinalityType
<1>9. Cardinality(S) <= limit <=> F = S
  BY <1>8, FirstCount
<1> HIDE DEF S, R, F, rows, more
<1>10. CASE \E f \in F : SameLink(f, e) /\ f.weight >= e.weight
  <2>1. PICK f \in F : SameLink(f, e) /\ f.weight >= e.weight
    BY <1>10
  <2>2. f \in S /\ f.weight \in Int /\ e.weight \in Int
    BY <1>2, <1>4, <2>1
  <2>3. rows = S
    <3>1. ~RowEnters(S, rows, e)
      BY <2>1, <2>2 DEF RowEnters
    <3>2. ~RowReplaces(S, rows, e, E)
      <4> SUFFICES ASSUME NEW g \in S, g.weight < e.weight, \A x \in S : SameLink(x, e) => x = g
                   PROVE  FALSE
        BY DEF RowReplaces
      <4>1. f = g /\ g.weight \in Int
        BY <1>4, <2>1, <2>2
      <4> QED BY <2>1, <2>2, <4>1
    <3> QED BY <1>3, <3>1, <3>2 DEF RowStays
  <2> QED BY <1>7, <1>10, <2>3 DEF KeepsFirst, S, rows
<1> SUFFICES ASSUME ~ \E f \in F : SameLink(f, e) /\ f.weight >= e.weight
             PROVE  /\ First(more, limit, R) = First(rows, limit, R)
                    /\ (Cardinality(S) > limit \/ Cardinality(more) > limit)
                         = (Cardinality(rows) > limit)
  BY <1>2, <1>6, <1>7, <1>10 DEF KeepsFirst, rows, R
<1>11. CASE RowStays(S, rows, e, E)
  <2>1. PICK g \in S : SameLink(g, e) /\ g.weight >= e.weight /\ <<g, e>> \in R
    BY <1>11 DEF RowStays, R
  <2>2. g \notin F
    BY <2>1
  <2>3. more = F \cup {e}
    <3>1. \A f \in F : SameLink(f, e) => f = g
      <4>1. \A f \in S : SameLink(f, e) /\ SameLink(g, e) => SameLink(f, g)
        BY DEF SameLink
      <4> QED BY <1>2, <2>1, <4>1, StrongestAreOne DEF S
    <3> QED BY <2>2, <3>1 DEF more
  <2>4. First(F \cup {e}, limit, R) = F /\ Cardinality(F \cup {e}) > limit /\ Cardinality(S) > limit
    BY <1>1, <2>1, <2>2, FirstOfBehind DEF F
  <2> QED BY <1>11, <2>3, <2>4 DEF F, RowStays
<1>12. CASE RowEnters(S, rows, e)
  <2> USE <1>12 DEF RowEnters
  <2>1. more = F \cup {e}
    BY <1>2, <1>12 DEF more
  <2>2. /\ First(rows, limit, R) \subseteq F \cup {e}
        /\ Cardinality(rows) = Cardinality(S) + 1
    BY <1>1, <1>12, FirstOfMore DEF F
  <2>3. rows \in SUBSET E /\ more \in SUBSET rows
    BY <1>1, <1>2, <1>12, <2>1
  <2>4. First(more, limit, R) = First(rows, limit, R)
    <3>1. IsFiniteSet(rows) /\ InStrictOrder(rows, R)
      BY <1>1, <2>3, SubsetOrder, FS_Subset
    <3> QED BY <2>1, <2>2, <2>3, <3>1, FirstOfMiddle
  <2>5. CASE Cardinality(S) > limit
    BY <1>8, <2>2, <2>4, <2>5
  <2>6. CASE Cardinality(S) <= limit
    <3>1. more = rows
      BY <1>9, <1>12, <2>1, <2>6
    <3> QED BY <1>8, <2>4, <2>6, <3>1
  <2> QED BY <1>8, <2>5, <2>6
<1>13. CASE RowReplaces(S, rows, e, E)
  <2>1. PICK g \in S : /\ SameLink(g, e) /\ rows = (S \ {g}) \cup {e}
                       /\ <<e, g>> \in R /\ g.weight < e.weight
                       /\ \A f \in S : SameLink(f, e) => f = g
    BY <1>13 DEF RowReplaces, R
  <2>2. more = (F \ {g}) \cup {e}
    BY <1>2, <2>1 DEF more
  <2>3. /\ First(rows, limit, R) \subseteq (F \ {g}) \cup {e}
        /\ Cardinality(rows) = Cardinality(S)
    BY <1>1, <2>1, FirstOfSwapped DEF F
  <2>4. rows \in SUBSET E /\ more \in SUBSET rows
    BY <1>1, <1>2, <2>1, <2>2
  <2>5. First(more, limit, R) = First(rows, limit, R)
    <3>1. IsFiniteSet(rows) /\ InStrictOrder(rows, R)
      BY <1>1, <2>4, SubsetOrder, FS_Subset
    <3> QED BY <2>2, <2>3, <2>4, <3>1, FirstOfMiddle
  <2>6. CASE Cardinality(S) > limit
    BY <2>3, <2>5, <2>6
  <2>7. CASE Cardinality(S) <= limit
    <3>1. more = rows
      BY <1>9, <2>1, <2>2, <2>7
    <3> QED BY <1>8, <2>3, <2>5, <2>7, <3>1
  <2> QED BY <1>8, <2>6, <2>7
<1> QED BY <1>3, <1>11, <1>12, <1>13

LEMMA InsertsKeep ==
    ASSUME NEW E, IsEdges(E), NEW S \in SUBSET E, NEW limit \in Nat
    PROVE  KeepsFirst(InsertsOf(S, limit), S, limit, E)
<1> DEFINE o == [kind |-> "insert", limit |-> limit]
<1>1. \A v, x : Turn(o, v, x) = InsertEdge(v, x, limit)
  <2>1. o.kind = "insert" /\ o.limit = limit
    OBVIOUS
  <2> QED BY ONLY <2>1 DEF Turn
<1>2. IsFiniteSet(S)
  BY FS_Subset DEF IsEdges
<1>3. PICK pick, fold : /\ Picks(S, pick) /\ Folds(o, NoEdges, S, pick, fold)
                        /\ InsertsOf(S, limit) = fold[S]
  BY <1>2, InsertFolds
<1> HIDE DEF o
<1> DEFINE N == {n \in Nat : \A T \in SUBSET S : Cardinality(T) = n => KeepsFirst(fold[T], T, limit, E)}
<1>4. \A T \in SUBSET S : IsFiniteSet(T) /\ Cardinality(T) \in Nat
  BY <1>2, FS_Subset, FS_CardinalityType
<1>5. 0 \in N
  <2> SUFFICES ASSUME NEW T \in SUBSET S, Cardinality(T) = 0 PROVE KeepsFirst(fold[T], T, limit, E)
    OBVIOUS
  <2>1. T = {}
    BY <1>4, FS_EmptySet
  <2>2. fold[{}] = NoEdges
    BY <1>3 DEF Folds, FoldNext
  <2>3. StrongestRows({}) = {} /\ First({}, limit, StrongerPairs(E)) = {}
    BY DEF StrongestRows, First
  <2>4. Cardinality({}) = 0
    BY FS_EmptySet
  <2>5. (Cardinality(StrongestRows({})) > limit) = FALSE
    BY <2>3, <2>4
  <2> QED BY <2>1, <2>2, <2>3, <2>5 DEF KeepsFirst, NoEdges
<1>6. \A n \in N : n + 1 \in N
  <2> SUFFICES ASSUME NEW n \in N, NEW T \in SUBSET S, Cardinality(T) = n + 1
               PROVE  KeepsFirst(fold[T], T, limit, E)
    OBVIOUS
  <2>1. T # {}
    BY FS_EmptySet
  <2>2. pick[T] \in T
    BY <1>3, <2>1 DEF Picks
  <2> DEFINE e == pick[T]
             U == T \ {e}
  <2>3. U \in SUBSET S /\ Cardinality(U) = n
    <3>1. Cardinality(U) = Cardinality(T) - 1
      BY <1>4, <2>2, FS_RemoveElement
    <3> QED BY <3>1
  <2>4. KeepsFirst(fold[U], U, limit, E)
    BY <2>3
  <2>5. fold[T] = InsertEdge(fold[U], e, limit)
    BY <1>1, <1>3, <2>1 DEF Folds, FoldNext
  <2>6. U \in SUBSET E /\ e \in E \ U /\ T = U \cup {e}
    BY <2>2
  <2> HIDE DEF U, e
  <2> QED BY <2>4, <2>5, <2>6, InsertKeeps
<1>7. N = Nat
  <2> HIDE DEF N
  <2> QED BY <1>5, <1>6, NaturalSets DEF N
<1> QED BY <1>3, <1>4, <1>7

-----------------------------------------------------------------------------
(* The layers of a neighborhood.                                           *)
IsOffers(A) == IsFiniteSet(A) /\ A \subseteq [node : Int, weight : Int]
OfferPairs(A) == {p \in A \X A : StrongerOffer(p[1], p[2])}
OffersTo(S) == {o.node : o \in S}
KeptOffers(S, limit) == Foremost(StrongestOffers(S), limit, StrongerOffer)

LEMMA OfferFields ==
    ASSUME NEW A, IsOffers(A), NEW a \in A, NEW b \in A
    PROVE  /\ a.node \in Int /\ a.weight \in Int
           /\ a.node = b.node /\ a.weight = b.weight => a = b
<1>1. a \in [node : Int, weight : Int] /\ b \in [node : Int, weight : Int]
  BY DEF IsOffers
<1> QED BY <1>1

LEMMA OffersOrder ==
    ASSUME NEW A, IsOffers(A)
    PROVE  InStrictOrder(A, OfferPairs(A))
<1>1. \A a \in A, b \in A : <<a, b>> \in OfferPairs(A) <=> StrongerOffer(a, b)
  BY DEF OfferPairs
<1>2. \A a \in A, b \in A : /\ a.node \in Int /\ a.weight \in Int
                            /\ a.node = b.node /\ a.weight = b.weight => a = b
  BY OfferFields
<1>3. ASSUME NEW a \in A PROVE ~StrongerOffer(a, a)
  BY <1>2 DEF StrongerOffer
<1>4. ASSUME NEW a \in A, NEW b \in A PROVE a = b \/ StrongerOffer(a, b) \/ StrongerOffer(b, a)
  BY <1>2 DEF StrongerOffer
<1>5. ASSUME NEW a \in A, NEW b \in A, NEW c \in A, StrongerOffer(a, b), StrongerOffer(b, c)
      PROVE  StrongerOffer(a, c)
  BY <1>2, <1>5 DEF StrongerOffer
<1> QED BY <1>1, <1>3, <1>4, <1>5 DEF InStrictOrder

(* Every node that is offered has one strongest offer.                     *)
LEMMA StrongestOffersAre ==
    ASSUME NEW A, IsOffers(A), NEW S \in SUBSET A
    PROVE  /\ StrongestOffers(S) \subseteq S /\ IsFiniteSet(StrongestOffers(S))
           /\ \A o, p \in StrongestOffers(S) : o.node = p.node => o = p
           /\ OffersTo(StrongestOffers(S)) = OffersTo(S)
<1>1. StrongestOffers(S) \subseteq S
  BY DEF StrongestOffers
<1>2. IsFiniteSet(StrongestOffers(S))
  <2>1. StrongestOffers(S) \in SUBSET A
    BY <1>1
  <2> QED BY <2>1, FS_Subset DEF IsOffers
<1>3. ASSUME NEW o \in StrongestOffers(S), NEW p \in StrongestOffers(S), o.node = p.node
      PROVE  o = p
  <2>1. o \in A /\ p \in A /\ o.weight \in Int /\ p.weight \in Int
    BY <1>1, OfferFields
  <2>2. o.weight <= p.weight /\ p.weight <= o.weight
    BY <1>1, <1>3 DEF StrongestOffers
  <2> QED BY <1>3, <2>1, <2>2, OfferFields
<1>4. ASSUME NEW o \in S PROVE \E p \in StrongestOffers(S) : p.node = o.node
  <2> DEFINE X == {x \in S : x.node = o.node}
  <2>1. X \in SUBSET A /\ o \in X
    OBVIOUS
  <2>2. IsFiniteSet(X) /\ X # {} /\ InStrictOrder(X, OfferPairs(A))
    <3>1. IsFiniteSet(A)
      BY DEF IsOffers
    <3> HIDE DEF X
    <3> QED BY <2>1, <3>1, OffersOrder, SubsetOrder, FS_Subset
  <2>3. PICK p \in X : \A y \in X \ {p} : <<p, y>> \in OfferPairs(A)
    <3> HIDE DEF X
    <3> QED BY <2>2, HasFirst
  <2>4. ASSUME NEW y \in X PROVE y.weight <= p.weight
    <3>1. y.weight \in Int /\ p.weight \in Int
      BY <2>1, OfferFields
    <3>2. y # p => StrongerOffer(p, y)
      BY <2>3 DEF OfferPairs
    <3> QED BY <3>1, <3>2 DEF StrongerOffer
  <2>5. p \in StrongestOffers(S)
    BY <2>4 DEF StrongestOffers
  <2> QED BY <2>5
<1>5. OffersTo(StrongestOffers(S)) = OffersTo(S)
  BY <1>1, <1>4 DEF OffersTo
<1> QED BY <1>1, <1>2, <1>3, <1>5

(* What is kept of a set of offers, and that nothing is lost below the     *)
(* limit.                                                                  *)
LEMMA KeptAre ==
    ASSUME NEW A, IsOffers(A), NEW S \in SUBSET A, NEW limit \in Nat
    PROVE  /\ KeptOffers(S, limit) \subseteq S
           /\ IsFiniteSet(OffersTo(KeptOffers(S, limit)))
           /\ Cardinality(OffersTo(KeptOffers(S, limit))) \in Nat
           /\ Cardinality(OffersTo(KeptOffers(S, limit))) <= limit
           /\ Cardinality(StrongestOffers(S)) \in Nat
           /\ Cardinality(StrongestOffers(S)) <= limit => OffersTo(KeptOffers(S, limit)) = OffersTo(S)
<1> DEFINE T == StrongestOffers(S)
           R == OfferPairs(A)
           F == First(T, limit, R)
<1>1. T \in SUBSET S /\ IsFiniteSet(T) /\ OffersTo(T) = OffersTo(S)
  BY StrongestOffersAre
<1>2. InStrictOrder(T, R) /\ Cardinality(T) \in Nat
  BY <1>1, OffersOrder, SubsetOrder, FS_CardinalityType
<1>3. KeptOffers(S, limit) = F
  <2>1. \A x \in T : {y \in T : StrongerOffer(y, x)} = Before(T, R, x)
    BY <1>1 DEF Before, OfferPairs
  <2> QED BY <2>1 DEF KeptOffers, Foremost, First
<1>4. F \in SUBSET T
  BY DEF First
<1>5. /\ IsFiniteSet(F) /\ (Cardinality(T) <= limit => F = T)
      /\ Cardinality(F) \in Nat /\ Cardinality(F) <= limit
  <2> HIDE DEF T, R
  <2>1. /\ IsFiniteSet(F) /\ (Cardinality(T) <= limit <=> F = T)
        /\ Cardinality(F) = IF Cardinality(T) > limit THEN limit ELSE Cardinality(T)
    BY <1>1, <1>2, FirstCount
  <2> QED BY <1>2, <2>1
<1>6. /\ IsFiniteSet(OffersTo(F)) /\ Cardinality(OffersTo(F)) <= Cardinality(F)
      /\ Cardinality(OffersTo(F)) \in Nat
  <2> DEFINE f == [o \in F |-> o.node]
  <2> HIDE DEF F
  <2>1. f \in Surjection(F, OffersTo(F))
    BY DEF Surjection, OffersTo
  <2> HIDE DEF f
  <2> QED BY <1>5, <2>1, FS_Surjection, FS_CardinalityType
<1> HIDE DEF F, T, R
<1>7. Cardinality(OffersTo(F)) <= limit
  BY <1>5, <1>6
<1> QED BY <1>1, <1>2, <1>3, <1>4, <1>5, <1>6, <1>7 DEF T

(* What is walked: steps lead to nodes of the graph.                       *)
IsGraph(graph) ==
  /\ graph.nodes \subseteq Int /\ IsFiniteSet(graph.edges)
  /\ graph.edges \subseteq [from : graph.nodes, to : graph.nodes, kind : Int, weight : Int]
IsFocus(r, graph) ==
  r \in [root : graph.nodes, max_hops : Nat, neighbor_limit : Nat, max_nodes : Nat \ {0},
         max_edges : Nat, direction : {"outgoing", "incoming", "both"}, kind : Int,
         min_weight : Int]
Leads(m, n, graph, r) == \E s \in Steps(m, graph, r) : s.to = n
NewOffers(n, visited, graph, r) ==
  {Offer(s.to, s.edge.weight) : s \in {x \in Steps(n, graph, r) : x.to \notin visited}}
AllOffers(graph) ==
  {Offer(e.to, e.weight) : e \in graph.edges} \cup {Offer(e.from, e.weight) : e \in graph.edges}

LEMMA StepsLead ==
    ASSUME NEW graph, IsGraph(graph), NEW r, NEW m, NEW s \in Steps(m, graph, r)
    PROVE  /\ s.to \in graph.nodes /\ s.edge \in graph.edges
           /\ Offer(s.to, s.edge.weight) \in AllOffers(graph)
<1>1. PICK e \in graph.edges : \/ s = [edge |-> e, to |-> e.to]
                               \/ s = [edge |-> e, to |-> e.from]
  BY DEF Steps
<1>2. e \in [from : graph.nodes, to : graph.nodes, kind : Int, weight : Int]
  BY DEF IsGraph
<1>3. Offer(e.to, e.weight) \in AllOffers(graph) /\ Offer(e.from, e.weight) \in AllOffers(graph)
  BY DEF AllOffers
<1> QED BY <1>1, <1>2, <1>3

LEMMA OffersOfGraph ==
    ASSUME NEW graph, IsGraph(graph)
    PROVE  IsOffers(AllOffers(graph))
<1> DEFINE E == graph.edges
           X == {Offer(e.to, e.weight) : e \in E}
           Y == {Offer(e.from, e.weight) : e \in E}
           f == [e \in E |-> Offer(e.to, e.weight)]
           g == [e \in E |-> Offer(e.from, e.weight)]
<1>1. IsFiniteSet(E)
  BY DEF IsGraph
<1>2. f \in Surjection(E, X) /\ g \in Surjection(E, Y)
  BY DEF Surjection
<1>3. IsFiniteSet(X) /\ IsFiniteSet(Y)
  <2> HIDE DEF f, g, X, Y, E
  <2> QED BY <1>1, <1>2, FS_Surjection
<1>4. ASSUME NEW o \in AllOffers(graph) PROVE o \in [node : Int, weight : Int]
  <2>1. PICK e \in E : o = Offer(e.to, e.weight) \/ o = Offer(e.from, e.weight)
    BY DEF AllOffers
  <2>2. e \in [from : graph.nodes, to : graph.nodes, kind : Int, weight : Int]
        /\ graph.nodes \subseteq Int
    BY DEF IsGraph
  <2> QED BY <2>1, <2>2 DEF Offer
<1>5. IsFiniteSet(AllOffers(graph))
  <2>1. AllOffers(graph) = X \cup Y
    BY DEF AllOffers
  <2> HIDE DEF X, Y
  <2> QED BY <1>3, <2>1, FS_Union
<1> QED BY <1>4, <1>5 DEF IsOffers

LEMMA AheadLeads ==
    ASSUME NEW graph, IsGraph(graph), NEW r, NEW m, NEW visited
    PROVE  /\ NewOffers(m, visited, graph, r) \in SUBSET AllOffers(graph)
           /\ \A n : n \in OffersTo(NewOffers(m, visited, graph, r))
                       <=> Leads(m, n, graph, r) /\ n \notin visited
<1> DEFINE A == NewOffers(m, visited, graph, r)
<1>1. A \in SUBSET AllOffers(graph)
  BY StepsLead DEF NewOffers
<1>2. ASSUME NEW n PROVE n \in OffersTo(A) <=> Leads(m, n, graph, r) /\ n \notin visited
  <2>1. ASSUME NEW o \in A PROVE Leads(m, o.node, graph, r) /\ o.node \notin visited
    <3>1. PICK s \in Steps(m, graph, r) : s.to \notin visited /\ o = Offer(s.to, s.edge.weight)
      BY DEF NewOffers
    <3> QED BY <3>1 DEF Leads, Offer
  <2>2. ASSUME Leads(m, n, graph, r), n \notin visited PROVE \E o \in A : o.node = n
    <3>1. PICK s \in Steps(m, graph, r) : s.to = n
      BY <2>2 DEF Leads
    <3>2. Offer(s.to, s.edge.weight) \in A
      BY <2>2, <3>1 DEF NewOffers
    <3>3. Offer(s.to, s.edge.weight).node = n
      BY <3>1 DEF Offer
    <3> QED BY <3>2, <3>3
  <2> QED BY <2>1, <2>2 DEF OffersTo
<1> QED BY <1>1, <1>2

LEMMA BeyondIs ==
    ASSUME NEW graph, IsGraph(graph), NEW r, NEW near \in SUBSET graph.nodes
    PROVE  \A n : n \in Beyond(near, Links(graph, r, graph.nodes))
                    <=> n \in near \/ \E m \in near : Leads(m, n, graph, r)
<1> DEFINE links == Links(graph, r, graph.nodes)
<1>1. ASSUME NEW l \in links PROVE \E m \in graph.nodes : \E n : l = <<m, n>> /\ Leads(m, n, graph, r)
  <2>1. PICK m \in graph.nodes : l \in {<<m, s.to>> : s \in {x \in Steps(m, graph, r) : x.to \in graph.nodes}}
    BY DEF Links
  <2> QED BY <2>1 DEF Leads
<1>2. ASSUME NEW m \in graph.nodes, NEW n, Leads(m, n, graph, r) PROVE <<m, n>> \in links
  <2>1. PICK s \in Steps(m, graph, r) : s.to = n
    BY <1>2 DEF Leads
  <2>2. s.to \in graph.nodes
    BY StepsLead
  <2>3. <<m, n>> \in {<<m, x.to>> : x \in {x \in Steps(m, graph, r) : x.to \in graph.nodes}}
    BY <2>1, <2>2
  <2> QED BY <2>3 DEF Links
<1> HIDE DEF links
<1> SUFFICES ASSUME NEW n
             PROVE  n \in Beyond(near, links) <=> n \in near \/ \E m \in near : Leads(m, n, graph, r)
  BY DEF links
<1>3. n \in Beyond(near, links) <=> n \in near \/ \E l \in links : l[1] \in near /\ l[2] = n
  BY DEF Beyond
<1>4. (\E l \in links : l[1] \in near /\ l[2] = n) => \E m \in near : Leads(m, n, graph, r)
  BY <1>1
<1>5. (\E m \in near : Leads(m, n, graph, r)) => \E l \in links : l[1] \in near /\ l[2] = n
  <2> SUFFICES ASSUME NEW m \in near, Leads(m, n, graph, r)
               PROVE  \E l \in links : l[1] \in near /\ l[2] = n
    OBVIOUS
  <2>1. <<m, n>> \in links /\ <<m, n>>[1] \in near /\ <<m, n>>[2] = n
    BY <1>2
  <2> QED BY <2>1
<1> QED BY <1>3, <1>4, <1>5

(* A layer in the terms of the lemmas.                                     *)
Merged(s, graph, r) ==
  UNION {KeptOffers(NewOffers(n, DOMAIN s.depth, graph, r), r.neighbor_limit) : n \in s.frontier}
RoomLeft(s, r) == r.max_nodes - Cardinality(DOMAIN s.depth)
Admitted(s, graph, r) == OffersTo(KeptOffers(Merged(s, graph, r), RoomLeft(s, r)))
LaterDepth(s, k, graph, r) ==
  [n \in Admitted(s, graph, r) \cup DOMAIN s.depth |->
     IF n \in Admitted(s, graph, r) THEN k + 1 ELSE s.depth[n]]
CutsOffers(s, graph, r) ==
  \E n \in s.frontier :
    Cardinality(StrongestOffers(NewOffers(n, DOMAIN s.depth, graph, r))) > r.neighbor_limit

LEMMA LayerIs ==
    ASSUME NEW s, NEW k, NEW graph, NEW r
    PROVE  /\ k = r.max_hops =>
                Layer(s, k, graph, r)
                  = [depth |-> s.depth, frontier |-> {},
                     truncated |-> \/ s.truncated
                                   \/ CutsOffers(s, graph, r)
                                   \/ StrongestOffers(Merged(s, graph, r)) # {}]
           /\ k # r.max_hops =>
                Layer(s, k, graph, r)
                  = [depth |-> LaterDepth(s, k, graph, r),
                     frontier |-> Admitted(s, graph, r),
                     truncated |-> \/ s.truncated
                                   \/ CutsOffers(s, graph, r)
                                   \/ Cardinality(StrongestOffers(Merged(s, graph, r)))
                                        > RoomLeft(s, r)]
BY DEF Layer, OffersAhead, LaterDepth, Merged, RoomLeft, Admitted, CutsOffers, OffersTo, KeptOffers, NewOffers

(* What holds after every layer.                                           *)
StepByStep(depth, k, graph, r) ==
  \A n \in DOMAIN depth \ {r.root} :
    depth[n] \in 1 .. k /\ \E m \in DOMAIN depth : depth[m] = depth[n] - 1 /\ Leads(m, n, graph, r)
WithinHops(depth, d) == {n \in DOMAIN depth : depth[n] <= d}
LayerHolds(s, k, graph, r) ==
  /\ s = [depth |-> s.depth, frontier |-> s.frontier, truncated |-> s.truncated]
  /\ s.depth \in [DOMAIN s.depth -> 0 .. k]
  /\ DOMAIN s.depth \in SUBSET graph.nodes /\ IsFiniteSet(DOMAIN s.depth)
  /\ Cardinality(DOMAIN s.depth) <= r.max_nodes
  /\ r.root \in DOMAIN s.depth /\ s.depth[r.root] = 0
  /\ s.frontier = {n \in DOMAIN s.depth : s.depth[n] = k}
  /\ s.truncated \in BOOLEAN
  /\ StepByStep(s.depth, k, graph, r)
  /\ ~s.truncated =>
       \A d \in 0 .. k : Reached({r.root}, Links(graph, r, graph.nodes), d) = WithinHops(s.depth, d)

(* The offers of a layer: what they are, and that all of them are there    *)
(* unless something is cut.                                                *)
LEMMA MergedAre ==
    ASSUME NEW graph, IsGraph(graph), NEW r, IsFocus(r, graph), NEW s
    PROVE  /\ Merged(s, graph, r) \in SUBSET AllOffers(graph)
           /\ \A n \in OffersTo(Merged(s, graph, r)) :
                n \notin DOMAIN s.depth /\ \E m \in s.frontier : Leads(m, n, graph, r)
           /\ ~CutsOffers(s, graph, r) =>
                \A m \in s.frontier : \A n : Leads(m, n, graph, r) =>
                  n \in DOMAIN s.depth \cup OffersTo(Merged(s, graph, r))
<1> DEFINE V == DOMAIN s.depth
           A == AllOffers(graph)
           M == Merged(s, graph, r)
           limit == r.neighbor_limit
<1>1. IsOffers(A) /\ limit \in Nat
  BY OffersOfGraph DEF IsFocus
<1>2. \A n : NewOffers(n, V, graph, r) \in SUBSET A
  BY AheadLeads
<1>3. ASSUME NEW n
      PROVE  /\ KeptOffers(NewOffers(n, V, graph, r), limit) \subseteq NewOffers(n, V, graph, r)
             /\ Cardinality(StrongestOffers(NewOffers(n, V, graph, r))) \in Nat
             /\ Cardinality(StrongestOffers(NewOffers(n, V, graph, r))) <= limit
                  => OffersTo(KeptOffers(NewOffers(n, V, graph, r), limit))
                       = OffersTo(NewOffers(n, V, graph, r))
  <2> HIDE DEF A, V, limit
  <2> QED BY <1>1, <1>2, KeptAre
<1>4. \A o \in M : \E n \in s.frontier : o \in NewOffers(n, V, graph, r)
  BY <1>3 DEF Merged
<1>5. M \in SUBSET A
  BY <1>2, <1>4
<1>6. ASSUME NEW n \in OffersTo(M) PROVE n \notin V /\ \E m \in s.frontier : Leads(m, n, graph, r)
  <2>1. PICK o \in M : o.node = n
    BY DEF OffersTo
  <2>2. PICK m \in s.frontier : o \in NewOffers(m, V, graph, r)
    BY <1>4
  <2>3. n \in OffersTo(NewOffers(m, V, graph, r))
    BY <2>1, <2>2 DEF OffersTo
  <2> QED BY <2>3, AheadLeads
<1>7. ASSUME ~CutsOffers(s, graph, r), NEW m \in s.frontier, NEW n, Leads(m, n, graph, r), n \notin V
      PROVE  n \in OffersTo(M)
  <2>1. Cardinality(StrongestOffers(NewOffers(m, V, graph, r))) <= limit
    <3>1. ~(Cardinality(StrongestOffers(NewOffers(m, V, graph, r))) > limit)
      BY <1>7 DEF CutsOffers
    <3> QED BY <1>1, <1>3, <3>1
  <2>2. n \in OffersTo(NewOffers(m, V, graph, r))
    BY <1>7, AheadLeads
  <2>3. n \in OffersTo(KeptOffers(NewOffers(m, V, graph, r), limit))
    BY <1>3, <2>1, <2>2
  <2>4. KeptOffers(NewOffers(m, V, graph, r), limit) \subseteq M
    BY DEF Merged
  <2> QED BY <2>3, <2>4 DEF OffersTo
<1> QED BY <1>5, <1>6, <1>7

LEMMA AdmittedAre ==
    ASSUME NEW graph, IsGraph(graph), NEW r, IsFocus(r, graph), NEW s,
           IsFiniteSet(DOMAIN s.depth), Cardinality(DOMAIN s.depth) <= r.max_nodes
    PROVE  /\ RoomLeft(s, r) \in Nat
           /\ IsFiniteSet(Admitted(s, graph, r))
           /\ Cardinality(Admitted(s, graph, r)) \in Nat
           /\ Cardinality(Admitted(s, graph, r)) <= RoomLeft(s, r)
           /\ Admitted(s, graph, r) \subseteq OffersTo(Merged(s, graph, r))
           /\ ~(Cardinality(StrongestOffers(Merged(s, graph, r))) > RoomLeft(s, r)) =>
                Admitted(s, graph, r) = OffersTo(Merged(s, graph, r))
<1>1. RoomLeft(s, r) \in Nat
  <2>1. Cardinality(DOMAIN s.depth) \in Nat /\ r.max_nodes \in Nat
    BY FS_CardinalityType DEF IsFocus
  <2> QED BY <2>1 DEF RoomLeft
<1>2. Merged(s, graph, r) \in SUBSET AllOffers(graph) /\ IsOffers(AllOffers(graph))
  BY MergedAre, OffersOfGraph
<1>3. PICK M : M = Merged(s, graph, r)
  OBVIOUS
<1>4. PICK room : room = RoomLeft(s, r)
  OBVIOUS
<1>5. /\ KeptOffers(M, room) \subseteq M
      /\ IsFiniteSet(OffersTo(KeptOffers(M, room)))
      /\ Cardinality(OffersTo(KeptOffers(M, room))) \in Nat
      /\ Cardinality(OffersTo(KeptOffers(M, room))) <= room
      /\ Cardinality(StrongestOffers(M)) \in Nat
      /\ Cardinality(StrongestOffers(M)) <= room => OffersTo(KeptOffers(M, room)) = OffersTo(M)
  BY <1>1, <1>2, <1>3, <1>4, KeptAre
<1>6. OffersTo(KeptOffers(M, room)) \subseteq OffersTo(M)
  BY <1>5 DEF OffersTo
<1> QED BY <1>1, <1>3, <1>4, <1>5, <1>6 DEF Admitted

LEMMA StartHolds ==
    ASSUME NEW graph, IsGraph(graph), NEW r, IsFocus(r, graph), NEW s,
           s = [depth |-> [n \in {r.root} |-> 0], frontier |-> {r.root}, truncated |-> FALSE]
    PROVE  LayerHolds(s, 0, graph, r)
<1> DEFINE root == r.root
<1>1. s.depth = [n \in {root} |-> 0] /\ s.frontier = {root} /\ s.truncated = FALSE
  OBVIOUS
<1>2. root \in graph.nodes /\ r.max_nodes \in Nat \ {0}
  BY DEF IsFocus
<1>3. IsFiniteSet({root}) /\ Cardinality({root}) = 1
  BY FS_Singleton
<1>4. DOMAIN s.depth = {root} /\ s.depth[root] = 0
  BY <1>1
<1>5. StepByStep(s.depth, 0, graph, r)
  BY <1>4 DEF StepByStep
<1>6. \A d \in 0 .. 0 : Reached({root}, Links(graph, r, graph.nodes), d) = WithinHops(s.depth, d)
  <2>1. WithinHops(s.depth, 0) = {root}
    BY <1>4 DEF WithinHops
  <2>2. Reached({root}, Links(graph, r, graph.nodes), 0) = {root}
    BY ReachedIs
  <2> QED BY <2>1, <2>2, 0 .. 0 = {0}
<1>7. s.depth \in [DOMAIN s.depth -> 0 .. 0]
  BY <1>1, <1>4
<1>8. s = [depth |-> s.depth, frontier |-> s.frontier, truncated |-> s.truncated]
  OBVIOUS
<1>9. Cardinality({root}) <= r.max_nodes
  BY ONLY <1>2, <1>3
<1> HIDE DEF root
<1> QED BY <1>1, <1>2, <1>3, <1>4, <1>5, <1>6, <1>7, <1>8, <1>9 DEF LayerHolds, root

(* One layer more.                                                         *)
LEMMA LayerKeeps ==
    ASSUME NEW graph, IsGraph(graph), NEW r, IsFocus(r, graph), NEW s, NEW k \in Nat,
           k < r.max_hops, LayerHolds(s, k, graph, r)
    PROVE  LayerHolds(Layer(s, k, graph, r), k + 1, graph, r)
<1> DEFINE V == DOMAIN s.depth
           M == Merged(s, graph, r)
           N == Admitted(s, graph, r)
           room == RoomLeft(s, r)
           depth == LaterDepth(s, k, graph, r)
           t == Layer(s, k, graph, r)
           links == Links(graph, r, graph.nodes)
<1>1. /\ s.depth \in [V -> 0 .. k] /\ V \in SUBSET graph.nodes /\ IsFiniteSet(V)
      /\ Cardinality(V) <= r.max_nodes /\ r.root \in V /\ s.depth[r.root] = 0
      /\ s.frontier = {n \in V : s.depth[n] = k} /\ s.truncated \in BOOLEAN
      /\ StepByStep(s.depth, k, graph, r)
  BY DEF LayerHolds
<1>2. r.max_hops \in Nat /\ r.max_nodes \in Nat
  BY DEF IsFocus
<1>3. t = [depth |-> depth, frontier |-> N,
           truncated |-> \/ s.truncated \/ CutsOffers(s, graph, r)
                         \/ Cardinality(StrongestOffers(M)) > room]
  <2>1. k # r.max_hops
    BY <1>2
  <2> QED BY ONLY <2>1, LayerIs
<1>4. /\ room \in Nat /\ IsFiniteSet(N) /\ Cardinality(N) \in Nat /\ Cardinality(N) <= room
      /\ N \subseteq OffersTo(M)
      /\ ~(Cardinality(StrongestOffers(M)) > room) => N = OffersTo(M)
  BY <1>1, AdmittedAre
<1>5. /\ \A n \in N : n \notin V /\ \E m \in s.frontier : Leads(m, n, graph, r)
      /\ ~CutsOffers(s, graph, r) =>
           \A m \in s.frontier : \A n : Leads(m, n, graph, r) => n \in V \cup OffersTo(M)
  BY <1>4, MergedAre
<1>6. /\ DOMAIN depth = N \cup V
      /\ \A n \in N : depth[n] = k + 1
      /\ \A n \in V : depth[n] = s.depth[n]
  BY <1>5 DEF LaterDepth
<1>7. N \subseteq graph.nodes
  <2>1. \A m, n : Leads(m, n, graph, r) => n \in graph.nodes
    BY StepsLead DEF Leads
  <2> QED BY <1>5, <2>1
<1> HIDE DEF M, N, room, depth
<1>8. depth \in [DOMAIN depth -> 0 .. (k + 1)]
  <2>1. \A n \in DOMAIN depth : depth[n] \in 0 .. (k + 1)
    BY <1>1, <1>6
  <2>2. depth = [n \in DOMAIN depth |-> depth[n]]
    BY DEF depth, LaterDepth
  <2> QED BY <2>1, <2>2
<1>9. IsFiniteSet(N \cup V) /\ Cardinality(N \cup V) <= r.max_nodes
  <2>1. N \cap V = {}
    BY <1>5
  <2>2. IsFiniteSet(N \cup V) /\ Cardinality(N \cup V) = Cardinality(N) + Cardinality(V)
    <3>1. Cardinality(N \cup V) = Cardinality(N) + Cardinality(V) - Cardinality(N \cap V)
          /\ IsFiniteSet(N \cup V)
      BY <1>1, <1>4, FS_Union
    <3>2. Cardinality(N \cap V) = 0
      BY <2>1, FS_EmptySet
    <3>3. Cardinality(N) \in Nat /\ Cardinality(V) \in Nat
      BY <1>1, <1>4, FS_CardinalityType
    <3> QED BY <3>1, <3>2, <3>3
  <2>3. room = r.max_nodes - Cardinality(V) /\ Cardinality(V) \in Nat
    BY <1>1, FS_CardinalityType DEF room, RoomLeft
  <2> QED BY <1>2, <1>4, <2>2, <2>3
<1>10. N = {n \in DOMAIN depth : depth[n] = k + 1}
  <2>1. \A n \in V : depth[n] \in 0 .. k
    BY <1>1, <1>6
  <2>2. \A n \in V : depth[n] # k + 1
    BY <2>1
  <2> QED BY <1>6, <2>2
<1>11. StepByStep(depth, k + 1, graph, r)
  <2> SUFFICES ASSUME NEW n \in DOMAIN depth \ {r.root}
               PROVE  /\ depth[n] \in 1 .. (k + 1)
                      /\ \E m \in DOMAIN depth : depth[m] = depth[n] - 1 /\ Leads(m, n, graph, r)
    BY DEF StepByStep
  <2>1. CASE n \in N
    <3>1. PICK m \in s.frontier : Leads(m, n, graph, r)
      BY <1>5, <2>1
    <3>2. m \in DOMAIN depth /\ depth[m] = k
      BY <1>1, <1>6, <3>1
    <3>3. depth[n] = k + 1
      BY <1>6, <2>1
    <3>4. depth[n] \in 1 .. (k + 1) /\ depth[m] = depth[n] - 1
      BY <3>2, <3>3
    <3> QED BY <3>1, <3>2, <3>4
  <2>2. CASE n \in V
    <3>1. /\ s.depth[n] \in 1 .. k
          /\ \E m \in V : s.depth[m] = s.depth[n] - 1 /\ Leads(m, n, graph, r)
      BY <1>1, <2>2 DEF StepByStep
    <3>2. PICK m \in V : s.depth[m] = s.depth[n] - 1 /\ Leads(m, n, graph, r)
      BY <3>1
    <3>3. depth[n] = s.depth[n] /\ depth[m] = s.depth[m] /\ m \in DOMAIN depth
      BY <1>6, <2>2
    <3>4. depth[n] \in 1 .. (k + 1)
      BY <3>1, <3>3
    <3> QED BY <3>2, <3>3, <3>4
  <2> QED BY <1>6, <2>1, <2>2
<1>12. ASSUME ~t.truncated, NEW d \in 0 .. (k + 1)
       PROVE  Reached({r.root}, links, d) = WithinHops(depth, d)
  <2>1. /\ ~s.truncated /\ ~CutsOffers(s, graph, r)
        /\ ~(Cardinality(StrongestOffers(M)) > room)
    BY <1>3, <1>12
  <2>2. \A c \in 0 .. k : Reached({r.root}, links, c) = WithinHops(s.depth, c)
    BY <2>1 DEF LayerHolds
  <2>3. N = OffersTo(M)
    BY <1>4, <2>1
  <2>4. CASE d \in 0 .. k
    <3>1. \A n \in V : s.depth[n] \in 0 .. k
      BY <1>1
    <3>2. \A n \in N : ~(depth[n] <= d)
      BY <1>6, <2>4
    <3>3. WithinHops(depth, d) = WithinHops(s.depth, d)
      BY <1>6, <3>2 DEF WithinHops
    <3> QED BY <2>2, <2>4, <3>3
  <2>5. CASE d = k + 1
    <3> DEFINE near == WithinHops(s.depth, k)
    <3>1. Reached({r.root}, links, d) = Beyond(near, links)
      <4>1. Reached({r.root}, links, k) = near
        BY <2>2
      <4>2. Reached({r.root}, links, k + 1) = Beyond(Reached({r.root}, links, k), links)
        BY ReachedIs
      <4> QED BY <2>5, <4>1, <4>2
    <3>2. near = V
      <4>1. \A n \in V : s.depth[n] \in 0 .. k
        BY <1>1
      <4> QED BY <4>1 DEF WithinHops
    <3>3. WithinHops(depth, d) = N \cup V
      <4>1. \A n \in DOMAIN depth : depth[n] \in 0 .. (k + 1)
        BY <1>8
      <4> QED BY <1>6, <2>5, <4>1 DEF WithinHops
    <3>4. \A n : n \in Beyond(V, links) <=> n \in V \/ \E m \in V : Leads(m, n, graph, r)
      BY <1>1, BeyondIs
    \* what is led to from an earlier layer has been reached
    <3>5. ASSUME NEW m \in V, NEW n, Leads(m, n, graph, r) PROVE n \in N \cup V
      <4>1. CASE m \in s.frontier
        BY <1>5, <2>1, <2>3, <3>5, <4>1
      <4>2. CASE m \notin s.frontier
        <5>1. s.depth[m] \in 0 .. k /\ s.depth[m] # k
          BY <1>1, <4>2
        <5>2. PICK c : c = s.depth[m]
          OBVIOUS
        <5>3. c \in 0 .. k /\ c + 1 \in 0 .. k /\ c \in Nat
          BY <5>1, <5>2
        <5>4. m \in Reached({r.root}, links, c)
          <6>1. c <= c /\ m \in WithinHops(s.depth, c)
            BY <5>2, <5>3 DEF WithinHops
          <6> QED BY <2>2, <5>3, <6>1
        <5>5. Reached({r.root}, links, c) \in SUBSET graph.nodes
          BY <1>1, <2>2, <5>3 DEF WithinHops
        <5>6. n \in Beyond(Reached({r.root}, links, c), links)
          BY <3>5, <5>4, <5>5, BeyondIs
        <5>7. n \in Reached({r.root}, links, c + 1)
          <6>1. Reached({r.root}, links, c + 1) = Beyond(Reached({r.root}, links, c), links)
            BY <5>3, ReachedIs
          <6> QED BY <5>6, <6>1
        <5>8. Reached({r.root}, links, c + 1) = WithinHops(s.depth, c + 1)
          BY <2>2, <5>3
        <5> QED BY <5>7, <5>8 DEF WithinHops
      <4> QED BY <4>1, <4>2
    <3>6. \A n \in N : \E m \in V : Leads(m, n, graph, r)
      BY <1>1, <1>5
    <3>7. Beyond(V, links) = N \cup V
      BY <3>4, <3>5, <3>6
    <3> QED BY <3>1, <3>2, <3>3, <3>7
  <2>6. d \in 0 .. k \/ d = k + 1
    OBVIOUS
  <2> QED BY <2>4, <2>5, <2>6
<1>13. /\ t = [depth |-> t.depth, frontier |-> t.frontier, truncated |-> t.truncated]
       /\ t.depth = depth /\ t.frontier = N /\ t.truncated \in BOOLEAN
  BY <1>1, <1>3
<1>14. r.root \in DOMAIN depth /\ depth[r.root] = 0
  BY <1>1, <1>6
<1>15. DOMAIN depth \in SUBSET graph.nodes
  BY <1>1, <1>6, <1>7
<1> HIDE DEF t
<1> QED BY <1>6, <1>8, <1>9, <1>10, <1>11, <1>12, <1>13, <1>14, <1>15, Zenon DEF LayerHolds, t

(* The last layer looks one hop further and keeps nothing.                 *)
LooksBeyond(t, s, graph, r) ==
  /\ t.depth = s.depth /\ t.truncated \in BOOLEAN
  /\ ~t.truncated =>
       \A d \in 0 .. (r.max_hops + 1) :
         Reached({r.root}, Links(graph, r, graph.nodes), d) = WithinHops(s.depth, d)

LEMMA LastLayerLooks ==
    ASSUME NEW graph, IsGraph(graph), NEW r, IsFocus(r, graph), NEW s,
           LayerHolds(s, r.max_hops, graph, r), NEW t, t = Layer(s, r.max_hops, graph, r)
    PROVE  LooksBeyond(t, s, graph, r)
<1> DEFINE k == r.max_hops
           V == DOMAIN s.depth
           M == Merged(s, graph, r)
           links == Links(graph, r, graph.nodes)
<1>1. /\ s.depth \in [V -> 0 .. k] /\ V \in SUBSET graph.nodes
      /\ s.frontier = {n \in V : s.depth[n] = k} /\ s.truncated \in BOOLEAN
  BY DEF LayerHolds
<1>2. k \in Nat
  BY DEF IsFocus
<1>3. t = [depth |-> s.depth, frontier |-> {},
           truncated |-> s.truncated \/ CutsOffers(s, graph, r) \/ StrongestOffers(M) # {}]
  BY ONLY t = Layer(s, r.max_hops, graph, r), LayerIs
<1>4. t.depth = s.depth /\ t.truncated \in BOOLEAN
  BY <1>1, <1>3
<1>5. ASSUME ~t.truncated, NEW d \in 0 .. (k + 1)
      PROVE  Reached({r.root}, links, d) = WithinHops(s.depth, d)
  <2>1. ~s.truncated /\ ~CutsOffers(s, graph, r) /\ StrongestOffers(M) = {}
    <3> HIDE DEF M
    <3>1. s.truncated \in BOOLEAN /\ ~t.truncated
      BY <1>1, <1>5
    <3> QED BY ONLY <1>3, <3>1
  <2>2. \A c \in 0 .. k : Reached({r.root}, links, c) = WithinHops(s.depth, c)
    BY <2>1 DEF LayerHolds
  <2>3. OffersTo(M) = {}
    <3>1. M \in SUBSET AllOffers(graph) /\ IsOffers(AllOffers(graph))
      BY MergedAre, OffersOfGraph
    <3>2. OffersTo(StrongestOffers(M)) = OffersTo(M)
      <4> HIDE DEF M
      <4> QED BY <3>1, StrongestOffersAre
    <3> QED BY <2>1, <3>2 DEF OffersTo
  <2>4. CASE d \in 0 .. k
    BY <2>2, <2>4
  <2>5. CASE d = k + 1
    <3>1. \A n \in V : s.depth[n] \in 0 .. k
      BY <1>1
    <3>2. WithinHops(s.depth, k) = V /\ WithinHops(s.depth, k + 1) = V
      BY <1>2, <3>1 DEF WithinHops
    <3>3. Reached({r.root}, links, k) = V
      BY <1>2, <2>2, <3>2
    <3>4. Reached({r.root}, links, k + 1) = Beyond(V, links)
      <4>1. Reached({r.root}, links, k + 1) = Beyond(Reached({r.root}, links, k), links)
        BY <1>2, ReachedIs
      <4> QED BY <3>3, <4>1
    <3>5. \A n : n \in Beyond(V, links) <=> n \in V \/ \E m \in V : Leads(m, n, graph, r)
      BY <1>1, BeyondIs
    <3>6. ASSUME NEW m \in V, NEW n, Leads(m, n, graph, r) PROVE n \in V
      <4>1. CASE m \in s.frontier
        <5>1. n \in V \cup OffersTo(M)
          BY <2>1, <3>6, <4>1, MergedAre
        <5> QED BY <2>3, <5>1
      <4>2. CASE m \notin s.frontier
        <5>1. s.depth[m] \in 0 .. k /\ s.depth[m] # k
          BY <1>1, <4>2
        <5>2. PICK c : c = s.depth[m]
          OBVIOUS
        <5>3. c \in 0 .. k /\ c + 1 \in 0 .. k /\ c \in Nat
          BY <1>2, <5>1, <5>2
        <5>4. m \in Reached({r.root}, links, c)
          <6>1. c <= c /\ m \in WithinHops(s.depth, c)
            BY <5>2, <5>3 DEF WithinHops
          <6> QED BY <2>2, <5>3, <6>1
        <5>5. Reached({r.root}, links, c) \in SUBSET graph.nodes
          BY <1>1, <2>2, <5>3 DEF WithinHops
        <5>6. n \in Beyond(Reached({r.root}, links, c), links)
          BY <3>6, <5>4, <5>5, BeyondIs
        <5>7. Reached({r.root}, links, c + 1) = Beyond(Reached({r.root}, links, c), links)
          BY <5>3, ReachedIs
        <5>8. Reached({r.root}, links, c + 1) = WithinHops(s.depth, c + 1)
          BY <2>2, <5>3
        <5> QED BY <5>6, <5>7, <5>8 DEF WithinHops
      <4> QED BY <4>1, <4>2
    <3>7. Beyond(V, links) = V
      BY <3>5, <3>6
    <3> QED BY <2>5, <3>2, <3>4, <3>7
  <2>6. d \in 0 .. k \/ d = k + 1
    BY <1>2
  <2> QED BY <2>4, <2>5, <2>6
<1> QED BY <1>4, <1>5 DEF LooksBeyond

(* What the layers find.                                                   *)
FoundHolds(t, graph, r) ==
  \E s : LayerHolds(s, r.max_hops, graph, r) /\ LooksBeyond(t, s, graph, r)

LEMMA LayersFind ==
    ASSUME NEW graph, IsGraph(graph), NEW r, IsFocus(r, graph), NEW start,
           start = [depth |-> [n \in {r.root} |-> 0], frontier |-> {r.root}, truncated |-> FALSE],
           NEW sequence, sequence = [i \in 1 .. (r.max_hops + 1) |-> i - 1]
    PROVE  FoundHolds(LayersOf(graph, r, start, sequence), graph, r)
<1> DEFINE n == r.max_hops + 1
           o == [kind |-> "layer", sequence |-> sequence, graph |-> graph, r |-> r]
<1>1. r.max_hops \in Nat /\ n \in Nat
  BY DEF IsFocus
<1>2. \A v, x : Turn(o, v, x) = Layer(v, sequence[x], graph, r)
  <2>1. o.kind = "layer" /\ o.sequence = sequence /\ o.graph = graph /\ o.r = r
    OBVIOUS
  <2> QED BY ONLY <2>1 DEF Turn
<1>3. PICK f : Runs(o, start, f, n) /\ LayersOf(graph, r, start, sequence) = f[n]
  <2>1. PICK p : p = o
    OBVIOUS
  <2>2. p = [kind |-> "layer", sequence |-> sequence, graph |-> graph, r |-> r]
    BY <2>1
  <2>3. DOMAIN sequence = 1 .. n
    OBVIOUS
  <2> HIDE DEF n, o
  <2> QED BY ONLY <1>1, <2>1, <2>2, <2>3, LayerRuns
<1> HIDE DEF o
<1>4. /\ f[0] = start
      /\ \A i \in 1 .. n : f[i] = Layer(f[i - 1], i - 1, graph, r)
  <2>1. \A i \in 1 .. n : f[i] = Layer(f[i - 1], sequence[i], graph, r) /\ sequence[i] = i - 1
    BY <1>2, <1>3 DEF Runs
  <2> QED BY <1>3, <2>1 DEF Runs
<1> DEFINE K == {k \in Nat : k <= r.max_hops => LayerHolds(f[k], k, graph, r)}
<1>5. 0 \in K
  BY <1>4, StartHolds
<1>6. \A k \in K : k + 1 \in K
  <2> SUFFICES ASSUME NEW k \in K, k + 1 <= r.max_hops
               PROVE  LayerHolds(f[k + 1], k + 1, graph, r)
    OBVIOUS
  <2>1. LayerHolds(f[k], k, graph, r) /\ k < r.max_hops /\ k \in Nat
    BY <1>1
  <2>2. f[k + 1] = Layer(f[k], k, graph, r)
    <3>1. k + 1 \in 1 .. n /\ (k + 1) - 1 = k
      BY <1>1, <2>1
    <3> QED BY <1>4, <3>1
  <2> HIDE DEF K
  <2> QED BY <2>1, <2>2, LayerKeeps
<1>7. K = Nat
  <2> HIDE DEF K
  <2> QED BY <1>5, <1>6, NaturalSets DEF K
<1>8. LayerHolds(f[r.max_hops], r.max_hops, graph, r)
  BY <1>1, <1>7
<1>9. f[n] = Layer(f[r.max_hops], r.max_hops, graph, r)
  <2>1. n \in 1 .. n /\ n - 1 = r.max_hops
    BY <1>1
  <2> QED BY <1>4, <2>1
<1>10. PICK t : t = f[n]
  OBVIOUS
<1>11. PICK s : s = f[r.max_hops]
  OBVIOUS
<1>12. LooksBeyond(t, s, graph, r)
  <2>1. LayerHolds(s, r.max_hops, graph, r) /\ t = Layer(s, r.max_hops, graph, r)
    BY <1>8, <1>9, <1>10, <1>11
  <2> QED BY ONLY IsGraph(graph), IsFocus(r, graph), <2>1, LastLayerLooks
<1>13. FoundHolds(t, graph, r)
  BY <1>8, <1>11, <1>12 DEF FoundHolds
<1> QED BY <1>3, <1>10, <1>13

(* The edges a neighborhood returns.                                       *)
LEMMA InsertsAre ==
    ASSUME NEW E, IsEdges(E), NEW S \in SUBSET E, NEW limit \in Nat, NEW k, k = InsertsOf(S, limit),
           NEW rows, rows = StrongestRows(S)
    PROVE  /\ k.edges \subseteq rows
           /\ Cardinality(k.edges) = Min({limit, Cardinality(rows)})
           /\ \A e \in k.edges, f \in rows \ k.edges : StrongerEdge(e, f)
           /\ k.truncated \in BOOLEAN
           /\ ~k.truncated => k.edges = rows
<1> DEFINE R == StrongerPairs(E)
<1>1. KeepsFirst(k, S, limit, E)
  BY InsertsKeep
<1>2. k.edges = First(rows, limit, R) /\ k.truncated = (Cardinality(rows) > limit)
  BY <1>1 DEF KeepsFirst
<1>3. rows \in SUBSET E /\ IsFiniteSet(rows) /\ Cardinality(rows) \in Nat
  BY StrongestAreOne, FS_CardinalityType
<1>4. InStrictOrder(rows, R)
  BY <1>3, StrongerOrders, SubsetOrder
<1>5. /\ k.edges \subseteq rows
      /\ \A e \in k.edges : \A f \in rows \ k.edges : <<e, f>> \in R
  <2> HIDE DEF R
  <2> QED BY <1>2, <1>3, <1>4, FirstOrdered
<1>6. /\ Cardinality(k.edges) = IF Cardinality(rows) > limit THEN limit ELSE Cardinality(rows)
      /\ Cardinality(rows) <= limit <=> k.edges = rows
  <2> HIDE DEF R
  <2> QED BY <1>2, <1>3, <1>4, FirstCount
<1>7. Cardinality(k.edges) = Min({limit, Cardinality(rows)})
  <2>1. PICK c : c = Cardinality(rows)
    OBVIOUS
  <2>2. Min({limit, c}) = IF limit <= c THEN limit ELSE c
    BY <1>3, <2>1, SmallerIs
  <2> QED BY <1>3, <1>6, <2>1, <2>2
<1>8. \A e \in k.edges, f \in rows \ k.edges : StrongerEdge(e, f)
  BY <1>5 DEF StrongerPairs
<1>9. k.truncated \in BOOLEAN /\ (~k.truncated => k.edges = rows)
  <2>1. PICK c : c = Cardinality(rows)
    OBVIOUS
  <2>2. k.truncated = (c > limit) /\ c \in Nat /\ limit \in Nat
    BY <1>2, <1>3, <2>1
  <2>3. CASE c > limit
    <3>1. k.truncated = TRUE
      BY <2>2, <2>3
    <3> QED BY <3>1
  <2>4. CASE ~(c > limit)
    <3>1. c <= limit
      BY <2>2, <2>4
    <3>2. (c > limit) = FALSE
      BY <2>4
    <3>3. k.truncated = FALSE
      BY ONLY <2>2, <3>2
    <3> QED BY <1>6, <2>1, <3>1, <3>3
  <2> QED BY <2>3, <2>4
<1> QED BY <1>5, <1>7, <1>8, <1>9

Parts(result, graph, r, start, sequence, found, kept) ==
  /\ start = [depth |-> [n \in {r.root} |-> 0], frontier |-> {r.root},
              truncated |-> FALSE]
  /\ sequence = [i \in 1 .. (r.max_hops + 1) |-> i - 1]
  /\ found = LayersOf(graph, r, start, sequence)
  /\ kept = InsertsOf({e \in Induced(graph, DOMAIN found.depth) : Includes(e, r)},
                      r.max_edges)
  /\ result = [depth |-> found.depth, edges |-> kept.edges,
               truncated |-> found.truncated \/ kept.truncated]

LEMMA NeighborhoodIs ==
    ASSUME NEW graph, NEW r, NEW result, result = GraphNeighborhood(graph, r)
    PROVE  \E start, sequence, found, kept :
             Parts(result, graph, r, start, sequence, found, kept)
BY DEF GraphNeighborhood, LayersOf, InsertsOf, Parts

(* The property, of any answer.                                            *)
Explored(result, graph, r) ==
  LET depth == result.depth
      included == IncludedEdges(graph, DOMAIN depth, r)
      links == Links(graph, r, graph.nodes)
  IN  /\ Cardinality(DOMAIN depth) <= r.max_nodes
      /\ r.root \in DOMAIN depth /\ depth[r.root] = 0
      /\ \A n \in DOMAIN depth \ {r.root} :
           /\ depth[n] \in 1..r.max_hops
           /\ \E m \in DOMAIN depth : /\ depth[m] = depth[n] - 1
                                      /\ \E s \in Steps(m, graph, r) : s.to = n
      /\ result.edges \subseteq included
      /\ Cardinality(result.edges) = Min({r.max_edges, Cardinality(included)})
      /\ \A e \in result.edges, f \in included \ result.edges : StrongerEdge(e, f)
      /\ ~result.truncated =>
           /\ \A d \in 0..(r.max_hops + 1) :
                Reached({r.root}, links, d) = {n \in DOMAIN depth : depth[n] <= d}
           /\ result.edges = included

(* A neighborhood keeps its bounds, every node is one step from the layer  *)
(* before, its edges are the strongest rows of the links among its nodes,  *)
(* and it leaves nothing out without truncated (graph_neighborhood).       *)
THEOREM NeighborhoodsExplored == GraphSpec => []NeighborhoodIsExplored
<1>1. Answers => NeighborhoodIsExplored
  <2> SUFFICES ASSUME Answers, IsAnswered("neighborhood") PROVE NeighborhoodIsExplored
    BY DEF NeighborhoodIsExplored
  <2>1. request \in NeighborhoodRequests
    BY RequestsAssumption DEF Answers, IsAnswered
  <2>2. PICK graph : graph = request.graph
    OBVIOUS
  <2>3. PICK r : r = request.bounds
    OBVIOUS
  <2>4. PICK result : result = answer
    OBVIOUS
  <2>5. result = GraphNeighborhood(graph, r)
    BY <2>2, <2>3, <2>4 DEF Answers
  <2>6. IsGraph(graph) /\ IsFocus(r, graph)
    BY <2>1, <2>2, <2>3, NeighborhoodAssumption DEF IsGraph, IsFocus
  <2>7. PICK start, sequence, found, kept :
             Parts(result, graph, r, start, sequence, found, kept)
    BY <2>5, NeighborhoodIs
  <2>8. FoundHolds(found, graph, r)
    BY <2>6, <2>7, LayersFind DEF Parts
  <2>9. PICK s : LayerHolds(s, r.max_hops, graph, r) /\ LooksBeyond(found, s, graph, r)
    BY <2>8 DEF FoundHolds
  <2> DEFINE depth == result.depth
             S == {e \in Induced(graph, DOMAIN depth) : Includes(e, r)}
             included == IncludedEdges(graph, DOMAIN depth, r)
             links == Links(graph, r, graph.nodes)
  <2>10. depth = found.depth /\ depth = s.depth /\ result.edges = kept.edges
         /\ result.truncated = (found.truncated \/ kept.truncated)
    BY <2>7, <2>9 DEF LooksBeyond, Parts
  <2>11. IsEdges(graph.edges) /\ S \in SUBSET graph.edges /\ r.max_edges \in Nat
    <3>1. graph.edges \subseteq [from : Int, to : Int, kind : Int, weight : Int]
      BY <2>6 DEF IsGraph
    <3> QED BY <2>6, <3>1 DEF IsGraph, IsFocus, IsEdges, Induced
  <2>12. kept = InsertsOf(S, r.max_edges) /\ included = StrongestRows(S)
    BY <2>7, <2>10 DEF IncludedEdges, Parts
  <2> HIDE DEF depth, S, included
  <2>13. /\ result.edges \subseteq included
         /\ Cardinality(result.edges) = Min({r.max_edges, Cardinality(included)})
         /\ \A e \in result.edges, f \in included \ result.edges : StrongerEdge(e, f)
         /\ kept.truncated \in BOOLEAN
         /\ ~kept.truncated => result.edges = included
    BY <2>10, <2>11, <2>12, InsertsAre
  <2>14. /\ Cardinality(DOMAIN depth) <= r.max_nodes
         /\ r.root \in DOMAIN depth /\ depth[r.root] = 0
         /\ StepByStep(depth, r.max_hops, graph, r)
    BY <2>9, <2>10 DEF LayerHolds
  <2>15. \A n \in DOMAIN depth \ {r.root} :
           /\ depth[n] \in 1..r.max_hops
           /\ \E m \in DOMAIN depth : /\ depth[m] = depth[n] - 1
                                      /\ \E x \in Steps(m, graph, r) : x.to = n
    BY <2>14 DEF StepByStep, Leads
  <2>16. found.truncated \in BOOLEAN
         /\ (~found.truncated =>
              \A d \in 0..(r.max_hops + 1) :
                Reached({r.root}, links, d) = {n \in DOMAIN depth : depth[n] <= d})
    BY <2>9, <2>10 DEF LooksBeyond, WithinHops
  <2>17. ~result.truncated =>
           /\ \A d \in 0..(r.max_hops + 1) :
                Reached({r.root}, links, d) = {n \in DOMAIN depth : depth[n] <= d}
           /\ result.edges = included
    <3> HIDE DEF links
    <3> QED BY ONLY <2>10, <2>13, <2>16
  <2>18. Explored(result, graph, r)
    BY ONLY <2>13, <2>14, <2>15, <2>17 DEF Explored, depth, included, links
  <2>19. Explored(answer, request.graph, request.bounds)
    BY ONLY <2>2, <2>3, <2>4, <2>18
  <2> QED BY ONLY <2>19 DEF NeighborhoodIsExplored, Explored
<1> QED BY <1>1, AnswersHold, PTL
-----------------------------------------------------------------------------
(* Search.  A finite set in a strict order as a list: each element has as  *)
(* many before it in the list as in the order.                             *)
IsListOf(q, S, R) ==
  /\ q \in Seq(S) /\ Len(q) = Cardinality(S) /\ DOMAIN q = 1..Cardinality(S)
  /\ \A i \in 1..Cardinality(S) : Cardinality(Before(S, R, q[i])) = i - 1

LEMMA PairsRank ==
    ASSUME NEW S, IsFiniteSet(S), NEW R, InStrictOrder(S, R), NEW x \in S, NEW y \in S,
           <<x, y>> \in R
    PROVE  Cardinality(Before(S, R, x)) < Cardinality(Before(S, R, y))
<1>1. Before(S, R, x) \in SUBSET Before(S, R, y)
  BY DEF Before, InStrictOrder
<1>2. x \in Before(S, R, y) /\ x \notin Before(S, R, x)
  BY DEF Before, InStrictOrder
<1>3. IsFiniteSet(Before(S, R, y)) /\ IsFiniteSet(Before(S, R, x))
  BY BeforeIs
<1>4. Cardinality(Before(S, R, x)) <= Cardinality(Before(S, R, y))
      /\ Cardinality(Before(S, R, x)) # Cardinality(Before(S, R, y))
  BY <1>1, <1>2, <1>3, FS_Subset
<1>5. Cardinality(Before(S, R, x)) \in Nat /\ Cardinality(Before(S, R, y)) \in Nat
  BY <1>3, FS_CardinalityType
<1> QED BY <1>4, <1>5

LEMMA RankTaken ==
    ASSUME NEW S, IsFiniteSet(S), NEW R, InStrictOrder(S, R), NEW i \in 1..Cardinality(S)
    PROVE  \E x \in S : Cardinality(Before(S, R, x)) = i - 1
<1> DEFINE Rank(x) == Cardinality(Before(S, R, x))
           n == Cardinality(S)
<1>1. n \in Nat /\ \A x \in S : Rank(x) \in Nat
  BY BeforeIs, FS_CardinalityType
<1>2. i \in Nat /\ i - 1 \in Nat /\ i <= n
  BY <1>1
<1>3. Cardinality(First(S, i, R)) = i /\ Cardinality(First(S, i - 1, R)) = i - 1
  <2>1. \A k \in {i, i - 1} : Cardinality(First(S, k, R)) = IF n > k THEN k ELSE n
    BY <1>2, FirstCount
  <2> QED BY <1>1, <1>2, <2>1
<1>4. First(S, i, R) # First(S, i - 1, R)
  BY <1>2, <1>3
<1>5. First(S, i - 1, R) \subseteq First(S, i, R)
  BY <1>1, <1>2 DEF First
<1>6. PICK x \in First(S, i, R) : x \notin First(S, i - 1, R)
  BY <1>4, <1>5
<1> QED BY <1>1, <1>2, <1>6 DEF First

LEMMA ListHolds ==
    ASSUME NEW S, IsFiniteSet(S), NEW R, InStrictOrder(S, R), NEW p, IsListOf(p, S, R)
    PROVE  /\ \A x \in S : \E i \in DOMAIN p : p[i] = x
           /\ \A i, j \in DOMAIN p : i < j => <<p[i], p[j]>> \in R
<1> DEFINE Rank(x) == Cardinality(Before(S, R, x))
           n == Cardinality(S)
<1>1. n \in Nat /\ \A x \in S : Rank(x) \in Nat
  BY BeforeIs, FS_CardinalityType
<1>4. /\ DOMAIN p = 1..n
      /\ \A i \in 1..n : p[i] \in S /\ Rank(p[i]) = i - 1
  BY DEF IsListOf
<1> HIDE DEF Rank
<1>7. ASSUME NEW x \in S, NEW y \in S, <<x, y>> \in R PROVE Rank(x) < Rank(y)
  BY <1>7, PairsRank DEF Rank
<1>8. ASSUME NEW x \in S PROVE Rank(x) + 1 \in 1..n
  <2>1. IsFiniteSet(S \ {x}) /\ Cardinality(S \ {x}) = n - 1
    BY FS_RemoveElement
  <2>2. Before(S, R, x) \in SUBSET (S \ {x})
    BY DEF Before, InStrictOrder
  <2>3. Rank(x) <= n - 1
    BY <2>1, <2>2, FS_Subset DEF Rank
  <2> QED BY <1>1, <2>3
<1>9. ASSUME NEW x \in S PROVE \E i \in 1..n : p[i] = x
  <2> DEFINE i == Rank(x) + 1
  <2>1. i \in 1..n /\ p[i] \in S /\ Rank(p[i]) = Rank(x) /\ Rank(x) \in Nat
    BY <1>1, <1>4, <1>8
  <2>2. <<p[i], x>> \notin R /\ <<x, p[i]>> \notin R
    BY <1>7, <2>1
  <2> QED BY <2>1, <2>2 DEF InStrictOrder
<1>10. ASSUME NEW i \in 1..n, NEW j \in 1..n, i < j PROVE <<p[i], p[j]>> \in R
  <2>1. p[i] \in S /\ p[j] \in S /\ Rank(p[i]) < Rank(p[j])
    BY <1>1, <1>4, <1>10
  <2>2. <<p[j], p[i]>> \notin R /\ p[i] # p[j]
    BY <1>1, <1>7, <2>1
  <2> QED BY <2>1, <2>2 DEF InStrictOrder
<1> QED BY <1>4, <1>9, <1>10

(* The chunks nearest to the query.                                        *)
SimilarPairs(nodes, r) == {p \in nodes \X nodes : MoreSimilar(r, p[1], p[2])}
Compares(r, nodes) == \A n \in nodes : r.similarity[n] \in Int

LEMMA SimilarOrders ==
    ASSUME NEW nodes, nodes \subseteq Int, NEW r, Compares(r, nodes)
    PROVE  InStrictOrder(nodes, SimilarPairs(nodes, r))
<1>1. \A m \in nodes, n \in nodes : <<m, n>> \in SimilarPairs(nodes, r) <=> MoreSimilar(r, m, n)
  BY DEF SimilarPairs
<1>2. \A n \in nodes : n \in Int /\ r.similarity[n] \in Int
  BY DEF Compares
<1> QED BY <1>1, <1>2 DEF InStrictOrder, MoreSimilar

LEMMA RanksAre ==
    ASSUME NEW nodes, nodes \subseteq Int, IsFiniteSet(nodes), NEW r, Compares(r, nodes), NEW limit,
           NEW R, R = SimilarPairs(nodes, r), NEW S, S = First(nodes, limit, R),
           NEW q, q = VectorRanks(nodes, limit, r)
    PROVE  IsListOf(q, S, R)
<1>1. \A m \in nodes, n \in nodes : <<m, n>> \in R <=> MoreSimilar(r, m, n)
  BY DEF SimilarPairs
<1>2. \A x \in nodes : {y \in nodes : MoreSimilar(r, y, x)} = Before(nodes, R, x)
  BY <1>1 DEF Before
<1>3. S = {x \in nodes : Cardinality({y \in nodes : MoreSimilar(r, y, x)}) < limit}
  BY <1>2 DEF First
<1>4. S \in SUBSET nodes
  BY <1>3
<1> DEFINE n == Cardinality(S)
           p == [i \in 1..n |->
                   CHOOSE x \in S : Cardinality({y \in S : MoreSimilar(r, y, x)}) = i - 1]
<1>5. VectorRanks(nodes, limit, r) = <<>> \o p
  BY <1>3 DEF VectorRanks, InOrder, Foremost
<1>6. \A x \in S : {y \in S : MoreSimilar(r, y, x)} = Before(S, R, x)
  BY <1>1, <1>4 DEF Before
<1>7. IsFiniteSet(S) /\ InStrictOrder(S, R) /\ n \in Nat
  BY <1>4, SimilarOrders, SubsetOrder, FS_Subset, FS_CardinalityType
<1>8. ASSUME NEW i \in 1..n PROVE p[i] \in S /\ Cardinality(Before(S, R, p[i])) = i - 1
  <2>1. PICK z \in S : Cardinality(Before(S, R, z)) = i - 1
    BY <1>7, RankTaken
  <2>2. Cardinality({y \in S : MoreSimilar(r, y, z)}) = i - 1
    BY <1>6, <2>1
  <2>3. p[i] \in S /\ Cardinality({y \in S : MoreSimilar(r, y, p[i])}) = i - 1
    BY <2>2
  <2> HIDE DEF p
  <2> QED BY <1>6, <2>3
<1>9. p \in [1..n -> S]
  <2>1. \A i \in 1..n : p[i] \in S
    BY <1>8
  <2> QED BY <2>1
<1>10. p \in Seq(S) /\ Len(p) = n /\ DOMAIN p = 1..n
  <2> HIDE DEF p
  <2> QED BY <1>7, <1>9, IsASeq
<1> HIDE DEF p
<1>11. <<>> \o p = p
  BY <1>10, ConcatEmptySeq
<1> QED BY <1>5, <1>8, <1>10, <1>11 DEF IsListOf

(* The edges of one chunk, those it discovered others by first.            *)
ByUse(d, e, f) ==
  LET used == KeyOfEdge(e) \in d
  IN  IF used = (KeyOfEdge(f) \in d) THEN DiscoveryOrder(e, f) ELSE used
UsePairs(E, d) == {p \in E \X E : ByUse(d, p[1], p[2])}
FromOne(E) == \A e, f \in E : e.from = f.from
OutOf(graph, n) == {e \in graph.edges : e.from = n}
LinksInOrder(graph, n) == InOrder({e \in graph.edges : e.from = n}, DiscoveryOrder)

LEMMA DiscoveryOrders ==
    ASSUME NEW E, IsEdges(E), FromOne(E)
    PROVE  /\ \A e \in E : ~DiscoveryOrder(e, e)
           /\ \A e, f \in E : e = f \/ DiscoveryOrder(e, f) \/ DiscoveryOrder(f, e)
           /\ \A e, f, g \in E : DiscoveryOrder(e, f) /\ DiscoveryOrder(f, g) => DiscoveryOrder(e, g)
<1>1. \A e \in E : e.to \in Int /\ e.kind \in Int /\ e.weight \in Int
  BY EdgeFields
<1>2. ASSUME NEW e \in E, NEW f \in E, e.to = f.to, e.kind = f.kind, e.weight = f.weight
      PROVE  e = f
  BY <1>2, EdgeFields DEF FromOne
<1> QED BY <1>1, <1>2 DEF DiscoveryOrder

LEMMA UseOrders ==
    ASSUME NEW E, IsEdges(E), FromOne(E), NEW d
    PROVE  InStrictOrder(E, UsePairs(E, d))
<1> DEFINE Used(e) == KeyOfEdge(e) \in d
<1>1. \A e \in E, f \in E : <<e, f>> \in UsePairs(E, d) <=> ByUse(d, e, f)
  BY DEF UsePairs
<1>2. ASSUME NEW e \in E, NEW f \in E
      PROVE  ByUse(d, e, f) <=> \/ Used(e) /\ ~Used(f)
                                \/ (Used(e) <=> Used(f)) /\ DiscoveryOrder(e, f)
  BY DEF ByUse
<1> HIDE DEF Used
<1> QED BY <1>1, <1>2, DiscoveryOrders DEF InStrictOrder

LEMMA LinksAre ==
    ASSUME NEW graph, IsEdges(graph.edges), NEW n, NEW S, S = OutOf(graph, n)
    PROVE  /\ IsFiniteSet(S) /\ Cardinality(S) \in Nat
           /\ LinksInOrder(graph, n) \in Seq(S)
           /\ DOMAIN LinksInOrder(graph, n) = 1..Cardinality(S)
           /\ \A e \in S : \E i \in 1..Cardinality(S) : LinksInOrder(graph, n)[i] = e
<1> DEFINE R == UsePairs(S, {})
           k == Cardinality(S)
           p == [i \in 1..k |->
                   CHOOSE x \in S : Cardinality({y \in S : DiscoveryOrder(y, x)}) = i - 1]
<1>1. IsEdges(S) /\ FromOne(S)
  <2>1. S \in SUBSET graph.edges
    BY DEF OutOf
  <2>2. IsFiniteSet(S)
    BY <2>1, FS_Subset DEF IsEdges
  <2> QED BY <2>1, <2>2 DEF IsEdges, FromOne, OutOf
<1>2. IsFiniteSet(S) /\ k \in Nat /\ InStrictOrder(S, R)
  BY <1>1, UseOrders, FS_CardinalityType DEF IsEdges
<1>3. \A x \in S, y \in S : <<y, x>> \in R <=> DiscoveryOrder(y, x)
  BY DEF UsePairs, ByUse
<1> HIDE DEF R
<1>4. \A x \in S : {y \in S : DiscoveryOrder(y, x)} = Before(S, R, x)
  BY <1>3 DEF Before
<1>5. LinksInOrder(graph, n) = <<>> \o p
  BY DEF LinksInOrder, InOrder, OutOf
<1>6. ASSUME NEW i \in 1..k PROVE p[i] \in S /\ Cardinality(Before(S, R, p[i])) = i - 1
  <2>1. PICK z \in S : Cardinality(Before(S, R, z)) = i - 1
    BY <1>2, RankTaken
  <2>2. Cardinality({y \in S : DiscoveryOrder(y, z)}) = i - 1
    BY <1>4, <2>1
  <2>3. p[i] \in S /\ Cardinality({y \in S : DiscoveryOrder(y, p[i])}) = i - 1
    BY <2>2
  <2> HIDE DEF p
  <2> QED BY <1>4, <2>3
<1>7. p \in [1..k -> S]
  <2>1. \A i \in 1..k : p[i] \in S
    BY <1>6
  <2> QED BY <2>1
<1>8. p \in Seq(S) /\ Len(p) = k /\ DOMAIN p = 1..k
  <2> HIDE DEF p
  <2> QED BY <1>2, <1>7, IsASeq
<1> HIDE DEF p
<1>9. <<>> \o p = p
  BY <1>8, ConcatEmptySeq
<1>10. IsListOf(p, S, R)
  BY <1>6, <1>8 DEF IsListOf
<1> QED BY <1>2, <1>5, <1>8, <1>9, <1>10, ListHolds
-----------------------------------------------------------------------------
(* The state of a search: what was visited, and what is to be, in order.   *)
SearchFields == {"hits", "visited", "admitted", "pending", "discovery", "truncated"}
Trail(s) == s.hits \o s.pending
AdmitsOf(seen, at, graph, r) ==
  FoldLeft(LAMBDA s, e : AdmitNeighbor(s, e, at.depth, r), seen, LinksInOrder(graph, at.node))
NextSeen(s) == [s EXCEPT !.hits = Append(@, Head(s.pending)), !.pending = Tail(@), !.admitted = 0]

NotAdmitted(s, t, e, r) ==
  /\ e.to \notin s.visited
  /\ s.admitted = r.neighbor_limit \/ Cardinality(s.visited) = r.max_results
  /\ t.visited = s.visited /\ t.admitted = s.admitted /\ t.pending = s.pending
  /\ t.discovery = s.discovery /\ t.truncated = TRUE
IsAdmitted(s, t, e, x, r) ==
  /\ e.to \notin s.visited
  /\ s.admitted # r.neighbor_limit /\ Cardinality(s.visited) # r.max_results
  /\ t.visited = s.visited \cup {e.to} /\ t.admitted = s.admitted + 1
  /\ t.pending = Append(s.pending, x)
  /\ t.discovery = s.discovery \cup {KeyOfEdge(e)}
  /\ t.truncated = s.truncated

LEMMA AdmitIs ==
    ASSUME NEW s, DOMAIN s = SearchFields, NEW e, NEW depth, NEW r, NEW t,
           t = AdmitNeighbor(s, e, depth, r), NEW x, x = [node |-> e.to, depth |-> depth + 1]
    PROVE  /\ DOMAIN t = SearchFields /\ t.hits = s.hits
           /\ (e.to \in s.visited /\ t = s) \/ NotAdmitted(s, t, e, r) \/ IsAdmitted(s, t, e, x, r)
<1>1. CASE e.to \in s.visited
  <2>1. t = s
    BY <1>1 DEF AdmitNeighbor
  <2> QED BY <1>1, <2>1
<1>2. CASE e.to \notin s.visited /\ (s.admitted = r.neighbor_limit \/ Cardinality(s.visited) = r.max_results)
  <2>1. t = [s EXCEPT !.truncated = TRUE]
    BY <1>2 DEF AdmitNeighbor
  <2>2. /\ DOMAIN t = SearchFields /\ t.hits = s.hits
        /\ t.visited = s.visited /\ t.admitted = s.admitted /\ t.pending = s.pending
        /\ t.discovery = s.discovery /\ t.truncated = TRUE
    BY <2>1, Zenon DEF SearchFields
  <2> QED BY <1>2, <2>2 DEF NotAdmitted
<1>3. CASE e.to \notin s.visited /\ ~(s.admitted = r.neighbor_limit \/ Cardinality(s.visited) = r.max_results)
  <2>1. t = [s EXCEPT !.admitted = @ + 1, !.visited = @ \cup {e.to},
                      !.pending = Append(@, [node |-> e.to, depth |-> depth + 1]),
                      !.discovery = @ \cup {KeyOfEdge(e)}]
    BY <1>3 DEF AdmitNeighbor
  <2>2. /\ DOMAIN t = SearchFields /\ t.hits = s.hits
        /\ t.visited = s.visited \cup {e.to} /\ t.admitted = s.admitted + 1
        /\ t.pending = Append(s.pending, [node |-> e.to, depth |-> depth + 1])
        /\ t.discovery = s.discovery \cup {KeyOfEdge(e)}
        /\ t.truncated = s.truncated
    BY <2>1, Zenon DEF SearchFields
  <2> QED BY <1>3, <2>2 DEF IsAdmitted
<1> QED BY <1>1, <1>2, <1>3

LEMMA SeenIs ==
    ASSUME NEW s, DOMAIN s = SearchFields, NEW t, t = NextSeen(s)
    PROVE  /\ DOMAIN t = SearchFields
           /\ t.hits = Append(s.hits, Head(s.pending)) /\ t.pending = Tail(s.pending)
           /\ t.admitted = 0 /\ t.visited = s.visited /\ t.discovery = s.discovery
           /\ t.truncated = s.truncated
<1>1. t = [s EXCEPT !.hits = Append(@, Head(s.pending)), !.pending = Tail(@), !.admitted = 0]
  BY DEF NextSeen
<1> QED BY <1>1, Zenon DEF SearchFields

LEMMA VisitIs ==
    ASSUME NEW s, NEW graph, NEW r, NEW t, t = VisitNext(s, graph, r)
    PROVE  t = IF s.pending = <<>> THEN s
               ELSE IF Head(s.pending).depth >= r.max_hops THEN NextSeen(s)
               ELSE AdmitsOf(NextSeen(s), Head(s.pending), graph, r)
BY DEF VisitNext, NextSeen, AdmitsOf, LinksInOrder

Visits(graph) == [node : graph.nodes, depth : Nat]

LEMMA TrailVisits ==
    ASSUME NEW P, NEW h \in Seq(P), NEW p \in Seq(P), p # <<>>
    PROVE  /\ Append(h, Head(p)) \in Seq(P) /\ Tail(p) \in Seq(P) /\ Head(p) \in P
           /\ Append(h, Head(p)) \o Tail(p) = h \o p
           /\ Len(Append(h, Head(p))) = Len(h) + 1
           /\ (h \o p)[Len(h) + 1] = Head(p) /\ Len(h) + 1 <= Len(h \o p)
<1>1. Head(p) \in P /\ Tail(p) \in Seq(P) /\ Len(p) \in Nat \ {0} /\ Len(h) \in Nat
      /\ Head(p) = p[1]
  BY HeadTailProperties, EmptySeq
<1>2. Append(h, Head(p)) = h \o <<Head(p)>> /\ <<Head(p)>> \in Seq(P)
  BY <1>1, AppendIsConcat
<1>3. <<Head(p)>> \o Tail(p) = p
  BY <1>1, HeadTailAppend, ConcatProperties
<1>4. Append(h, Head(p)) \o Tail(p) = h \o p
  BY <1>1, <1>2, <1>3, ConcatAssociative
<1>5. Append(h, Head(p)) \in Seq(P) /\ Len(Append(h, Head(p))) = Len(h) + 1
  BY <1>1, AppendProperties
<1>6. Len(h \o p) = Len(h) + Len(p) /\ (h \o p)[Len(h) + 1] = p[1]
  BY <1>1, ConcatProperties
<1> QED BY <1>1, <1>4, <1>5, <1>6

LEMMA TrailAdmits ==
    ASSUME NEW P, NEW h \in Seq(P), NEW p \in Seq(P), NEW x \in P, NEW q, q = h \o p,
           NEW more, more = h \o Append(p, x)
    PROVE  /\ Append(p, x) \in Seq(P) /\ q \in Seq(P) /\ more \in Seq(P)
           /\ Len(q) \in Nat /\ Len(more) = Len(q) + 1 /\ more[Len(q) + 1] = x
           /\ DOMAIN q = 1..Len(q) /\ DOMAIN more = 1..(Len(q) + 1)
           /\ \A i \in DOMAIN q : more[i] = q[i]
<1>1. more = Append(q, x)
  BY ConcatAppend
<1>2. q \in Seq(P) /\ Len(q) \in Nat /\ DOMAIN q = 1..Len(q)
  BY ConcatProperties, SeqDomain
<1>3. /\ more \in Seq(P) /\ Len(more) = Len(q) + 1 /\ more[Len(q) + 1] = x
      /\ \A i \in 1..Len(q) : more[i] = q[i]
  BY <1>1, <1>2, AppendProperties
<1>4. Append(p, x) \in Seq(P)
  BY AppendProperties
<1>5. DOMAIN more = 1..(Len(q) + 1)
  BY <1>3, SeqDomain
<1> QED BY <1>2, <1>3, <1>4, <1>5

(* A visit admits one link after the other, a search visits one chunk      *)
(* after the other.                                                        *)
LEMMA AdmitRuns ==
    ASSUME NEW seen, NEW at, NEW graph, NEW r, NEW n \in Nat, NEW links,
           links = LinksInOrder(graph, at.node), DOMAIN links = 1 .. n, NEW o,
           o = [kind |-> "admit", links |-> links, depth |-> at.depth, r |-> r]
    PROVE  \E f : Runs(o, seen, f, n) /\ AdmitsOf(seen, at, graph, r) = f[n]
<1> DEFINE Is(fold) == fold = [T \in SUBSET (1 .. n) |->
                         IF T = {} THEN seen
                         ELSE AdmitNeighbor(fold[T \ {Max(T)}], links[Max(T)], at.depth, r)]
<1>1. \A v, x : Turn(o, v, x) = AdmitNeighbor(v, links[x], at.depth, r)
  <2>1. o.kind = "admit" /\ o.links = links /\ o.depth = at.depth /\ o.r = r
    OBVIOUS
  <2> QED BY ONLY <2>1 DEF Turn
<1>2. DOMAIN links = 1 .. n
  OBVIOUS
<1>3. \A fold : Is(fold) <=> Folds(o, seen, 1 .. n, Latest(n), fold)
  BY ONLY <1>1, ZenonT(40) DEF Folds, FoldNext, Latest
<1> DEFINE fold == CHOOSE fold : Is(fold)
<1>4. Is(fold)
  <2>1. \E it : Folds(o, seen, 1 .. n, Latest(n), it)
    <3>1. IsFiniteSet(1 .. n) /\ Picks(1 .. n, Latest(n))
      BY LatestIs, FS_Interval
    <3> QED BY <3>1, FoldExists
  <2> HIDE DEF Is
  <2> QED BY <1>3, <2>1
<1>5. AdmitsOf(seen, at, graph, r) = fold[1 .. n]
  BY <1>2 DEF AdmitsOf, FoldLeft, MapThenFoldSet
<1> HIDE DEF Is, fold
<1>6. Folds(o, seen, 1 .. n, Latest(n), fold)
  BY <1>3, <1>4
<1>7. \E f : Runs(o, seen, f, n) /\ fold[1 .. n] = f[n]
  BY ONLY n \in Nat, <1>6, FoldRuns
<1> QED BY <1>5, <1>7

LEMMA VisitRuns ==
    ASSUME NEW start, NEW graph, NEW r, NEW n \in Nat, n = Cardinality(graph.nodes), NEW o,
           o = [kind |-> "visit", graph |-> graph, r |-> r]
    PROVE  \E f : Runs(o, start, f, n) /\ Explore(start, graph, r) = f[n]
<1> DEFINE Is(fold) == fold = [T \in SUBSET (1 .. n) |->
                         IF T = {} THEN start ELSE VisitNext(fold[T \ {Max(T)}], graph, r)]
<1>1. \A v, x : Turn(o, v, x) = VisitNext(v, graph, r)
  <2>1. o.kind = "visit" /\ o.graph = graph /\ o.r = r
    OBVIOUS
  <2> QED BY ONLY <2>1 DEF Turn
<1>2. DOMAIN [i \in 1..Cardinality(graph.nodes) |-> i] = 1 .. n
  OBVIOUS
<1>3. \A fold : Is(fold) <=> Folds(o, start, 1 .. n, Latest(n), fold)
  BY ONLY <1>1 DEF Folds, FoldNext, Latest
<1> DEFINE fold == CHOOSE fold : Is(fold)
<1>4. Is(fold)
  <2>1. \E it : Folds(o, start, 1 .. n, Latest(n), it)
    <3>1. IsFiniteSet(1 .. n) /\ Picks(1 .. n, Latest(n))
      BY LatestIs, FS_Interval
    <3> QED BY <3>1, FoldExists
  <2> HIDE DEF Is
  <2> QED BY <1>3, <2>1
<1>5. Explore(start, graph, r) = fold[1 .. n]
  BY <1>2 DEF Explore, FoldLeft, MapThenFoldSet
<1> HIDE DEF Is, fold
<1>6. Folds(o, start, 1 .. n, Latest(n), fold)
  BY <1>3, <1>4
<1>7. \E f : Runs(o, start, f, n) /\ fold[1 .. n] = f[n]
  BY ONLY n \in Nat, <1>6, FoldRuns
<1> QED BY <1>5, <1>7

(* What holds between two visits: q is the trail, its first h places were  *)
(* visited, first are the seeds.                                           *)
IsSearched(graph, r) ==
  /\ graph.nodes \subseteq Int /\ IsFiniteSet(graph.nodes) /\ IsFiniteSet(graph.edges)
  /\ graph.edges \subseteq [from : graph.nodes, to : graph.nodes, kind : Int, weight : Nat]
  /\ Compares(r, graph.nodes)
  /\ r.seed_limit \in Nat /\ r.max_hops \in Nat /\ r.neighbor_limit \in Nat
  /\ r.max_results \in Nat /\ r.seed_limit <= r.max_results
Shaped(s, graph) ==
  /\ DOMAIN s = SearchFields
  /\ s.hits \in Seq(Visits(graph)) /\ s.pending \in Seq(Visits(graph))
  /\ s.truncated \in BOOLEAN
OnceEach(q, visited, r) ==
  /\ \A i, j \in DOMAIN q : q[i].node = q[j].node => i = j
  /\ \A n : n \in visited <=> \E i \in DOMAIN q : q[i].node = n
  /\ IsFiniteSet(visited) /\ Cardinality(visited) = Len(q) /\ Len(q) <= r.max_results
DepthAt(q, h) == IF h = 0 THEN 0 ELSE q[h].depth + 1
BreadthFirst(q, h, r) ==
  /\ \A i, j \in DOMAIN q : i <= j => q[i].depth <= q[j].depth
  /\ \A j \in DOMAIN q : q[j].depth <= r.max_hops /\ q[j].depth <= DepthAt(q, h)
HangsOn(q, h, d, i, j) ==
  /\ i < j /\ i <= h /\ q[j].depth = q[i].depth + 1
  /\ \E k \in d : k[1] = q[i].node /\ k[2] = q[j].node
AllHang(q, h, d) == \A j \in DOMAIN q : q[j].depth > 0 => \E i \in DOMAIN q : HangsOn(q, h, d, i, j)
KeysOf(d, n) == {k \in d : k[1] = n}
Discovers(q, h, e) ==
  /\ \E i \in DOMAIN q : i <= h /\ q[i].node = e.from
  /\ \E j \in DOMAIN q : q[j].node = e.to
Discovered(q, h, d, graph, r) ==
  /\ IsFiniteSet(d)
  /\ \A k \in d : \E e \in graph.edges : KeyOfEdge(e) = k /\ Discovers(q, h, e)
  /\ \A n : Cardinality(KeysOf(d, n)) <= r.neighbor_limit
SeedsFirst(q, first) == \A n : n \in first <=> \E i \in DOMAIN q : q[i].node = n /\ q[i].depth = 0
SearchHolds(s, graph, r, first) ==
  /\ Shaped(s, graph)
  /\ OnceEach(Trail(s), s.visited, r)
  /\ BreadthFirst(Trail(s), Len(s.hits), r)
  /\ AllHang(Trail(s), Len(s.hits), s.discovery)
  /\ Discovered(Trail(s), Len(s.hits), s.discovery, graph, r)
  /\ SeedsFirst(Trail(s), first)

Grows(s, t) ==
  /\ \A i \in DOMAIN Trail(s) : i \in DOMAIN Trail(t) /\ Trail(t)[i] = Trail(s)[i]
  /\ s.truncated => t.truncated
LeadsOut(s, i, e) ==
  ~s.truncated => \E j \in DOMAIN Trail(s) : /\ Trail(s)[j].node = e.to
                                             /\ Trail(s)[j].depth <= Trail(s)[i].depth + 1

LEMMA GrowsOn ==
    ASSUME NEW s, NEW t, NEW u, Grows(s, t)
    PROVE  /\ Grows(s, s)
           /\ Grows(t, u) => Grows(s, u)
           /\ \A i \in DOMAIN Trail(s) : \A e : LeadsOut(s, i, e) => LeadsOut(t, i, e)
<1>1. Grows(s, s) /\ (Grows(t, u) => Grows(s, u))
  BY DEF Grows
<1>2. ASSUME NEW i \in DOMAIN Trail(s), NEW e, LeadsOut(s, i, e), ~t.truncated
      PROVE  \E j \in DOMAIN Trail(t) : /\ Trail(t)[j].node = e.to
                                        /\ Trail(t)[j].depth <= Trail(t)[i].depth + 1
  <2>1. ~s.truncated
    BY <1>2 DEF Grows
  <2>2. PICK j \in DOMAIN Trail(s) : /\ Trail(s)[j].node = e.to
                                     /\ Trail(s)[j].depth <= Trail(s)[i].depth + 1
    BY <1>2, <2>1 DEF LeadsOut
  <2>3. j \in DOMAIN Trail(t) /\ Trail(t)[j] = Trail(s)[j] /\ Trail(t)[i] = Trail(s)[i]
    BY DEF Grows
  <2> QED BY <2>2, <2>3
<1> QED BY <1>1, <1>2 DEF LeadsOut

LEMMA TrailOf ==
    ASSUME NEW graph, NEW s, Shaped(s, graph), NEW q, q = Trail(s)
    PROVE  /\ q \in Seq(Visits(graph)) /\ Len(q) \in Nat /\ DOMAIN q = 1..Len(q)
           /\ Len(s.hits) \in Nat /\ Len(s.pending) \in Nat /\ Len(q) = Len(s.hits) + Len(s.pending)
           /\ \A i \in DOMAIN q : i \in Nat /\ q[i].node \in graph.nodes /\ q[i].depth \in Nat
<1>1. q \in Seq(Visits(graph)) /\ Len(q) = Len(s.hits) + Len(s.pending)
  BY ConcatProperties DEF Shaped, Trail
<1>2. Len(q) \in Nat /\ DOMAIN q = 1..Len(q) /\ q \in [1..Len(q) -> Visits(graph)]
      /\ Len(s.hits) \in Nat /\ Len(s.pending) \in Nat
  BY <1>1, LenProperties DEF Shaped
<1>3. ASSUME NEW i \in DOMAIN q PROVE i \in Nat /\ q[i].node \in graph.nodes /\ q[i].depth \in Nat
  <2>1. q[i] \in Visits(graph)
    BY <1>2
  <2> QED BY <1>2, <2>1 DEF Visits
<1> QED BY <1>1, <1>2, <1>3

(* A link is admitted: the trail is longer by the chunk it leads to.       *)
Longer(q, more, x) ==
  /\ Len(q) \in Nat /\ DOMAIN q = 1..Len(q)
  /\ Len(more) = Len(q) + 1 /\ DOMAIN more = 1..(Len(q) + 1)
  /\ more[Len(q) + 1] = x /\ \A i \in DOMAIN q : more[i] = q[i]

LEMMA OnceMore ==
    ASSUME NEW q, NEW more, NEW x, Longer(q, more, x), NEW visited, NEW r, OnceEach(q, visited, r),
           x.node \notin visited, Len(q) # r.max_results, r.max_results \in Nat
    PROVE  OnceEach(more, visited \cup {x.node}, r)
<1>1. \A i \in DOMAIN more : (i \in DOMAIN q /\ more[i] = q[i]) \/ (i = Len(q) + 1 /\ more[i] = x)
  BY DEF Longer
<1>2. \A i \in DOMAIN q : i \in DOMAIN more /\ more[i] = q[i] /\ i # Len(q) + 1 /\ q[i].node # x.node
  BY DEF Longer, OnceEach
<1>3. Len(q) + 1 \in DOMAIN more /\ more[Len(q) + 1] = x
  BY DEF Longer
<1>4. \A i, j \in DOMAIN more : more[i].node = more[j].node => i = j
  BY <1>1, <1>2 DEF OnceEach
<1>5. \A n : n \in visited \cup {x.node} <=> \E i \in DOMAIN more : more[i].node = n
  BY <1>1, <1>2, <1>3 DEF OnceEach
<1>6. IsFiniteSet(visited \cup {x.node}) /\ Cardinality(visited \cup {x.node}) = Len(q) + 1
  BY FS_AddElement DEF OnceEach
<1>7. Len(q) + 1 <= r.max_results
  BY DEF OnceEach, Longer
<1> QED BY <1>4, <1>5, <1>6, <1>7 DEF OnceEach, Longer

LEMMA DepthsMore ==
    ASSUME NEW q, NEW more, NEW x, Longer(q, more, x), NEW r, NEW h \in DOMAIN q,
           BreadthFirst(q, h, r), \A i \in DOMAIN q : q[i].depth \in Nat,
           x.depth = q[h].depth + 1, q[h].depth < r.max_hops, r.max_hops \in Nat
    PROVE  BreadthFirst(more, h, r)
<1>1. \A i \in DOMAIN more : (i \in DOMAIN q /\ more[i] = q[i]) \/ (i = Len(q) + 1 /\ more[i] = x)
  BY DEF Longer
<1>2. h # 0 /\ DepthAt(q, h) = x.depth /\ DepthAt(more, h) = x.depth /\ x.depth \in Nat
  BY DEF DepthAt, Longer
<1>3. \A j \in DOMAIN q : q[j].depth <= x.depth
  BY <1>2 DEF BreadthFirst
<1>4. ASSUME NEW i \in DOMAIN more, NEW j \in DOMAIN more, i <= j
      PROVE  more[i].depth <= more[j].depth
  <2>1. CASE j = Len(q) + 1
    BY <1>1, <1>2, <1>3, <2>1 DEF Longer
  <2>2. CASE j # Len(q) + 1
    <3>1. j \in DOMAIN q /\ i \in DOMAIN q
      BY <1>1, <1>4, <2>2 DEF Longer
    <3> QED BY <1>4, <3>1 DEF Longer, BreadthFirst
  <2> QED BY <2>1, <2>2
<1>5. \A j \in DOMAIN more : more[j].depth <= r.max_hops /\ more[j].depth <= x.depth
  BY <1>1, <1>2, <1>3 DEF BreadthFirst
<1> QED BY <1>2, <1>4, <1>5 DEF BreadthFirst

LEMMA HangsMore ==
    ASSUME NEW q, NEW more, NEW x, Longer(q, more, x), NEW h \in DOMAIN q, NEW d, NEW k,
           AllHang(q, h, d), x.depth = q[h].depth + 1, k[1] = q[h].node, k[2] = x.node
    PROVE  AllHang(more, h, d \cup {k})
<1> SUFFICES ASSUME NEW j \in DOMAIN more, more[j].depth > 0
             PROVE  \E i \in DOMAIN more : HangsOn(more, h, d \cup {k}, i, j)
  BY DEF AllHang
<1>1. CASE j \in DOMAIN q
  <2>1. more[j] = q[j]
    BY <1>1 DEF Longer
  <2>2. PICK i \in DOMAIN q : HangsOn(q, h, d, i, j)
    BY <1>1, <2>1 DEF AllHang
  <2>3. i \in DOMAIN more /\ more[i] = q[i]
    BY DEF Longer
  <2>4. PICK l \in d : l[1] = q[i].node /\ l[2] = q[j].node
    BY <2>2 DEF HangsOn
  <2> QED BY <2>1, <2>2, <2>3, <2>4 DEF HangsOn
<1>2. CASE j \notin DOMAIN q
  <2>1. j = Len(q) + 1 /\ more[j] = x /\ h \in DOMAIN more /\ more[h] = q[h] /\ h < j /\ h <= h
    BY <1>2 DEF Longer
  <2> QED BY <2>1 DEF HangsOn
<1> QED BY <1>1, <1>2

LEMMA DiscoveredMore ==
    ASSUME NEW q, NEW more, NEW x, Longer(q, more, x), NEW h \in DOMAIN q, NEW d, NEW graph, NEW r,
           r.neighbor_limit \in Nat, Discovered(q, h, d, graph, r), NEW e \in graph.edges,
           NEW n, e.from = n, e.from = q[h].node, e.to = x.node, \A i \in DOMAIN q : q[i].node # x.node,
           Cardinality(KeysOf(d, n)) # r.neighbor_limit,
           NEW g, g = d \cup {KeyOfEdge(e)}
    PROVE  /\ Discovered(more, h, g, graph, r)
           /\ Cardinality(KeysOf(g, n)) = Cardinality(KeysOf(d, n)) + 1
<1>1. \A i \in DOMAIN q : i \in DOMAIN more /\ more[i] = q[i]
  BY DEF Longer
<1>2. Len(q) + 1 \in DOMAIN more /\ more[Len(q) + 1] = x /\ h \in Nat /\ h <= h
  BY DEF Longer
<1>3. ASSUME NEW f, Discovers(q, h, f) PROVE Discovers(more, h, f)
  BY <1>1, <1>3 DEF Discovers
<1>4. Discovers(more, h, e)
  BY <1>1, <1>2 DEF Discovers
<1>5. \A k \in g : \E f \in graph.edges : KeyOfEdge(f) = k /\ Discovers(more, h, f)
  BY <1>3, <1>4 DEF Discovered
<1>6. IsFiniteSet(d) /\ IsFiniteSet(g)
  BY FS_AddElement DEF Discovered
<1>7. KeyOfEdge(e) \notin d
  <2> SUFFICES ASSUME KeyOfEdge(e) \in d PROVE FALSE
    OBVIOUS
  <2>1. PICK f \in graph.edges : KeyOfEdge(f) = KeyOfEdge(e) /\ Discovers(q, h, f)
    BY DEF Discovered
  <2>2. f.to = e.to
    BY <2>1 DEF KeyOfEdge
  <2> QED BY <2>1, <2>2 DEF Discovers
<1>8. KeyOfEdge(e)[1] = e.from
  BY DEF KeyOfEdge
<1>9. KeysOf(g, e.from) = KeysOf(d, e.from) \cup {KeyOfEdge(e)}
  BY <1>8 DEF KeysOf
<1>10. \A m : m # e.from => KeysOf(g, m) = KeysOf(d, m)
  BY <1>8 DEF KeysOf
<1>11. IsFiniteSet(KeysOf(d, e.from)) /\ Cardinality(KeysOf(d, e.from)) \in Nat
  <2>1. KeysOf(d, e.from) \in SUBSET d
    BY DEF KeysOf
  <2> QED BY <1>6, <2>1, FS_Subset, FS_CardinalityType
<1>12. Cardinality(KeysOf(g, e.from)) = Cardinality(KeysOf(d, e.from)) + 1
  <2>1. KeyOfEdge(e) \notin KeysOf(d, e.from)
    BY <1>7 DEF KeysOf
  <2> QED BY <1>9, <1>11, <2>1, FS_AddElement
<1>13. ASSUME NEW m PROVE Cardinality(KeysOf(g, m)) <= r.neighbor_limit
  <2>1. CASE m = e.from
    <3>1. Cardinality(KeysOf(d, e.from)) <= r.neighbor_limit
      BY DEF Discovered
    <3> QED BY <1>11, <1>12, <2>1, <3>1
  <2>2. CASE m # e.from
    BY <1>10, <2>2 DEF Discovered
  <2> QED BY <2>1, <2>2
<1> QED BY <1>5, <1>6, <1>12, <1>13 DEF Discovered

LEMMA SeedsMore ==
    ASSUME NEW q, NEW more, NEW x, Longer(q, more, x), NEW first, SeedsFirst(q, first),
           x.depth \in Nat \ {0}
    PROVE  SeedsFirst(more, first)
<1>1. \A i \in DOMAIN more : (i \in DOMAIN q /\ more[i] = q[i]) \/ (i = Len(q) + 1 /\ more[i] = x)
  BY DEF Longer
<1>2. \A i \in DOMAIN q : i \in DOMAIN more /\ more[i] = q[i]
  BY DEF Longer
<1> QED BY <1>1, <1>2 DEF SeedsFirst

LEMMA AdmitKeeps ==
    ASSUME NEW graph, NEW r, IsSearched(graph, r), NEW first, NEW s, SearchHolds(s, graph, r, first),
           NEW h, h = Len(s.hits), h \in DOMAIN Trail(s), NEW at, at = Trail(s)[h],
           at.depth < r.max_hops, NEW e \in graph.edges, e.from = at.node,
           s.admitted = Cardinality(KeysOf(s.discovery, at.node)),
           NEW t, t = AdmitNeighbor(s, e, at.depth, r)
    PROVE  /\ SearchHolds(t, graph, r, first) /\ t.hits = s.hits
           /\ t.admitted = Cardinality(KeysOf(t.discovery, at.node))
           /\ Grows(s, t) /\ LeadsOut(t, h, e)
<1> DEFINE q == Trail(s)
           more == Trail(t)
           x == [node |-> e.to, depth |-> at.depth + 1]
<1>0. e.to \in graph.nodes
  BY DEF IsSearched
<1>1. /\ Shaped(s, graph) /\ OnceEach(q, s.visited, r) /\ BreadthFirst(q, h, r)
      /\ AllHang(q, h, s.discovery) /\ Discovered(q, h, s.discovery, graph, r)
      /\ SeedsFirst(q, first)
  BY DEF SearchHolds
<1>2. /\ q \in Seq(Visits(graph)) /\ Len(q) \in Nat /\ DOMAIN q = 1..Len(q)
      /\ \A i \in DOMAIN q : i \in Nat /\ q[i].node \in graph.nodes /\ q[i].depth \in Nat
  BY <1>1, TrailOf
<1>3. h \in DOMAIN q /\ at = q[h] /\ h # 0 /\ at.depth \in Nat /\ r.max_hops \in Nat
  BY <1>2 DEF IsSearched
<1>4. /\ DOMAIN t = SearchFields /\ t.hits = s.hits
      /\ (e.to \in s.visited /\ t = s) \/ NotAdmitted(s, t, e, r) \/ IsAdmitted(s, t, e, x, r)
  <2>1. PICK depth : depth = at.depth
    OBVIOUS
  <2>2. PICK it : it = x
    OBVIOUS
  <2>3. DOMAIN s = SearchFields /\ t = AdmitNeighbor(s, e, depth, r)
        /\ it = [node |-> e.to, depth |-> depth + 1]
    BY <1>1, <2>1, <2>2 DEF Shaped
  <2>4. /\ DOMAIN t = SearchFields /\ t.hits = s.hits
        /\ (e.to \in s.visited /\ t = s) \/ NotAdmitted(s, t, e, r) \/ IsAdmitted(s, t, e, it, r)
    BY ONLY <2>3, AdmitIs
  <2> QED BY ONLY <2>2, <2>4
<1>5. CASE e.to \in s.visited /\ t = s
  <2>1. PICK j \in DOMAIN q : q[j].node = e.to
    BY <1>1, <1>5 DEF OnceEach
  <2>2. q[j].depth <= q[h].depth + 1
    BY <1>1, <1>3 DEF BreadthFirst, DepthAt
  <2>3. LeadsOut(s, h, e)
    BY <2>1, <2>2 DEF LeadsOut
  <2> QED BY <1>5, <2>3 DEF Grows
<1>6. CASE NotAdmitted(s, t, e, r)
  <2> USE <1>6 DEF NotAdmitted
  <2>1. more = q /\ Len(t.hits) = h
    BY <1>4, <1>6 DEF Trail
  <2>2. Shaped(t, graph)
    BY <1>1, <1>4, <1>6 DEF Shaped
  <2>3. SearchHolds(t, graph, r, first)
    <3> HIDE DEF q, more
    <3>1. /\ Trail(t) = q /\ t.visited = s.visited /\ t.discovery = s.discovery
      BY <1>6, <2>1 DEF more
    <3> QED BY <1>1, <2>1, <2>2, <3>1 DEF SearchHolds
  <2>4. Grows(s, t) /\ LeadsOut(t, h, e)
    BY <1>6, <2>1 DEF Grows, LeadsOut
  <2> QED BY <1>4, <1>6, <2>3, <2>4
<1>7. CASE IsAdmitted(s, t, e, x, r)
  <2> USE <1>7 DEF IsAdmitted
  <2>1. x \in Visits(graph) /\ x.node = e.to /\ x.depth = at.depth + 1
    <3>1. e.to \in graph.nodes
      BY <1>0
    <3> QED BY <1>3, <3>1 DEF Visits
  <2> HIDE DEF x
  <2>2. more = s.hits \o Append(s.pending, x) /\ q = s.hits \o s.pending /\ Len(t.hits) = h
    BY <1>4, <1>7, Zenon DEF Trail
  <2>3. Append(s.pending, x) \in Seq(Visits(graph)) /\ Longer(q, more, x)
    <3> HIDE DEF q, more
    <3>1. s.hits \in Seq(Visits(graph)) /\ s.pending \in Seq(Visits(graph))
      BY <1>1 DEF Shaped
    <3>2. PICK P : P = Visits(graph)
      OBVIOUS
    <3>3. PICK a : a = s.hits
      OBVIOUS
    <3>4. PICK b : b = s.pending
      OBVIOUS
    <3>5. /\ Append(b, x) \in Seq(P) /\ Len(q) \in Nat /\ Len(more) = Len(q) + 1
          /\ more[Len(q) + 1] = x /\ DOMAIN q = 1..Len(q) /\ DOMAIN more = 1..(Len(q) + 1)
          /\ \A i \in DOMAIN q : more[i] = q[i]
      <4>1. a \in Seq(P) /\ b \in Seq(P) /\ x \in P /\ q = a \o b /\ more = a \o Append(b, x)
        BY <2>1, <2>2, <3>1, <3>2, <3>3, <3>4
      <4> QED BY ONLY <4>1, TrailAdmits
    <3> QED BY <3>2, <3>4, <3>5 DEF Longer
  <2>4. Shaped(t, graph)
    BY <1>1, <1>4, <1>7, <2>3 DEF Shaped
  <2> HIDE DEF q, more
  <2>5. \A i \in DOMAIN q : q[i].node # x.node
    BY <1>1, <1>7, <2>1 DEF OnceEach
  <2>6. OnceEach(more, t.visited, r)
    <3>1. Len(q) # r.max_results /\ r.max_results \in Nat /\ x.node \notin s.visited
      BY <1>1, <1>7, <2>1 DEF OnceEach, IsSearched
    <3> QED BY <1>1, <1>7, <2>1, <2>3, <3>1, OnceMore
  <2>7. BreadthFirst(more, h, r)
    BY <1>1, <1>2, <1>3, <2>1, <2>3, DepthsMore
  <2>8. AllHang(more, h, t.discovery)
    <3>1. KeyOfEdge(e)[1] = q[h].node /\ KeyOfEdge(e)[2] = x.node
      BY <1>3, <2>1 DEF KeyOfEdge
    <3> QED BY <1>1, <1>3, <1>7, <2>1, <2>3, <3>1, HangsMore
  <2>9. /\ Discovered(more, h, t.discovery, graph, r)
        /\ Cardinality(KeysOf(t.discovery, e.from)) = Cardinality(KeysOf(s.discovery, e.from)) + 1
    <3>1. Cardinality(KeysOf(s.discovery, e.from)) # r.neighbor_limit /\ r.neighbor_limit \in Nat
      BY <1>7 DEF IsSearched
    <3>2. PICK d : d = s.discovery
      OBVIOUS
    <3>3. PICK g : g = t.discovery
      OBVIOUS
    <3>4. g = d \cup {KeyOfEdge(e)} /\ e.from = q[h].node /\ e.to = x.node
      BY <1>3, <1>7, <2>1, <3>2, <3>3
    <3>5. Discovered(q, h, d, graph, r) /\ Cardinality(KeysOf(d, e.from)) # r.neighbor_limit
      BY <1>1, <3>1, <3>2
    <3>6. PICK n : n = e.from
      OBVIOUS
    <3>7. /\ h \in DOMAIN q /\ Longer(q, more, x) /\ r.neighbor_limit \in Nat
          /\ e \in graph.edges /\ e.from = n /\ Cardinality(KeysOf(d, n)) # r.neighbor_limit
      BY <1>3, <2>3, <3>1, <3>5, <3>6
    <3>8. Discovered(more, h, g, graph, r) /\ Cardinality(KeysOf(g, n)) = Cardinality(KeysOf(d, n)) + 1
      <4>1. /\ Longer(q, more, x) /\ h \in DOMAIN q /\ r.neighbor_limit \in Nat
            /\ Discovered(q, h, d, graph, r) /\ e \in graph.edges /\ e.from = n /\ e.from = q[h].node
            /\ e.to = x.node /\ \A i \in DOMAIN q : q[i].node # x.node
        BY ONLY <2>5, <3>4, <3>5, <3>7
      <4>2. Cardinality(KeysOf(d, n)) # r.neighbor_limit /\ g = d \cup {KeyOfEdge(e)}
        BY ONLY <3>4, <3>7
      <4> QED BY ONLY <4>1, <4>2, DiscoveredMore
    <3> QED BY <3>2, <3>3, <3>6, <3>8
  <2>10. SeedsFirst(more, first)
    <3>1. x.depth \in Nat \ {0}
      BY <1>3, <2>1
    <3> QED BY <1>1, <2>3, <3>1, SeedsMore
  <2>11. SearchHolds(t, graph, r, first)
    <3>1. Trail(t) = more
      BY DEF more
    <3> QED BY <2>2, <2>4, <2>6, <2>7, <2>8, <2>9, <2>10, <3>1 DEF SearchHolds
  <2>12. Grows(s, t)
    <3>1. \A i \in DOMAIN q : i \in DOMAIN more /\ more[i] = q[i]
      BY <2>3 DEF Longer
    <3> QED BY <1>7, <3>1 DEF Grows, q, more
  <2>13. LeadsOut(t, h, e)
    <3>1. Len(q) + 1 \in DOMAIN more /\ more[Len(q) + 1] = x /\ more[h] = q[h]
      BY <1>3, <2>3 DEF Longer
    <3>2. x.depth <= more[h].depth + 1
      BY <1>3, <2>1, <3>1
    <3> QED BY <2>1, <3>1, <3>2 DEF LeadsOut, more
  <2>14. t.admitted = Cardinality(KeysOf(t.discovery, at.node))
    BY <1>7, <2>9
  <2> QED BY <1>4, <2>11, <2>12, <2>13, <2>14
<1> QED BY <1>4, <1>5, <1>6, <1>7

(* A visit: the next chunk of the trail, then every link it has.           *)
Admitting(t, s, h, at, graph, r, first) ==
  /\ SearchHolds(t, graph, r, first) /\ t.hits = s.hits /\ Grows(s, t)
  /\ t.admitted = Cardinality(KeysOf(t.discovery, at.node))
  /\ h \in DOMAIN Trail(t) /\ Trail(t)[h] = at

LEMMA AdmittingMore ==
    ASSUME NEW graph, NEW r, IsSearched(graph, r), NEW first, NEW s, NEW h, h = Len(s.hits), NEW at,
           at.depth < r.max_hops, NEW t, Admitting(t, s, h, at, graph, r, first),
           NEW e \in graph.edges, e.from = at.node, NEW u, u = AdmitNeighbor(t, e, at.depth, r)
    PROVE  Admitting(u, s, h, at, graph, r, first) /\ LeadsOut(u, h, e) /\ Grows(t, u)
<1>1. /\ SearchHolds(t, graph, r, first) /\ h = Len(t.hits) /\ h \in DOMAIN Trail(t)
      /\ at = Trail(t)[h] /\ t.admitted = Cardinality(KeysOf(t.discovery, at.node))
  BY DEF Admitting
<1>2. /\ SearchHolds(u, graph, r, first) /\ u.hits = t.hits
      /\ u.admitted = Cardinality(KeysOf(u.discovery, at.node))
      /\ Grows(t, u) /\ LeadsOut(u, h, e)
  BY <1>1, AdmitKeeps
<1>3. Grows(s, u) /\ t.hits = s.hits
  BY <1>2, GrowsOn DEF Admitting
<1>4. h \in DOMAIN Trail(u) /\ Trail(u)[h] = at
  BY <1>1, <1>2 DEF Grows
<1> QED BY <1>2, <1>3, <1>4 DEF Admitting

LEMMA AdmitsKeep ==
    ASSUME NEW graph, NEW r, IsSearched(graph, r), NEW first, NEW s, NEW h, h = Len(s.hits), NEW at,
           at.depth < r.max_hops, Admitting(s, s, h, at, graph, r, first),
           NEW t, t = AdmitsOf(s, at, graph, r)
    PROVE  /\ Admitting(t, s, h, at, graph, r, first)
           /\ \A e \in OutOf(graph, at.node) : LeadsOut(t, h, e)
<1>1. PICK S : S = OutOf(graph, at.node)
  OBVIOUS
<1>2. PICK links : links = LinksInOrder(graph, at.node)
  OBVIOUS
<1>3. PICK n : n = Cardinality(S)
  OBVIOUS
<1>4. IsEdges(graph.edges)
  <2>1. graph.edges \subseteq [from : Int, to : Int, kind : Int, weight : Int]
    BY DEF IsSearched
  <2> QED BY <2>1 DEF IsSearched, IsEdges
<1>5. /\ n \in Nat /\ links \in Seq(S) /\ DOMAIN links = 1 .. n
      /\ \A e \in S : \E i \in 1 .. n : links[i] = e
  <2>1. PICK m : m = at.node
    OBVIOUS
  <2>2. S = OutOf(graph, m) /\ links = LinksInOrder(graph, m)
    BY <1>1, <1>2, <2>1
  <2> QED BY <1>3, <1>4, <2>2, LinksAre
<1>6. \A i \in 1 .. n : links[i] \in graph.edges /\ links[i].from = at.node
  <2>1. \A i \in 1 .. n : links[i] \in S
    BY <1>5
  <2> QED BY <1>1, <2>1 DEF OutOf
<1>7. PICK o : o = [kind |-> "admit", links |-> links, depth |-> at.depth, r |-> r]
  OBVIOUS
<1>8. PICK f : Runs(o, s, f, n) /\ t = f[n]
  BY ONLY <1>2, <1>5, <1>7, AdmitRuns, t = AdmitsOf(s, at, graph, r)
<1>9. \A i \in 1 .. n : f[i] = AdmitNeighbor(f[i - 1], links[i], at.depth, r)
  <2>1. \A v, x : Turn(o, v, x) = AdmitNeighbor(v, links[x], at.depth, r)
    <3>1. o.kind = "admit" /\ o.links = links /\ o.depth = at.depth /\ o.r = r
      BY <1>7
    <3> QED BY ONLY <3>1 DEF Turn
  <2> QED BY <1>8, <2>1 DEF Runs
<1> DEFINE Good(i) == /\ Admitting(f[i], s, h, at, graph, r, first)
                      /\ \A y \in 1 .. i : LeadsOut(f[i], h, links[y])
           N == {i \in Nat : i <= n => Good(i)}
<1>10. 0 \in N
  BY <1>8 DEF Runs
<1>11. \A i \in N : i + 1 \in N
  <2> SUFFICES ASSUME NEW i \in N, i + 1 <= n PROVE Good(i + 1)
    OBVIOUS
  <2>1. PICK u : u = f[i]
    OBVIOUS
  <2>2. PICK v : v = f[i + 1]
    OBVIOUS
  <2>3. PICK e : e = links[i + 1]
    OBVIOUS
  <2>4. /\ Admitting(u, s, h, at, graph, r, first) /\ \A y \in 1 .. i : LeadsOut(u, h, links[y])
        /\ i \in Nat
    BY <2>1, <1>5
  <2>5. i + 1 \in 1 .. n /\ i + 1 - 1 = i
    BY <1>5, <2>4
  <2>6. v = AdmitNeighbor(u, e, at.depth, r) /\ e \in graph.edges /\ e.from = at.node
    BY <1>6, <1>9, <2>1, <2>2, <2>3, <2>5
  <2>7. Admitting(v, s, h, at, graph, r, first) /\ LeadsOut(v, h, e) /\ Grows(u, v)
    BY <2>4, <2>6, AdmittingMore
  <2>8. \A x : LeadsOut(u, h, x) => LeadsOut(v, h, x)
    <3>1. h \in DOMAIN Trail(u)
      BY <2>4 DEF Admitting
    <3> QED BY <2>7, <3>1, GrowsOn
  <2>9. \A y \in 1 .. i + 1 : y \in 1 .. i \/ y = i + 1
    BY <2>4
  <2>10. \A y \in 1 .. i + 1 : LeadsOut(v, h, links[y])
    BY <2>3, <2>4, <2>7, <2>8, <2>9
  <2> QED BY <2>2, <2>7, <2>10
<1>12. N = Nat
  <2> HIDE DEF N
  <2> QED BY <1>10, <1>11, NaturalSets DEF N
<1>13. Good(n)
  BY <1>5, <1>12
<1> QED BY <1>1, <1>5, <1>8, <1>13

LooksOut(s, graph, r) ==
  \A i \in 1..Len(s.hits) : Trail(s)[i].depth < r.max_hops =>
    \A e \in OutOf(graph, Trail(s)[i].node) : LeadsOut(s, i, e)

(* The next chunk of the trail is a hit, and nothing was admitted for it.  *)
LEMMA SeenKeeps ==
    ASSUME NEW graph, NEW r, IsSearched(graph, r), NEW first, NEW s, SearchHolds(s, graph, r, first),
           s.pending # <<>>, NEW h, h = Len(s.hits) + 1, NEW t, t = NextSeen(s)
    PROVE  /\ Len(t.hits) = h /\ Trail(t) = Trail(s) /\ t.truncated = s.truncated
           /\ h \in DOMAIN Trail(t) /\ Trail(t)[h] = Head(s.pending)
           /\ Admitting(t, t, h, Trail(t)[h], graph, r, first)
<1> DEFINE q == Trail(s)
           k == Len(s.hits)
<1>1. /\ Shaped(s, graph) /\ OnceEach(q, s.visited, r) /\ BreadthFirst(q, k, r)
      /\ AllHang(q, k, s.discovery) /\ Discovered(q, k, s.discovery, graph, r)
      /\ SeedsFirst(q, first)
  BY DEF SearchHolds
<1>2. /\ q \in Seq(Visits(graph)) /\ Len(q) \in Nat /\ DOMAIN q = 1..Len(q) /\ k \in Nat
      /\ \A i \in DOMAIN q : i \in Nat /\ q[i].node \in graph.nodes /\ q[i].depth \in Nat
  BY <1>1, TrailOf
<1>3. /\ DOMAIN t = SearchFields
      /\ t.hits = Append(s.hits, Head(s.pending)) /\ t.pending = Tail(s.pending)
      /\ t.admitted = 0 /\ t.visited = s.visited /\ t.discovery = s.discovery
      /\ t.truncated = s.truncated
  BY <1>1, SeenIs DEF Shaped
<1>4. /\ t.hits \in Seq(Visits(graph)) /\ t.pending \in Seq(Visits(graph))
      /\ Trail(t) = q /\ Len(t.hits) = h /\ q[h] = Head(s.pending) /\ h <= Len(q)
  <2>1. PICK P : P = Visits(graph)
    OBVIOUS
  <2>2. PICK a : a = s.hits
    OBVIOUS
  <2>3. PICK b : b = s.pending
    OBVIOUS
  <2>4. a \in Seq(P) /\ b \in Seq(P) /\ b # <<>>
    BY <1>1, <2>1, <2>2, <2>3 DEF Shaped
  <2>5. /\ Append(a, Head(b)) \in Seq(P) /\ Tail(b) \in Seq(P)
        /\ Append(a, Head(b)) \o Tail(b) = a \o b
        /\ Len(Append(a, Head(b))) = Len(a) + 1
        /\ (a \o b)[Len(a) + 1] = Head(b) /\ Len(a) + 1 <= Len(a \o b)
    BY ONLY <2>4, TrailVisits
  <2> QED BY <1>3, <2>1, <2>2, <2>3, <2>5 DEF Trail
<1> HIDE DEF q
<1>5. h \in DOMAIN q /\ h = k + 1 /\ h # 0 /\ \A i \in DOMAIN q : i <= k => i <= h /\ i # h
  BY <1>2, <1>4
<1>6. Shaped(t, graph)
  BY <1>1, <1>3, <1>4 DEF Shaped
<1>7. BreadthFirst(q, h, r)
  <2>1. ASSUME NEW j \in DOMAIN q PROVE q[j].depth <= q[h].depth + 1
    <3>1. q[j].depth <= DepthAt(q, k) /\ q[j].depth \in Nat /\ q[h].depth \in Nat
      BY <1>1, <1>2, <1>5 DEF BreadthFirst
    <3>2. CASE k = 0
      BY <3>1, <3>2 DEF DepthAt
    <3>3. CASE k # 0
      <4>1. k \in DOMAIN q /\ k <= h
        BY <1>2, <1>5, <3>3
      <4>2. q[k].depth <= q[h].depth /\ q[k].depth \in Nat
        BY <1>1, <1>2, <1>5, <4>1 DEF BreadthFirst
      <4> QED BY <3>1, <3>3, <4>2 DEF DepthAt
    <3> QED BY <3>2, <3>3
  <2> QED BY <1>1, <1>5, <2>1 DEF BreadthFirst, DepthAt
<1>8. AllHang(q, h, s.discovery)
  BY <1>1, <1>5 DEF AllHang, HangsOn
<1>9. Discovered(q, h, s.discovery, graph, r)
  <2>1. ASSUME NEW e, Discovers(q, k, e) PROVE Discovers(q, h, e)
    BY <1>5, <2>1 DEF Discovers
  <2> QED BY <1>1, <2>1 DEF Discovered
<1>10. SearchHolds(t, graph, r, first)
  BY <1>1, <1>3, <1>4, <1>6, <1>7, <1>8, <1>9 DEF SearchHolds
<1>11. KeysOf(s.discovery, q[h].node) = {}
  <2> SUFFICES ASSUME NEW l \in s.discovery, l[1] = q[h].node PROVE FALSE
    BY DEF KeysOf
  <2>1. PICK e \in graph.edges : KeyOfEdge(e) = l /\ Discovers(q, k, e)
    BY <1>1 DEF Discovered
  <2>2. e.from = q[h].node
    BY <2>1 DEF KeyOfEdge
  <2>3. PICK i \in DOMAIN q : i <= k /\ q[i].node = q[h].node
    BY <2>1, <2>2 DEF Discovers
  <2>4. i = h
    BY <1>1, <1>5, <2>3 DEF OnceEach
  <2> QED BY <1>5, <2>3, <2>4
<1>12. t.admitted = Cardinality(KeysOf(t.discovery, q[h].node))
  BY <1>3, <1>11, FS_EmptySet
<1>13. Admitting(t, t, h, q[h], graph, r, first)
  BY <1>4, <1>5, <1>10, <1>12 DEF Admitting, Grows
<1> QED BY <1>3, <1>4, <1>5, <1>13 DEF q

LEMMA VisitKeeps ==
    ASSUME NEW graph, NEW r, IsSearched(graph, r), NEW first, NEW s, SearchHolds(s, graph, r, first),
           LooksOut(s, graph, r), NEW t, t = VisitNext(s, graph, r)
    PROVE  /\ SearchHolds(t, graph, r, first) /\ LooksOut(t, graph, r)
           /\ IF s.pending = <<>> THEN t = s ELSE Len(t.hits) = Len(s.hits) + 1
<1>1. CASE s.pending = <<>>
  <2>1. t = s
    BY <1>1, VisitIs
  <2> QED BY <1>1, <2>1
<1>2. CASE s.pending # <<>>
  <2>1. PICK h : h = Len(s.hits) + 1
    OBVIOUS
  <2>2. PICK u : u = NextSeen(s)
    OBVIOUS
  <2>3. PICK at : at = Trail(u)[h]
    OBVIOUS
  <2>4. /\ Len(u.hits) = h /\ Trail(u) = Trail(s) /\ u.truncated = s.truncated
        /\ h \in DOMAIN Trail(u) /\ at = Head(s.pending)
        /\ Admitting(u, u, h, at, graph, r, first)
    BY <1>2, <2>1, <2>2, <2>3, SeenKeeps
  <2>5. SearchHolds(u, graph, r, first) /\ h - 1 = Len(s.hits) /\ Len(s.hits) \in Nat
    <3>1. Len(s.hits) \in Nat
      BY DEF SearchHolds, Shaped
    <3> QED BY <2>1, <2>4, <3>1 DEF Admitting
  <2>6. ASSUME NEW i \in 1 .. Len(s.hits), Trail(u)[i].depth < r.max_hops,
               NEW e \in OutOf(graph, Trail(u)[i].node)
        PROVE  LeadsOut(u, i, e)
    <3>1. LeadsOut(s, i, e)
      BY <2>4, <2>6 DEF LooksOut
    <3> QED BY <2>4, <3>1 DEF LeadsOut
  <2>7. \A i \in 1 .. Len(s.hits) : i \in DOMAIN Trail(u)
    <3>1. DOMAIN Trail(u) = 1 .. Len(Trail(u)) /\ Len(Trail(u)) \in Nat
      BY <2>5, TrailOf DEF SearchHolds
    <3> QED BY <2>1, <2>4, <2>5, <3>1
  <2>8. \A i \in 1 .. h : i \in 1 .. Len(s.hits) \/ i = h
    BY <2>1, <2>5
  <2>9. CASE at.depth >= r.max_hops
    <3>1. t = u
      BY <1>2, <2>2, <2>4, <2>9, VisitIs
    <3>2. ~(at.depth < r.max_hops)
      <4>1. at.depth \in Nat /\ r.max_hops \in Nat
        BY <2>3, <2>4, <2>5, TrailOf DEF SearchHolds, IsSearched
      <4> QED BY <2>9, <4>1
    <3>3. LooksOut(u, graph, r)
      BY <2>3, <2>4, <2>6, <2>8, <3>2 DEF LooksOut
    <3> QED BY <1>2, <2>1, <2>4, <2>5, <3>1, <3>3
  <2>10. CASE ~(at.depth >= r.max_hops)
    <3>1. at.depth < r.max_hops
      <4>1. at.depth \in Nat /\ r.max_hops \in Nat
        BY <2>3, <2>4, <2>5, TrailOf DEF SearchHolds, IsSearched
      <4> QED BY <2>10, <4>1
    <3>2. t = AdmitsOf(u, at, graph, r)
      BY <1>2, <2>2, <2>4, <2>10, VisitIs
    <3>3. /\ Admitting(t, u, h, at, graph, r, first)
          /\ \A e \in OutOf(graph, at.node) : LeadsOut(t, h, e)
      BY <2>4, <3>1, <3>2, AdmitsKeep
    <3>4. SearchHolds(t, graph, r, first) /\ t.hits = u.hits /\ Grows(u, t) /\ Trail(t)[h] = at
      BY <3>3 DEF Admitting
    <3>5. ASSUME NEW i \in 1 .. Len(t.hits), Trail(t)[i].depth < r.max_hops,
                 NEW e \in OutOf(graph, Trail(t)[i].node)
          PROVE  LeadsOut(t, i, e)
      <4>1. CASE i = h
        BY <3>3, <3>4, <3>5, <4>1
      <4>2. CASE i \in 1 .. Len(s.hits)
        <5>1. i \in DOMAIN Trail(u) /\ Trail(t)[i] = Trail(u)[i]
          BY <2>7, <3>4, <4>2 DEF Grows
        <5>2. LeadsOut(u, i, e)
          BY <2>6, <3>5, <4>2, <5>1
        <5> QED BY <3>4, <5>1, <5>2, GrowsOn
      <4> QED BY <2>4, <2>8, <3>4, <4>1, <4>2
    <3> QED BY <1>2, <2>1, <2>4, <3>4, <3>5 DEF LooksOut
  <2> QED BY <2>9, <2>10
<1> QED BY <1>1, <1>2

(* A search begins with its seeds, and ends when nothing is pending.       *)
StartOf(seeds) ==
  [hits |-> <<>>, visited |-> Range(seeds), admitted |-> 0,
   pending |-> [i \in DOMAIN seeds |-> [node |-> seeds[i], depth |-> 0]],
   discovery |-> {}, truncated |-> FALSE]

LEMMA SearchStarts ==
    ASSUME NEW graph, NEW r, IsSearched(graph, r), NEW first,
           first = First(graph.nodes, r.seed_limit, SimilarPairs(graph.nodes, r)),
           NEW seeds, seeds = VectorRanks(graph.nodes, r.seed_limit, r), NEW s, s = StartOf(seeds)
    PROVE  SearchHolds(s, graph, r, first) /\ LooksOut(s, graph, r) /\ s.hits = <<>>
<1>1. PICK nodes : nodes = graph.nodes
  OBVIOUS
<1>2. PICK limit : limit = r.seed_limit
  OBVIOUS
<1>3. PICK R : R = SimilarPairs(nodes, r)
  OBVIOUS
<1>4. nodes \subseteq Int /\ IsFiniteSet(nodes) /\ Compares(r, nodes) /\ limit \in Nat
      /\ limit <= r.max_results /\ r.max_results \in Nat /\ r.neighbor_limit \in Nat /\ r.max_hops \in Nat
  BY <1>1, <1>2 DEF IsSearched
<1>5. first = First(nodes, limit, R) /\ seeds = VectorRanks(nodes, limit, r)
  BY <1>1, <1>2, <1>3
<1>6. InStrictOrder(nodes, R)
  BY <1>3, <1>4, SimilarOrders
<1>7. IsListOf(seeds, first, R) /\ first \in SUBSET nodes
  <2>1. IsListOf(seeds, first, R)
    BY ONLY <1>3, <1>4, <1>5, RanksAre
  <2>2. first \in SUBSET nodes
    BY <1>5 DEF First
  <2> QED BY <2>1, <2>2
<1>8. IsFiniteSet(first) /\ InStrictOrder(first, R)
  BY <1>4, <1>6, <1>7, SubsetOrder, FS_Subset
<1>9. PICK n : n = Cardinality(first)
  OBVIOUS
<1>10. n \in Nat /\ n <= r.max_results
  <2>1. n = IF Cardinality(nodes) > limit THEN limit ELSE Cardinality(nodes)
    BY <1>4, <1>5, <1>6, <1>9, FirstCount
  <2>2. Cardinality(nodes) \in Nat
    BY <1>4, FS_CardinalityType
  <2> QED BY <1>4, <2>1, <2>2
<1>11. /\ DOMAIN seeds = 1 .. n /\ \A i \in 1 .. n : seeds[i] \in first
       /\ \A x \in first : \E i \in 1 .. n : seeds[i] = x
       /\ \A i, j \in 1 .. n : i < j => <<seeds[i], seeds[j]>> \in R
  <2>1. DOMAIN seeds = 1 .. n /\ \A i \in 1 .. n : seeds[i] \in first
    BY <1>7, <1>9, <1>10 DEF IsListOf
  <2>2. /\ \A x \in first : \E i \in DOMAIN seeds : seeds[i] = x
        /\ \A i, j \in DOMAIN seeds : i < j => <<seeds[i], seeds[j]>> \in R
    BY ONLY <1>7, <1>8, ListHolds
  <2> QED BY <2>1, <2>2
<1>12. ASSUME NEW i \in 1 .. n, NEW j \in 1 .. n, seeds[i] = seeds[j] PROVE i = j
  <2>1. <<seeds[i], seeds[i]>> \notin R
    BY <1>8, <1>11 DEF InStrictOrder
  <2> QED BY <1>10, <1>11, <1>12, <2>1
<1> DEFINE p == [i \in DOMAIN seeds |-> [node |-> seeds[i], depth |-> 0]]
           P == Visits(graph)
<1>13. /\ DOMAIN s = SearchFields /\ s.hits = <<>> /\ s.visited = Range(seeds)
       /\ s.pending = p /\ s.discovery = {} /\ s.truncated = FALSE
  BY DEF StartOf, SearchFields
<1>14. \A i \in 1 .. n : p[i].node = seeds[i] /\ p[i].depth = 0 /\ p[i] \in P
  BY <1>1, <1>7, <1>11 DEF Visits
<1>15. p \in Seq(P) /\ DOMAIN p = 1 .. n /\ Len(p) = n
  <2>1. DOMAIN p = 1 .. n /\ p = [i \in 1 .. n |-> p[i]]
    BY <1>11
  <2> HIDE DEF p, P
  <2>2. p \in [1 .. n -> P]
    BY <1>14, <2>1
  <2> QED BY <1>10, <2>2, IsASeq
<1> HIDE DEF p, P
<1>16. Trail(s) = p /\ <<>> \in Seq(P) /\ Len(s.hits) = 0
  BY <1>13, <1>15, ConcatEmptySeq, EmptySeq DEF Trail
<1>17. Shaped(s, graph)
  BY <1>13, <1>15, <1>16 DEF Shaped, P
<1>18. OnceEach(p, s.visited, r)
  <2>1. s.visited = first
    BY <1>11, <1>13 DEF Range
  <2>2. \A x : x \in first <=> \E i \in 1 .. n : p[i].node = x
    BY <1>11, <1>14
  <2>3. \A i, j \in 1 .. n : p[i].node = p[j].node => i = j
    BY <1>12, <1>14
  <2> QED BY <1>8, <1>9, <1>10, <1>15, <2>1, <2>2, <2>3 DEF OnceEach
<1>19. BreadthFirst(p, 0, r)
  BY <1>4, <1>14, <1>15 DEF BreadthFirst, DepthAt
<1>20. AllHang(p, 0, {})
  BY <1>14, <1>15 DEF AllHang
<1>21. Discovered(p, 0, {}, graph, r)
  <2>1. \A x : KeysOf({}, x) = {}
    BY DEF KeysOf
  <2> QED BY <1>4, <2>1, FS_EmptySet DEF Discovered
<1>22. SeedsFirst(p, first)
  <2>1. \A x : x \in first <=> \E i \in 1 .. n : p[i].node = x /\ p[i].depth = 0
    BY <1>11, <1>14
  <2> QED BY <1>15, <2>1 DEF SeedsFirst
<1>23. LooksOut(s, graph, r)
  BY <1>16 DEF LooksOut
<1> QED BY <1>13, <1>16, <1>17, <1>18, <1>19, <1>20, <1>21, <1>22, <1>23 DEF SearchHolds

LEMMA SearchEnds ==
    ASSUME NEW graph, NEW r, IsSearched(graph, r), NEW first, NEW s, SearchHolds(s, graph, r, first),
           LooksOut(s, graph, r), s.hits = <<>>, NEW t, t = Explore(s, graph, r)
    PROVE  SearchHolds(t, graph, r, first) /\ LooksOut(t, graph, r) /\ t.pending = <<>>
<1>1. PICK n : n = Cardinality(graph.nodes)
  OBVIOUS
<1>2. n \in Nat
  BY <1>1, FS_CardinalityType DEF IsSearched
<1>3. PICK o : o = [kind |-> "visit", graph |-> graph, r |-> r]
  OBVIOUS
<1>4. PICK f : Runs(o, s, f, n) /\ t = f[n]
  BY ONLY <1>1, <1>2, <1>3, VisitRuns, t = Explore(s, graph, r)
<1>5. f[0] = s /\ \A i \in 1 .. n : f[i] = VisitNext(f[i - 1], graph, r)
  <2>1. \A v, x : Turn(o, v, x) = VisitNext(v, graph, r)
    <3>1. o.kind = "visit" /\ o.graph = graph /\ o.r = r
      BY <1>3
    <3> QED BY ONLY <3>1 DEF Turn
  <2> QED BY <1>4, <2>1 DEF Runs
<1> DEFINE Good(u, i) == /\ SearchHolds(u, graph, r, first) /\ LooksOut(u, graph, r)
                         /\ u.pending = <<>> \/ Len(u.hits) = i
           N == {i \in Nat : i <= n => Good(f[i], i)}
<1>6. 0 \in N
  BY <1>5
<1>7. \A i \in N : i + 1 \in N
  <2> SUFFICES ASSUME NEW i \in N, i + 1 <= n PROVE Good(f[i + 1], i + 1)
    OBVIOUS
  <2>1. PICK u : u = f[i]
    OBVIOUS
  <2>2. PICK v : v = f[i + 1]
    OBVIOUS
  <2>3. i + 1 \in 1 .. n /\ i + 1 - 1 = i /\ i \in Nat /\ Good(u, i)
    BY <1>2, <2>1
  <2>4. v = VisitNext(u, graph, r)
    BY <1>5, <2>1, <2>2, <2>3
  <2>5. /\ SearchHolds(v, graph, r, first) /\ LooksOut(v, graph, r)
        /\ IF u.pending = <<>> THEN v = u ELSE Len(v.hits) = Len(u.hits) + 1
    BY <2>3, <2>4, VisitKeeps
  <2> QED BY <2>2, <2>3, <2>5
<1>8. N = Nat
  <2> HIDE DEF N
  <2> QED BY <1>6, <1>7, NaturalSets DEF N
<1>9. Good(t, n)
  BY <1>2, <1>4, <1>8
<1>10. SUFFICES ASSUME t.pending # <<>> PROVE FALSE
  BY <1>9
<1>11. PICK q : q = Trail(t)
  OBVIOUS
<1>12. /\ OnceEach(q, t.visited, r) /\ Shaped(t, graph) /\ Len(t.hits) = n
  BY <1>9, <1>10, <1>11 DEF SearchHolds
<1>13. /\ Len(q) = n + Len(t.pending) /\ Len(t.pending) \in Nat \ {0}
       /\ \A i \in DOMAIN q : q[i].node \in graph.nodes
  BY <1>10, <1>11, <1>12, TrailOf, EmptySeq DEF Shaped
<1>14. t.visited \in SUBSET graph.nodes
  BY <1>12, <1>13 DEF OnceEach
<1>15. Cardinality(t.visited) <= n /\ Cardinality(t.visited) = Len(q)
  BY <1>1, <1>12, <1>14, FS_Subset DEF IsSearched, OnceEach
<1> QED BY <1>2, <1>13, <1>15
-----------------------------------------------------------------------------
(* The edges a hit is returned with.                                       *)
RowsAmong(graph, nodes) == StrongestRows(Induced(graph, nodes))
RowsOut(rows, n) == {e \in rows : e.from = n}
LinksAmong(graph, n, nodes) == {e \in graph.edges : e.from = n /\ e.to \in nodes}
BestByUse(links, d) == {e \in links : \A f \in links : SameLink(f, e) => ~ByUse(d, f, e)}
KeptByUse(S, limit, d) == {x \in S : Cardinality({y \in S : ByUse(d, y, x)}) < limit}

LEMMA ReturnedAre ==
    ASSUME NEW n, NEW found, NEW graph, NEW r, NEW x, x = ReturnedEdges(n, found, graph, r),
           NEW S, S = BestByUse(LinksAmong(graph, n, found.visited), found.discovery)
    PROVE  /\ x.edges = KeptByUse(S, r.neighbor_limit, found.discovery)
           /\ x.truncated = (Cardinality(S) > r.neighbor_limit)
BY DEF ReturnedEdges, BestByUse, LinksAmong, KeptByUse, ByUse, Foremost

LEMMA BestAreRows ==
    ASSUME NEW graph, IsEdges(graph.edges), NEW nodes, NEW n \in nodes, NEW d
    PROVE  BestByUse(LinksAmong(graph, n, nodes), d) = RowsOut(RowsAmong(graph, nodes), n)
<1> DEFINE links == LinksAmong(graph, n, nodes)
<1>1. ASSUME NEW e \in links, NEW f \in links, SameLink(f, e)
      PROVE  ByUse(d, f, e) <=> ~(f.weight <= e.weight)
  <2>1. e \in graph.edges /\ f \in graph.edges
    BY DEF LinksAmong
  <2>2. /\ e.weight \in Int /\ f.weight \in Int /\ e.to = f.to /\ e.kind = f.kind
        /\ e.to \in Int /\ e.kind \in Int /\ KeyOfEdge(e) = KeyOfEdge(f)
    BY <1>1, <2>1, EdgeFields DEF SameLink
  <2>3. ByUse(d, f, e) <=> DiscoveryOrder(f, e)
    BY <2>2 DEF ByUse
  <2> QED BY <2>2, <2>3 DEF DiscoveryOrder
<1>2. \A e \in links, f \in Induced(graph, nodes) : SameLink(e, f) => f \in links /\ SameLink(f, e)
  BY EdgeFields DEF LinksAmong, Induced, SameLink
<1>3. \A e : e \in links <=> e \in Induced(graph, nodes) /\ e.from = n
  BY DEF LinksAmong, Induced
<1>4. \A e \in links, f \in links : SameLink(f, e) => SameLink(e, f)
  BY DEF SameLink
<1> HIDE DEF links
<1>5. \A e : e \in BestByUse(links, d) <=> e \in RowsOut(RowsAmong(graph, nodes), n)
  <2> SUFFICES ASSUME NEW e
               PROVE  e \in BestByUse(links, d) <=> e \in RowsOut(RowsAmong(graph, nodes), n)
    OBVIOUS
  <2>1. e \in BestByUse(links, d)
          <=> e \in links /\ \A f \in links : SameLink(f, e) => f.weight <= e.weight
    BY <1>1 DEF BestByUse
  <2>2. e \in RowsOut(RowsAmong(graph, nodes), n)
          <=> e \in links /\ \A f \in Induced(graph, nodes) : SameLink(e, f) => f.weight <= e.weight
    BY <1>3 DEF RowsOut, RowsAmong, StrongestRows
  <2> QED BY <1>2, <1>3, <1>4, <2>1, <2>2
<1> QED BY <1>5 DEF links

LEMMA KeysInject ==
    ASSUME NEW B, NEW W, \A y \in B : KeyOfEdge(y) \in W,
           \A y, z \in B : KeyOfEdge(y) = KeyOfEdge(z) => y = z
    PROVE  [y \in B |-> KeyOfEdge(y)] \in Injection(B, W)
<1> DEFINE g == [y \in B |-> KeyOfEdge(y)]
<1>1. g \in [B -> W]
  OBVIOUS
<1>2. \A y \in B : g[y] = KeyOfEdge(y)
  OBVIOUS
<1> HIDE DEF g
<1>3. \A y, z \in B : g[y] = g[z] => y = z
  BY <1>2
<1>4. g \in Injection(B, W)
  BY <1>1, <1>3 DEF Injection, IsInjective
<1> QED BY <1>4 DEF g

LEMMA ReturnedHold ==
    ASSUME NEW n, NEW found, NEW graph, NEW r, NEW x, NEW S, NEW d,
           x = ReturnedEdges(n, found, graph, r), S = RowsOut(RowsAmong(graph, found.visited), n),
           d = found.discovery, IsEdges(graph.edges), r.neighbor_limit \in Nat, n \in found.visited,
           IsFiniteSet(d), Cardinality(KeysOf(d, n)) <= r.neighbor_limit
    PROVE  /\ \A e \in x.edges : e \in S
           /\ Cardinality(x.edges) <= r.neighbor_limit
           /\ x.truncated \in BOOLEAN
           /\ ~x.truncated => x.edges = S
           /\ \A e \in S : KeyOfEdge(e) \in d => e \in x.edges
<1> DEFINE E == graph.edges
           R == UsePairs(S, d)
<1>1. PICK limit : limit = r.neighbor_limit
  OBVIOUS
<1>2. PICK nodes : nodes = found.visited
  OBVIOUS
<1>3. S = BestByUse(LinksAmong(graph, n, nodes), d)
  <2>1. n \in nodes /\ S = RowsOut(RowsAmong(graph, nodes), n)
    BY <1>2
  <2> QED BY <2>1, BestAreRows
<1>4. x.edges = KeptByUse(S, limit, d) /\ x.truncated = (Cardinality(S) > limit)
  <2>1. S = BestByUse(LinksAmong(graph, n, found.visited), found.discovery)
    BY <1>2, <1>3
  <2>2. x.edges = KeptByUse(S, r.neighbor_limit, found.discovery)
        /\ x.truncated = (Cardinality(S) > r.neighbor_limit)
    BY <2>1, ReturnedAre
  <2> QED BY <1>1, <2>2
<1>5. /\ S \in SUBSET E /\ FromOne(S) /\ \A e \in S : e.from = n
      /\ \A e, f \in S : SameLink(e, f) => e = f
  <2>1. PICK T : T = Induced(graph, found.visited)
    OBVIOUS
  <2>2. T \in SUBSET E
    BY <2>1 DEF Induced
  <2>3. /\ StrongestRows(T) \subseteq T
        /\ \A e, f \in StrongestRows(T) : SameLink(e, f) => e = f
    BY <2>2, StrongestAreOne
  <2>4. S \subseteq StrongestRows(T) /\ \A e \in S : e.from = n
    BY <2>1 DEF RowsOut, RowsAmong
  <2> QED BY <2>2, <2>3, <2>4 DEF FromOne
<1>6. IsEdges(S) /\ IsFiniteSet(S) /\ Cardinality(S) \in Nat
  <2>1. IsFiniteSet(E) /\ E \subseteq [from : Int, to : Int, kind : Int, weight : Int]
    BY DEF IsEdges
  <2>2. IsFiniteSet(S)
    BY <1>5, <2>1, FS_Subset
  <2> QED BY <1>5, <2>1, <2>2, FS_CardinalityType DEF IsEdges
<1>7. InStrictOrder(S, R)
  BY <1>5, <1>6, UseOrders
<1>8. \A y \in S, z \in S : <<y, z>> \in R <=> ByUse(d, y, z)
  BY DEF UsePairs
<1> HIDE DEF R
<1>9. x.edges = First(S, limit, R)
  <2>1. \A z \in S : {y \in S : ByUse(d, y, z)} = Before(S, R, z)
    BY <1>8 DEF Before
  <2> QED BY <1>4, <2>1 DEF KeptByUse, First
<1>10. /\ x.edges \subseteq S
       /\ Cardinality(x.edges) = IF Cardinality(S) > limit THEN limit ELSE Cardinality(S)
       /\ Cardinality(S) <= limit <=> x.edges = S
  <2>1. /\ Cardinality(First(S, limit, R)) = IF Cardinality(S) > limit THEN limit ELSE Cardinality(S)
        /\ Cardinality(S) <= limit <=> First(S, limit, R) = S
    BY <1>1, <1>6, <1>7, FirstCount
  <2> QED BY <1>9, <2>1 DEF First
<1>11. x.truncated \in BOOLEAN /\ (~x.truncated => x.edges = S)
  <2>1. CASE Cardinality(S) > limit
    BY <1>4, <2>1
  <2>2. CASE ~(Cardinality(S) > limit)
    <3>1. Cardinality(S) <= limit
      BY <1>1, <1>6, <2>2
    <3>2. (Cardinality(S) > limit) = FALSE
      BY <2>2
    <3>3. x.truncated = FALSE
      BY ONLY <1>4, <3>2
    <3> QED BY <1>10, <3>1, <3>3
  <2> QED BY <2>1, <2>2
<1>12. ASSUME NEW e \in S, KeyOfEdge(e) \in d PROVE e \in x.edges
  <2>1. PICK B : B = Before(S, R, e)
    OBVIOUS
  <2>2. IsFiniteSet(B) /\ Cardinality(B) \in Nat
    BY <1>6, <2>1, BeforeIs
  <2>3. ASSUME NEW y \in B PROVE y \in S /\ y # e /\ KeyOfEdge(y) \in d
    <3>1. y \in S /\ ByUse(d, y, e)
      BY <1>8, <2>1 DEF Before
    <3>2. y # e
      BY <1>7, <2>1 DEF Before, InStrictOrder
    <3> QED BY <1>12, <3>1, <3>2 DEF ByUse
  <2> DEFINE K == KeysOf(d, n)
             U == K \ {KeyOfEdge(e)}
             g == [y \in B |-> KeyOfEdge(y)]
  <2>4. \A y \in S : KeyOfEdge(y)[1] = n
    BY <1>5 DEF KeyOfEdge
  <2>5. KeyOfEdge(e) \in K /\ \A y \in B : KeyOfEdge(y) \in U
    <3>1. \A y \in B : KeyOfEdge(y) # KeyOfEdge(e)
      BY <1>5, <2>3 DEF SameLink
    <3> QED BY <1>12, <2>3, <2>4, <3>1 DEF KeysOf
  <2>6. \A y, z \in B : KeyOfEdge(y) = KeyOfEdge(z) => y = z
    BY <1>5, <2>3 DEF SameLink
  <2>7. IsFiniteSet(K)
    <3>1. K \in SUBSET d
      BY DEF KeysOf
    <3> QED BY <3>1, FS_Subset
  <2> HIDE DEF K
  <2>8. IsFiniteSet(U) /\ Cardinality(U) = Cardinality(K) - 1 /\ Cardinality(K) \in Nat
    BY <2>5, <2>7, FS_RemoveElement, FS_CardinalityType
  <2>9. g \in Injection(B, U)
    <3>1. PICK W : W = U
      OBVIOUS
    <3>2. /\ \A y \in B : KeyOfEdge(y) \in W
          /\ \A y, z \in B : KeyOfEdge(y) = KeyOfEdge(z) => y = z
      BY <2>5, <2>6, <3>1
    <3>3. [y \in B |-> KeyOfEdge(y)] \in Injection(B, W)
      BY ONLY <3>2, KeysInject
    <3> QED BY ONLY <3>1, <3>3
  <2>10. Cardinality(B) <= Cardinality(U)
    <3> HIDE DEF U, g
    <3> QED BY <2>8, <2>9, FS_Injection
  <2>11. Cardinality(B) < limit
    BY <1>1, <2>2, <2>8, <2>10 DEF K
  <2> QED BY <1>9, <2>1, <2>11 DEF First
<1>13. Cardinality(x.edges) <= limit
  BY <1>1, <1>6, <1>10
<1> QED BY <1>1, <1>10, <1>11, <1>12, <1>13

(* What a search has found in the end: its hits are its whole trail.      *)
SearchEnd(graph, r) == Explore(StartOf(VectorRanks(graph.nodes, r.seed_limit, r)), graph, r)
SeedsOf(graph, r) == First(graph.nodes, r.seed_limit, SimilarPairs(graph.nodes, r))
AllLookOut(q, graph, r) ==
  \A i \in DOMAIN q : q[i].depth < r.max_hops =>
    \A e \in OutOf(graph, q[i].node) :
      \E j \in DOMAIN q : q[j].node = e.to /\ q[j].depth <= q[i].depth + 1
HitsHold(q, found, graph, r, first) ==
  /\ Len(q) \in Nat /\ DOMAIN q = 1..Len(q)
  /\ \A i \in DOMAIN q : i \in Nat /\ q[i].node \in graph.nodes /\ q[i].depth \in Nat
  /\ OnceEach(q, found.visited, r) /\ BreadthFirst(q, Len(q), r)
  /\ AllHang(q, Len(q), found.discovery) /\ Discovered(q, Len(q), found.discovery, graph, r)
  /\ SeedsFirst(q, first)
  /\ found.truncated \in BOOLEAN /\ (~found.truncated => AllLookOut(q, graph, r))

LEMMA SearchFinds ==
    ASSUME NEW graph, NEW r, IsSearched(graph, r), NEW first, first = SeedsOf(graph, r),
           NEW found, found = SearchEnd(graph, r), NEW q, q = found.hits
    PROVE  HitsHold(q, found, graph, r, first)
<1>1. PICK seeds : seeds = VectorRanks(graph.nodes, r.seed_limit, r)
  OBVIOUS
<1>2. PICK s : s = StartOf(seeds)
  OBVIOUS
<1>3. SearchHolds(s, graph, r, first) /\ LooksOut(s, graph, r) /\ s.hits = <<>>
  <2>1. first = First(graph.nodes, r.seed_limit, SimilarPairs(graph.nodes, r))
    BY DEF SeedsOf
  <2> QED BY ONLY IsSearched(graph, r), <1>1, <1>2, <2>1, SearchStarts
<1>4. found = Explore(s, graph, r)
  BY <1>1, <1>2 DEF SearchEnd
<1>5. SearchHolds(found, graph, r, first) /\ LooksOut(found, graph, r) /\ found.pending = <<>>
  BY ONLY IsSearched(graph, r), <1>3, <1>4, SearchEnds
<1>6. Shaped(found, graph)
  BY <1>5 DEF SearchHolds
<1>7. Trail(found) = q
  BY <1>5, <1>6, ConcatEmptySeq DEF Shaped, Trail
<1>8. /\ Len(q) \in Nat /\ DOMAIN q = 1..Len(q)
      /\ \A i \in DOMAIN q : i \in Nat /\ q[i].node \in graph.nodes /\ q[i].depth \in Nat
  <2>1. q = Trail(found)
    BY <1>7
  <2> QED BY ONLY <1>6, <2>1, TrailOf
<1>9. ASSUME ~found.truncated PROVE AllLookOut(q, graph, r)
  BY <1>5, <1>7, <1>8, <1>9 DEF LooksOut, LeadsOut, AllLookOut
<1> QED BY <1>5, <1>6, <1>7, <1>8, <1>9 DEF SearchHolds, Shaped, HitsHold

(* A search follows every edge outwards.                                   *)
LEMMA OutgoingLeads ==
    ASSUME NEW graph, NEW r, IsSearched(graph, r), NEW m, NEW n
    PROVE  Leads(m, n, graph, Outgoing) <=> \E e \in OutOf(graph, m) : e.to = n
<1>1. \A e \in graph.edges : Includes(e, Outgoing)
  <2> SUFFICES ASSUME NEW e \in graph.edges PROVE Includes(e, Outgoing)
    OBVIOUS
  <2>1. e.weight \in Nat
    BY DEF IsSearched
  <2>2. e.weight >= 0
    BY <2>1
  <2>3. Outgoing.kind = AnyKind /\ Outgoing.min_weight = 0
    BY DEF Outgoing
  <2> QED BY ONLY <2>2, <2>3 DEF Includes
<1>2. Outgoing.direction = "outgoing"
  BY DEF Outgoing
<1>3. \A s : s \in Steps(m, graph, Outgoing) <=> \E e \in OutOf(graph, m) : s = [edge |-> e, to |-> e.to]
  BY <1>1, <1>2 DEF Steps, OutOf
<1>4. ASSUME NEW e \in OutOf(graph, m), e.to = n PROVE \E s \in Steps(m, graph, Outgoing) : s.to = n
  <2>1. PICK s : s = [edge |-> e, to |-> e.to]
    OBVIOUS
  <2>2. s \in Steps(m, graph, Outgoing) /\ s.to = n
    BY <1>3, <1>4, <2>1
  <2> QED BY <2>2
<1>5. ASSUME NEW s \in Steps(m, graph, Outgoing), s.to = n PROVE \E e \in OutOf(graph, m) : e.to = n
  <2>1. PICK e \in OutOf(graph, m) : s = [edge |-> e, to |-> e.to]
    BY <1>3
  <2> QED BY <1>5, <2>1
<1> QED BY <1>4, <1>5 DEF Leads

LEMMA IsSearchedGraph ==
    ASSUME NEW graph, NEW r, IsSearched(graph, r)
    PROVE  IsGraph(graph) /\ IsEdges(graph.edges)
<1>1. \A e \in graph.edges : e \in [from : graph.nodes, to : graph.nodes, kind : Int, weight : Int]
  BY DEF IsSearched
<1>2. \A e \in graph.edges : e \in [from : Int, to : Int, kind : Int, weight : Int]
  BY DEF IsSearched
<1>3. IsFiniteSet(graph.edges) /\ graph.nodes \subseteq Int
  BY DEF IsSearched
<1> QED BY <1>1, <1>2, <1>3 DEF IsGraph, IsEdges

LEMMA NearbyIs ==
    ASSUME NEW q, NEW d, NEW n
    PROVE  n \in Nearby(q, d) <=> \E i \in DOMAIN q : q[i].depth <= d /\ q[i].node = n
BY DEF Nearby

LEMMA HitsReached ==
    ASSUME NEW graph, NEW r, IsSearched(graph, r), NEW first, NEW found, NEW q,
           HitsHold(q, found, graph, r, first), ~found.truncated
    PROVE  \A d \in 0..r.max_hops :
             Reached(Nearby(q, 0), Links(graph, Outgoing, graph.nodes), d) = Nearby(q, d)
<1> DEFINE links == Links(graph, Outgoing, graph.nodes)
           near == Nearby(q, 0)
           N == {d \in Nat : d <= r.max_hops => Reached(near, links, d) = Nearby(q, d)}
<1>1. IsGraph(graph) /\ r.max_hops \in Nat
  BY IsSearchedGraph DEF IsSearched
<1>2. 0 \in N
  BY ReachedIs
<1>3. ASSUME NEW d \in Nat, d + 1 <= r.max_hops
      PROVE  Beyond(Nearby(q, d), links) = Nearby(q, d + 1)
  <2>1. Nearby(q, d) \in SUBSET graph.nodes
    BY NearbyIs DEF HitsHold
  <2>2. \A n : n \in Beyond(Nearby(q, d), links)
                 <=> n \in Nearby(q, d) \/ \E m \in Nearby(q, d) : Leads(m, n, graph, Outgoing)
    <3>1. PICK S : S = Nearby(q, d)
      OBVIOUS
    <3>2. PICK o : o = Outgoing
      OBVIOUS
    <3>3. S \in SUBSET graph.nodes
      BY <2>1, <3>1
    <3>4. \A n : n \in Beyond(S, Links(graph, o, graph.nodes))
                   <=> n \in S \/ \E m \in S : Leads(m, n, graph, o)
      BY ONLY <1>1, <3>3, BeyondIs
    <3> QED BY <3>1, <3>2, <3>4
  <2>3. ASSUME NEW n \in Nearby(q, d) PROVE n \in Nearby(q, d + 1)
    <3>1. PICK i \in DOMAIN q : q[i].depth <= d /\ q[i].node = n
      BY NearbyIs
    <3>2. q[i].depth <= d + 1
      BY <3>1 DEF HitsHold
    <3> QED BY <3>1, <3>2, NearbyIs
  <2>4. ASSUME NEW m \in Nearby(q, d), NEW n, Leads(m, n, graph, Outgoing)
        PROVE  n \in Nearby(q, d + 1)
    <3>1. PICK i \in DOMAIN q : q[i].depth <= d /\ q[i].node = m
      BY NearbyIs
    <3>2. PICK e \in OutOf(graph, m) : e.to = n
      BY <2>4, OutgoingLeads
    <3>3. q[i].depth < r.max_hops
      BY <1>1, <1>3, <3>1 DEF HitsHold
    <3>4. PICK j \in DOMAIN q : q[j].node = n /\ q[j].depth <= q[i].depth + 1
      BY <3>1, <3>2, <3>3 DEF HitsHold, AllLookOut
    <3>5. q[j].depth <= d + 1
      BY <3>1, <3>4 DEF HitsHold
    <3> QED BY <3>4, <3>5, NearbyIs
  <2>5. ASSUME NEW n \in Nearby(q, d + 1), n \notin Nearby(q, d)
        PROVE  \E m \in Nearby(q, d) : Leads(m, n, graph, Outgoing)
    <3>1. PICK j \in DOMAIN q : q[j].depth <= d + 1 /\ q[j].node = n
      BY NearbyIs
    <3>2. ~(q[j].depth <= d) /\ q[j].depth \in Nat
      BY <2>5, <3>1, NearbyIs DEF HitsHold
    <3>3. q[j].depth = d + 1 /\ q[j].depth > 0
      BY <3>1, <3>2
    <3>4. PICK i \in DOMAIN q : HangsOn(q, Len(q), found.discovery, i, j)
      BY <3>3 DEF HitsHold, AllHang
    <3>5. q[i].depth <= d
      BY <3>3, <3>4 DEF HitsHold, HangsOn
    <3>6. PICK k \in found.discovery : k[1] = q[i].node /\ k[2] = q[j].node
      BY <3>4 DEF HangsOn
    <3>7. PICK e \in graph.edges : KeyOfEdge(e) = k
      BY DEF HitsHold, Discovered
    <3>8. e.from = q[i].node /\ e.to = n
      BY <3>1, <3>6, <3>7 DEF KeyOfEdge
    <3>9. q[i].node \in Nearby(q, d)
      BY <3>5, NearbyIs
    <3>10. Leads(q[i].node, n, graph, Outgoing)
      <4>1. PICK m : m = q[i].node
        OBVIOUS
      <4>2. e \in OutOf(graph, m)
        BY <3>8, <4>1 DEF OutOf
      <4>3. Leads(m, n, graph, Outgoing)
        BY <3>8, <4>2, OutgoingLeads
      <4> QED BY <4>1, <4>3
    <3> QED BY <3>9, <3>10
  <2> HIDE DEF links
  <2>6. \A n : n \in Beyond(Nearby(q, d), links) <=> n \in Nearby(q, d + 1)
    BY <2>2, <2>3, <2>4, <2>5
  <2>7. Beyond(Nearby(q, d), links) \subseteq Nearby(q, d + 1)
    BY <2>6
  <2>8. Nearby(q, d + 1) \subseteq Beyond(Nearby(q, d), links)
    BY <2>6
  <2> QED BY <2>7, <2>8
<1> HIDE DEF links, near
<1>4. \A d \in N : d + 1 \in N
  <2> SUFFICES ASSUME NEW d \in N, d + 1 <= r.max_hops
               PROVE  Reached(near, links, d + 1) = Nearby(q, d + 1)
    OBVIOUS
  <2>1. d \in Nat /\ Reached(near, links, d) = Nearby(q, d)
    BY <1>1
  <2>2. Reached(near, links, d + 1) = Beyond(Nearby(q, d), links)
    <3>1. \A i \in Nat : Reached(near, links, i + 1) = Beyond(Reached(near, links, i), links)
      BY ONLY ReachedIs
    <3>2. Reached(near, links, d + 1) = Beyond(Reached(near, links, d), links)
      BY ONLY <2>1, <3>1
    <3> QED BY ONLY <2>1, <3>2
  <2> QED BY <1>3, <2>1, <2>2
<1>5. N = Nat
  <2> HIDE DEF N
  <2> QED BY <1>2, <1>4, NaturalSets DEF N
<1>6. \A d \in 0..r.max_hops : Reached(near, links, d) = Nearby(q, d)
  BY <1>1, <1>5
<1> QED BY <1>6 DEF links, near

(* The edges of all hits together.                                         *)
ReturnsOf(found, graph, r) == {ReturnedEdges(n, found, graph, r) : n \in found.visited}
EdgesOf(returns) == UNION {x.edges : x \in returns}
AnyTruncated(returns) == \E x \in returns : x.truncated
EdgesFrom(edges, n) == {e \in edges : e.from = n}

LEMMA EdgesReturned ==
    ASSUME NEW graph, NEW r, NEW found, NEW d, NEW visited, NEW rows, NEW edges,
           IsSearched(graph, r), d = found.discovery, visited = found.visited,
           rows = RowsAmong(graph, visited),
           edges = EdgesOf(ReturnsOf(found, graph, r)),
           IsFiniteSet(d), \A n : Cardinality(KeysOf(d, n)) <= r.neighbor_limit
    PROVE  /\ edges \subseteq rows
           /\ \A n \in visited : Cardinality(EdgesFrom(edges, n)) <= r.neighbor_limit
           /\ \A e \in rows : KeyOfEdge(e) \in d => e \in edges
           /\ ~AnyTruncated(ReturnsOf(found, graph, r)) => edges = rows
<1> DEFINE X(n) == ReturnedEdges(n, found, graph, r)
<1>1. IsEdges(graph.edges) /\ r.neighbor_limit \in Nat
  BY IsSearchedGraph DEF IsSearched
<1>2. ASSUME NEW n \in visited
      PROVE  /\ \A e \in X(n).edges : e \in rows /\ e.from = n
             /\ Cardinality(X(n).edges) <= r.neighbor_limit
             /\ ~X(n).truncated => \A e \in rows : e.from = n => e \in X(n).edges
             /\ \A e \in rows : e.from = n /\ KeyOfEdge(e) \in d => e \in X(n).edges
  <2>1. PICK x : x = ReturnedEdges(n, found, graph, r)
    OBVIOUS
  <2>2. PICK S : S = RowsOut(RowsAmong(graph, found.visited), n)
    OBVIOUS
  <2>3. n \in found.visited /\ IsFiniteSet(d) /\ Cardinality(KeysOf(d, n)) <= r.neighbor_limit
        /\ d = found.discovery
    OBVIOUS
  <2>4. /\ \A e \in x.edges : e \in S
        /\ Cardinality(x.edges) <= r.neighbor_limit
        /\ x.truncated \in BOOLEAN
        /\ ~x.truncated => x.edges = S
        /\ \A e \in S : KeyOfEdge(e) \in d => e \in x.edges
    BY ONLY <1>1, <2>1, <2>2, <2>3, ReturnedHold
  <2>5. \A e : e \in S <=> e \in rows /\ e.from = n
    BY <2>2 DEF RowsOut
  <2>6. x = X(n)
    BY <2>1
  <2> HIDE DEF X
  <2> QED BY ONLY <2>4, <2>5, <2>6
<1>3. \A e : e \in edges <=> \E n \in visited : e \in X(n).edges
  <2> HIDE DEF X
  <2>1. ReturnsOf(found, graph, r) = {X(n) : n \in visited}
    BY DEF X, ReturnsOf
  <2> QED BY <2>1 DEF EdgesOf
<1>4. \A n \in visited : X(n) \in ReturnsOf(found, graph, r)
  BY DEF ReturnsOf
<1>5. \A e \in rows : e.from \in visited
  BY DEF RowsAmong, StrongestRows, Induced
<1> HIDE DEF X
<1>6. edges \subseteq rows
  BY <1>2, <1>3
<1>7. ASSUME NEW n \in visited PROVE Cardinality(EdgesFrom(edges, n)) <= r.neighbor_limit
  <2>1. \A e : e \in EdgesFrom(edges, n) <=> e \in X(n).edges
    BY <1>2, <1>3 DEF EdgesFrom
  <2>2. EdgesFrom(edges, n) = X(n).edges
    BY <2>1
  <2> QED BY <1>2, <2>2
<1>8. \A e \in rows : KeyOfEdge(e) \in d => e \in edges
  BY <1>2, <1>3, <1>5
<1>9. ASSUME ~AnyTruncated(ReturnsOf(found, graph, r)) PROVE edges = rows
  <2>1. \A e \in rows : e \in edges
    BY <1>2, <1>3, <1>4, <1>5, <1>9 DEF AnyTruncated
  <2> QED BY <1>6, <2>1
<1> QED BY <1>6, <1>7, <1>8, <1>9

(* A hit that is no seed hangs on an edge that was returned.               *)
LEMMA HitsExplained ==
    ASSUME NEW graph, NEW r, IsSearched(graph, r), NEW first, NEW found, NEW q,
           HitsHold(q, found, graph, r, first), NEW edges,
           \A e \in RowsAmong(graph, found.visited) : KeyOfEdge(e) \in found.discovery => e \in edges,
           NEW j \in DOMAIN q, q[j].depth > 0
    PROVE  \E e \in edges, i \in 1..(j - 1) : /\ e.to = q[j].node /\ e.from = q[i].node
                                              /\ q[i].depth = q[j].depth - 1
<1>1. PICK i \in DOMAIN q : HangsOn(q, Len(q), found.discovery, i, j)
  BY DEF HitsHold, AllHang
<1>2. i \in 1..(j - 1) /\ q[i].depth = q[j].depth - 1
  BY <1>1 DEF HangsOn, HitsHold
<1>3. PICK k \in found.discovery : k[1] = q[i].node /\ k[2] = q[j].node
  BY <1>1 DEF HangsOn
<1>4. PICK e \in graph.edges : KeyOfEdge(e) = k
  BY DEF HitsHold, Discovered
<1>5. PICK T : T = Induced(graph, found.visited)
  OBVIOUS
<1>6. e \in T
  <2>1. e.from = q[i].node /\ e.to = q[j].node
    BY <1>3, <1>4 DEF KeyOfEdge
  <2>2. e.from \in found.visited /\ e.to \in found.visited
    BY <2>1 DEF HitsHold, OnceEach
  <2> QED BY <1>5, <2>2 DEF Induced
<1>7. PICK f \in StrongestRows(T) : SameLink(f, e)
  <2>1. PICK E : E = graph.edges
    OBVIOUS
  <2>2. IsEdges(E) /\ T \in SUBSET E
    BY <1>5, <2>1, IsSearchedGraph DEF Induced
  <2> QED BY <1>6, <2>2, StrongestExists
<1>8. KeyOfEdge(f) = k
  BY <1>4, <1>7 DEF SameLink
<1>9. f \in edges
  BY <1>5, <1>7, <1>8 DEF RowsAmong
<1>10. f.to = q[j].node /\ f.from = q[i].node
  BY <1>3, <1>8 DEF KeyOfEdge
<1> QED BY <1>2, <1>9, <1>10

LEMMA HitsOnce ==
    ASSUME NEW graph, NEW r, NEW first, NEW found, NEW q, HitsHold(q, found, graph, r, first)
    PROVE  /\ HitNodes(q) = found.visited /\ Nearby(q, 0) = first
           /\ Len(q) <= r.max_results /\ Cardinality(HitNodes(q)) = Len(q)
<1>1. \A n : n \in HitNodes(q) <=> n \in found.visited
  BY DEF HitsHold, OnceEach, HitNodes
<1>2. \A n : n \in Nearby(q, 0) <=> n \in first
  <2>1. \A i \in DOMAIN q : q[i].depth <= 0 <=> q[i].depth = 0
    BY DEF HitsHold
  <2> QED BY <2>1, NearbyIs DEF HitsHold, SeedsFirst
<1>3. HitNodes(q) = found.visited /\ Nearby(q, 0) = first
  BY <1>1, <1>2
<1> QED BY <1>3 DEF HitsHold, OnceEach

LEMMA SearchIs ==
    ASSUME NEW graph, NEW r, NEW found, found = SearchEnd(graph, r), NEW result,
           result = GraphSearch(graph, r)
    PROVE  /\ result.hits = found.hits
           /\ result.edges = EdgesOf(ReturnsOf(found, graph, r))
           /\ result.truncated = (found.truncated \/ AnyTruncated(ReturnsOf(found, graph, r)))
BY DEF GraphSearch, SearchEnd, StartOf, ReturnsOf, EdgesOf, AnyTruncated

(* The property, of any answer.                                            *)
HitHolds(i, hits, edges, r) ==
  /\ hits[i].depth <= r.max_hops
  /\ \A j \in 1..(i - 1) : hits[j].depth <= hits[i].depth
  /\ Cardinality(EdgesFrom(edges, hits[i].node)) <= r.neighbor_limit
  /\ hits[i].depth > 0 =>
       \E e \in edges, j \in 1..(i - 1) :
         /\ e.to = hits[i].node /\ e.from = hits[j].node
         /\ hits[j].depth = hits[i].depth - 1
SearchedWell(result, graph, r) ==
  LET hits == result.hits
      rows == StrongestRows(Induced(graph, HitNodes(hits)))
      links == Links(graph, Outgoing, graph.nodes)
  IN  /\ Len(hits) <= r.max_results /\ Cardinality(HitNodes(hits)) = Len(hits)
      /\ \A n \in Nearby(hits, 0), m \in graph.nodes \ Nearby(hits, 0) : MoreSimilar(r, n, m)
      /\ result.edges \subseteq rows
      /\ \A i \in DOMAIN hits : HitHolds(i, hits, result.edges, r)
      /\ ~result.truncated =>
           /\ \A d \in 0..r.max_hops : Reached(Nearby(hits, 0), links, d) = Nearby(hits, d)
           /\ result.edges = rows

LEMMA SeedsAreFirst ==
    ASSUME NEW graph, NEW r, IsSearched(graph, r), NEW first, first = SeedsOf(graph, r)
    PROVE  \A n \in first, m \in graph.nodes \ first : MoreSimilar(r, n, m)
<1>1. PICK nodes : nodes = graph.nodes
  OBVIOUS
<1>2. PICK limit : limit = r.seed_limit
  OBVIOUS
<1>3. PICK R : R = SimilarPairs(nodes, r)
  OBVIOUS
<1>4. nodes \subseteq Int /\ IsFiniteSet(nodes) /\ Compares(r, nodes) /\ limit \in Nat
  BY <1>1, <1>2 DEF IsSearched
<1>5. first = First(nodes, limit, R)
  BY <1>1, <1>2, <1>3 DEF SeedsOf
<1>6. InStrictOrder(nodes, R)
  BY <1>3, <1>4, SimilarOrders
<1>7. /\ First(nodes, limit, R) \subseteq nodes
      /\ \A x \in First(nodes, limit, R) : \A y \in nodes \ First(nodes, limit, R) : <<x, y>> \in R
  BY ONLY <1>4, <1>6, FirstOrdered
<1>8. \A x, y : <<x, y>> \in R => MoreSimilar(r, x, y)
  BY <1>3 DEF SimilarPairs
<1> QED BY <1>1, <1>5, <1>7, <1>8

LEMMA SearchesWell ==
    ASSUME NEW graph, NEW r, IsSearched(graph, r), NEW result, result = GraphSearch(graph, r)
    PROVE  SearchedWell(result, graph, r)
<1>1. PICK found : found = SearchEnd(graph, r)
  OBVIOUS
<1>2. PICK first : first = SeedsOf(graph, r)
  OBVIOUS
<1>3. PICK q : q = found.hits
  OBVIOUS
<1>4. PICK edges : edges = EdgesOf(ReturnsOf(found, graph, r))
  OBVIOUS
<1>5. PICK visited : visited = found.visited
  OBVIOUS
<1>6. PICK d : d = found.discovery
  OBVIOUS
<1>7. PICK rows : rows = RowsAmong(graph, visited)
  OBVIOUS
<1>8. HitsHold(q, found, graph, r, first)
  BY ONLY IsSearched(graph, r), <1>1, <1>2, <1>3, SearchFinds
<1>9. /\ result.hits = q /\ result.edges = edges
      /\ result.truncated = (found.truncated \/ AnyTruncated(ReturnsOf(found, graph, r)))
  <2>1. result = GraphSearch(graph, r)
    OBVIOUS
  <2> QED BY ONLY <1>1, <1>3, <1>4, <2>1, SearchIs
<1>10. /\ HitNodes(q) = visited /\ Nearby(q, 0) = first
       /\ Len(q) <= r.max_results /\ Cardinality(HitNodes(q)) = Len(q)
  <2>1. HitNodes(q) = found.visited /\ Nearby(q, 0) = first
        /\ Len(q) <= r.max_results /\ Cardinality(HitNodes(q)) = Len(q)
    BY ONLY <1>8, HitsOnce
  <2> QED BY <1>5, <2>1
<1>11. IsFiniteSet(d) /\ \A n : Cardinality(KeysOf(d, n)) <= r.neighbor_limit
  BY <1>6, <1>8 DEF HitsHold, Discovered
<1>12. /\ edges \subseteq rows
       /\ \A n \in visited : Cardinality(EdgesFrom(edges, n)) <= r.neighbor_limit
       /\ \A e \in rows : KeyOfEdge(e) \in d => e \in edges
       /\ ~AnyTruncated(ReturnsOf(found, graph, r)) => edges = rows
  BY ONLY IsSearched(graph, r), <1>4, <1>5, <1>6, <1>7, <1>11, EdgesReturned
<1>13. \A n \in first, m \in graph.nodes \ first : MoreSimilar(r, n, m)
  BY ONLY IsSearched(graph, r), <1>2, SeedsAreFirst
<1>14. ASSUME NEW i \in DOMAIN q PROVE HitHolds(i, q, edges, r)
  <2>1. q[i].depth <= r.max_hops /\ \A j \in 1..(i - 1) : q[j].depth <= q[i].depth
    <3>1. \A j \in 1..(i - 1) : j \in DOMAIN q /\ j <= i
      BY <1>8 DEF HitsHold
    <3> QED BY <1>8, <3>1 DEF HitsHold, BreadthFirst
  <2>2. q[i].node \in visited
    BY <1>5, <1>8 DEF HitsHold, OnceEach
  <2>3. Cardinality(EdgesFrom(edges, q[i].node)) <= r.neighbor_limit
    BY <1>12, <2>2
  <2>4. ASSUME q[i].depth > 0
        PROVE  \E e \in edges, j \in 1..(i - 1) : /\ e.to = q[i].node /\ e.from = q[j].node
                                                  /\ q[j].depth = q[i].depth - 1
    <3>1. \A e \in RowsAmong(graph, found.visited) : KeyOfEdge(e) \in found.discovery => e \in edges
      BY <1>5, <1>6, <1>7, <1>12
    <3> QED BY <1>8, <2>4, <3>1, HitsExplained
  <2> QED BY <2>1, <2>3, <2>4 DEF HitHolds
<1>15. ASSUME ~result.truncated
       PROVE  /\ \A h \in 0..r.max_hops :
                   Reached(Nearby(q, 0), Links(graph, Outgoing, graph.nodes), h) = Nearby(q, h)
              /\ edges = rows
  <2>1. ~found.truncated /\ ~AnyTruncated(ReturnsOf(found, graph, r))
    BY ONLY <1>9, <1>15
  <2>2. \A h \in 0..r.max_hops :
          Reached(Nearby(q, 0), Links(graph, Outgoing, graph.nodes), h) = Nearby(q, h)
    BY ONLY IsSearched(graph, r), <1>8, <2>1, HitsReached
  <2> QED BY <1>12, <2>1, <2>2
<1>16. rows = StrongestRows(Induced(graph, HitNodes(q)))
  BY <1>7, <1>10 DEF RowsAmong
<1> QED BY ONLY <1>9, <1>10, <1>12, <1>13, <1>14, <1>15, <1>16 DEF SearchedWell

(* A search is breadth first and within its bounds, its seeds are the most *)
(* similar chunks, every other hit hangs on an edge that is returned from  *)
(* one nearer, and it leaves nothing out without truncated (graph_search). *)
LEMMA SearchesExplored == GraphSpec => []SearchIsExplored
<1>1. Answers => SearchIsExplored
  <2> SUFFICES ASSUME Answers, IsAnswered("search") PROVE SearchIsExplored
    BY DEF SearchIsExplored
  <2>1. request \in SearchRequests
    BY RequestsAssumption DEF Answers, IsAnswered
  <2>2. PICK graph : graph = request.graph
    OBVIOUS
  <2>3. PICK r : r = request.bounds
    OBVIOUS
  <2>4. PICK result : result = answer
    OBVIOUS
  <2>5. result = GraphSearch(graph, r)
    BY <2>2, <2>3, <2>4 DEF Answers
  <2>6. IsSearched(graph, r)
    BY <2>1, <2>2, <2>3, SearchAssumption DEF IsSearched, Compares
  <2>7. SearchedWell(result, graph, r)
    BY ONLY <2>5, <2>6, SearchesWell
  <2>8. SearchedWell(answer, request.graph, request.bounds)
    BY ONLY <2>2, <2>3, <2>4, <2>7
  <2> QED BY ONLY <2>8 DEF SearchIsExplored, SearchedWell, HitHolds, EdgesFrom
<1> QED BY <1>1, AnswersHold, PTL

(* Both walks are bounded, explained, and whole unless they say they were  *)
(* truncated.                                                              *)
THEOREM WalksExplored == GraphSpec => []WalksAreExplored
<1>1. NeighborhoodIsExplored /\ SearchIsExplored => WalksAreExplored
  BY DEF WalksAreExplored
<1> QED BY <1>1, NeighborhoodsExplored, SearchesExplored, PTL
=============================================================================
