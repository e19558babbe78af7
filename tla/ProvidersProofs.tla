-------------------------- MODULE ProvidersProofs --------------------------
(***************************************************************************)
(* Proofs about the provider services and the requests that pay for them,   *)
(* for any scenarios, models, limits and numbers of requests.               *)
(*                                                                          *)
(* The inductive invariant says of the settings which file would be loaded  *)
(* now (SettingsKept), of the counters what they count (Counted), and of    *)
(* each request what it carries at its stage (Formed), what its vectors are *)
(* (Embedded) and what was looked at before it paid (Covered).              *)
(***************************************************************************)
EXTENDS Providers, FiniteSetTheorems, SequenceTheorems, TLAPS

Stages == {"preflight", "checking", "rewrite", "rewriting", "capture", "acquire",
           "embedding", "search", "rerank", "acquireReranker", "reranking", "select",
           "answer", "answering"}

Checks == {"profile", "reranker", "generation"}

Vectors == [profile : Profiles, input : Nat]

Refusals == {"not configured", "settings changed"}

Calls == [at : Stages \cup {"free", "done"}, request : Requests \cup {Nothing},
          permit : BOOLEAN, changed : BOOLEAN, profile : Profiles \cup {Nothing},
          checks : Seq(Checks), next : {"free", "rewrite", "capture", "search", "answer"},
          config : Configs \cup {Nothing}, made : Seq(Vectors), paid : BOOLEAN,
          result : {"none", "answered", "failed", "busy"} \cup Refusals]

Active(c) == c.at \in Stages

\* The stage a request is at, or is checked for.
Stage(c) == IF c.at = "checking" THEN c.next ELSE c.at

\* What a request carries, at each of its stages.
Formed(c) ==
    /\ c \in Calls
    /\ c.at = "free" => ~c.permit
    /\ Active(c) =>
        /\ c.request \in Requests
        /\ c.result = "none"
        /\ c.at = "checking" => c.checks # <<>> /\ c.next # "free"
        /\ c.at = "checking" =>
              Range(c.checks) \subseteq IF c.next = "rewrite" THEN Range(RewriteChecks(c.request))
                                        ELSE Range(RetrieveChecks(c.request))
        /\ c.at = "rerank" => c.request.rerank
        /\ c.request.kind = "embed" => c.at \in {"capture", "acquire", "embedding"}
        /\ c.request.kind # "embed" /\ c.at # "preflight" => c.profile \in Profiles
        /\ c.at \in {"acquire", "embedding", "acquireReranker", "reranking"}
              => c.config \in Configs

\* The vectors made so far are those of the first texts, in one space.
Embedded(c) ==
    /\ \A i \in 1..Len(c.made) : c.made[i] = [profile |-> c.made[1].profile, input |-> i]
    /\ c.made # <<>> => c.profile \in {Nothing, c.made[1].profile}
    /\ Active(c) =>
        /\ Stage(c) \in {"preflight", "rewrite", "rewriting", "capture", "acquire"}
              => c.made = <<>>
        /\ c.at \in {"acquire", "embedding"} => c.profile \in {Nothing, c.config.profile}
        /\ c.at = "embedding" => /\ c.made # <<>> => c.made[1].profile = c.config.profile
                                 /\ Len(c.made) <= Inputs(c.request)
        /\ Stage(c) = "search" /\ c.request.vector => c.at = "search" /\ c.made # <<>>

\* What a check looks at.
Satisfied(check, c) ==
    /\ check = "profile" => /\ c.profile = config["embedding"].profile
                            /\ c.profile.provider \in keys["embedding"]
    /\ check = "reranker" => keys["reranking"] # {}
    /\ check = "generation" => Openai \in keys["embedding"]

\* The checks that matter to a request at a stage: those it has passed, and
\* before a query is embedded also the profile, once it has paid.
Needed(c) ==
    IF Stage(c) \in {"rewrite", "rewriting"} THEN Range(RewriteChecks(c.request))
    ELSE IF Stage(c) = "capture" /\ c.paid
         THEN {"profile"} \cup Range(RetrieveChecks(c.request))
         ELSE Range(RetrieveChecks(c.request))

\* A request whose settings are what they were when it came has passed the
\* checks of its stage, or has them before it and has paid nothing.
Covered(c) ==
    /\ c.result \in Refusals /\ c.paid => c.changed
    /\ Active(c) /\ ~c.changed =>
        /\ c.request.kind = "embed" /\ c.at # "embedding" => ~c.paid
        /\ c.at \in {"preflight", "rewrite"} => ~c.paid
        /\ c.at = "checking" /\ c.next = "rewrite" => ~c.paid
        /\ c.request.kind # "embed" /\ c.at # "preflight" =>
              \A check \in Needed(c) :
                 \/ Satisfied(check, c)
                 \/ ~c.paid /\ c.at = "checking" /\ check \in Range(c.checks)

Sound(c) == Formed(c) /\ Embedded(c) /\ Covered(c)

Requesting == call \in [Slots -> Calls] /\ \A s \in Slots : Sound(call[s])

Paying == {s \in Slots : call[s].permit}

Counted ==
    /\ IsFiniteSet(Paying) /\ generating = Cardinality(Paying)
    /\ generating <= MaxGeneration
    /\ inFlight \in [Services -> Nat]
    /\ \A w \in Services : IsFiniteSet(Using(w)) /\ inFlight[w] = Cardinality(Using(w))

\* What load_config makes of a settings file.
Loaded(w, f) == IF f = Nothing THEN DefaultConfig[w] ELSE f

Changes == {u[2] : u \in scenario.updates}

Updates == [at : {"idle", "started", "writing", "renamed", "synced"},
            change : Changes \cup {Nothing}, new : Configs \cup {Nothing}]

\* Whatever a restart may find is one of the settings that may be in force.
SettingsKept ==
    /\ config \in [Services -> Configs]
    /\ file \in [Services -> Configs \cup {Nothing}]
    /\ synced \in [Services -> Configs \cup {Nothing}]
    /\ kept \in [Services -> SUBSET Configs]
    /\ update \in [Services -> Updates]
    /\ settingsInFlight \in [Services -> {0, 1}]
    /\ \A w \in Services :
        /\ settingsInFlight[w] = IF update[w] = Idle THEN 0 ELSE 1
        /\ Loaded(w, file[w]) \in kept[w] /\ Loaded(w, synced[w]) \in kept[w]
        /\ update[w].at # "idle" => update[w].change \in Changes
        /\ update[w].at \in {"writing", "renamed", "synced"} => update[w].new \in Configs
        /\ update[w].at \in {"renamed", "synced"} => file[w] = update[w].new
        /\ update[w].at = "synced" => synced[w] = update[w].new

Around ==
    /\ scenario \in Scenarios
    /\ collection \in [profile : Profiles, chunks : BOOLEAN]
    /\ spent \in [updates : Nat, restarts : Nat, changes : Nat]

IInv == Around /\ SettingsKept /\ Counted /\ Requesting

-----------------------------------------------------------------------------
(* Counting, and the lists of checks.                                        *)

\* One request changes: the set of those that hold a permit changes by it.
LEMMA CountChange ==
    ASSUME NEW A, NEW B, NEW s, A \ {s} = B \ {s}, IsFiniteSet(A)
    PROVE  /\ IsFiniteSet(B) /\ Cardinality(A) \in Nat /\ Cardinality(B) \in Nat
           /\ Cardinality(B) = Cardinality(A) - (IF s \in A THEN 1 ELSE 0)
                                              + (IF s \in B THEN 1 ELSE 0)
<1> DEFINE C == A \ {s}
<1>1. /\ IsFiniteSet(C)
      /\ Cardinality(C) = IF s \in A THEN Cardinality(A) - 1 ELSE Cardinality(A)
  BY FS_RemoveElement
<1>2. /\ IsFiniteSet(C \cup {s}) /\ s \notin C
      /\ Cardinality(C \cup {s}) = Cardinality(C) + 1
  BY <1>1, FS_AddElement
<1>3. Cardinality(A) \in Nat /\ Cardinality(C) \in Nat
  BY <1>1, FS_CardinalityType
<1>4. CASE s \in B
  <2>1. B = C \cup {s}
    BY <1>4
  <2> HIDE DEF C
  <2> QED BY <1>1, <1>2, <1>3, <1>4, <2>1
<1>5. CASE s \notin B
  <2>1. B = C
    BY <1>5
  <2> HIDE DEF C
  <2> QED BY <1>1, <1>3, <1>5, <2>1
<1> QED BY <1>4, <1>5

LEMMA IfRange ==
    ASSUME NEW condition \in BOOLEAN, NEW check \in Checks
    PROVE  /\ If(condition, check) \in Seq(Checks)
           /\ Range(If(condition, check)) = IF condition THEN {check} ELSE {}
<1>1. <<check>> \in Seq(Checks) /\ Len(<<check>>) = 1 /\ <<check>>[1] = check
  OBVIOUS
<1>2. DOMAIN <<check>> = {1}
  BY <1>1
<1>3. Range(<<check>>) = {check}
  BY <1>1, <1>2 DEF Range
<1>4. Range(<<>>) = {}
  BY DEF Range
<1> QED BY <1>1, <1>3, <1>4 DEF If

LEMMA RetrieveRange ==
    ASSUME NEW request \in Requests, request.kind # "embed"
    PROVE  /\ RetrieveChecks(request) \in Seq(Checks)
           /\ Range(RetrieveChecks(request)) =
                 (IF request.answer THEN {"generation"} ELSE {})
                    \cup (IF request.rerank THEN {"reranker"} ELSE {})
<1>1. request.answer \in BOOLEAN /\ request.rerank \in BOOLEAN
  BY DEF Requests
<1>2. "generation" \in Checks /\ "reranker" \in Checks
  BY DEF Checks
<1> DEFINE first == If(request.answer, "generation")
           second == If(request.rerank, "reranker")
<1>3. /\ first \in Seq(Checks) /\ second \in Seq(Checks)
      /\ Range(first) = IF request.answer THEN {"generation"} ELSE {}
      /\ Range(second) = IF request.rerank THEN {"reranker"} ELSE {}
  BY <1>1, <1>2, IfRange
<1>4. RetrieveChecks(request) = first \o second
  BY DEF RetrieveChecks
<1> HIDE DEF first, second
<1>5. first \o second \in Seq(Checks) /\ Range(first \o second) = Range(first) \cup Range(second)
  BY <1>3, ConcatProperties, RangeConcatenation
<1> QED BY <1>3, <1>4, <1>5

LEMMA RewriteRange ==
    ASSUME NEW request \in Requests, request.kind # "embed"
    PROVE  /\ RewriteChecks(request) \in Seq(Checks) /\ RewriteChecks(request) # <<>>
           /\ Range(RewriteChecks(request)) =
                 {"generation"} \cup (IF request.vector THEN {"profile"} ELSE {})
                                \cup (IF request.rerank THEN {"reranker"} ELSE {})
<1>1. request.vector \in BOOLEAN /\ request.rerank \in BOOLEAN
  BY DEF Requests
<1>2. "generation" \in Checks /\ "reranker" \in Checks /\ "profile" \in Checks
  BY DEF Checks
<1> DEFINE first == If(request.vector, "profile")
           second == If(request.rerank, "reranker")
           last == If(TRUE, "generation")
<1>3. /\ first \in Seq(Checks) /\ second \in Seq(Checks) /\ last \in Seq(Checks)
      /\ Range(first) = IF request.vector THEN {"profile"} ELSE {}
      /\ Range(second) = IF request.rerank THEN {"reranker"} ELSE {}
      /\ Range(last) = {"generation"}
  BY <1>1, <1>2, IfRange
<1>4. RewriteChecks(request) = first \o second \o last
  BY DEF RewriteChecks, If
<1> HIDE DEF first, second, last
<1> DEFINE both == first \o second
<1>5. /\ both \in Seq(Checks)
      /\ Range(both) = Range(first) \cup Range(second)
  BY <1>3, ConcatProperties, RangeConcatenation
<1>6. RewriteChecks(request) = both \o last
  BY <1>4
<1> HIDE DEF both
<1>7. both \o last \in Seq(Checks)
  BY <1>3, <1>5, ConcatProperties
<1>8. Range(both \o last) = Range(both) \cup Range(last)
  BY <1>3, <1>5, RangeConcatenation
<1>9. /\ RewriteChecks(request) \in Seq(Checks)
      /\ Range(RewriteChecks(request)) = Range(both) \cup Range(last)
  BY <1>6, <1>7, <1>8
<1>10. RewriteChecks(request) # <<>>
  <2>1. Range(<<>>) = {}
    BY DEF Range
  <2> QED BY <1>3, <1>9, <2>1
<1> QED BY <1>3, <1>5, <1>9, <1>10

\* What is left of the checks once the first is done.
LEMMA TailRange ==
    ASSUME NEW checks \in Seq(Checks), checks # <<>>
    PROVE  /\ Tail(checks) \in Seq(Checks) /\ Head(checks) \in Checks
           /\ Head(checks) \in Range(checks)
           /\ Range(checks) \subseteq Range(Tail(checks)) \cup {Head(checks)}
<1>1. /\ Tail(checks) \in Seq(Checks) /\ Head(checks) \in Checks
      /\ Len(Tail(checks)) = Len(checks) - 1
      /\ \A i \in 1..Len(Tail(checks)) : Tail(checks)[i] = checks[i + 1]
      /\ Head(checks) = checks[1] /\ Len(checks) \in Nat \ {0}
  BY HeadTailProperties, EmptySeq
<1>2. DOMAIN checks = 1..Len(checks) /\ DOMAIN Tail(checks) = 1..Len(Tail(checks))
  BY <1>1, LenProperties
<1>3. \A i \in 1..Len(checks) :
        i = 1 \/ (i - 1 \in 1..Len(Tail(checks)) /\ checks[i] = Tail(checks)[i - 1])
  BY <1>1
<1>4. Range(checks) \subseteq Range(Tail(checks)) \cup {Head(checks)}
  <2> SUFFICES ASSUME NEW x \in Range(checks), x # Head(checks)
               PROVE  x \in Range(Tail(checks))
    OBVIOUS
  <2>1. PICK i \in 1..Len(checks) : x = checks[i]
    BY <1>2 DEF Range
  <2> QED BY <1>1, <1>2, <1>3, <2>1 DEF Range
<1>5. Head(checks) \in Range(checks)
  BY <1>1, <1>2 DEF Range
<1> QED BY <1>1, <1>4, <1>5
-----------------------------------------------------------------------------
(* One request moves.                                                        *)

\* How many permits of a service, and of the generation provider, it holds.
InUse(w, c) == IF c.at = (IF w = "embedding" THEN "embedding" ELSE "reranking") THEN 1 ELSE 0
Permits(c) == IF c.permit THEN 1 ELSE 0

Moves(s, new) ==
    /\ call' = [call EXCEPT ![s] = new]
    /\ UNCHANGED <<scenario, settings, collection, spent>>
    /\ generating' = generating - Permits(call[s]) + Permits(new)
    /\ generating' <= MaxGeneration
    /\ inFlight' \in [Services -> Int]
    /\ \A w \in Services : inFlight'[w] = inFlight[w] - InUse(w, call[s]) + InUse(w, new)

LEMMA MoveStep ==
    ASSUME IInv, NEW s \in Slots, NEW new, Sound(new), Moves(s, new)
    PROVE  IInv'
<1>1. /\ call \in [Slots -> Calls] /\ new \in Calls /\ Slots' = Slots
      /\ call' \in [Slots -> Calls] /\ call'[s] = new
      /\ \A t \in Slots \ {s} : call'[t] = call[t]
  BY DEF IInv, Requesting, Sound, Formed, Moves, Slots
<1>2. Requesting'
  <2>1. \A c : Sound(c) => Sound(c)'
    BY DEF Moves, settings, Sound, Formed, Embedded, Covered, Satisfied
  <2> QED BY <1>1, <2>1 DEF IInv, Requesting
<1>3. Counted'
  <2>1. Paying \ {s} = Paying' \ {s}
    BY <1>1 DEF Paying
  <2>2. /\ IsFiniteSet(Paying') /\ Cardinality(Paying) \in Nat /\ Cardinality(Paying') \in Nat
        /\ Cardinality(Paying') = Cardinality(Paying) - (IF s \in Paying THEN 1 ELSE 0)
                                                      + (IF s \in Paying' THEN 1 ELSE 0)
    BY <2>1, CountChange DEF IInv, Counted
  <2>3. (s \in Paying <=> call[s].permit) /\ (s \in Paying' <=> new.permit)
    BY <1>1 DEF Paying
  <2>4. generating' = Cardinality(Paying') /\ generating' <= MaxGeneration
    BY <2>2, <2>3 DEF IInv, Counted, Moves, Permits
  <2>5. ASSUME NEW w \in Services
        PROVE  /\ IsFiniteSet(Using(w)') /\ inFlight'[w] = Cardinality(Using(w)')
               /\ inFlight'[w] \in Nat
    <3>1. Using(w) \ {s} = Using(w)' \ {s}
      BY <1>1 DEF Using
    <3>2. /\ IsFiniteSet(Using(w)') /\ Cardinality(Using(w)) \in Nat
          /\ Cardinality(Using(w)') \in Nat
          /\ Cardinality(Using(w)') = Cardinality(Using(w)) - (IF s \in Using(w) THEN 1 ELSE 0)
                                                        + (IF s \in Using(w)' THEN 1 ELSE 0)
      BY <3>1, CountChange DEF IInv, Counted
    <3>3. /\ InUse(w, call[s]) = IF s \in Using(w) THEN 1 ELSE 0
          /\ InUse(w, new) = IF s \in Using(w)' THEN 1 ELSE 0
      BY <1>1 DEF Using, InUse
    <3> QED BY <3>2, <3>3 DEF IInv, Counted, Moves
  <2> QED BY <2>2, <2>4, <2>5 DEF Counted, Moves
<1>4. Around' /\ SettingsKept'
  BY DEF IInv, Around, SettingsKept, Moves, settings, Changes, Updates, Loaded
<1> QED BY <1>2, <1>3, <1>4 DEF IInv

\* The request moves on and keeps its permits.
LEMMA GoesStep ==
    ASSUME IInv, NEW s \in Slots, NEW new, Sound(new), Goes(s, new),
           new.permit = call[s].permit,
           \A w \in Services : InUse(w, new) = InUse(w, call[s])
    PROVE  IInv'
<1>1. /\ inFlight \in [Services -> Nat] /\ generating \in Nat
      /\ \A w \in Services : InUse(w, call[s]) \in {0, 1}
  BY FS_CardinalityType DEF IInv, Counted, InUse
<1>2. Moves(s, new)
  BY <1>1 DEF Goes, Moves, IInv, Counted, Permits
<1> QED BY <1>2, MoveStep

\* The request is over.
LEMMA OverStep ==
    ASSUME IInv, NEW s \in Slots, NEW result \in {"answered", "failed", "busy"} \cup Refusals,
           Over(s, result), result \in Refusals /\ call[s].paid => call[s].changed
    PROVE  IInv'
<1> DEFINE new == [Free EXCEPT !.at = "done", !.result = result, !.paid = call[s].paid,
                                  !.changed = call[s].changed]
<1>1. call[s] \in Calls
  BY DEF IInv, Requesting
<1>2. /\ new.at = "done" /\ new.result = result /\ ~new.permit /\ new.made = <<>>
      /\ new.paid = call[s].paid /\ new.changed = call[s].changed
      /\ new \in Calls
  <2>1. call[s].paid \in BOOLEAN /\ call[s].changed \in BOOLEAN
    BY <1>1 DEF Calls
  <2>2. <<>> \in Seq(Vectors) /\ <<>> \in Seq(Checks)
    OBVIOUS
  <2>3. Free \in Calls
    BY <2>2 DEF Free, Calls
  <2>4. new \in Calls
    BY <2>1, <2>3 DEF Calls
  <2> QED BY <2>4 DEF Free
<1>3. Sound(new)
  BY <1>2 DEF Sound, Formed, Embedded, Covered, Active, Stages
<1>4. \A w \in Services : InUse(w, new) = 0 /\ Holds(w, s) = InUse(w, call[s])
  BY <1>2 DEF InUse, Holds, Using
<1>5. generating' = generating - Permits(call[s]) + Permits(new)
  <2>1. generating \in Nat
    BY FS_CardinalityType DEF IInv, Counted
  <2> QED BY <1>2, <2>1 DEF Over, Permits
<1>6. generating' <= MaxGeneration
  <2>1. generating \in Nat /\ MaxGeneration \in Nat
    BY FS_CardinalityType, ProvidersAssumption DEF IInv, Counted
  <2> QED BY <2>1 DEF Over, IInv, Counted
<1>7. /\ inFlight' \in [Services -> Int]
      /\ \A w \in Services : inFlight'[w] = inFlight[w] - InUse(w, call[s]) + InUse(w, new)
  <2> HIDE DEF new
  <2>1. \A w \in Services : inFlight[w] \in Nat /\ InUse(w, call[s]) \in {0, 1}
    BY DEF IInv, Counted, InUse
  <2>2. inFlight' = [w \in Services |-> inFlight[w] - Holds(w, s)]
    BY DEF Over
  <2> QED BY <1>4, <2>1, <2>2
<1>8. Moves(s, new)
  BY <1>5, <1>6, <1>7 DEF Over, Moves
<1> QED BY <1>3, <1>8, MoveStep

\* The request moves on and gives a permit of a service back.
LEMMA ReleasedStep ==
    ASSUME IInv, NEW s \in Slots, NEW w \in Services, NEW new, Sound(new),
           Released(s, w, new), new.permit = call[s].permit,
           InUse(w, call[s]) = 1, InUse(w, new) = 0,
           \A v \in Services \ {w} : InUse(v, new) = InUse(v, call[s])
    PROVE  IInv'
<1>1. /\ inFlight \in [Services -> Nat] /\ generating \in Nat
      /\ \A v \in Services : InUse(v, call[s]) \in {0, 1}
  BY FS_CardinalityType DEF IInv, Counted, InUse
<1>2. Moves(s, new)
  BY <1>1 DEF Released, Moves, IInv, Counted, Permits
<1> QED BY <1>2, MoveStep

-----------------------------------------------------------------------------
(* The steps of a request.                                                   *)

Checked == {"rewrite", "capture", "search", "answer"}

LEMMA ThroughFields ==
    ASSUME NEW c \in Calls, NEW checks \in Seq(Checks),
           NEW stage \in Checked,
           NEW d, d = Through(c, checks, stage)
    PROVE  /\ d \in Calls /\ Stage(d) = stage /\ Active(d)
           /\ d.at = IF checks = <<>> THEN stage ELSE "checking"
           /\ d.checks = checks /\ d.next = stage
           /\ d.request = c.request /\ d.permit = c.permit /\ d.changed = c.changed
           /\ d.profile = c.profile /\ d.config = c.config /\ d.made = c.made
           /\ d.paid = c.paid /\ d.result = c.result
           /\ \A w \in Services : InUse(w, d) = 0
<1> DEFINE at == IF checks = <<>> THEN stage ELSE "checking"
<1>1. at \in Stages
  BY DEF Stages, Checked
<1>2. d = [c EXCEPT !.at = at, !.checks = checks, !.next = stage]
  BY DEF Through
<1> HIDE DEF at
<1>3. /\ d.at = at /\ d.checks = checks /\ d.next = stage
      /\ d.request = c.request /\ d.permit = c.permit /\ d.changed = c.changed
      /\ d.profile = c.profile /\ d.config = c.config /\ d.made = c.made
      /\ d.paid = c.paid /\ d.result = c.result
  BY <1>2 DEF Calls
<1>4. d \in Calls
  BY <1>1, <1>2 DEF Calls, Checked
<1>5. Stage(d) = stage /\ Active(d) /\ \A w \in Services : InUse(w, d) = 0
  BY <1>1, <1>3 DEF at, Stage, Active, InUse, Services, Checked
<1> QED BY <1>3, <1>4, <1>5 DEF at

\* A request that goes on to retrieve, after the preflight or a rewrite.
LEMMA RetrievingStep ==
    ASSUME IInv, NEW s \in Slots, NEW c \in Calls, Goes(s, Retrieving(c)),
           c.request \in Requests, c.request.kind # "embed", c.profile \in Profiles,
           c.made = <<>>, c.result = "none", c.permit = call[s].permit,
           call[s].at \notin {"embedding", "reranking"},
           c.paid /\ ~c.changed =>
              \A check \in Range(RewriteChecks(c.request)) \cup Range(RetrieveChecks(c.request)) :
                 Satisfied(check, c)
    PROVE  IInv'
<1> DEFINE stage == IF c.request.vector THEN "capture" ELSE "search"
           d == Retrieving(c)
<1>1. RetrieveChecks(c.request) \in Seq(Checks)
  BY RetrieveRange
<1>2. d = Through(c, RetrieveChecks(c.request), stage)
  BY DEF Retrieving
<1> HIDE DEF d
<1>3. stage \in Checked
  BY DEF Checked
<1> HIDE DEF stage
<1>4. /\ d \in Calls /\ Stage(d) = stage /\ Active(d)
      /\ d.at = IF d.checks = <<>> THEN stage ELSE "checking"
      /\ d.checks = RetrieveChecks(c.request) /\ d.next = stage
      /\ d.request = c.request /\ d.permit = c.permit /\ d.changed = c.changed
      /\ d.profile = c.profile /\ d.config = c.config /\ d.made = c.made
      /\ d.paid = c.paid /\ d.result = c.result
      /\ \A w \in Services : InUse(w, d) = 0
  BY <1>1, <1>2, <1>3, ThroughFields
<1>5. stage \in {"capture", "search"} /\ (stage = "capture" <=> c.request.vector)
  BY DEF Requests, stage
<1>6. Formed(d)
  BY <1>4, <1>5 DEF Formed
<1>7. Embedded(d)
  BY <1>4, <1>5 DEF Embedded
<1>8. Covered(d)
  <2>1. d.result \notin Refusals
    BY <1>4 DEF Refusals
  <2>2. ASSUME ~d.changed, NEW check \in Needed(d)
        PROVE  \/ Satisfied(check, d)
               \/ ~d.paid /\ d.at = "checking" /\ check \in Range(d.checks)
    <3>1. CASE d.paid
      <4>1. check = "profile" => c.request.vector \/ check \in Range(RetrieveChecks(c.request))
        BY <1>4, <1>5, <2>2 DEF Needed
      <4>2. check \in Range(RewriteChecks(c.request)) \cup Range(RetrieveChecks(c.request))
        BY <1>4, <1>5, <2>2, <4>1, RewriteRange DEF Needed
      <4> QED BY <1>4, <2>2, <3>1, <4>2 DEF Satisfied
    <3>2. CASE ~d.paid
      <4>1. check \in Range(RetrieveChecks(c.request))
        BY <1>4, <1>5, <2>2, <3>2 DEF Needed
      <4>2. d.checks # <<>>
        BY <1>4, <4>1 DEF Range
      <4> QED BY <1>4, <3>2, <4>1, <4>2
    <3> QED BY <3>1, <3>2
  <2> QED BY <1>4, <1>5, <2>1, <2>2 DEF Covered
<1>9. \A w \in Services : InUse(w, call[s]) = 0
  BY DEF InUse, Services
<1> QED BY <1>4, <1>6, <1>7, <1>8, <1>9, GoesStep DEF Sound, d

LEMMA ArriveStep ==
    ASSUME IInv, NEW s \in Slots, NEW request, Arrive(s, request)
    PROVE  IInv'
<1> DEFINE new == [Free EXCEPT
                      !.at = IF request.kind = "embed" THEN "capture" ELSE "preflight",
                      !.profile = IF request.kind = "embed" THEN request.expected ELSE Nothing,
                      !.request = request, !.permit = Generates(request)]
<1>1. request \in Requests /\ call[s].at = "free" /\ ~call[s].permit
  BY ScenariosAssumption
     DEF Arrive, IInv, Around, Requesting, Sound, Formed
<1>2. /\ new.at = IF request.kind = "embed" THEN "capture" ELSE "preflight"
      /\ new.profile = IF request.kind = "embed" THEN request.expected ELSE Nothing
      /\ new.request = request /\ new.permit = Generates(request)
      /\ new.made = <<>> /\ ~new.paid /\ ~new.changed /\ new.result = "none"
      /\ new.checks = <<>> /\ new.next = "free" /\ new.config = Nothing
  BY DEF Free
<1>3. new \in Calls
  <2>1. <<>> \in Seq(Vectors) /\ <<>> \in Seq(Checks)
    OBVIOUS
  <2>2. new.profile \in Profiles \cup {Nothing}
    BY <1>1, <1>2 DEF Requests
  <2>3. Generates(request) \in BOOLEAN
    BY DEF Generates
  <2>4. Free \in Calls
    BY <2>1 DEF Free, Calls
  <2>5. new.at \in Stages
    BY <1>2 DEF Stages
  <2> QED BY <1>1, <1>2, <2>2, <2>3, <2>4, <2>5 DEF Calls
<1>4. call' = [call EXCEPT ![s] = new]
  BY DEF Arrive
<1> HIDE DEF new
<1>5. Sound(new)
  BY <1>1, <1>2, <1>3 DEF Sound, Formed, Embedded, Covered, Active, Refusals, Stage
<1>6. /\ inFlight \in [Services -> Nat] /\ generating \in Nat /\ MaxGeneration \in Nat
      /\ \A w \in Services : InUse(w, call[s]) = 0 /\ InUse(w, new) = 0
  BY <1>1, <1>2, FS_CardinalityType, ProvidersAssumption
     DEF IInv, Counted, InUse, Services
<1>7. Moves(s, new)
  <2>1. generating' = generating - Permits(call[s]) + Permits(new)
    BY <1>1, <1>2, <1>6 DEF Arrive, Permits
  <2>2. generating' <= MaxGeneration
    BY <1>6 DEF Arrive, IInv, Counted
  <2>3. \A w \in Services : inFlight'[w] = inFlight[w] - InUse(w, call[s]) + InUse(w, new)
    BY <1>6 DEF Arrive
  <2>4. inFlight' \in [Services -> Int]
    BY <1>6 DEF Arrive
  <2>5. UNCHANGED <<scenario, settings, collection, spent>>
    BY DEF Arrive
  <2> QED BY <1>4, <2>1, <2>2, <2>3, <2>4, <2>5 DEF Moves
<1> QED BY <1>5, <1>7, MoveStep

LEMMA PreflightStep == ASSUME IInv, NEW s \in Slots, Preflight(s) PROVE IInv'
<1> DEFINE c == [call[s] EXCEPT !.profile = collection.profile]
<1>1. Sound(call[s]) /\ call[s].at = "preflight" /\ call[s] \in Calls
  BY DEF Preflight, IInv, Requesting
<1>2. /\ c \in Calls /\ c.at = "preflight" /\ c.profile = collection.profile
      /\ c.request = call[s].request /\ c.permit = call[s].permit
      /\ c.changed = call[s].changed /\ c.made = call[s].made /\ c.paid = call[s].paid
      /\ c.result = call[s].result
  <2>1. collection.profile \in Profiles
    BY DEF IInv, Around
  <2> QED BY <1>1, <2>1 DEF Calls
<1>3. /\ c.request \in Requests /\ c.request.kind # "embed" /\ c.made = <<>>
      /\ c.result = "none" /\ (c.paid => c.changed) /\ c.profile \in Profiles
  BY <1>1, <1>2 DEF IInv, Around, Sound, Formed, Embedded, Covered, Active, Stages, Stage
<1>4. \/ Over(s, "answered")
      \/ Goes(s, Through(c, RewriteChecks(c.request), "rewrite"))
      \/ Goes(s, Retrieving(c))
  BY DEF Preflight
<1> HIDE DEF c
<1>5. CASE Over(s, "answered")
  BY <1>5, OverStep DEF Refusals
<1>6. CASE Goes(s, Retrieving(c))
  BY <1>1, <1>2, <1>3, <1>6, RetrievingStep
<1>7. CASE Goes(s, Through(c, RewriteChecks(c.request), "rewrite"))
  <2> DEFINE d == Through(c, RewriteChecks(c.request), "rewrite")
  <2>1. RewriteChecks(c.request) \in Seq(Checks) /\ RewriteChecks(c.request) # <<>>
    BY <1>3, RewriteRange
  <2>2. Goes(s, d) /\ d = Through(c, RewriteChecks(c.request), "rewrite")
    BY <1>7
  <2> HIDE DEF d
  <2>3. "rewrite" \in Checked
    BY DEF Checked
  <2>4. /\ d \in Calls /\ Stage(d) = "rewrite" /\ Active(d) /\ d.at = "checking"
        /\ d.checks = RewriteChecks(c.request) /\ d.next = "rewrite"
        /\ d.request = c.request /\ d.permit = c.permit /\ d.changed = c.changed
        /\ d.profile = c.profile /\ d.config = c.config /\ d.made = c.made
        /\ d.paid = c.paid /\ d.result = c.result
        /\ \A w \in Services : InUse(w, d) = 0
    BY <1>2, <2>1, <2>2, <2>3, ThroughFields
  <2>5. Formed(d) /\ Embedded(d)
    BY <1>3, <2>1, <2>4 DEF Formed, Embedded
  <2>6. Covered(d)
    BY <1>3, <2>1, <2>4 DEF Covered, Needed, Refusals
  <2>7. \A w \in Services : InUse(w, call[s]) = 0
    BY <1>1 DEF InUse, Services
  <2> QED BY <1>2, <2>4, <2>2, <2>5, <2>6, <2>7, GoesStep DEF Sound
<1> QED BY <1>4, <1>5, <1>6, <1>7

LEMMA CheckStep == ASSUME IInv, NEW s \in Slots, Check(s) PROVE IInv'
<1> DEFINE c == call[s]
           check == Head(c.checks)
           rest == Through(c, Tail(c.checks), c.next)
<1>1. c \in Calls /\ Sound(c) /\ c.at = "checking" /\ Active(c)
  BY DEF Check, IInv, Requesting, Active, Stages
<1>2. /\ c.checks \in Seq(Checks) /\ c.checks # <<>> /\ c.next \in Checked
      /\ c.request \in Requests /\ c.request.kind # "embed"
      /\ Range(c.checks) \subseteq IF c.next = "rewrite" THEN Range(RewriteChecks(c.request))
                                   ELSE Range(RetrieveChecks(c.request))
  BY <1>1 DEF Sound, Formed, Calls, Checked
<1>3. /\ Tail(c.checks) \in Seq(Checks) /\ check \in Checks /\ check \in Range(c.checks)
      /\ Range(c.checks) \subseteq Range(Tail(c.checks)) \cup {check}
  BY <1>2, TailRange
<1>4. \/ /\ Over(s, "settings changed") \/ Over(s, "not configured")
         /\ ~Satisfied(check, c)
      \/ Goes(s, rest) /\ Satisfied(check, c)
  BY <1>3 DEF Check, Satisfied, Checks
<1> HIDE DEF check
\* A request that has paid without a change passes all its checks.
<1>5. CASE /\ Over(s, "settings changed") \/ Over(s, "not configured")
           /\ ~Satisfied(check, c)
  <2>1. c.paid => c.changed
    <3> SUFFICES ASSUME c.paid, ~c.changed PROVE FALSE
      OBVIOUS
    <3>1. Stage(c) # "rewrite" /\ Stage(c) # "rewriting" /\ c.next # "rewrite"
      BY <1>1, <1>2 DEF Sound, Covered, Stage, Checked
    <3>2. check \in Needed(c)
      BY <1>2, <1>3, <3>1 DEF Needed
    <3> QED BY <1>1, <1>2, <1>5, <3>2 DEF Sound, Covered
  <2> QED BY <1>5, <2>1, OverStep DEF Refusals
<1>6. CASE Goes(s, rest) /\ Satisfied(check, c)
  <2> DEFINE d == rest
             left == Tail(c.checks)
             next == c.next
  <2>1. /\ Goes(s, d) /\ d = Through(c, left, next)
        /\ left = Tail(c.checks) /\ left \in Seq(Checks)
        /\ next = c.next /\ next \in Checked
    BY <1>2, <1>3, <1>6
  <2> HIDE DEF d, rest, left, next
  <2>2. /\ d \in Calls /\ Stage(d) = next /\ Active(d)
        /\ d.at = IF left = <<>> THEN next ELSE "checking"
        /\ d.checks = left /\ d.next = next
        /\ d.request = c.request /\ d.permit = c.permit /\ d.changed = c.changed
        /\ d.profile = c.profile /\ d.config = c.config /\ d.made = c.made
        /\ d.paid = c.paid /\ d.result = c.result
        /\ \A w \in Services : InUse(w, d) = 0
    <3>1. c \in Calls
      BY <1>1
    <3>2. left \in Seq(Checks) /\ next \in Checked
      BY <2>1
    <3>3. d = Through(c, left, next)
      BY <2>1
    <3> HIDE DEF c
    <3> QED BY ONLY <3>1, <3>2, <3>3, ThroughFields
  <2>3. Stage(c) = next
    BY <1>1, <2>1 DEF Stage
  <2>4. Range(d.checks) \subseteq Range(c.checks)
    <3> SUFFICES ASSUME NEW k \in Range(left) PROVE k \in Range(c.checks)
      BY <2>2
    <3>1. /\ DOMAIN left = 1..Len(left) /\ DOMAIN c.checks = 1..Len(c.checks)
          /\ Len(left) = Len(c.checks) - 1 /\ Len(c.checks) \in Nat
          /\ \A i \in 1..Len(left) : left[i] = c.checks[i + 1]
      BY <1>2, <2>1, LenProperties, HeadTailProperties
    <3>2. PICK i \in 1..Len(left) : k = left[i]
      BY <3>1 DEF Range
    <3>3. i + 1 \in 1..Len(c.checks)
      BY <3>1
    <3> QED BY <3>1, <3>2, <3>3 DEF Range
  <2>5. Formed(d)
    BY <1>1, <1>2, <2>1, <2>2, <2>4 DEF Sound, Formed, Checked
  <2>6. Embedded(d)
    BY <1>1, <1>2, <2>1, <2>2, <2>3 DEF Sound, Embedded, Checked
  <2>7. Covered(d)
    <3>1. Needed(d) = Needed(c)
      BY <2>2, <2>3 DEF Needed
    <3>2. d.at = "rewrite" => c.next = "rewrite"
      BY <2>1, <2>2
    <3>3. ASSUME ~d.changed, NEW k \in Needed(d)
          PROVE  Satisfied(k, d) \/ (~d.paid /\ d.at = "checking" /\ k \in Range(d.checks))
      <4>1. Satisfied(k, c) \/ (~c.paid /\ k \in Range(c.checks))
        BY <1>1, <1>2, <2>2, <3>1, <3>3 DEF Sound, Covered
      <4>2. CASE Satisfied(k, c)
        BY <2>2, <4>2 DEF Satisfied
      <4>3. CASE ~c.paid /\ k \in Range(c.checks)
        <5>1. CASE k = check
          BY <1>6, <2>2, <5>1 DEF Satisfied
        <5>2. CASE k \in Range(left)
          <6>1. left # <<>>
            BY <5>2 DEF Range
          <6> QED BY <2>2, <4>3, <5>2, <6>1
        <5> QED BY <1>3, <2>1, <4>3, <5>1, <5>2
      <4> QED BY <4>1, <4>2, <4>3
    <3> QED BY <1>1, <1>2, <2>1, <2>2, <3>2, <3>3 DEF Sound, Covered, Checked
  <2>8. \A w \in Services : InUse(w, call[s]) = 0
    BY <1>1 DEF InUse, Services
  <2> QED BY <2>1, <2>2, <2>5, <2>6, <2>7, <2>8, GoesStep DEF Sound
<1> QED BY <1>4, <1>5, <1>6

LEMMA SendStep == ASSUME IInv, NEW s \in Slots, Send(s) PROVE IInv'
<1> DEFINE c == call[s]
           at == IF c.at = "rewrite" THEN "rewriting" ELSE "answering"
           d == [c EXCEPT !.at = at, !.paid = TRUE]
<1>1. c \in Calls /\ Sound(c) /\ c.at \in {"rewrite", "answer"} /\ Active(c)
  BY DEF Send, IInv, Requesting, Active, Stages
<1>2. CASE Over(s, "failed")
  BY <1>2, OverStep DEF Refusals
<1>3. CASE Goes(s, d)
  <2>1. at \in Stages /\ at \in {"rewriting", "answering"}
    BY DEF Stages
  <2>2. Goes(s, d) /\ d = [c EXCEPT !.at = at, !.paid = TRUE]
    BY <1>3
  <2> HIDE DEF d, at
  <2>3. /\ d \in Calls /\ d.at = at /\ d.paid
        /\ d.request = c.request /\ d.permit = c.permit /\ d.changed = c.changed
        /\ d.profile = c.profile /\ d.config = c.config /\ d.made = c.made
        /\ d.result = c.result
    BY <1>1, <2>1, <2>2 DEF Calls
  <2>4. Formed(d)
    BY <1>1, <2>1, <2>3 DEF Sound, Formed, Active
  <2>5. Embedded(d)
    BY <1>1, <2>1, <2>3 DEF Sound, Embedded, Active, Stage, at
  <2>6. Covered(d)
    <3>1. Needed(d) = Needed(c)
      BY <1>1, <2>3 DEF Needed, Stage, at
    <3>2. c.request.kind # "embed"
      BY <1>1 DEF Sound, Formed
    <3>3. ~c.changed => \A k \in Needed(c) : Satisfied(k, d)
      BY <1>1, <2>3, <3>2 DEF Sound, Covered, Satisfied
    <3> QED BY <1>1, <2>1, <2>3, <3>1, <3>2, <3>3 DEF Sound, Formed, Covered, Refusals
  <2>7. \A w \in Services : InUse(w, d) = 0 /\ InUse(w, call[s]) = 0
    BY <1>1, <2>1, <2>3 DEF InUse, Services
  <2> QED BY <2>2, <2>3, <2>4, <2>5, <2>6, <2>7, GoesStep DEF Sound
<1> QED BY <1>2, <1>3 DEF Send

LEMMA RewriteEndsStep == ASSUME IInv, NEW s \in Slots, RewriteEnds(s) PROVE IInv'
<1> DEFINE c == call[s]
<1>1. c \in Calls /\ Sound(c) /\ c.at = "rewriting" /\ Active(c)
  BY DEF RewriteEnds, IInv, Requesting, Active, Stages
<1>2. CASE Over(s, "failed")
  BY <1>2, OverStep DEF Refusals
<1>3. CASE Goes(s, Retrieving(c))
  <2>1. /\ c.request \in Requests /\ c.request.kind # "embed" /\ c.profile \in Profiles
        /\ c.made = <<>> /\ c.result = "none"
    BY <1>1 DEF Sound, Formed, Embedded, Stage
  <2>2. Range(RetrieveChecks(c.request)) \subseteq Range(RewriteChecks(c.request))
    BY <2>1, RewriteRange, RetrieveRange
  <2>3. Needed(c) = Range(RewriteChecks(c.request))
    BY <1>1 DEF Needed, Stage
  <2>4. ~c.changed => \A check \in Needed(c) : Satisfied(check, c)
    BY <1>1, <2>1 DEF Sound, Covered
  <2> QED BY <1>1, <1>3, <2>1, <2>2, <2>3, <2>4, RetrievingStep
<1> QED BY <1>2, <1>3 DEF RewriteEnds

LEMMA AnswerEndsStep == ASSUME IInv, NEW s \in Slots, AnswerEnds(s) PROVE IInv'
BY OverStep DEF AnswerEnds, Refusals

LEMMA CaptureStep == ASSUME IInv, NEW s \in Slots, Capture(s) PROVE IInv'
<1> DEFINE c == call[s]
           now == config["embedding"]
           d == [c EXCEPT !.at = "acquire", !.config = now]
<1>1. c \in Calls /\ Sound(c) /\ c.at = "capture" /\ Active(c)
  BY DEF Capture, IInv, Requesting, Active, Stages
<1>2. now \in Configs /\ now.profile \in Profiles
  BY DEF IInv, SettingsKept, Services, Configs
<1>3. \/ /\ Over(s, "settings changed") \/ Over(s, "not configured")
         /\ \/ c.profile \notin {Nothing, now.profile}
            \/ now.profile.provider \notin keys["embedding"]
      \/ Goes(s, d) /\ c.profile \in {Nothing, now.profile}
  BY DEF Capture
<1>4. CASE /\ Over(s, "settings changed") \/ Over(s, "not configured")
           /\ \/ c.profile \notin {Nothing, now.profile}
              \/ now.profile.provider \notin keys["embedding"]
  <2>1. c.paid => c.changed
    <3> SUFFICES ASSUME c.paid, ~c.changed PROVE FALSE
      OBVIOUS
    <3>1. c.request.kind # "embed" /\ "profile" \in Needed(c)
      BY <1>1 DEF Sound, Covered, Needed, Stage
    <3>2. Satisfied("profile", c)
      BY <1>1, <3>1 DEF Sound, Covered
    <3> QED BY <1>4, <3>2 DEF Satisfied
  <2> QED BY <1>4, <2>1, OverStep DEF Refusals
<1>5. CASE Goes(s, d) /\ c.profile \in {Nothing, now.profile}
  <2>1. Goes(s, d) /\ d = [c EXCEPT !.at = "acquire", !.config = now]
    BY <1>5
  <2> HIDE DEF d
  <2>2. /\ d.at = "acquire" /\ d.config = now
        /\ d.request = c.request /\ d.permit = c.permit /\ d.changed = c.changed
        /\ d.profile = c.profile /\ d.made = c.made /\ d.paid = c.paid /\ d.result = c.result
    BY <1>1, <2>1 DEF Calls
  <2>3. d \in Calls
    <3>1. "acquire" \in Stages
      BY DEF Stages
    <3> QED BY <1>1, <1>2, <2>1, <3>1 DEF Calls
  <2>4. Formed(d)
    BY <1>1, <1>2, <2>2, <2>3 DEF Sound, Formed, Active
  <2>5. Embedded(d)
    BY <1>1, <1>5, <2>2 DEF Sound, Embedded, Active, Stage
  <2>6. Covered(d)
    <3>1. Needed(d) \subseteq Needed(c)
      BY <1>1, <2>2 DEF Needed, Stage
    <3> QED BY <1>1, <2>2, <3>1 DEF Sound, Formed, Covered, Active, Satisfied, Refusals
  <2>7. \A w \in Services : InUse(w, d) = 0 /\ InUse(w, call[s]) = 0
    BY <1>1, <2>2 DEF InUse, Services
  <2> QED BY <2>1, <2>2, <2>4, <2>5, <2>6, <2>7, GoesStep DEF Sound
<1> QED BY <1>3, <1>4, <1>5

LEMMA InputsCount == ASSUME NEW request \in Requests PROVE Inputs(request) \in Nat
BY DEF Inputs, Requests

\* A permit is taken within the captured limit, and the call is paid for.
LEMMA AcquireStep ==
    ASSUME IInv, NEW s \in Slots, NEW w \in Services, NEW waiting,
           Acquire(s, w, waiting),
           \/ call[s].at = "acquire" /\ w = "embedding" /\ waiting = "embedding"
           \/ call[s].at = "acquireReranker" /\ w = "reranking" /\ waiting = "reranking"
    PROVE  IInv'
<1> DEFINE c == call[s]
           d == [c EXCEPT !.at = waiting, !.paid = TRUE]
<1>1. c \in Calls /\ Sound(c) /\ Active(c) /\ c.at \in {"acquire", "acquireReranker"}
  BY DEF IInv, Requesting, Active, Stages
<1>2. CASE Over(s, "busy")
  BY <1>2, OverStep DEF Refusals
<1>3. CASE ~Over(s, "busy")
  <2>1. /\ inFlight' = [inFlight EXCEPT ![w] = @ + 1]
        /\ call' = [call EXCEPT ![s].at = waiting, ![s].paid = TRUE]
        /\ UNCHANGED <<scenario, settings, generating, collection, spent>>
    BY <1>3 DEF Acquire
  <2>2. call' = [call EXCEPT ![s] = d] /\ d = [c EXCEPT !.at = waiting, !.paid = TRUE]
    BY <2>1 DEF IInv, Requesting
  <2> HIDE DEF d
  <2>3. /\ d.at = waiting /\ d.paid /\ d.config = c.config
        /\ d.request = c.request /\ d.permit = c.permit /\ d.changed = c.changed
        /\ d.profile = c.profile /\ d.made = c.made /\ d.result = c.result
    BY <1>1, <2>2 DEF Calls
  <2>4. d \in Calls /\ Active(d)
    <3>1. waiting \in Stages
      BY DEF Stages
    <3> QED BY <1>1, <2>2, <2>3, <3>1 DEF Calls, Active
  <2>5. Formed(d)
    BY <1>1, <2>3, <2>4 DEF Sound, Formed
  <2>6. Embedded(d)
    <3>1. Inputs(c.request) \in Nat
      BY <1>1, InputsCount DEF Sound, Formed
    <3>2. c.made = <<>> => Len(c.made) = 0
      OBVIOUS
    <3> QED BY <1>1, <2>3, <3>1, <3>2 DEF Sound, Embedded, Stage
  <2>7. Covered(d)
    <3>1. Needed(d) = Needed(c)
      BY <1>1, <2>3 DEF Needed, Stage
    <3>2. waiting = "reranking" => c.request.kind # "embed"
      BY <1>1 DEF Sound, Formed
    <3>3. c.result = "none"
      BY <1>1 DEF Sound, Formed
    <3> QED BY <1>1, <2>3, <3>1, <3>2, <3>3 DEF Sound, Covered, Satisfied, Refusals
  <2>8. Moves(s, d)
    <3>1. inFlight \in [Services -> Nat] /\ generating \in Nat
      BY FS_CardinalityType DEF IInv, Counted
    <3>2. generating' = generating - Permits(call[s]) + Permits(d) /\ generating' <= MaxGeneration
      BY <2>1, <2>3, <3>1 DEF IInv, Counted, Permits
    <3>3. inFlight' \in [Services -> Int]
      BY <2>1, <3>1
    <3>4. \A v \in Services : /\ InUse(v, call[s]) = 0
                              /\ InUse(v, d) = IF v = w THEN 1 ELSE 0
      BY <1>1, <2>3 DEF InUse, Services
    <3>5. \A v \in Services : inFlight'[v] = inFlight[v] - InUse(v, call[s]) + InUse(v, d)
      BY <2>1, <3>1, <3>4
    <3> QED BY <2>1, <2>2, <3>2, <3>3, <3>5 DEF Moves
  <2> QED BY <2>5, <2>6, <2>7, <2>8, MoveStep DEF Sound
<1> QED BY <1>2, <1>3

\* From the search on, a request moves without a vector being made.
Ranking == {"search", "rerank", "reranking"}
Ranked == {"select", "rerank", "acquireReranker"}
Captured == Configs \cup {Nothing}
Moved(c, at, captured) == [c EXCEPT !.at = at, !.config = captured]

LEMMA AfterSearch ==
    ASSUME IInv, NEW c \in Calls, Sound(c), c.at \in Ranking,
           NEW at \in Ranked, at = "rerank" => c.request.rerank,
           NEW captured \in Captured, at = "acquireReranker" => captured \in Configs,
           NEW d, d = Moved(c, at, captured)
    PROVE  Sound(d) /\ d.permit = c.permit /\ \A w \in Services : InUse(w, d) = 0
<1>1. /\ d.at = at /\ d.config = captured
      /\ d.request = c.request /\ d.permit = c.permit /\ d.changed = c.changed
      /\ d.profile = c.profile /\ d.made = c.made /\ d.paid = c.paid /\ d.result = c.result
  BY DEF Calls, Moved
<1>2. Active(c)
  BY DEF Active, Stages, Ranking
<1>3. d \in Calls
  <2>1. at \in Stages
    BY DEF Stages, Ranked
  <2> QED BY <2>1 DEF Calls, Captured, Moved
<1>4. Formed(d)
  BY <1>1, <1>2, <1>3 DEF Sound, Formed, Ranking, Ranked
<1>5. Embedded(d)
  BY <1>1, <1>2 DEF Sound, Embedded, Stage, Ranking, Ranked
<1>6. Covered(d)
  <2>1. Needed(d) = Needed(c)
    BY <1>1 DEF Needed, Stage, Ranking, Ranked
  <2>2. c.request.kind # "embed" /\ c.result = "none"
    BY <1>2 DEF Sound, Formed, Ranking, Ranked
  <2> QED BY <1>1, <1>2, <2>1, <2>2 DEF Sound, Covered, Satisfied, Refusals, Ranking, Ranked
<1>7. \A w \in Services : InUse(w, d) = 0
  BY <1>1 DEF InUse, Services, Ranked
<1> QED BY <1>1, <1>4, <1>5, <1>6, <1>7 DEF Sound

LEMMA SearchStep == ASSUME IInv, NEW s \in Slots, Search(s) PROVE IInv'
<1> DEFINE c == call[s]
<1>1. c \in Calls /\ Sound(c) /\ c.at = "search"
  BY DEF Search, IInv, Requesting
<1>2. CASE Over(s, "failed")
  BY <1>2, OverStep DEF Refusals
<1>3. ASSUME NEW at \in {"select", "rerank"}, at = "rerank" => c.request.rerank,
             Goes(s, [c EXCEPT !.at = at])
      PROVE  IInv'
  <2> DEFINE d == [c EXCEPT !.at = at]
  <2>1. c.config \in Configs \cup {Nothing}
    BY <1>1 DEF Calls
  <2>2. d = [c EXCEPT !.at = at, !.config = c.config]
    BY <1>1 DEF Calls
  <2>3. Goes(s, d)
    BY <1>3
  <2> HIDE DEF d
  <2>4. Sound(d) /\ d.permit = c.permit /\ \A w \in Services : InUse(w, d) = 0
    <3>1. c.at \in Ranking /\ at \in Ranked /\ c.config \in Captured /\ at # "acquireReranker"
      BY <1>1, <2>1 DEF Ranking, Ranked, Captured
    <3>2. d = Moved(c, at, c.config)
      BY <2>2 DEF Moved
    <3> QED BY <1>1, <1>3, <3>1, <3>2, AfterSearch
  <2>5. \A w \in Services : InUse(w, call[s]) = 0
    BY <1>1 DEF InUse, Services
  <2> QED BY <2>3, <2>4, <2>5, GoesStep
<1> QED BY <1>2, <1>3 DEF Search

LEMMA CaptureRerankerStep == ASSUME IInv, NEW s \in Slots, CaptureReranker(s) PROVE IInv'
<1> DEFINE c == call[s]
           now == config["reranking"]
           d == [c EXCEPT !.at = "acquireReranker", !.config = now]
<1>1. c \in Calls /\ Sound(c) /\ c.at = "rerank" /\ Active(c)
  BY DEF CaptureReranker, IInv, Requesting, Active, Stages
<1>2. CASE keys["reranking"] = {} /\ Over(s, "not configured")
  <2>1. c.request \in Requests /\ c.request.kind # "embed" /\ c.request.rerank
    BY <1>1 DEF Sound, Formed
  <2>2. "reranker" \in Needed(c)
    BY <1>1, <2>1, RetrieveRange DEF Needed, Stage
  <2>3. c.paid => c.changed
    BY <1>1, <1>2, <2>1, <2>2 DEF Sound, Covered, Satisfied
  <2> QED BY <1>2, <2>3, OverStep DEF Refusals
<1>3. CASE Goes(s, d)
  <2>1. Goes(s, d) /\ d = [c EXCEPT !.at = "acquireReranker", !.config = now]
    BY <1>3
  <2> HIDE DEF d
  <2>2. now \in Configs
    BY DEF IInv, SettingsKept, Services
  <2>3. Sound(d) /\ d.permit = c.permit /\ \A w \in Services : InUse(w, d) = 0
    <3>1. c.at \in Ranking /\ "acquireReranker" \in Ranked /\ now \in Captured
      BY <1>1, <2>2 DEF Ranking, Ranked, Captured
    <3>2. d = Moved(c, "acquireReranker", now)
      BY <2>1 DEF Moved
    <3> QED BY <1>1, <2>2, <3>1, <3>2, AfterSearch
  <2>4. \A w \in Services : InUse(w, call[s]) = 0
    BY <1>1 DEF InUse, Services
  <2> QED BY <2>1, <2>3, <2>4, GoesStep
<1> QED BY <1>2, <1>3 DEF CaptureReranker

LEMMA RerankEndsStep ==
    ASSUME IInv, NEW s \in Slots, NEW reply, RerankEnds(s, reply)
    PROVE  IInv'
<1> DEFINE c == call[s]
           d == [c EXCEPT !.at = "select", !.config = Nothing]
<1>1. c \in Calls /\ Sound(c) /\ c.at = "reranking"
  BY DEF RerankEnds, IInv, Requesting
<1>2. CASE Over(s, "failed")
  BY <1>2, OverStep DEF Refusals
<1>3. CASE Released(s, "reranking", d)
  <2>1. Released(s, "reranking", d) /\ d = [c EXCEPT !.at = "select", !.config = Nothing]
    BY <1>3
  <2> HIDE DEF d
  <2>2. Sound(d) /\ d.permit = c.permit /\ \A w \in Services : InUse(w, d) = 0
    <3>1. c.at \in Ranking /\ "select" \in Ranked /\ Nothing \in Captured
      BY <1>1 DEF Ranking, Ranked, Captured
    <3>2. d = Moved(c, "select", Nothing)
      BY <2>1 DEF Moved
    <3> QED BY <1>1, <3>1, <3>2, AfterSearch
  <2>3. /\ InUse("reranking", call[s]) = 1 /\ "reranking" \in Services
        /\ \A w \in Services \ {"reranking"} : InUse(w, call[s]) = 0
    BY <1>1 DEF InUse, Services
  <2> QED BY <2>1, <2>2, <2>3, ReleasedStep
<1> QED BY <1>2, <1>3 DEF RerankEnds

LEMMA SelectStep == ASSUME IInv, NEW s \in Slots, Select(s) PROVE IInv'
<1> DEFINE c == call[s]
<1>1. c \in Calls /\ Sound(c) /\ c.at = "select" /\ Active(c)
  BY DEF Select, IInv, Requesting, Active, Stages
<1>2. CASE Over(s, "answered")
  BY <1>2, OverStep DEF Refusals
<1>3. CASE c.request.answer /\ Goes(s, Through(c, <<"generation">>, "answer"))
  <2> DEFINE checks == <<"generation">>
             d == Through(c, checks, "answer")
  <2>1. checks \in Seq(Checks) /\ Range(checks) = {"generation"} /\ checks # <<>>
    <3>1. "generation" \in Checks /\ checks = If(TRUE, "generation")
      BY DEF Checks, If
    <3> QED BY <3>1, IfRange
  <2>2. Goes(s, d) /\ d = Through(c, checks, "answer") /\ "answer" \in Checked
    BY <1>3 DEF Checked
  <2> HIDE DEF d, checks
  <2>3. /\ d \in Calls /\ Stage(d) = "answer" /\ Active(d) /\ d.at = "checking"
        /\ d.checks = checks /\ d.next = "answer"
        /\ d.request = c.request /\ d.permit = c.permit /\ d.changed = c.changed
        /\ d.profile = c.profile /\ d.config = c.config /\ d.made = c.made
        /\ d.paid = c.paid /\ d.result = c.result
        /\ \A w \in Services : InUse(w, d) = 0
    BY <1>1, <2>1, <2>2, ThroughFields
  <2>4. c.request \in Requests /\ c.request.kind # "embed" /\ c.result = "none"
    BY <1>1 DEF Sound, Formed
  <2>5. Formed(d)
    BY <1>1, <1>3, <2>1, <2>3, <2>4, RetrieveRange DEF Sound, Formed
  <2>6. Embedded(d)
    BY <1>1, <2>3 DEF Sound, Embedded
  <2>7. Covered(d)
    <3>1. Needed(d) = Needed(c)
      BY <1>1, <2>3 DEF Needed, Stage
    <3> QED BY <1>1, <2>3, <2>4, <3>1 DEF Sound, Covered, Satisfied, Refusals
  <2>8. \A w \in Services : InUse(w, call[s]) = 0
    BY <1>1 DEF InUse, Services
  <2> QED BY <2>2, <2>3, <2>5, <2>6, <2>7, <2>8, GoesStep DEF Sound
<1> QED BY <1>2, <1>3 DEF Select

LEMMA FreeSound ==
    Sound(Free) /\ Free \in Calls /\ ~Free.permit /\ Free.at = "free"
<1>1. <<>> \in Seq(Vectors) /\ <<>> \in Seq(Checks)
  OBVIOUS
<1>2. Free \in Calls
  BY <1>1 DEF Free, Calls
<1>3. /\ Free.at = "free" /\ ~Free.permit /\ Free.made = <<>> /\ Free.result = "none"
  BY DEF Free
<1> QED BY <1>2, <1>3 DEF Sound, Formed, Embedded, Covered, Active, Stages, Refusals

LEMMA LeaveStep == ASSUME IInv, NEW s \in Slots, Leave(s) PROVE IInv'
<1>1. \A w \in Services : InUse(w, Free) = 0 /\ Holds(w, s) = InUse(w, call[s])
  BY FreeSound DEF InUse, Holds, Using
<1>2. generating \in Nat /\ MaxGeneration \in Nat
  BY FS_CardinalityType, ProvidersAssumption DEF IInv, Counted
<1>3. generating' = generating - Permits(call[s]) + Permits(Free)
  BY <1>2, FreeSound DEF Leave, Permits
<1>4. generating' <= MaxGeneration
  BY <1>2 DEF Leave, IInv, Counted
<1>5. \A w \in Services : inFlight[w] \in Nat /\ InUse(w, call[s]) \in {0, 1}
  BY DEF IInv, Counted, InUse
<1>6. inFlight' = [w \in Services |-> inFlight[w] - Holds(w, s)]
  BY DEF Leave
<1>7. /\ inFlight' \in [Services -> Int]
      /\ \A w \in Services : inFlight'[w] = inFlight[w] - InUse(w, call[s]) + InUse(w, Free)
  BY <1>1, <1>5, <1>6
<1>8. Moves(s, Free)
  BY <1>3, <1>4, <1>7 DEF Leave, Moves
<1> QED BY <1>8, FreeSound, MoveStep

\* Put at its index, each item of a complete reply is the vector of the text
\* that was sent at that place.
LEMMA OrderedVectors ==
    ASSUME NEW c \in Calls, c.config \in Configs, NEW n \in Nat,
           NEW reply \in Replies, Complete(reply, n)
    PROVE  /\ Ordered(c, reply) \in Seq(Vectors) /\ Len(Ordered(c, reply)) = n
           /\ \A k \in 1..n : Ordered(c, reply)[k] = VectorOf(c, Len(c.made) + k)
<1> DEFINE Item(k) == CHOOSE i \in 1..Len(reply) : reply[i] = k - 1
           From(k) == VectorOf(c, Len(c.made) + reply[Item(k)] + 1)
<1>1. Len(reply) = n /\ DOMAIN reply = 1..n /\ reply \in [1..n -> Nat]
  <2>1. PICK m \in 0..BatchSize : reply \in [1..m -> 0..BatchSize]
    BY DEF Replies
  <2>2. BatchSize \in Nat /\ m \in Nat
    BY <2>1, ProvidersAssumption
  <2>3. \A i \in 1..m : reply[i] \in Nat
    BY <2>1, <2>2
  <2>4. reply \in Seq(Nat) /\ Len(reply) = m
    BY <2>1, <2>2, <2>3
  <2> QED BY <2>1, <2>3, <2>4 DEF Complete
<1>2. Len(c.made) \in Nat /\ c.config.profile \in Profiles
  BY LenProperties DEF Calls, Configs
<1>3. \A k \in 1..n : From(k) = VectorOf(c, Len(c.made) + k) /\ From(k) \in Vectors
  <2> TAKE k \in 1..n
  <2>1. k - 1 \in Range(reply)
    BY DEF Complete
  <2>2. \E i \in 1..Len(reply) : reply[i] = k - 1
    BY <1>1, <2>1 DEF Range
  <2>3. reply[Item(k)] = k - 1
    BY <2>2
  <2>4. Len(c.made) + reply[Item(k)] + 1 = Len(c.made) + k
    BY <1>2, <2>3
  <2> HIDE DEF Item
  <2>5. From(k) = VectorOf(c, Len(c.made) + k)
    BY <2>4
  <2>6. Len(c.made) + k \in Nat
    BY <1>2
  <2> QED BY <1>2, <2>5, <2>6 DEF VectorOf, Vectors
<1>4. Ordered(c, reply) = [k \in 1..n |-> From(k)]
  BY <1>1 DEF Ordered
<1> HIDE DEF From
<1>5. [k \in 1..n |-> From(k)] \in Seq(Vectors) /\ Len([k \in 1..n |-> From(k)]) = n
  BY <1>3
<1> QED BY <1>3, <1>4, <1>5

\* The vectors of a request, with those of one more batch.
LEMMA BatchAppends ==
    ASSUME NEW c \in Calls, Sound(c), c.at = "embedding", NEW reply \in Replies,
           Complete(reply, BatchOf(c)),
           NEW made, made = c.made \o Ordered(c, reply)
    PROVE  /\ made \in Seq(Vectors) /\ Len(made) \in Nat /\ Len(made) <= Inputs(c.request)
           /\ \A i \in 1..Len(made) : made[i] = VectorOf(c, i)
           /\ c.profile \in {Nothing, c.config.profile} /\ c.config \in Configs
<1>1. /\ c.config \in Configs /\ c.request \in Requests /\ c.made \in Seq(Vectors)
      /\ c.profile \in {Nothing, c.config.profile}
      /\ c.made # <<>> => c.made[1].profile = c.config.profile
      /\ \A i \in 1..Len(c.made) : c.made[i] = [profile |-> c.made[1].profile, input |-> i]
      /\ Len(c.made) <= Inputs(c.request)
  BY DEF Sound, Formed, Embedded, Active, Stages, Calls
<1>2. /\ Len(c.made) \in Nat /\ Inputs(c.request) \in Nat /\ BatchSize \in Nat
  BY <1>1, InputsCount, LenProperties, ProvidersAssumption
<1>3. BatchOf(c) \in Nat /\ Len(c.made) + BatchOf(c) <= Inputs(c.request)
  BY <1>1, <1>2 DEF BatchOf
<1> DEFINE more == Ordered(c, reply)
<1>4. /\ more \in Seq(Vectors) /\ Len(more) = BatchOf(c)
      /\ \A k \in 1..BatchOf(c) : more[k] = VectorOf(c, Len(c.made) + k)
  BY <1>1, <1>3, OrderedVectors
<1>5. made = c.made \o more
  OBVIOUS
<1> HIDE DEF more
<1>6. /\ made \in Seq(Vectors) /\ Len(made) = Len(c.made) + BatchOf(c)
      /\ \A i \in 1..Len(made) : made[i] = IF i <= Len(c.made) THEN c.made[i]
                                           ELSE more[i - Len(c.made)]
  <2> DEFINE old == c.made
  <2>1. old \in Seq(Vectors) /\ made = old \o more /\ Len(old) \in Nat
    BY <1>1, <1>2, <1>5
  <2> HIDE DEF old
  <2>2. /\ old \o more \in Seq(Vectors) /\ Len(old \o more) = Len(old) + Len(more)
        /\ \A i \in 1..Len(old) + Len(more) :
              (old \o more)[i] = IF i <= Len(old) THEN old[i] ELSE more[i - Len(old)]
    BY <1>4, <2>1, ConcatProperties
  <2> QED BY <1>4, <2>1, <2>2 DEF old
<1>7. ASSUME NEW i \in 1..Len(made) PROVE made[i] = VectorOf(c, i)
  <2>1. CASE i <= Len(c.made)
    <3>1. i \in 1..Len(c.made) /\ c.made # <<>>
      BY <1>2, <2>1
    <3> QED BY <1>1, <1>6, <2>1, <3>1 DEF VectorOf
  <2>2. CASE ~(i <= Len(c.made))
    <3>1. i - Len(c.made) \in 1..BatchOf(c) /\ Len(c.made) + (i - Len(c.made)) = i
      BY <1>2, <1>3, <1>6, <2>2
    <3> QED BY <1>4, <1>6, <2>2, <3>1
  <2> QED BY <2>1, <2>2
<1> QED BY <1>1, <1>2, <1>3, <1>6, <1>7

\* A batch ends the request, or is not its last, or is.
LEMMA BatchCases ==
    ASSUME IInv, NEW s \in Slots, NEW reply \in Replies, Batch(s, reply), ~Over(s, "failed"),
           NEW made, made = call[s].made \o Ordered(call[s], reply),
           NEW longer, longer = [call[s] EXCEPT !.made = made]
    PROVE  LET c == call[s]
           IN  \/ Len(made) < Inputs(c.request) /\ Goes(s, longer)
               \/ /\ c.request.kind = "embed" /\ Len(made) = Inputs(c.request)
                  /\ Released(s, "embedding", [longer EXCEPT !.at = "done", !.result = "answered"])
               \/ /\ c.request.kind # "embed" /\ Len(made) = Inputs(c.request)
                  /\ Released(s, "embedding", [longer EXCEPT !.at = "search", !.config = Nothing])
<1> DEFINE c == call[s]
<1>1. c \in Calls /\ Sound(c) /\ c.at = "embedding" /\ Complete(reply, BatchOf(c))
  BY DEF Batch, IInv, Requesting
<1>2. longer.made = made /\ longer.request = c.request
  BY <1>1 DEF Calls
<1>3. made \in Seq(Vectors) /\ Len(made) \in Nat /\ Len(made) <= Inputs(c.request)
  BY <1>1, BatchAppends
<1>4. Inputs(c.request) \in Nat
  BY <1>1, InputsCount DEF Sound, Formed, Active, Stages
<1>5. \/ Len(made) < Inputs(c.request)
      \/ c.request.kind = "embed" /\ Len(made) = Inputs(c.request)
      \/ c.request.kind # "embed" /\ Len(made) = Inputs(c.request)
  <2>1. \A m, n \in Nat : m <= n => m < n \/ m = n
    OBVIOUS
  <2> QED BY <1>3, <1>4, <2>1
<1> QED BY <1>1, <1>2, <1>5 DEF Batch

LEMMA BatchStep ==
    ASSUME IInv, NEW s \in Slots, NEW reply \in Replies, Batch(s, reply)
    PROVE  IInv'
<1> DEFINE c == call[s]
           made == c.made \o Ordered(c, reply)
           longer == [c EXCEPT !.made = made]
<1>1. c \in Calls /\ Sound(c) /\ c.at = "embedding" /\ Active(c)
  BY DEF Batch, IInv, Requesting, Active, Stages
<1>2. CASE Over(s, "failed")
  BY <1>2, OverStep DEF Refusals
<1>3. CASE ~Over(s, "failed")
  <2>1. Complete(reply, BatchOf(c))
    BY <1>3 DEF Batch
  <2>3. \/ Len(made) < Inputs(c.request) /\ Goes(s, longer)
        \/ /\ c.request.kind = "embed" /\ Len(made) = Inputs(c.request)
           /\ Released(s, "embedding", [longer EXCEPT !.at = "done", !.result = "answered"])
        \/ /\ c.request.kind # "embed" /\ Len(made) = Inputs(c.request)
           /\ Released(s, "embedding", [longer EXCEPT !.at = "search", !.config = Nothing])
    BY <1>3, BatchCases
  <2>4. made = c.made \o Ordered(c, reply) /\ longer = [c EXCEPT !.made = made]
    OBVIOUS
  <2> HIDE DEF made, longer
  <2>5. /\ made \in Seq(Vectors) /\ Len(made) \in Nat /\ Len(made) <= Inputs(c.request)
        /\ \A i \in 1..Len(made) : made[i] = VectorOf(c, i)
        /\ c.profile \in {Nothing, c.config.profile} /\ c.config \in Configs
    BY <1>1, <2>1, <2>4, BatchAppends
  <2>6. /\ \A i \in 1..Len(made) : made[i] = [profile |-> made[1].profile, input |-> i]
        /\ made # <<>> => made[1].profile = c.config.profile
    <3>1. \A i \in 1..Len(made) : made[i] = [profile |-> c.config.profile, input |-> i]
      BY <2>5 DEF VectorOf
    <3>2. made # <<>> => 1 \in 1..Len(made)
      BY <2>5
    <3>3. \A i \in 1..Len(made) : 1 \in 1..Len(made)
      BY <2>5
    <3>4. ASSUME 1 \in 1..Len(made) PROVE made[1].profile = c.config.profile
      <4>1. made[1] = [profile |-> c.config.profile, input |-> 1]
        BY <3>1, <3>4
      <4> QED BY <4>1
    <3> QED BY <3>1, <3>2, <3>3, <3>4
  <2>7. c.result = "none" /\ c.request \in Requests
    BY <1>1 DEF Sound, Formed
\* One batch of several.
  <2>8. CASE Goes(s, longer)
    <3> DEFINE d == longer
    <3>1. /\ d.at = "embedding" /\ d.config = c.config /\ d.made = made
          /\ d.request = c.request /\ d.permit = c.permit /\ d.changed = c.changed
          /\ d.profile = c.profile /\ d.paid = c.paid /\ d.result = c.result
          /\ d \in Calls
      BY <1>1, <2>4, <2>5 DEF Calls
    <3> HIDE DEF d
    <3>2. Formed(d)
      BY <1>1, <3>1 DEF Sound, Formed, Active
    <3>3. Embedded(d)
      BY <2>5, <2>6, <3>1 DEF Embedded, Stage
    <3>4. Covered(d)
      <4>1. Needed(d) = Needed(c)
        BY <1>1, <3>1 DEF Needed, Stage
      <4> QED BY <1>1, <2>7, <3>1, <4>1 DEF Sound, Covered, Satisfied, Refusals
    <3>5. \A w \in Services : InUse(w, d) = InUse(w, call[s])
      BY <1>1, <3>1 DEF InUse
    <3> QED BY <2>8, <3>1, <3>2, <3>3, <3>4, <3>5, GoesStep DEF Sound, d
\* The last one.
  <2>9. /\ InUse("embedding", call[s]) = 1 /\ "embedding" \in Services
        /\ \A w \in Services \ {"embedding"} : InUse(w, call[s]) = 0
    BY <1>1 DEF InUse, Services
  <2>10. CASE Released(s, "embedding", [longer EXCEPT !.at = "done", !.result = "answered"])
    <3> DEFINE d == [longer EXCEPT !.at = "done", !.result = "answered"]
    <3>1. /\ d.at = "done" /\ d.made = made /\ d.permit = c.permit
          /\ d.profile = c.profile /\ d.result = "answered" /\ d \in Calls
      BY <1>1, <2>4, <2>5 DEF Calls
    <3>2. Released(s, "embedding", d)
      BY <2>10
    <3> HIDE DEF d
    <3>3. Sound(d) /\ \A w \in Services : InUse(w, d) = 0
      BY <2>5, <2>6, <3>1
         DEF Sound, Formed, Embedded, Covered, Active, Stages, Refusals, InUse, Services
    <3> QED BY <2>9, <3>1, <3>2, <3>3, ReleasedStep
  <2>11. CASE /\ c.request.kind # "embed" /\ Len(made) = Inputs(c.request)
              /\ Released(s, "embedding", [longer EXCEPT !.at = "search", !.config = Nothing])
    <3> DEFINE d == [longer EXCEPT !.at = "search", !.config = Nothing]
    <3>1. /\ d.at = "search" /\ d.config = Nothing /\ d.made = made
          /\ d.request = c.request /\ d.permit = c.permit /\ d.changed = c.changed
          /\ d.profile = c.profile /\ d.paid = c.paid /\ d.result = c.result
      BY <1>1, <2>4, <2>5 DEF Calls
    <3>2. d \in Calls
      <4>1. "search" \in Stages
        BY DEF Stages
      <4> QED BY <1>1, <2>4, <2>5, <4>1 DEF Calls
    <3>3. Released(s, "embedding", d)
      BY <2>11
    <3> HIDE DEF d
    <3>4. Formed(d)
      BY <1>1, <2>7, <2>11, <3>1, <3>2 DEF Sound, Formed, Active
    <3>5. made # <<>>
      <4>1. Len(made) = 1
        BY <2>11 DEF Inputs
      <4> QED BY <4>1
    <3>6. Embedded(d)
      BY <2>5, <2>6, <3>1, <3>5 DEF Embedded, Stage
    <3>7. Covered(d)
      <4>1. Needed(d) = Needed(c)
        BY <1>1, <3>1 DEF Needed, Stage
      <4> QED BY <1>1, <2>7, <2>11, <3>1, <4>1 DEF Sound, Covered, Satisfied, Refusals
    <3>8. \A w \in Services : InUse(w, d) = 0
      BY <3>1 DEF InUse, Services
    <3> QED BY <2>9, <3>1, <3>3, <3>4, <3>6, <3>7, <3>8, ReleasedStep DEF Sound
  <2> QED BY <2>3, <2>8, <2>10, <2>11
<1> QED BY <1>2, <1>3

-----------------------------------------------------------------------------
(* The steps around the requests.                                            *)

\* Neither the requests nor what they look at change.
LEMMA Undisturbed ==
    ASSUME IInv, UNCHANGED <<scenario, config, keys, requests>>
    PROVE  Counted' /\ Requesting'
<1>1. /\ scenario' = scenario /\ config' = config /\ keys' = keys
      /\ inFlight' = inFlight /\ generating' = generating /\ call' = call /\ Slots' = Slots
  BY DEF requests, Slots
<1>2. Counted'
  BY <1>1 DEF IInv, Counted, Paying, Using
<1>3. \A c : Sound(c) => Sound(c)'
  BY <1>1 DEF Sound, Formed, Embedded, Covered, Satisfied
<1>4. Requesting'
  BY <1>1, <1>3 DEF IInv, Requesting
<1> QED BY <1>2, <1>4

\* What the update of a service must be, for its state, its counter and its
\* files.
Kept(w, u, n, f, d, k) ==
    /\ u \in Updates /\ n = IF u = Idle THEN 0 ELSE 1
    /\ f \in Configs \cup {Nothing} /\ d \in Configs \cup {Nothing} /\ k \in SUBSET Configs
    /\ Loaded(w, f) \in k /\ Loaded(w, d) \in k
    /\ u.at # "idle" => u.change \in Changes
    /\ u.at \in {"writing", "renamed", "synced"} => u.new \in Configs
    /\ u.at \in {"renamed", "synced"} => f = u.new
    /\ u.at = "synced" => d = u.new

LEMMA KeptNow ==
    ASSUME SettingsKept, NEW w \in Services
    PROVE  Kept(w, update[w], settingsInFlight[w], file[w], synced[w], kept[w])
BY DEF SettingsKept, Kept

\* One service's update takes a step.
LEMMA UpdateStep ==
    ASSUME SettingsKept, NEW w \in Services, scenario' = scenario,
           config' \in [Services -> Configs],
           NEW u, NEW n, NEW f, NEW d, NEW k, Kept(w, u, n, f, d, k),
           update' = [update EXCEPT ![w] = u],
           settingsInFlight' = [settingsInFlight EXCEPT ![w] = n],
           file' = [file EXCEPT ![w] = f], synced' = [synced EXCEPT ![w] = d],
           kept' = [kept EXCEPT ![w] = k]
    PROVE  SettingsKept'
<1>1. Updates' = Updates /\ Changes' = Changes
  BY DEF Updates, Changes
<1>2. /\ u \in Updates /\ n \in {0, 1} /\ f \in Configs \cup {Nothing}
      /\ d \in Configs \cup {Nothing} /\ k \in SUBSET Configs
  BY DEF Kept
<1>3. /\ file' \in [Services -> Configs \cup {Nothing}]
      /\ synced' \in [Services -> Configs \cup {Nothing}]
      /\ kept' \in [Services -> SUBSET Configs]
      /\ update' \in [Services -> Updates]
      /\ settingsInFlight' \in [Services -> {0, 1}]
  BY <1>2 DEF SettingsKept
<1>4. ASSUME NEW v \in Services
      PROVE  Kept(v, update'[v], settingsInFlight'[v], file'[v], synced'[v], kept'[v])
  <2>1. CASE v = w
    <3>1. /\ update'[v] = u /\ settingsInFlight'[v] = n /\ file'[v] = f
          /\ synced'[v] = d /\ kept'[v] = k
      BY <2>1 DEF SettingsKept
    <3> QED BY <2>1, <3>1
  <2>2. CASE v # w
    <3>1. /\ update'[v] = update[v] /\ settingsInFlight'[v] = settingsInFlight[v]
          /\ file'[v] = file[v] /\ synced'[v] = synced[v] /\ kept'[v] = kept[v]
      BY <2>2 DEF SettingsKept
    <3> QED BY <3>1, KeptNow
  <2> QED BY <2>1, <2>2
<1> QED BY <1>1, <1>3, <1>4 DEF SettingsKept, Kept, Loaded

\* An absent update is not under way.
LEMMA IdleAt == Idle \in Updates /\ Idle.at = "idle"
BY DEF Idle, Updates

\* An update that ends leaves the files as they are.
LEMMA EndsStep ==
    ASSUME IInv, NEW w \in Services, UpdateEnds(w), scenario' = scenario,
           config' \in [Services -> Configs], UNCHANGED <<file, synced>>,
           NEW k \in SUBSET Configs, kept' = [kept EXCEPT ![w] = k],
           Loaded(w, file[w]) \in k /\ Loaded(w, synced[w]) \in k
    PROVE  SettingsKept'
<1>1. SettingsKept /\ Kept(w, update[w], settingsInFlight[w], file[w], synced[w], kept[w])
  BY KeptNow DEF IInv
<1>2. Kept(w, Idle, 0, file[w], synced[w], k)
  BY <1>1, IdleAt DEF Kept
<1>3. file' = [file EXCEPT ![w] = file[w]] /\ synced' = [synced EXCEPT ![w] = synced[w]]
  BY DEF IInv, SettingsKept
<1> QED BY <1>1, <1>2, <1>3, UpdateStep DEF UpdateEnds

LEMMA StartUpdateStep ==
    ASSUME IInv, NEW change \in scenario.updates, StartUpdate(change[1], change[2])
    PROVE  IInv'
<1> DEFINE w == change[1]
           u == [Idle EXCEPT !.at = "started", !.change = change[2]]
<1>1. Counted' /\ Requesting' /\ scenario \in Scenarios /\ SettingsKept
  BY Undisturbed DEF StartUpdate, IInv, Around
<1>2. Around'
  BY <1>1 DEF StartUpdate, IInv, Around
<1>3. w \in Services /\ change[2] \in Changes
  BY <1>1, ScenariosAssumption DEF Changes
<1>4. u.at = "started" /\ u.change = change[2] /\ u \in Updates /\ u # Idle
  BY <1>3, IdleAt DEF Updates, Idle
<1>5. /\ update' = [update EXCEPT ![w] = u]
      /\ settingsInFlight' = [settingsInFlight EXCEPT ![w] = 1]
      /\ scenario' = scenario /\ config' \in [Services -> Configs]
      /\ file' = [file EXCEPT ![w] = file[w]] /\ synced' = [synced EXCEPT ![w] = synced[w]]
      /\ kept' = [kept EXCEPT ![w] = kept[w]]
  BY <1>1 DEF StartUpdate, SettingsKept
<1> HIDE DEF u, w
<1>6. Kept(w, u, 1, file[w], synced[w], kept[w])
  BY <1>1, <1>3, <1>4, KeptNow DEF Kept
<1>7. SettingsKept'
  BY <1>1, <1>3, <1>5, <1>6, UpdateStep
<1> QED BY <1>1, <1>2, <1>7 DEF IInv

\* Valid settings are made of the models and dimensions there are.
LEMMA UpdatedConfigs ==
    ASSUME NEW old \in Configs, NEW change, change.provider \in {Openai, Voyage, Nothing},
           change.limit \in Nat \cup {Nothing}, NEW new, new = Updated(old, change),
           ValidProfile(new.profile)
    PROVE  new \in Configs
<1> DEFINE provider == IF change.provider = Nothing THEN old.profile.provider ELSE change.provider
           limit == IF change.limit = Nothing THEN old.limit ELSE change.limit
<1>1. /\ old.profile.provider \in {Openai, Voyage} /\ old.limit \in Nat
  BY DEF Configs, Profiles
<1>2. \E m, d : new = [profile |-> [provider |-> provider, model |-> m, dimensions |-> d],
                       limit |-> limit]
  BY DEF Updated
<1>3. provider \in {Openai, Voyage} /\ limit \in Nat
  BY <1>1
<1> HIDE DEF provider, limit
<1>4. PICK m, d : new = [profile |-> [provider |-> provider, model |-> m, dimensions |-> d],
                         limit |-> limit]
  BY <1>2
<1>5. m \in Range(Models[provider]) /\ d \in Range(Dimensions[m])
  BY <1>4 DEF ValidProfile
<1>6. m \in UNION {Range(Models[q]) : q \in {Openai, Voyage}} /\ m \in DOMAIN Dimensions
  BY <1>3, <1>5, SettingsAssumption
<1>7. d \in UNION {Range(Dimensions[n]) : n \in DOMAIN Dimensions}
  BY <1>5, <1>6
<1>8. [provider |-> provider, model |-> m, dimensions |-> d] \in Profiles
  BY <1>3, <1>6, <1>7 DEF Profiles
<1> QED BY <1>3, <1>4, <1>8 DEF Configs

LEMMA ApplyStep == ASSUME IInv, NEW w \in Services, Apply(w) PROVE IInv'
<1> DEFINE new == Updated(config[w], update[w].change)
           u == [update[w] EXCEPT !.at = "writing", !.new = new]
<1>1. Counted' /\ Requesting' /\ scenario \in Scenarios /\ SettingsKept
  BY Undisturbed DEF Apply, IInv, Around
<1>2. Around' /\ scenario' = scenario /\ config' \in [Services -> Configs]
  BY <1>1 DEF Apply, IInv, Around, SettingsKept
<1>3. /\ Kept(w, update[w], settingsInFlight[w], file[w], synced[w], kept[w])
      /\ config[w] \in Configs /\ update[w].at = "started" /\ update[w] \in Updates
  BY <1>1, KeptNow DEF Apply, SettingsKept
<1>4. CASE UpdateEnds(w)
  <2>1. /\ kept' = [kept EXCEPT ![w] = kept[w]] /\ kept[w] \in SUBSET Configs
        /\ Loaded(w, file[w]) \in kept[w] /\ Loaded(w, synced[w]) \in kept[w]
    BY <1>1, <1>3 DEF Apply, SettingsKept
  <2>2. SettingsKept'
    BY <1>2, <1>4, <2>1, EndsStep DEF Apply
  <2> QED BY <1>1, <1>2, <2>2 DEF IInv
<1>5. CASE ~UpdateEnds(w)
  <2>1. ValidProfile(new.profile) /\ settingsInFlight' = settingsInFlight
    BY <1>5 DEF Apply
  <2>2. update' = [update EXCEPT ![w] = u]
    BY <1>1, <1>5 DEF Apply, SettingsKept
  <2>3. new = Updated(config[w], update[w].change) /\ u = [update[w] EXCEPT !.at = "writing", !.new = new]
    OBVIOUS
  <2>4. update[w].change \in Changes
    BY <1>3 DEF Kept
  <2> HIDE DEF new, u
  <2>5. /\ update[w].change.provider \in {Openai, Voyage, Nothing}
        /\ update[w].change.limit \in Nat \cup {Nothing}
    BY <1>1, <2>4, ScenariosAssumption DEF Changes
  <2>6. new \in Configs
    BY <1>3, <2>1, <2>3, <2>5, UpdatedConfigs
  <2>7. /\ u.at = "writing" /\ u.new = new /\ u.change = update[w].change
        /\ u \in Updates /\ u # Idle
    BY <1>3, <2>3, <2>6, IdleAt DEF Updates
  <2>8. settingsInFlight[w] = 1
    BY <1>3, IdleAt DEF Kept
  <2>9. Kept(w, u, 1, file[w], synced[w], kept[w])
    BY <1>3, <2>4, <2>6, <2>7 DEF Kept
  <2>10. /\ settingsInFlight' = [settingsInFlight EXCEPT ![w] = 1]
         /\ file' = [file EXCEPT ![w] = file[w]] /\ synced' = [synced EXCEPT ![w] = synced[w]]
         /\ kept' = [kept EXCEPT ![w] = kept[w]]
    BY <1>1, <2>1, <2>8 DEF Apply, SettingsKept
  <2>11. SettingsKept'
    BY <1>1, <1>2, <2>2, <2>9, <2>10, UpdateStep
  <2> QED BY <1>1, <1>2, <2>11 DEF IInv
<1> QED BY <1>4, <1>5

LEMMA RenameStep == ASSUME IInv, NEW w \in Services, Rename(w) PROVE IInv'
<1> DEFINE u == [update[w] EXCEPT !.at = "renamed"]
           new == update[w].new
<1>1. Counted' /\ Requesting' /\ SettingsKept
  BY Undisturbed DEF Rename, IInv
<1>2. Around' /\ scenario' = scenario /\ config' \in [Services -> Configs]
  BY <1>1 DEF Rename, IInv, Around, SettingsKept
<1>3. /\ Kept(w, update[w], settingsInFlight[w], file[w], synced[w], kept[w])
      /\ update[w].at = "writing" /\ update[w] \in Updates
  BY <1>1, KeptNow DEF Rename, SettingsKept
<1>4. u.at = "renamed" /\ u.new = new /\ u.change = update[w].change /\ u \in Updates /\ u # Idle
  BY <1>3, IdleAt DEF Updates
<1>5. /\ update' = [update EXCEPT ![w] = u]
      /\ settingsInFlight' = [settingsInFlight EXCEPT ![w] = 1]
      /\ file' = [file EXCEPT ![w] = new] /\ synced' = [synced EXCEPT ![w] = synced[w]]
      /\ kept' = [kept EXCEPT ![w] = kept[w] \cup {new}]
  <2>1. settingsInFlight[w] = 1
    BY <1>3, IdleAt DEF Kept
  <2> QED BY <1>1, <2>1 DEF Rename, SettingsKept
<1>6. new \in Configs /\ Loaded(w, new) = new
  BY <1>3, NothingIsAbsent DEF Kept, Loaded
<1> HIDE DEF u, new
<1>7. Kept(w, u, 1, new, synced[w], kept[w] \cup {new})
  BY <1>3, <1>4, <1>6 DEF Kept
<1>8. SettingsKept'
  BY <1>1, <1>2, <1>5, <1>7, UpdateStep
<1> QED BY <1>1, <1>2, <1>8 DEF IInv

LEMMA SyncDirectoryStep == ASSUME IInv, NEW w \in Services, SyncDirectory(w) PROVE IInv'
<1> DEFINE u == [update[w] EXCEPT !.at = "synced"]
<1>1. Counted' /\ Requesting' /\ SettingsKept
  BY Undisturbed DEF SyncDirectory, IInv
<1>2. Around' /\ scenario' = scenario /\ config' \in [Services -> Configs]
  BY <1>1 DEF SyncDirectory, IInv, Around, SettingsKept
<1>3. /\ Kept(w, update[w], settingsInFlight[w], file[w], synced[w], kept[w])
      /\ update[w].at = "renamed" /\ update[w] \in Updates
  BY <1>1, KeptNow DEF SyncDirectory, SettingsKept
<1>4. /\ u.at = "synced" /\ u.new = update[w].new /\ u.change = update[w].change
      /\ u \in Updates /\ u # Idle
  BY <1>3, IdleAt DEF Updates
<1>5. /\ update' = [update EXCEPT ![w] = u]
      /\ settingsInFlight' = [settingsInFlight EXCEPT ![w] = 1]
      /\ file' = [file EXCEPT ![w] = file[w]] /\ synced' = [synced EXCEPT ![w] = file[w]]
      /\ kept' = [kept EXCEPT ![w] = kept[w]]
  <2>1. settingsInFlight[w] = 1
    BY <1>3, IdleAt DEF Kept
  <2> QED BY <1>1, <2>1 DEF SyncDirectory, SettingsKept
<1> HIDE DEF u
<1>6. Kept(w, u, 1, file[w], file[w], kept[w])
  BY <1>3, <1>4 DEF Kept
<1>7. SettingsKept'
  BY <1>1, <1>2, <1>5, <1>6, UpdateStep
<1> QED BY <1>1, <1>2, <1>7 DEF IInv

LEMMA PersistFailsStep == ASSUME IInv, NEW w \in Services, PersistFails(w) PROVE IInv'
<1>1. Counted' /\ Requesting' /\ SettingsKept
  BY Undisturbed DEF PersistFails, IInv
<1>2. Around' /\ scenario' = scenario /\ config' \in [Services -> Configs]
  BY <1>1 DEF PersistFails, IInv, Around, SettingsKept
<1>3. /\ kept' = [kept EXCEPT ![w] = kept[w]] /\ kept[w] \in SUBSET Configs
      /\ Loaded(w, file[w]) \in kept[w] /\ Loaded(w, synced[w]) \in kept[w]
  BY <1>1 DEF PersistFails, SettingsKept
<1>4. SettingsKept'
  BY <1>2, <1>3, EndsStep DEF PersistFails
<1> QED BY <1>1, <1>2, <1>4 DEF IInv

\* The settings change under every request that is there.
LEMMA PublishStep == ASSUME IInv, NEW w \in Services, Publish(w) PROVE IInv'
<1>1. SettingsKept /\ Kept(w, update[w], settingsInFlight[w], file[w], synced[w], kept[w])
  BY KeptNow DEF IInv
<1>2. /\ update[w].at = "synced" /\ update[w].new \in Configs
      /\ file[w] = update[w].new /\ synced[w] = update[w].new
  BY <1>1 DEF Publish, Kept
<1>3. Around' /\ scenario' = scenario /\ config' \in [Services -> Configs]
  BY <1>1, <1>2 DEF Publish, IInv, Around, SettingsKept
<1>4. SettingsKept'
  <2>1. Loaded(w, file[w]) = update[w].new /\ Loaded(w, synced[w]) = update[w].new
    BY <1>2, NothingIsAbsent DEF Loaded
  <2>2. {update[w].new} \in SUBSET Configs
    BY <1>2
  <2> QED BY <1>3, <2>1, <2>2, EndsStep DEF Publish
<1>5. /\ Slots' = Slots /\ inFlight' = inFlight /\ generating' = generating
      /\ call' = [s \in Slots |-> [call[s] EXCEPT !.changed = TRUE]]
  BY DEF Publish, Slots
<1>6. ASSUME NEW CONSTANT c, Sound(c), NEW CONSTANT d, d = [c EXCEPT !.changed = TRUE]
      PROVE  d \in Calls /\ d.at = c.at /\ d.permit = c.permit /\ Sound(d)'
  <2>1. c \in Calls
    BY <1>6 DEF Sound, Formed
  <2>2. /\ d \in Calls /\ d.changed /\ d.at = c.at /\ d.checks = c.checks /\ d.next = c.next
        /\ d.request = c.request /\ d.permit = c.permit /\ d.profile = c.profile
        /\ d.config = c.config /\ d.made = c.made /\ d.paid = c.paid /\ d.result = c.result
    BY <1>6, <2>1 DEF Calls
  <2>3. Formed(d)'
    BY <1>6, <2>2 DEF Sound, Formed, Active
  <2>4. Embedded(d)'
    BY <1>6, <2>2 DEF Sound, Embedded, Active, Stage
  <2>5. Covered(d)'
    BY <2>2 DEF Covered
  <2> QED BY <2>2, <2>3, <2>4, <2>5 DEF Sound
<1>7. \A s \in Slots : /\ call'[s] = [call[s] EXCEPT !.changed = TRUE] /\ call'[s] \in Calls
                       /\ call'[s].at = call[s].at /\ call'[s].permit = call[s].permit
  <2>1. \A s \in Slots : Sound(call[s]) /\ call'[s] = [call[s] EXCEPT !.changed = TRUE]
    BY <1>5 DEF IInv, Requesting
  <2> QED BY <1>6, <2>1
<1>8. Requesting'
  <2>1. \A c, d : Sound(c) /\ d = [c EXCEPT !.changed = TRUE] => Sound(d)'
    BY <1>6
  <2>2. \A s \in Slots : Sound(call[s])
    BY DEF IInv, Requesting
  <2>3. \A d : (\E s \in Slots : d = call'[s]) => Sound(d)'
    BY <1>7, <2>1, <2>2
  <2>4. call' \in [Slots -> Calls]
    BY <1>5, <1>7
  <2> QED BY <1>5, <2>3, <2>4 DEF Requesting
<1>9. Counted'
  <2>1. Paying' = Paying /\ \A v \in Services : Using(v)' = Using(v)
    BY <1>5, <1>7 DEF Paying, Using
  <2> QED BY <1>5, <2>1 DEF IInv, Counted
<1> QED BY <1>3, <1>4, <1>8, <1>9 DEF IInv

LEMMA ChangeCollectionStep == ASSUME IInv, ChangeCollection PROVE IInv'
<1>1. Counted' /\ Requesting'
  BY Undisturbed DEF ChangeCollection, settings
<1>2. Around'
  BY DEF ChangeCollection, IInv, Around
<1>3. SettingsKept'
  BY DEF ChangeCollection, settings, IInv, SettingsKept, Updates, Changes, Loaded
<1> QED BY <1>1, <1>2, <1>3 DEF IInv

\* Nothing under way: every request is free and no permit is held.
LEMMA AllFree ==
    ASSUME call = [s \in Slots |-> Free], generating = 0, inFlight = [w \in Services |-> 0]
    PROVE  Counted /\ Requesting
<1>1. \A s \in Slots : call[s] = Free
  OBVIOUS
<1>2. Requesting
  BY <1>1, FreeSound DEF Requesting
<1>3. Paying = {} /\ \A w \in Services : Using(w) = {}
  BY <1>1, FreeSound DEF Paying, Using
<1>4. IsFiniteSet({}) /\ Cardinality({}) = 0
  BY FS_EmptySet
<1>5. MaxGeneration \in Nat
  BY ProvidersAssumption
<1>6. Counted
  BY <1>3, <1>4, <1>5 DEF Counted
<1> QED BY <1>2, <1>6

LEMMA RestartStep == ASSUME IInv, Restart PROVE IInv'
<1>1. scenario' = scenario /\ SettingsKept /\ Updates' = Updates /\ Changes' = Changes
  BY DEF Restart, IInv, Updates, Changes
<1>2. Counted' /\ Requesting'
  <2>1. call' = [s \in Slots' |-> Free] /\ generating' = 0 /\ inFlight' = [w \in Services |-> 0]
    BY <1>1 DEF Restart, Slots
  <2>2. (call = [s \in Slots |-> Free] /\ generating = 0 /\ inFlight = [w \in Services |-> 0]
            => Counted /\ Requesting)'
    BY AllFree, PTL
  <2> QED BY <2>1, <2>2
<1>3. Around'
  BY <1>1 DEF Restart, IInv, Around
<1>4. /\ file' \in [Services -> Configs \cup {Nothing}]
      /\ synced' \in [Services -> Configs \cup {Nothing}]
      /\ \A w \in Services : /\ file'[w] \in {file[w], synced[w]}
                             /\ synced'[w] \in {file[w], synced[w]}
  BY <1>1 DEF Restart, SettingsKept
<1>5. config' \in [Services -> Configs]
  BY <1>4, SettingsAssumption DEF Restart
<1>6. \A w \in Services : /\ update'[w] = Idle /\ settingsInFlight'[w] = 0 /\ kept'[w] = kept[w]
  BY DEF Restart
<1>7. /\ update' \in [Services -> Updates] /\ settingsInFlight' \in [Services -> {0, 1}]
      /\ kept' \in [Services -> SUBSET Configs]
  BY <1>1, IdleAt DEF Restart, SettingsKept
<1>8. SettingsKept'
  BY <1>1, <1>4, <1>5, <1>6, <1>7, IdleAt DEF SettingsKept, Loaded
<1> QED BY <1>2, <1>3, <1>8 DEF IInv

-----------------------------------------------------------------------------
(* The invariant, and what it says of the services.                          *)

LEMMA InvInit == ASSUME Init PROVE IInv
<1>1. DefaultConfig \in [Services -> Configs] /\ DefaultConfig["embedding"].profile \in Profiles
  BY SettingsAssumption DEF Services, Configs
<1>2. Around
  BY <1>1 DEF Init, Around
<1>3. Counted /\ Requesting
  BY AllFree DEF Init
<1>4. SettingsKept
  <2>1. \A w \in Services :
          /\ config[w] = DefaultConfig[w] /\ file[w] = Nothing /\ synced[w] = Nothing
          /\ update[w] = Idle /\ settingsInFlight[w] = 0 /\ kept[w] = {DefaultConfig[w]}
    BY DEF Init
  <2>2. /\ config \in [Services -> Configs] /\ kept \in [Services -> SUBSET Configs]
        /\ file \in [Services -> Configs \cup {Nothing}]
        /\ synced \in [Services -> Configs \cup {Nothing}]
        /\ update \in [Services -> Updates] /\ settingsInFlight \in [Services -> {0, 1}]
    BY <1>1, IdleAt DEF Init
  <2> QED BY <2>1, <2>2, IdleAt DEF SettingsKept, Loaded
<1> QED BY <1>2, <1>3, <1>4 DEF IInv

LEMMA ServingStep == ASSUME IInv, NEW s \in Slots, Serving(s) PROVE IInv'
BY PreflightStep, CheckStep, SendStep, RewriteEndsStep, AnswerEndsStep, CaptureStep,
   AcquireStep, BatchStep, RerankEndsStep, SearchStep, CaptureRerankerStep, SelectStep, LeaveStep
   DEF Serving, AcquireEmbedding, AcquireReranker, Services

LEMMA InvNext == ASSUME IInv, [Next]_vars PROVE IInv'
<1>1. CASE UNCHANGED vars
  <2>1. Counted' /\ Requesting'
    BY <1>1, Undisturbed DEF vars, settings
  <2>2. Around' /\ SettingsKept'
    BY <1>1 DEF vars, settings, IInv, Around, SettingsKept, Updates, Changes, Loaded
  <2> QED BY <2>1, <2>2 DEF IInv
<1>2. ASSUME NEW change \in scenario.updates, StartUpdate(change[1], change[2]) PROVE IInv'
  BY <1>2, StartUpdateStep
<1>3. ASSUME NEW w \in Services, Updating(w) PROVE IInv'
  BY <1>3, ApplyStep, RenameStep, SyncDirectoryStep, PersistFailsStep, PublishStep DEF Updating
<1>4. ASSUME NEW s \in Slots, NEW request \in scenario.requests, Arrive(s, request) PROVE IInv'
  BY <1>4, ArriveStep
<1>5. ASSUME NEW s \in Slots, Serving(s) PROVE IInv'
  BY <1>5, ServingStep
<1>6. CASE ChangeCollection
  BY <1>6, ChangeCollectionStep
<1>7. CASE Restart
  BY <1>7, RestartStep
<1> QED BY <1>1, <1>2, <1>3, <1>4, <1>5, <1>6, <1>7 DEF Next

\* The invariant holds in every state of the services.
THEOREM Invariance == Spec => []IInv
<1>1. Init => IInv
  BY InvInit
<1>2. IInv /\ [Next]_vars => IInv'
  BY InvNext
<1> QED BY <1>1, <1>2, PTL DEF Spec

\* Every counter is the number of those it counts, however a request or an
\* update ends; no more generation permits are held than there are.
THEOREM CountersMatch == Spec => []PermitsMatch
<1>1. IInv => PermitsMatch
  BY DEF IInv, Counted, SettingsKept, PermitsMatch, Paying
<1> QED BY <1>1, Invariance, PTL

\* The vectors of an answer are those of its texts, in order and in one space,
\* the one asked for, whatever is made of the settings meanwhile.
THEOREM VectorsMatch == Spec => []OneVectorEach
<1>1. IInv => OneVectorEach
  BY DEF IInv, Requesting, Sound, Embedded, OneVectorEach
<1> QED BY <1>1, Invariance, PTL

\* A request that has paid is refused for a key or for its settings only if
\* they have changed since it came: each check comes before the first call
\* that is paid for.
THEOREM PaidIsCovered == Spec => []PaidWorkWasCovered
<1>1. IInv => PaidWorkWasCovered
  BY DEF IInv, Requesting, Sound, Covered, Refusals, PaidWorkWasCovered
<1> QED BY <1>1, Invariance, PTL

\* A step of a request leaves the others, and what was spent, as they were.
LEMMA OthersStay ==
    ASSUME IInv, NEW t \in Slots, Serving(t)
    PROVE  spent' = spent /\ \A s \in Slots \ {t} : call'[s] = call[s]
<1> DEFINE Stays == spent' = spent /\ \A s \in Slots \ {t} : call'[s] = call[s]
<1>1. call \in [Slots -> Calls]
  BY DEF IInv, Requesting
<1>2. /\ \A new : Goes(t, new) => Stays
      /\ \A result : Over(t, result) => Stays
      /\ \A w, new : Released(t, w, new) => Stays
      /\ \A w, waiting : Acquire(t, w, waiting) => Stays
  BY <1>1 DEF Goes, Over, Released, Acquire
<1>3. CASE Preflight(t) \/ Check(t) \/ Send(t) \/ RewriteEnds(t) \/ AnswerEnds(t) \/ Capture(t)
  BY <1>2, <1>3 DEF Preflight, Check, Send, RewriteEnds, AnswerEnds, Capture
<1>4. CASE \/ AcquireEmbedding(t) \/ AcquireReranker(t) \/ Search(t)
           \/ CaptureReranker(t) \/ Select(t)
  BY <1>2, <1>4 DEF AcquireEmbedding, AcquireReranker, Search, CaptureReranker, Select
<1>5. CASE Leave(t)
  BY <1>1, <1>5 DEF Leave
<1>6. ASSUME NEW reply \in Replies, RerankEnds(t, reply) PROVE Stays
  BY <1>2, <1>6 DEF RerankEnds
<1>7. ASSUME NEW reply \in Replies, Batch(t, reply) PROVE Stays
  <2> DEFINE made == call[t].made \o Ordered(call[t], reply)
             longer == [call[t] EXCEPT !.made = made]
  <2>1. \/ Over(t, "failed") \/ Goes(t, longer)
        \/ Released(t, "embedding", [longer EXCEPT !.at = "done", !.result = "answered"])
        \/ Released(t, "embedding", [longer EXCEPT !.at = "search", !.config = Nothing])
    BY <1>7, BatchCases
  <2> HIDE DEF longer
  <2> QED BY <1>2, <2>1
<1> QED BY <1>3, <1>4, <1>5, <1>6, <1>7 DEF Serving

\* A request leaves the stage of the search for a later one by the search.
LEMMA OnlySearch ==
    ASSUME IInv, Next, NEW s \in Slots, call[s].at = "search", call'[s].at \in {"select", "rerank"}
    PROVE  Search(s)
<1>1. call \in [Slots -> Calls]
  BY DEF IInv, Requesting
<1>2. ASSUME call' = call PROVE FALSE
  BY <1>2
<1>3. ASSUME NEW w \in Services, Updating(w) PROVE FALSE
  <2>1. CASE Publish(w)
    <3>1. call'[s] = [call[s] EXCEPT !.changed = TRUE]
      BY <2>1 DEF Publish
    <3>2. call'[s].at = "search"
      BY <1>1, <3>1 DEF Calls
    <3> QED BY <3>2
  <2> QED BY <1>2, <1>3, <2>1
        DEF Updating, Apply, Rename, SyncDirectory, PersistFails, requests
<1>4. ASSUME NEW t \in Slots, NEW request, Arrive(t, request) PROVE FALSE
  BY <1>1, <1>4 DEF Arrive
<1>5. ASSUME NEW t \in Slots, Serving(t) PROVE Search(s)
  <2>1. t = s
    BY <1>1, <1>5, OthersStay
  <2>2. ~Leave(s)
    BY <1>1, FreeSound DEF Leave
  <2> QED BY <1>5, <2>1, <2>2
        DEF Serving, Preflight, Check, Send, RewriteEnds, AnswerEnds, Capture, AcquireEmbedding,
            Batch, RerankEnds, CaptureReranker, AcquireReranker, Select
<1>6. ~Restart
  <2> SUFFICES ASSUME Restart PROVE FALSE
    OBVIOUS
  <2>1. call'[s] = Free
    BY DEF Restart
  <2> QED BY <2>1, FreeSound
<1> QED BY <1>2, <1>3, <1>4, <1>5, <1>6 DEF Next, StartUpdate, ChangeCollection, requests

\* A collection is searched with a vector of its own space, as it is at the
\* moment of the search.
THEOREM SearchesMatch == Spec => SearchesItsOwnSpace
<1> DEFINE InItsSpace ==
        \A s \in Slots :
           call[s].at = "search" /\ call'[s].at \in {"select", "rerank"} /\ call[s].request.vector
              => call[s].made[1].profile = collection.profile
<1>1. IInv /\ [Next]_vars => [InItsSpace]_vars
  <2> SUFFICES ASSUME IInv, Next, NEW s \in Slots, call[s].at = "search",
                      call'[s].at \in {"select", "rerank"}, call[s].request.vector
               PROVE  call[s].made[1].profile = collection.profile
    OBVIOUS
  <2>1. Search(s)
    BY OnlySearch
  <2>2. collection.profile = call[s].profile
    <3>1. ~Over(s, "failed")
      <4> SUFFICES ASSUME Over(s, "failed") PROVE FALSE
        OBVIOUS
      <4>1. call'[s].at = "done"
        BY DEF Over, IInv, Requesting, Free
      <4> QED BY <4>1
    <3> QED BY <2>1, <3>1 DEF Search
  <2>3. Sound(call[s]) /\ Active(call[s])
    BY DEF IInv, Requesting, Active, Stages
  <2>4. call[s].made # <<>> /\ call[s].profile \in {Nothing, call[s].made[1].profile}
    BY <2>3 DEF Sound, Embedded, Stage
  <2>5. collection.profile # Nothing
    BY NothingIsAbsent DEF IInv, Around
  <2> QED BY <2>2, <2>4, <2>5
<1> QED BY <1>1, Invariance, PTL DEF Spec, SearchesItsOwnSpace

\* A process starts with the settings last acknowledged, or with those of an
\* update attempted since, whether the machine stopped or only the process.
THEOREM RestartLoads == Spec => RestartKeepsSettings
<1> DEFINE Loads == spent'.restarts # spent.restarts => \A w \in Services : config'[w] \in kept[w]
<1>1. IInv /\ [Next]_vars => [Loads]_vars
  <2> SUFFICES ASSUME IInv, Next, spent'.restarts # spent.restarts, NEW w \in Services
               PROVE  config'[w] \in kept[w]
    OBVIOUS
  <2>1. Restart
    <3>1. spent \in [updates : Nat, restarts : Nat, changes : Nat]
      BY DEF IInv, Around
    <3>2. ASSUME NEW change \in scenario.updates, StartUpdate(change[1], change[2]) PROVE FALSE
      BY <3>1, <3>2 DEF StartUpdate
    <3>3. ASSUME NEW v \in Services, Updating(v) PROVE FALSE
      BY <3>3 DEF Updating, Apply, Rename, SyncDirectory, PersistFails, Publish
    <3>4. ASSUME NEW s \in Slots, NEW request, Arrive(s, request) PROVE FALSE
      BY <3>4 DEF Arrive
    <3>5. ASSUME NEW s \in Slots, Serving(s) PROVE FALSE
      BY <3>5, OthersStay
    <3>6. ~ChangeCollection
      BY <3>1 DEF ChangeCollection
    <3> QED BY <3>2, <3>3, <3>4, <3>5, <3>6 DEF Next
  <2>2. file'[w] \in {file[w], synced[w]} /\ config'[w] = Loaded(w, file'[w])
    BY <2>1 DEF Restart, IInv, SettingsKept, Loaded
  <2> QED BY <2>2 DEF IInv, SettingsKept
<1> QED BY <1>1, Invariance, PTL DEF Spec, RestartKeepsSettings
=============================================================================
