--------------------------- MODULE AgentStreamProofs ---------------------------
(***************************************************************************)
(* What the drivers make of a stream, for any tools, any number of events  *)
(* and any lag.                                                            *)
(***************************************************************************)
EXTENDS AgentStream, NaturalLemmas, FiniteSetTheorems, SequenceTheorems

-----------------------------------------------------------------------------
(* The parsers, line by line.                                              *)

(* The recursive function of the parser satisfies its equation. *)
LEMMA LineRunsExist ==
    ASSUME NEW lines, Len(lines) \in Nat
    PROVE  LineRuns(lines) = [n \in 0 .. Len(lines) |->
               IF n = 0 THEN NoLine ELSE ParseLine(LineRuns(lines)[n - 1], lines[n], n)]
<1> DEFINE Runs(f, k) == f = [n \in 0 .. k |->
               IF n = 0 THEN NoLine ELSE ParseLine(f[n - 1], lines[n], n)]
           T == {k \in Nat : \E f : Runs(f, k)}
<1>1. 0 \in T
    <2> DEFINE f == [n \in 0 .. 0 |-> NoLine]
    <2>1. Runs(f, 0)
        OBVIOUS
    <2> QED BY <2>1
<1>2. \A k \in T : k + 1 \in T
    <2> SUFFICES ASSUME NEW k \in Nat, NEW f, Runs(f, k) PROVE \E g : Runs(g, k + 1)
        OBVIOUS
    <2> DEFINE g == [n \in 0 .. k + 1 |-> IF n <= k THEN f[n] ELSE ParseLine(f[k], lines[k + 1], k + 1)]
    <2>1. \A n \in 0 .. k : f[n] = IF n = 0 THEN NoLine ELSE ParseLine(f[n - 1], lines[n], n)
        OBVIOUS
    <2>2. \A n \in 0 .. k + 1 : g[n] = IF n = 0 THEN NoLine ELSE ParseLine(g[n - 1], lines[n], n)
        <3> SUFFICES ASSUME NEW n \in 0 .. k + 1
                     PROVE  g[n] = IF n = 0 THEN NoLine ELSE ParseLine(g[n - 1], lines[n], n)
            OBVIOUS
        <3>1. CASE n = k + 1
            BY <3>1
        <3>2. CASE n # k + 1
            BY <3>2, <2>1
        <3> QED BY <3>1, <3>2
    <2> HIDE DEF g
    <2>3. g = [n \in 0 .. k + 1 |-> g[n]]
        BY DEF g
    <2>4. Runs(g, k + 1)
        BY <2>2, <2>3, Zenon
    <2> QED BY <2>4
<1> HIDE DEF T
<1>3. Len(lines) \in T
    <2>1. T \in SUBSET Nat
        BY DEF T
    <2> QED BY <1>1, <1>2, <2>1, Induction
<1>4. PICK f : Runs(f, Len(lines))
    BY <1>3 DEF T
<1>5. LineRuns(lines) = CHOOSE g : Runs(g, Len(lines))
    BY DEF LineRuns
<1> QED BY <1>4, <1>5

(* Lines to come do not change what was made of the ones before. *)
LEMMA LinePrefix ==
    ASSUME NEW S, NEW lines \in Seq(S), NEW n \in 0 .. Len(lines)
    PROVE  \A k \in 0 .. n : LineRuns(SubSeq(lines, 1, n))[k] = LineRuns(lines)[k]
<1> DEFINE cut == SubSeq(lines, 1, n)
           T == {k \in Nat : k <= n => LineRuns(cut)[k] = LineRuns(lines)[k]}
<1>1. Len(cut) = n /\ \A k \in 1 .. n : cut[k] = lines[k]
    OBVIOUS
<1>2. /\ Len(lines) \in Nat /\ n \in Nat /\ n <= Len(lines)
      /\ Len(cut) \in Nat
    BY <1>1
<1> HIDE DEF cut
<1>3. /\ LineRuns(cut)[0] = NoLine
      /\ \A k \in 1 .. n : LineRuns(cut)[k] = ParseLine(LineRuns(cut)[k - 1], cut[k], k)
    <2> DEFINE f == LineRuns(cut)
    <2>1. f = [k \in 0 .. n |-> IF k = 0 THEN NoLine ELSE ParseLine(f[k - 1], cut[k], k)]
        BY <1>1, <1>2, LineRunsExist
    <2> HIDE DEF f
    <2> QED BY <2>1, <1>2 DEF f
<1>4. /\ LineRuns(lines)[0] = NoLine
      /\ \A k \in 1 .. n : LineRuns(lines)[k] = ParseLine(LineRuns(lines)[k - 1], lines[k], k)
    <2> DEFINE f == LineRuns(lines)
    <2>1. f = [k \in 0 .. Len(lines) |-> IF k = 0 THEN NoLine ELSE ParseLine(f[k - 1], lines[k], k)]
        BY <1>2, LineRunsExist
    <2> HIDE DEF f
    <2> QED BY <2>1, <1>2 DEF f
<1>5. 0 \in T
    BY <1>3, <1>4
<1>6. \A k \in T : k + 1 \in T
    <2> SUFFICES ASSUME NEW k \in T, k + 1 <= n
                 PROVE  LineRuns(cut)[k + 1] = LineRuns(lines)[k + 1]
        OBVIOUS
    <2>1. LineRuns(cut)[k] = LineRuns(lines)[k] /\ k + 1 \in 1 .. n /\ (k + 1) - 1 = k
        BY <1>2
    <2> QED BY <2>1, <1>1, <1>3, <1>4
<1> HIDE DEF T
<1>7. T = Nat
    BY <1>5, <1>6, Induction DEF T
<1> QED BY <1>2, <1>7 DEF T, cut

(* Parsing one line more. *)
LEMMA OneLineMore ==
    ASSUME NEW S, NEW lines \in Seq(S), NEW n \in 1 .. Len(lines)
    PROVE  ParseStreamJson(SubSeq(lines, 1, n)) =
               ParseLine(ParseStreamJson(SubSeq(lines, 1, n - 1)), lines[n], n)
<1> DEFINE f == LineRuns(lines)
<1>1. /\ n \in 0 .. Len(lines) /\ n - 1 \in 0 .. Len(lines) /\ 0 \in 0 .. Len(lines)
      /\ Len(lines) \in Nat
    OBVIOUS
<1>2. \A k \in 0 .. Len(lines) : Len(SubSeq(lines, 1, k)) = k
    OBVIOUS
<1>3. \A k \in 0 .. Len(lines) : ParseStreamJson(SubSeq(lines, 1, k)) = f[k]
    <2> SUFFICES ASSUME NEW k \in 0 .. Len(lines) PROVE ParseStreamJson(SubSeq(lines, 1, k)) = f[k]
        OBVIOUS
    <2>1. k \in 0 .. k
        OBVIOUS
    <2> QED BY <1>2, <2>1, LinePrefix DEF ParseStreamJson
<1>4. f = [k \in 0 .. Len(lines) |-> IF k = 0 THEN NoLine ELSE ParseLine(f[k - 1], lines[k], k)]
    BY <1>1, LineRunsExist
<1> HIDE DEF f
<1>5. f[0] = NoLine /\ f[n] = ParseLine(f[n - 1], lines[n], n)
    BY <1>1, <1>4
<1> QED BY <1>1, <1>3, <1>5

(* The same two facts of opencode's parser. *)
LEMMA EventRunsExist ==
    ASSUME NEW lines, Len(lines) \in Nat
    PROVE  EventRuns(lines) = [n \in 0 .. Len(lines) |->
               IF n = 0 THEN NoEvent ELSE ParseEvent(EventRuns(lines)[n - 1], lines[n], n)]
<1> DEFINE Runs(f, k) == f = [n \in 0 .. k |->
               IF n = 0 THEN NoEvent ELSE ParseEvent(f[n - 1], lines[n], n)]
           T == {k \in Nat : \E f : Runs(f, k)}
<1>1. 0 \in T
    <2> DEFINE f == [n \in 0 .. 0 |-> NoEvent]
    <2>1. Runs(f, 0)
        OBVIOUS
    <2> QED BY <2>1
<1>2. \A k \in T : k + 1 \in T
    <2> SUFFICES ASSUME NEW k \in Nat, NEW f, Runs(f, k) PROVE \E g : Runs(g, k + 1)
        OBVIOUS
    <2> DEFINE g == [n \in 0 .. k + 1 |-> IF n <= k THEN f[n] ELSE ParseEvent(f[k], lines[k + 1], k + 1)]
    <2>1. \A n \in 0 .. k : f[n] = IF n = 0 THEN NoEvent ELSE ParseEvent(f[n - 1], lines[n], n)
        OBVIOUS
    <2>2. \A n \in 0 .. k + 1 : g[n] = IF n = 0 THEN NoEvent ELSE ParseEvent(g[n - 1], lines[n], n)
        <3> SUFFICES ASSUME NEW n \in 0 .. k + 1
                     PROVE  g[n] = IF n = 0 THEN NoEvent ELSE ParseEvent(g[n - 1], lines[n], n)
            OBVIOUS
        <3>1. CASE n = k + 1
            BY <3>1
        <3>2. CASE n # k + 1
            BY <3>2, <2>1
        <3> QED BY <3>1, <3>2
    <2> HIDE DEF g
    <2>3. g = [n \in 0 .. k + 1 |-> g[n]]
        BY DEF g
    <2>4. Runs(g, k + 1)
        BY <2>2, <2>3, Zenon
    <2> QED BY <2>4
<1> HIDE DEF T
<1>3. Len(lines) \in T
    <2>1. T \in SUBSET Nat
        BY DEF T
    <2> QED BY <1>1, <1>2, <2>1, Induction
<1>4. PICK f : Runs(f, Len(lines))
    BY <1>3 DEF T
<1>5. EventRuns(lines) = CHOOSE g : Runs(g, Len(lines))
    BY DEF EventRuns
<1> QED BY <1>4, <1>5

LEMMA EventPrefix ==
    ASSUME NEW S, NEW lines \in Seq(S), NEW n \in 0 .. Len(lines)
    PROVE  \A k \in 0 .. n : EventRuns(SubSeq(lines, 1, n))[k] = EventRuns(lines)[k]
<1> DEFINE cut == SubSeq(lines, 1, n)
           T == {k \in Nat : k <= n => EventRuns(cut)[k] = EventRuns(lines)[k]}
<1>1. Len(cut) = n /\ \A k \in 1 .. n : cut[k] = lines[k]
    OBVIOUS
<1>2. /\ Len(lines) \in Nat /\ n \in Nat /\ n <= Len(lines)
      /\ Len(cut) \in Nat
    BY <1>1
<1> HIDE DEF cut
<1>3. /\ EventRuns(cut)[0] = NoEvent
      /\ \A k \in 1 .. n : EventRuns(cut)[k] = ParseEvent(EventRuns(cut)[k - 1], cut[k], k)
    <2> DEFINE f == EventRuns(cut)
    <2>1. f = [k \in 0 .. n |-> IF k = 0 THEN NoEvent ELSE ParseEvent(f[k - 1], cut[k], k)]
        BY <1>1, <1>2, EventRunsExist
    <2> HIDE DEF f
    <2> QED BY <2>1, <1>2 DEF f
<1>4. /\ EventRuns(lines)[0] = NoEvent
      /\ \A k \in 1 .. n : EventRuns(lines)[k] = ParseEvent(EventRuns(lines)[k - 1], lines[k], k)
    <2> DEFINE f == EventRuns(lines)
    <2>1. f = [k \in 0 .. Len(lines) |-> IF k = 0 THEN NoEvent ELSE ParseEvent(f[k - 1], lines[k], k)]
        BY <1>2, EventRunsExist
    <2> HIDE DEF f
    <2> QED BY <2>1, <1>2 DEF f
<1>5. 0 \in T
    BY <1>3, <1>4
<1>6. \A k \in T : k + 1 \in T
    <2> SUFFICES ASSUME NEW k \in T, k + 1 <= n
                 PROVE  EventRuns(cut)[k + 1] = EventRuns(lines)[k + 1]
        OBVIOUS
    <2>1. EventRuns(cut)[k] = EventRuns(lines)[k] /\ k + 1 \in 1 .. n /\ (k + 1) - 1 = k
        BY <1>2
    <2> QED BY <2>1, <1>1, <1>3, <1>4
<1> HIDE DEF T
<1>7. T = Nat
    BY <1>5, <1>6, Induction DEF T
<1> QED BY <1>2, <1>7 DEF T, cut

(* Parsing one event more. *)
LEMMA OneEventMore ==
    ASSUME NEW S, NEW lines \in Seq(S), NEW n \in 1 .. Len(lines)
    PROVE  ParseOpencodeEvents(SubSeq(lines, 1, n)) =
               ParseEvent(ParseOpencodeEvents(SubSeq(lines, 1, n - 1)), lines[n], n)
<1> DEFINE f == EventRuns(lines)
<1>1. /\ n \in 0 .. Len(lines) /\ n - 1 \in 0 .. Len(lines) /\ 0 \in 0 .. Len(lines)
      /\ Len(lines) \in Nat
    OBVIOUS
<1>2. \A k \in 0 .. Len(lines) : Len(SubSeq(lines, 1, k)) = k
    OBVIOUS
<1>3. \A k \in 0 .. Len(lines) : ParseOpencodeEvents(SubSeq(lines, 1, k)) = f[k]
    <2> SUFFICES ASSUME NEW k \in 0 .. Len(lines) PROVE ParseOpencodeEvents(SubSeq(lines, 1, k)) = f[k]
        OBVIOUS
    <2>1. k \in 0 .. k
        OBVIOUS
    <2> QED BY <1>2, <2>1, EventPrefix DEF ParseOpencodeEvents
<1>4. f = [k \in 0 .. Len(lines) |-> IF k = 0 THEN NoEvent ELSE ParseEvent(f[k - 1], lines[k], k)]
    BY <1>1, EventRunsExist
<1> HIDE DEF f
<1>5. f[0] = NoEvent /\ f[n] = ParseEvent(f[n - 1], lines[n], n)
    BY <1>1, <1>4
<1> QED BY <1>1, <1>3, <1>5

-----------------------------------------------------------------------------
(* The stream.                                                             *)

Event ==
    [kind : {"text"}, says : Says, usage : {0, 1}]
    \cup [kind : {"use"}, id : Nat, tool : Tools, usage : {1}]
    \cup [kind : {"answer"}, id : Nat, error : BOOLEAN, content : Contents]
    \cup [kind : {"result"}, says : Says \cup {Nothing}, usage : {0, Total}]
    \cup [kind : {"call"}, tool : Tools, error : BOOLEAN, content : Contents]
    \cup [kind : {"step"}, usage : {0, 1}]

Kinds == IF Claude THEN {"text", "use", "answer", "result"} ELSE {"text", "call", "step"}

(* Every call has an id of its own, is answered once, and a result is the    *)
(* last thing said.                                                        *)
WireInv ==
    /\ harness \in Harnesses /\ wire \in Seq(Event)
    /\ \A n \in DOMAIN wire : wire[n].kind \in Kinds
    /\ \A n \in DOMAIN wire : wire[n].kind = "result" => n = Len(wire)
    /\ \A n \in Uses : wire[n].id \in 1 .. Cardinality(Uses)
    /\ \A m, n \in Uses : wire[m].id = wire[n].id => m = n
    /\ \A m, n \in DOMAIN wire :
         wire[m].kind = "answer" /\ wire[n].kind = "answer" /\ wire[m].id = wire[n].id => m = n

(* The fields of an event by its kind. *)
LEMMA EventFields ==
    ASSUME NEW e \in Event
    PROVE  /\ e.kind = "text" => e.says \in Says /\ e.usage \in {0, 1}
           /\ e.kind = "use" => e.id \in Nat /\ e.tool \in Tools /\ e.usage = 1
           /\ e.kind = "answer" => e.id \in Nat /\ e.error \in BOOLEAN /\ e.content \in Contents
           /\ e.kind = "result" => e.says \in Says \cup {Nothing} /\ e.usage \in {0, Total}
           /\ e.kind = "call" => e.tool \in Tools /\ e.error \in BOOLEAN /\ e.content \in Contents
           /\ e.kind = "step" => e.usage \in {0, 1}
BY DEF Event

(* The events there are, in the form the proofs use. *)
LEMMA WireType ==
    ASSUME WireInv
    PROVE  /\ Len(wire) \in Nat /\ DOMAIN wire = 1 .. Len(wire)
           /\ \A n \in DOMAIN wire : wire[n] \in Event
<1>1. wire \in Seq(Event)
    BY DEF WireInv
<1> QED BY <1>1

(* The places of 1 .. n with some property are counted as one goes.        *)
LEMMA CountStep ==
    ASSUME NEW n \in Nat \ {0}, NEW S \in SUBSET (1 .. n), NEW R \in SUBSET (1 .. n - 1),
           S \cap (1 .. n - 1) = R
    PROVE  /\ IsFiniteSet(S) /\ IsFiniteSet(R)
           /\ Cardinality(S) \in Nat /\ Cardinality(R) \in Nat
           /\ Cardinality(S) = IF n \in S THEN Cardinality(R) + 1 ELSE Cardinality(R)
<1>1. IsFiniteSet(1 .. n)
    BY FS_Interval
<1>2. R \subseteq S /\ R \subseteq 1 .. n
    OBVIOUS
<1>3. IsFiniteSet(S) /\ IsFiniteSet(R)
    BY <1>1, <1>2, FS_Subset
<1>4. Cardinality(S) \in Nat /\ Cardinality(R) \in Nat
    BY <1>3, FS_CardinalityType
<1>0. 1 .. n = (1 .. n - 1) \cup {n} /\ n \notin 1 .. n - 1
    OBVIOUS
<1>5. CASE n \in S
    <2>1. S = R \cup {n} /\ n \notin R
        BY <1>0, <1>5
    <2> QED BY <1>3, <1>4, <1>5, <2>1, FS_AddElement
<1>6. CASE n \notin S
    <2>1. S = R
        BY <1>0, <1>6
    <2> QED BY <1>3, <1>4, <1>6, <2>1
<1> QED BY <1>5, <1>6

(* Nothing is counted before the first event. *)
LEMMA CountNone == ASSUME NEW S \in SUBSET (1 .. 0) PROVE S = {} /\ Cardinality(S) = 0
<1>1. S = {}
    OBVIOUS
<1> QED BY <1>1, FS_EmptySet

IsAnswer(n) == wire[n].kind \in {"answer", "call"}

(* The answers up to a place, and how many they are. *)
LEMMA AnswersStep ==
    ASSUME NEW n \in Nat \ {0}
    PROVE  /\ AnswersUpTo(n) = IF IsAnswer(n) THEN AnswersUpTo(n - 1) \cup {n} ELSE AnswersUpTo(n - 1)
           /\ Cardinality(AnswersUpTo(n)) \in Nat /\ Cardinality(AnswersUpTo(n - 1)) \in Nat
           /\ Cardinality(AnswersUpTo(n)) = IF IsAnswer(n) THEN Cardinality(AnswersUpTo(n - 1)) + 1
                                            ELSE Cardinality(AnswersUpTo(n - 1))
<1> DEFINE S == AnswersUpTo(n)
           R == AnswersUpTo(n - 1)
<1>1. S \in SUBSET (1 .. n) /\ R \in SUBSET (1 .. n - 1) /\ S \cap (1 .. n - 1) = R
    BY DEF AnswersUpTo
<1>2. n \in S <=> IsAnswer(n)
    BY DEF AnswersUpTo, IsAnswer
<1>3. S = IF IsAnswer(n) THEN R \cup {n} ELSE R
    BY DEF AnswersUpTo, IsAnswer
<1> HIDE DEF S, R
<1>4. /\ Cardinality(S) \in Nat /\ Cardinality(R) \in Nat
      /\ Cardinality(S) = IF n \in S THEN Cardinality(R) + 1 ELSE Cardinality(R)
    BY <1>1, CountStep
<1> QED BY <1>2, <1>3, <1>4 DEF S, R

(* The place of an answer in the trace. *)
Rank(n) == Cardinality(AnswersUpTo(n))

(* Ranks are numbers. *)
LEMMA AnswersFinite ==
    ASSUME NEW n \in Nat
    PROVE  IsFiniteSet(AnswersUpTo(n)) /\ Rank(n) \in Nat
<1>1. IsFiniteSet(1 .. n)
    BY FS_Interval
<1>2. IsFiniteSet(AnswersUpTo(n))
    BY <1>1, FS_Subset DEF AnswersUpTo
<1> QED BY <1>2, FS_CardinalityType DEF Rank

(* Answers rank in their order. *)
LEMMA RankGrows ==
    ASSUME NEW m \in Nat, NEW n \in Nat, m < n, IsAnswer(n)
    PROVE  Rank(m) < Rank(n)
<1>1. /\ n \in Nat \ {0} /\ n - 1 \in Nat
      /\ Rank(n) = Rank(n - 1) + 1 /\ Rank(n - 1) \in Nat /\ Rank(n) \in Nat
    BY AnswersStep DEF Rank
<1>2. AnswersUpTo(m) \subseteq AnswersUpTo(n - 1)
    BY DEF AnswersUpTo
<1>3. Rank(m) \in Nat /\ Rank(m) <= Rank(n - 1)
    BY <1>1, <1>2, AnswersFinite, FS_Subset DEF Rank
<1> QED BY <1>1, <1>3

(* The rank of an answer is a place of the trace. *)
LEMMA RankBounds ==
    ASSUME NEW n \in Nat, NEW m \in AnswersUpTo(n)
    PROVE  m \in 1 .. n /\ Rank(m) \in 1 .. Rank(n)
<1>1. m \in 1 .. n /\ IsAnswer(m) /\ 0 \in Nat
    BY DEF AnswersUpTo, IsAnswer
<1>2. AnswersUpTo(m) \subseteq AnswersUpTo(n)
    BY <1>1 DEF AnswersUpTo
<1>3. Rank(m) <= Rank(n)
    BY <1>1, <1>2, AnswersFinite, FS_Subset DEF Rank
<1>4. Rank(0) < Rank(m) /\ Rank(0) \in Nat /\ Rank(m) \in Nat /\ Rank(n) \in Nat
    BY <1>1, RankGrows, AnswersFinite
<1> QED BY <1>1, <1>3, <1>4

-----------------------------------------------------------------------------
(* What a run is after the first n events.                                  *)

LastOf(n, text) ==
    \/ text = <<>> /\ Speech(n) = {}
    \/ \E m \in Speech(n) : text = <<m>> /\ \A k \in Speech(n) : k <= m

OpenFits(n, open) ==
    /\ \A i \in DOMAIN open : \E k \in Uses : k <= n /\ wire[k].id = i
    /\ \A k \in Uses : k <= n => wire[k].id \in DOMAIN open /\ open[wire[k].id] = wire[k].tool

Entry(m) == IF Claude THEN ClassifyToolResult(MadeWith(m), wire[m]) ELSE ClassifyOpencode(wire[m])

TraceFits(n, trace) ==
    /\ trace \in Seq(Calls) /\ Len(trace) = Rank(n)
    /\ \A m \in AnswersUpTo(n) : trace[Rank(m)] = Entry(m)
    /\ \A i \in DOMAIN trace : trace[i].ok <=> trace[i].code = "none"

CanonicalBy(n) == \E m \in 1 .. n : wire[m].kind = "result" /\ wire[m].usage = Total

Spent(n, kinds) == Cardinality({m \in 1 .. n : wire[m].kind \in kinds /\ wire[m].usage = 1})

LineFits(n, run) ==
    /\ run = [text |-> run.text, tokens |-> run.tokens, pending |-> run.pending, trace |-> run.trace]
    /\ LastOf(n, run.text) /\ OpenFits(n, run.pending) /\ TraceFits(n, run.trace)
    /\ run.tokens = IF CanonicalBy(n) THEN Total ELSE 0

EventFits(n, run) ==
    /\ run = [text |-> run.text, tokens |-> run.tokens, trace |-> run.trace]
    /\ run.text \in Seq(1 .. n)
    /\ \A m \in 1 .. n : wire[m].kind = "text" <=> \E i \in DOMAIN run.text : run.text[i] = m
    /\ TraceFits(n, run.trace)
    /\ run.tokens = Spent(n, {"step"})

(* What an answer leaves in the trace. *)
LEMMA EntryType ==
    ASSUME WireInv, NEW n \in DOMAIN wire, IsAnswer(n)
    PROVE  Entry(n) \in Calls /\ (Entry(n).ok <=> Entry(n).code = "none")
<1>1. wire[n] \in Event /\ wire[n].kind \in Kinds /\ wire[n].kind \in {"answer", "call"}
    BY WireType DEF WireInv, IsAnswer
<1>2. CASE Claude
    <2>1. wire[n].kind = "answer"
        BY <1>1, <1>2 DEF Kinds
    <2>2. MadeWith(n) \in Tools \cup {"<unknown>"}
        <3> DEFINE opening == {k \in Uses : k < n /\ wire[k].id = wire[n].id}
        <3>1. CASE opening = {}
            BY <2>1, <3>1 DEF MadeWith
        <3>2. CASE opening # {}
            <4>1. PICK k \in opening : k = CHOOSE j \in opening : TRUE
                BY <3>2
            <4>2. k \in Uses
                BY <4>1
            <4>3. wire[k].tool \in Tools
                BY <4>2, WireType, EventFields DEF Uses
            <4> QED BY <2>1, <3>2, <4>1, <4>3 DEF MadeWith
        <3> QED BY <3>1, <3>2
    <2>3. wire[n].error \in BOOLEAN
        BY <1>1, <2>1, EventFields
    <2>4. Entry(n) = ClassifyToolResult(MadeWith(n), wire[n])
        BY <1>2 DEF Entry
    <2>5. EnvelopeCode(wire[n].content) \in Codes \cup {"none"} /\ "none" \notin Codes
        BY CodeAssumption DEF EnvelopeCode
    <2> QED BY <2>2, <2>3, <2>4, <2>5 DEF ClassifyToolResult, ToolCall, Calls
<1>3. CASE ~Claude
    <2>1. wire[n].kind = "call"
        BY <1>1, <1>3 DEF Kinds
    <2>2. wire[n].tool \in Tools /\ wire[n].error \in BOOLEAN
        BY <1>1, <2>1, EventFields
    <2>3. Entry(n) = ClassifyOpencode(wire[n])
        BY <1>3 DEF Entry
    <2> DEFINE code == EnvelopeCode(wire[n].content)
               ok   == ~wire[n].error /\ code = "none"
    <2>4. Entry(n) = [tool |-> wire[n].tool, ok |-> ok,
                      code |-> IF code # "none" \/ ok THEN code ELSE "ERROR"]
        BY <2>3 DEF ClassifyOpencode, ToolCall
    <2>5. code \in Codes \cup {"none"}
        BY DEF EnvelopeCode
    <2>6. ok \in BOOLEAN /\ (ok => code = "none")
        BY <2>2
    <2> HIDE DEF code, ok
    <2> QED BY <2>2, <2>4, <2>5, <2>6 DEF Calls
<1> QED BY <1>2, <1>3

(* A trace after one event more. *)
LEMMA TraceStep ==
    ASSUME WireInv, NEW n \in DOMAIN wire, NEW trace, TraceFits(n - 1, trace)
    PROVE  /\ IsAnswer(n) => TraceFits(n, Append(trace, Entry(n)))
           /\ ~IsAnswer(n) => TraceFits(n, trace)
<1>1. n \in Nat \ {0} /\ n - 1 \in Nat /\ n \in 1 .. n
    BY WireType
<1>2. CASE IsAnswer(n)
    <2> DEFINE x == Entry(n)
               new == Append(trace, x)
    <2>1. x \in Calls /\ (x.ok <=> x.code = "none")
        BY <1>2, EntryType
    <2>2. trace \in Seq(Calls) /\ Len(trace) = Rank(n - 1) /\ Rank(n) = Len(trace) + 1 /\ Rank(n) \in Nat
        BY <1>1, <1>2, AnswersStep DEF TraceFits, Rank
    <2> HIDE DEF x
    <2>3. new \in Seq(Calls) /\ Len(new) = Rank(n)
        BY <2>1, <2>2
    <2>4. new[Rank(n)] = x
        BY <2>2
    <2>5. \A m \in AnswersUpTo(n - 1) : new[Rank(m)] = Entry(m)
        <3> SUFFICES ASSUME NEW m \in AnswersUpTo(n - 1) PROVE new[Rank(m)] = Entry(m)
            OBVIOUS
        <3>1. Rank(m) \in 1 .. Len(trace)
            BY <1>1, <2>2, RankBounds
        <3> QED BY <2>2, <3>1 DEF TraceFits
    <2>6. \A i \in DOMAIN new : new[i].ok <=> new[i].code = "none"
        <3> SUFFICES ASSUME NEW i \in DOMAIN new PROVE new[i].ok <=> new[i].code = "none"
            OBVIOUS
        <3>1. CASE i \in DOMAIN trace
            BY <2>2, <3>1 DEF TraceFits
        <3>2. CASE i \notin DOMAIN trace
            <4>1. i = Len(trace) + 1
                BY <2>2, <3>2
            <4>2. new[i] = x
                BY <2>2, <4>1
            <4> QED BY <2>1, <4>2
        <3> QED BY <3>1, <3>2
    <2>7. AnswersUpTo(n) = AnswersUpTo(n - 1) \cup {n}
        BY <1>1, <1>2, AnswersStep
    <2> QED BY <1>2, <2>3, <2>4, <2>5, <2>6, <2>7 DEF TraceFits, x
<1>3. CASE ~IsAnswer(n)
    BY <1>1, <1>3, AnswersStep DEF TraceFits, Rank
<1> QED BY <1>2, <1>3

(* The name a call was opened under. *)
LEMMA PendingIsMade ==
    ASSUME WireInv, NEW n \in DOMAIN wire, wire[n].kind = "answer",
           NEW open, OpenFits(n - 1, open)
    PROVE  Pending(open, wire[n].id) = MadeWith(n)
<1> DEFINE opening == {k \in Uses : k < n /\ wire[k].id = wire[n].id}
<1>1. \A k \in Uses : k \in Nat /\ (k < n <=> k <= n - 1)
    BY WireType DEF Uses
<1>2. CASE opening = {}
    <2>1. wire[n].id \notin DOMAIN open
        BY <1>1, <1>2 DEF OpenFits
    <2> QED BY <1>2, <2>1 DEF Pending, MadeWith
<1>3. CASE opening # {}
    <2>1. PICK k \in opening : TRUE
        BY <1>3
    <2>2. \A j \in opening : j = k
        BY <2>1 DEF WireInv
    <2>3. (CHOOSE j \in opening : TRUE) = k
        BY <1>3, <2>2
    <2>4. MadeWith(n) = wire[k].tool
        BY <1>3, <2>3 DEF MadeWith
    <2>5. k \in Uses /\ k <= n - 1 /\ wire[k].id = wire[n].id
        BY <1>1, <2>1
    <2> QED BY <2>4, <2>5 DEF OpenFits, Pending
<1> QED BY <1>2, <1>3

(* The last thing said, after one event more. *)
LEMMA SpeechStep ==
    ASSUME NEW n \in Nat \ {0}, NEW text, LastOf(n - 1, text)
    PROVE  /\ wire[n].kind = "text" \/ (wire[n].kind = "result" /\ wire[n].says # Nothing)
                => LastOf(n, <<n>>)
           /\ wire[n].kind # "text" /\ ~(wire[n].kind = "result" /\ wire[n].says # Nothing)
                => LastOf(n, text)
<1>0. 1 .. n = (1 .. n - 1) \cup {n} /\ \A k \in 1 .. n : k <= n
    OBVIOUS
<1>1. ASSUME wire[n].kind = "text" \/ (wire[n].kind = "result" /\ wire[n].says # Nothing)
      PROVE  LastOf(n, <<n>>)
    <2>1. n \in Speech(n) /\ \A k \in Speech(n) : k <= n
        BY <1>0, <1>1 DEF Speech
    <2> QED BY <2>1 DEF LastOf
<1>2. ASSUME wire[n].kind # "text", ~(wire[n].kind = "result" /\ wire[n].says # Nothing)
      PROVE  LastOf(n, text)
    <2>1. Speech(n) = Speech(n - 1)
        BY <1>0, <1>2 DEF Speech
    <2> QED BY <2>1 DEF LastOf
<1> QED BY <1>1, <1>2

(* The names calls were opened under, after one event more. *)
LEMMA OpenStep ==
    ASSUME WireInv, NEW n \in DOMAIN wire, NEW open, OpenFits(n - 1, open)
    PROVE  /\ wire[n].kind = "use" => OpenFits(n, Opened(open, wire[n].id, wire[n].tool))
           /\ wire[n].kind # "use" => OpenFits(n, open)
<1>0. n \in Nat /\ \A k \in Uses : k \in Nat /\ (k <= n <=> k <= n - 1 \/ k = n)
    BY WireType DEF Uses
<1>1. ASSUME wire[n].kind = "use" PROVE OpenFits(n, Opened(open, wire[n].id, wire[n].tool))
    <2> DEFINE new == Opened(open, wire[n].id, wire[n].tool)
    <2>1. n \in Uses /\ n <= n
        BY <1>0, <1>1 DEF Uses
    <2>2. /\ DOMAIN new = DOMAIN open \cup {wire[n].id}
          /\ new[wire[n].id] = wire[n].tool
          /\ \A i \in DOMAIN open : i # wire[n].id => new[i] = open[i]
        BY DEF Opened
    <2> HIDE DEF new
    <2>3. \A i \in DOMAIN new : \E k \in Uses : k <= n /\ wire[k].id = i
        <3> SUFFICES ASSUME NEW i \in DOMAIN new PROVE \E k \in Uses : k <= n /\ wire[k].id = i
            OBVIOUS
        <3>1. CASE i = wire[n].id
            BY <2>1, <3>1
        <3>2. CASE i # wire[n].id
            <4>1. PICK k \in Uses : k <= n - 1 /\ wire[k].id = i
                BY <2>2, <3>2 DEF OpenFits
            <4> QED BY <1>0, <4>1
        <3> QED BY <3>1, <3>2
    <2>4. \A k \in Uses : k <= n => wire[k].id \in DOMAIN new /\ new[wire[k].id] = wire[k].tool
        <3> SUFFICES ASSUME NEW k \in Uses, k <= n
                     PROVE  wire[k].id \in DOMAIN new /\ new[wire[k].id] = wire[k].tool
            OBVIOUS
        <3>1. CASE k = n
            BY <2>2, <3>1
        <3>2. CASE k # n
            <4>1. k <= n - 1 /\ wire[k].id # wire[n].id
                BY <1>0, <2>1, <3>2 DEF WireInv
            <4>2. wire[k].id \in DOMAIN open /\ open[wire[k].id] = wire[k].tool
                BY <4>1 DEF OpenFits
            <4> QED BY <2>2, <4>1, <4>2
        <3> QED BY <3>1, <3>2
    <2> QED BY <2>3, <2>4 DEF OpenFits, new
<1>2. ASSUME wire[n].kind # "use" PROVE OpenFits(n, open)
    <2>1. \A k \in Uses : k <= n <=> k <= n - 1
        BY <1>0, <1>2 DEF Uses
    <2> QED BY <2>1 DEF OpenFits
<1> QED BY <1>1, <1>2

(* A canonical usage is one the result came with. *)
LEMMA CanonicalStep ==
    ASSUME WireInv, NEW n \in DOMAIN wire
    PROVE  /\ wire[n].kind # "result" => (CanonicalBy(n) <=> CanonicalBy(n - 1))
           /\ wire[n].kind = "result" => wire[n].usage = IF CanonicalBy(n) THEN Total ELSE 0
<1>0. 1 .. n = (1 .. n - 1) \cup {n} /\ n \in 1 .. n /\ 1 .. n \subseteq DOMAIN wire
    BY WireType
<1>1. ASSUME wire[n].kind # "result" PROVE CanonicalBy(n) <=> CanonicalBy(n - 1)
    BY <1>0, <1>1 DEF CanonicalBy
<1>2. ASSUME wire[n].kind = "result"
      PROVE  wire[n].usage = IF CanonicalBy(n) THEN Total ELSE 0
    <2>1. \A m \in 1 .. n : wire[m].kind = "result" => m = n
        BY <1>0, <1>2 DEF WireInv
    <2>2. wire[n].usage \in {0, Total} /\ Total # 0
        BY <1>2, WireType, EventFields, BoundsAssumption
    <2>3. CanonicalBy(n) <=> wire[n].usage = Total
        BY <1>0, <1>2, <2>1 DEF CanonicalBy
    <2> QED BY <2>2, <2>3
<1> QED BY <1>1, <1>2

(* One line more keeps the run in step with the events. *)
LEMMA LineStep ==
    ASSUME WireInv, Claude, NEW n \in DOMAIN wire, NEW run, LineFits(n - 1, run)
    PROVE  LineFits(n, ParseLine(run, wire[n], n))
<1> DEFINE e   == wire[n]
           new == ParseLine(run, e, n)
           Made(text, tokens, open, trace) ==
               [text |-> text, tokens |-> tokens, pending |-> open, trace |-> trace]
<1>0. /\ n \in Nat \ {0} /\ e \in Event /\ e.kind \in {"text", "use", "answer", "result"}
      /\ run = Made(run.text, run.tokens, run.pending, run.trace)
      /\ LastOf(n - 1, run.text) /\ OpenFits(n - 1, run.pending) /\ TraceFits(n - 1, run.trace)
      /\ run.tokens = IF CanonicalBy(n - 1) THEN Total ELSE 0
    BY WireType DEF WireInv, Kinds, LineFits
<1>1. \A text, tokens, open, trace :
          /\ LastOf(n, text) /\ OpenFits(n, open) /\ TraceFits(n, trace)
          /\ tokens = IF CanonicalBy(n) THEN Total ELSE 0
          => LineFits(n, Made(text, tokens, open, trace))
    BY DEF LineFits
<1>2. CASE e.kind = "text"
    <2>1. new = Made(<<n>>, run.tokens, run.pending, run.trace)
        BY <1>0, <1>2 DEF ParseLine
    <2>2. LastOf(n, <<n>>) /\ OpenFits(n, run.pending) /\ TraceFits(n, run.trace)
        BY <1>0, <1>2, SpeechStep, OpenStep, TraceStep DEF IsAnswer
    <2>3. run.tokens = IF CanonicalBy(n) THEN Total ELSE 0
        BY <1>0, <1>2, CanonicalStep
    <2> HIDE DEF Made
    <2> QED BY <1>1, <2>1, <2>2, <2>3
<1>3. CASE e.kind = "use"
    <2>1. new = Made(run.text, run.tokens, Opened(run.pending, e.id, e.tool), run.trace)
        BY <1>0, <1>3 DEF ParseLine
    <2>2. /\ LastOf(n, run.text) /\ OpenFits(n, Opened(run.pending, e.id, e.tool))
          /\ TraceFits(n, run.trace)
        BY <1>0, <1>3, SpeechStep, OpenStep, TraceStep DEF IsAnswer
    <2>3. run.tokens = IF CanonicalBy(n) THEN Total ELSE 0
        BY <1>0, <1>3, CanonicalStep
    <2> HIDE DEF Made
    <2> QED BY <1>1, <2>1, <2>2, <2>3
<1>4. CASE e.kind = "answer"
    <2>1. new = Made(run.text, run.tokens, run.pending,
                     Append(run.trace, ClassifyToolResult(Pending(run.pending, e.id), e)))
        BY <1>0, <1>4 DEF ParseLine
    <2>2. ClassifyToolResult(Pending(run.pending, e.id), e) = Entry(n)
        BY <1>0, <1>4, PendingIsMade DEF Entry
    <2>3. LastOf(n, run.text) /\ OpenFits(n, run.pending) /\ TraceFits(n, Append(run.trace, Entry(n)))
        BY <1>0, <1>4, SpeechStep, OpenStep, TraceStep DEF IsAnswer
    <2>4. run.tokens = IF CanonicalBy(n) THEN Total ELSE 0
        BY <1>0, <1>4, CanonicalStep
    <2> HIDE DEF Made
    <2> QED BY <1>1, <2>1, <2>2, <2>3, <2>4
<1>5. CASE e.kind = "result"
    <2>1. new = Made(ResultText(run.text, e, n), e.usage, run.pending, run.trace)
        BY <1>0, <1>5 DEF ParseLine
    <2>2. LastOf(n, ResultText(run.text, e, n))
        BY <1>0, <1>5, SpeechStep DEF ResultText
    <2>3. OpenFits(n, run.pending) /\ TraceFits(n, run.trace)
        BY <1>0, <1>5, OpenStep, TraceStep DEF IsAnswer
    <2>4. e.usage = IF CanonicalBy(n) THEN Total ELSE 0
        BY <1>5, CanonicalStep
    <2> HIDE DEF Made
    <2> QED BY <1>1, <2>1, <2>2, <2>3, <2>4
<1> QED BY <1>0, <1>2, <1>3, <1>4, <1>5

(* Before the first event. *)
LEMMA NothingYet ==
    ASSUME WireInv
    PROVE  /\ LastOf(0, <<>>) /\ OpenFits(0, <<>>) /\ TraceFits(0, <<>>)
           /\ ~CanonicalBy(0)
<1>1. 1 .. 0 = {}
    OBVIOUS
<1>2. Speech(0) = {} /\ AnswersUpTo(0) = {} /\ ~CanonicalBy(0)
    BY <1>1 DEF Speech, AnswersUpTo, CanonicalBy
<1>3. Rank(0) = 0
    BY <1>2, FS_EmptySet DEF Rank
<1>4. DOMAIN <<>> = {}
    OBVIOUS
<1>5. <<>> \in Seq(Calls) /\ Len(<<>>) = 0
    OBVIOUS
<1>6. TraceFits(0, <<>>)
    BY <1>2, <1>3, <1>4, <1>5 DEF TraceFits
<1>7. \A k \in Uses : ~(k <= 0)
    BY WireType DEF Uses
<1> QED BY <1>2, <1>4, <1>6, <1>7 DEF LastOf, OpenFits

(* After every line the parsed run is of the lines so far. *)
LEMMA LinesFit ==
    ASSUME WireInv, Claude
    PROVE  \A n \in 0 .. Len(wire) : LineFits(n, ParseStreamJson(SubSeq(wire, 1, n)))
<1> DEFINE P(n) == ParseStreamJson(SubSeq(wire, 1, n))
           T == {n \in Nat : n <= Len(wire) => LineFits(n, P(n))}
<1>1. Len(wire) \in Nat /\ wire \in Seq(Event) /\ DOMAIN wire = 1 .. Len(wire)
    BY WireType DEF WireInv
<1>2. 0 \in T
    <2>1. P(0) = NoLine
        <3>1. SubSeq(wire, 1, 0) = <<>>
            BY <1>1
        <3>2. Len(<<>>) \in Nat /\ Len(<<>>) = 0 /\ 0 \in 0 .. 0
            OBVIOUS
        <3>3. LineRuns(<<>>)[0] = NoLine
            BY <3>2, LineRunsExist
        <3> QED BY <3>1, <3>2, <3>3 DEF ParseStreamJson
    <2> HIDE DEF P
    <2>2. LineFits(0, NoLine)
        BY NothingYet DEF LineFits, NoLine
    <2> QED BY <2>1, <2>2
<1>3. \A n \in T : n + 1 \in T
    <2> SUFFICES ASSUME NEW n \in Nat, LineFits(n, P(n)), n + 1 <= Len(wire)
                 PROVE  LineFits(n + 1, P(n + 1))
        BY <1>1
    <2>1. n + 1 \in 1 .. Len(wire) /\ (n + 1) - 1 = n
        BY <1>1
    <2>2. P(n + 1) = ParseLine(P(n), wire[n + 1], n + 1)
        BY <1>1, <2>1, OneLineMore
    <2> HIDE DEF P
    <2> QED BY <1>1, <2>1, <2>2, LineStep
<1> HIDE DEF T
<1>4. T = Nat
    BY <1>2, <1>3, Induction DEF T
<1> QED BY <1>1, <1>4 DEF T

(* What was spent, after one event more. *)
LEMMA SpentStep ==
    ASSUME NEW n \in Nat \ {0}, NEW kinds
    PROVE  /\ Spent(n, kinds) \in Nat /\ Spent(n - 1, kinds) \in Nat
           /\ Spent(n, kinds) = IF wire[n].kind \in kinds /\ wire[n].usage = 1
                                THEN Spent(n - 1, kinds) + 1 ELSE Spent(n - 1, kinds)
<1> DEFINE S(k) == {m \in 1 .. k : wire[m].kind \in kinds /\ wire[m].usage = 1}
<1>1. S(n) \in SUBSET (1 .. n) /\ S(n - 1) \in SUBSET (1 .. n - 1) /\ S(n) \cap (1 .. n - 1) = S(n - 1)
    OBVIOUS
<1>2. n \in S(n) <=> wire[n].kind \in kinds /\ wire[n].usage = 1
    OBVIOUS
<1>3. Spent(n, kinds) = Cardinality(S(n)) /\ Spent(n - 1, kinds) = Cardinality(S(n - 1))
    BY DEF Spent
<1> HIDE DEF S
<1>4. /\ Cardinality(S(n)) \in Nat /\ Cardinality(S(n - 1)) \in Nat
      /\ Cardinality(S(n)) = IF n \in S(n) THEN Cardinality(S(n - 1)) + 1 ELSE Cardinality(S(n - 1))
    BY <1>1, CountStep
<1> QED BY <1>2, <1>3, <1>4

(* Nothing is spent before the first event. *)
LEMMA SpentNone == ASSUME NEW kinds PROVE Spent(0, kinds) = 0
<1> DEFINE S == {m \in 1 .. 0 : wire[m].kind \in kinds /\ wire[m].usage = 1}
<1>1. S \in SUBSET (1 .. 0) /\ Spent(0, kinds) = Cardinality(S)
    BY DEF Spent
<1> HIDE DEF S
<1> QED BY <1>1, CountNone

(* One of opencode's events more keeps the run in step. *)
LEMMA EventStep ==
    ASSUME WireInv, ~Claude, NEW n \in DOMAIN wire, NEW run, EventFits(n - 1, run)
    PROVE  EventFits(n, ParseEvent(run, wire[n], n))
<1> DEFINE e   == wire[n]
           new == ParseEvent(run, e, n)
           Made(text, tokens, trace) == [text |-> text, tokens |-> tokens, trace |-> trace]
           TextFits(k, text) ==
               /\ text \in Seq(1 .. k)
               /\ \A m \in 1 .. k : wire[m].kind = "text" <=> \E i \in DOMAIN text : text[i] = m
<1>0. /\ n \in Nat \ {0} /\ e \in Event /\ e.kind \in {"text", "call", "step"}
      /\ run = Made(run.text, run.tokens, run.trace)
      /\ TextFits(n - 1, run.text) /\ TraceFits(n - 1, run.trace)
      /\ run.tokens = Spent(n - 1, {"step"})
    BY WireType DEF WireInv, Kinds, EventFits
<1>1. \A text, tokens, trace :
          /\ TextFits(n, text) /\ TraceFits(n, trace) /\ tokens = Spent(n, {"step"})
          => EventFits(n, Made(text, tokens, trace))
    BY DEF EventFits
<1>2. run.text \in Seq(1 .. n) /\ DOMAIN run.text = 1 .. Len(run.text) /\ Len(run.text) \in Nat
    <2>1. \A i \in 1 .. Len(run.text) : run.text[i] \in 1 .. n
        BY <1>0
    <2> QED BY <1>0, <2>1
<1>3. 1 .. n = (1 .. n - 1) \cup {n} /\ n \notin 1 .. n - 1
    BY <1>0
<1>4. ASSUME e.kind # "text" PROVE TextFits(n, run.text)
    <2>1. \A i \in DOMAIN run.text : run.text[i] # n
        BY <1>0, <1>2
    <2> QED BY <1>0, <1>2, <1>3, <1>4, <2>1
<1>5. CASE e.kind = "text"
    <2>1. new = Made(Append(run.text, n), run.tokens, run.trace)
        BY <1>0, <1>5 DEF ParseEvent
    <2> DEFINE text == Append(run.text, n)
    <2>2. /\ text \in Seq(1 .. n) /\ DOMAIN text = DOMAIN run.text \cup {Len(run.text) + 1}
          /\ text[Len(run.text) + 1] = n
          /\ \A i \in DOMAIN run.text : text[i] = run.text[i] /\ run.text[i] # n
        BY <1>0, <1>2
    <2> HIDE DEF text
    <2>3. TextFits(n, text)
        BY <1>0, <1>3, <1>5, <2>2
    <2>4. TraceFits(n, run.trace) /\ run.tokens = Spent(n, {"step"})
        BY <1>0, <1>5, TraceStep, SpentStep DEF IsAnswer
    <2> HIDE DEF Made, TextFits
    <2> QED BY <1>1, <2>1, <2>3, <2>4 DEF text
<1>6. CASE e.kind = "call"
    <2>1. new = Made(run.text, run.tokens, Append(run.trace, ClassifyOpencode(e)))
        BY <1>0, <1>6 DEF ParseEvent
    <2>2. ClassifyOpencode(e) = Entry(n)
        BY DEF Entry
    <2>3. TraceFits(n, Append(run.trace, Entry(n))) /\ run.tokens = Spent(n, {"step"})
        BY <1>0, <1>6, TraceStep, SpentStep DEF IsAnswer
    <2> HIDE DEF Made, TextFits
    <2> QED BY <1>1, <1>4, <1>6, <2>1, <2>2, <2>3
<1>7. CASE e.kind = "step"
    <2>1. new = Made(run.text, run.tokens + e.usage, run.trace)
        BY <1>0, <1>7 DEF ParseEvent
    <2>2. TraceFits(n, run.trace) /\ e.usage \in {0, 1}
        BY <1>0, <1>7, TraceStep, EventFields DEF IsAnswer
    <2>3. run.tokens + e.usage = Spent(n, {"step"})
        BY <1>0, <1>7, <2>2, SpentStep
    <2> HIDE DEF Made, TextFits
    <2> QED BY <1>1, <1>4, <1>7, <2>1, <2>2, <2>3
<1> QED BY <1>0, <1>5, <1>6, <1>7

(* The same of opencode's parser. *)
LEMMA EventsFit ==
    ASSUME WireInv, ~Claude
    PROVE  \A n \in 0 .. Len(wire) : EventFits(n, ParseOpencodeEvents(SubSeq(wire, 1, n)))
<1> DEFINE P(n) == ParseOpencodeEvents(SubSeq(wire, 1, n))
           T == {n \in Nat : n <= Len(wire) => EventFits(n, P(n))}
<1>1. Len(wire) \in Nat /\ wire \in Seq(Event) /\ DOMAIN wire = 1 .. Len(wire)
    BY WireType DEF WireInv
<1>2. 0 \in T
    <2>1. P(0) = NoEvent
        <3>1. SubSeq(wire, 1, 0) = <<>>
            BY <1>1
        <3>2. Len(<<>>) \in Nat /\ Len(<<>>) = 0 /\ 0 \in 0 .. 0
            OBVIOUS
        <3>3. EventRuns(<<>>)[0] = NoEvent
            BY <3>2, EventRunsExist
        <3> QED BY <3>1, <3>2, <3>3 DEF ParseOpencodeEvents
    <2> HIDE DEF P
    <2>2. <<>> \in Seq(1 .. 0) /\ 1 .. 0 = {}
        OBVIOUS
    <2>3. EventFits(0, NoEvent)
        BY <2>2, NothingYet, SpentNone DEF EventFits, NoEvent
    <2> QED BY <2>1, <2>3
<1>3. \A n \in T : n + 1 \in T
    <2> SUFFICES ASSUME NEW n \in Nat, EventFits(n, P(n)), n + 1 <= Len(wire)
                 PROVE  EventFits(n + 1, P(n + 1))
        BY <1>1
    <2>1. n + 1 \in 1 .. Len(wire) /\ (n + 1) - 1 = n
        BY <1>1
    <2>2. P(n + 1) = ParseEvent(P(n), wire[n + 1], n + 1)
        BY <1>1, <2>1, OneEventMore
    <2> HIDE DEF P
    <2> QED BY <1>1, <2>1, <2>2, EventStep
<1> HIDE DEF T
<1>4. T = Nat
    BY <1>2, <1>3, Induction DEF T
<1> QED BY <1>1, <1>4 DEF T

-----------------------------------------------------------------------------
(* The inductive invariant: at any moment the driver holds what its parser  *)
(* makes of the events heard.                                              *)

Run(n) == IF Claude THEN ParseStreamJson(SubSeq(wire, 1, n)) ELSE ParseOpencodeEvents(SubSeq(wire, 1, n))

PlaceInv ==
    /\ heard \in 0 .. Len(wire) /\ Len(wire) <= MaxEvents
    /\ pc \in {"running", "over", "ended"}
    /\ harness # "sdk" /\ pc # "ended" => heard = Len(wire)

StateInv ==
    harness = "sdk" =>
        state = [text |-> Run(heard).text, usage |-> Run(heard).tokens,
                 acc |-> Spent(heard, {"text", "use"}), pending |-> Run(heard).pending,
                 trace |-> Run(heard).trace]

(* Only the SDK driver falls back to what the messages carried. *)
Tokens(n) ==
    IF harness = "sdk" /\ Run(n).tokens = 0 THEN Spent(n, {"text", "use"}) ELSE Run(n).tokens

Outcome(timed_out, exit) ==
    [text |-> Run(heard).text, trace |-> Run(heard).trace, tokens |-> Tokens(heard),
     timed_out |-> timed_out, exit |-> exit]

ResultInv ==
    Returned => \E timed_out \in BOOLEAN, exit \in {0, 1} : result = Outcome(timed_out, exit)

StreamInv == WireInv /\ PlaceInv /\ StateInv /\ ResultInv

(* The invariant holds at first. *)
LEMMA StreamInvInit == Init => StreamInv
<1> SUFFICES ASSUME Init PROVE StreamInv
    OBVIOUS
<1>1. wire = <<>> /\ DOMAIN wire = {} /\ Len(wire) = 0 /\ wire \in Seq(Event) /\ heard = 0
    BY DEF Init
<1>2. Uses = {}
    BY <1>1 DEF Uses
<1>3. WireInv
    BY <1>1, <1>2 DEF Init, WireInv
<1>4. PlaceInv
    BY <1>1, BoundsAssumption DEF Init, PlaceInv
<1>5. StateInv
    <2>1. CASE harness = "sdk"
        <3>1. Run(0) = NoLine
            <4>1. SubSeq(wire, 1, 0) = <<>>
                BY <1>1
            <4>2. Len(<<>>) \in Nat /\ Len(<<>>) = 0 /\ 0 \in 0 .. 0
                OBVIOUS
            <4>3. LineRuns(<<>>)[0] = NoLine
                BY <4>2, LineRunsExist
            <4> QED BY <2>1, <4>1, <4>2, <4>3 DEF Run, Claude, ParseStreamJson
        <3>2. Spent(0, {"text", "use"}) = 0
            BY SpentNone
        <3> QED BY <1>1, <3>1, <3>2 DEF Init, StateInv, FreshState, NoLine
    <2> QED BY <2>1 DEF StateInv
<1>6. ResultInv
    BY DEF Init, ResultInv, Returned
<1> QED BY <1>3, <1>4, <1>5, <1>6 DEF StreamInv

(* What the agent's side may say next. *)
LEMMA SaidFits ==
    ASSUME WireInv, NEW e \in (IF Claude THEN ClaudeEvents ELSE OpencodeEvents)
    PROVE  /\ e \in Event /\ e.kind \in Kinds
           /\ e.kind = "use" => e.id = Cardinality(Uses) + 1
           /\ e.kind = "answer" => e.id \notin Answered
<1>0. IsFiniteSet(Uses) /\ Cardinality(Uses) \in Nat
    <2>1. IsFiniteSet(DOMAIN wire)
        BY WireType, FS_Interval
    <2> QED BY <2>1, FS_Subset, FS_CardinalityType DEF Uses
<1>1. CASE Claude
    <2>1. CASE \E said \in Says, used \in {0, 1} : e = Text(said, used)
        BY <1>1, <2>1 DEF Text, Event, Kinds
    <2>2. CASE \E tool \in Tools : e = Use(Cardinality(Uses) + 1, tool)
        BY <1>0, <1>1, <2>2 DEF Use, Event, Kinds
    <2>3. CASE \E i \in Unanswered, error \in BOOLEAN, content \in Contents : e = Reply(i, error, content)
        <3>1. PICK i \in Unanswered, error \in BOOLEAN, content \in Contents : e = Reply(i, error, content)
            BY <2>3
        <3>2. i \in Nat /\ i \notin Answered
            BY <1>0 DEF Unanswered, WireInv
        <3> QED BY <1>1, <3>1, <3>2 DEF Reply, Event, Kinds
    <2>4. CASE \E said \in Says \cup {Nothing}, used \in {0, Total} : e = Done(said, used)
        BY <1>1, <2>4 DEF Done, Event, Kinds
    <2> QED BY <1>1, <2>1, <2>2, <2>3, <2>4 DEF ClaudeEvents
<1>2. CASE ~Claude
    <2>1. CASE \E said \in Says : e = Text(said, 0)
        BY <1>2, <2>1 DEF Text, Event, Kinds
    <2>2. CASE \E tool \in Tools, error \in BOOLEAN, content \in Contents : e = Called(tool, error, content)
        BY <1>2, <2>2 DEF Called, Event, Kinds
    <2>3. CASE \E used \in {0, 1} : e = Step(used)
        BY <1>2, <2>3 DEF Step, Event, Kinds
    <2> QED BY <1>2, <2>1, <2>2, <2>3 DEF OpencodeEvents
<1> QED BY <1>1, <1>2

(* What is said next is new, and takes nothing back. *)
LEMMA SpeakKeepsWire ==
    ASSUME WireInv, Speak
    PROVE  /\ WireInv'
           /\ Len(wire') = Len(wire) + 1 /\ Len(wire) \in Nat
           /\ \A n \in DOMAIN wire : wire'[n] = wire[n]
           /\ \A n \in 0 .. Len(wire) : SubSeq(wire', 1, n) = SubSeq(wire, 1, n)
<1>1. PICK e \in (IF Claude THEN ClaudeEvents ELSE OpencodeEvents) : wire' = Append(wire, e)
    BY DEF Speak
<1>2. /\ e \in Event /\ e.kind \in Kinds
      /\ e.kind = "use" => e.id = Cardinality(Uses) + 1
      /\ e.kind = "answer" => e.id \notin Answered
    BY SaidFits
<1>3. harness' = harness /\ Kinds' = Kinds /\ ~Concluded
    BY DEF Speak, Kinds, Claude
<1>4. wire \in Seq(Event) /\ Len(wire) \in Nat /\ DOMAIN wire = 1 .. Len(wire)
    BY WireType DEF WireInv
<1> DEFINE last == Len(wire) + 1
<1>5. /\ wire' \in Seq(Event) /\ Len(wire') = last /\ DOMAIN wire' = DOMAIN wire \cup {last}
      /\ last \notin DOMAIN wire
      /\ wire'[last] = e /\ \A n \in DOMAIN wire : wire'[n] = wire[n]
    BY <1>1, <1>2, <1>4
<1>6. \A n \in 0 .. Len(wire) : SubSeq(wire', 1, n) = SubSeq(wire, 1, n)
    BY <1>1, <1>2, <1>4
<1> HIDE DEF last
<1>7. \A n \in DOMAIN wire' : wire'[n].kind \in Kinds
    BY <1>2, <1>5 DEF WireInv
<1>8. \A n \in DOMAIN wire' : wire'[n].kind = "result" => n = Len(wire')
    BY <1>3, <1>5 DEF Concluded
<1>9. /\ Uses' = IF e.kind = "use" THEN Uses \cup {last} ELSE Uses
      /\ last \notin Uses /\ Uses \subseteq DOMAIN wire
    BY <1>5 DEF Uses
<1>10. IsFiniteSet(Uses) /\ Cardinality(Uses) \in Nat
    <2>1. IsFiniteSet(DOMAIN wire)
        BY <1>4, FS_Interval
    <2> QED BY <1>9, <2>1, FS_Subset, FS_CardinalityType
<1>11. Cardinality(Uses)' = IF e.kind = "use" THEN Cardinality(Uses) + 1 ELSE Cardinality(Uses)
    BY <1>9, <1>10, FS_AddElement
<1>12. \A n \in Uses' : wire'[n].id \in 1 .. Cardinality(Uses)'
    <2>1. \A n \in Uses : wire'[n].id \in 1 .. Cardinality(Uses)
        BY <1>5, <1>9 DEF WireInv
    <2> QED BY <1>2, <1>5, <1>9, <1>10, <1>11, <2>1
<1>13. \A m, n \in Uses' : wire'[m].id = wire'[n].id => m = n
    <2>1. \A m, n \in Uses : wire'[m].id = wire'[n].id => m = n
        BY <1>5, <1>9 DEF WireInv
    <2>2. e.kind = "use" => \A n \in Uses : wire'[n].id # wire'[last].id
        BY <1>2, <1>5, <1>9, <1>10 DEF WireInv
    <2> QED BY <1>9, <2>1, <2>2
<1>14. \A m, n \in DOMAIN wire' :
         wire'[m].kind = "answer" /\ wire'[n].kind = "answer" /\ wire'[m].id = wire'[n].id => m = n
    <2>1. \A m, n \in DOMAIN wire :
             wire'[m].kind = "answer" /\ wire'[n].kind = "answer" /\ wire'[m].id = wire'[n].id => m = n
        BY <1>5 DEF WireInv
    <2>2. e.kind = "answer" => \A n \in DOMAIN wire : wire'[n].kind = "answer" => wire'[n].id # e.id
        BY <1>2, <1>5 DEF Answered
    <2> QED BY <1>5, <2>1, <2>2
<1>15. WireInv'
    BY <1>3, <1>5, <1>7, <1>8, <1>12, <1>13, <1>14 DEF WireInv
<1> QED BY <1>4, <1>5, <1>6, <1>15 DEF last

(* Speaking keeps what the driver holds. *)
LEMMA SpeakStep ==
    ASSUME StreamInv, Speak
    PROVE  StreamInv'
<1>1. /\ WireInv' /\ Len(wire') = Len(wire) + 1 /\ Len(wire) \in Nat
      /\ \A n \in DOMAIN wire : wire'[n] = wire[n]
      /\ \A n \in 0 .. Len(wire) : SubSeq(wire', 1, n) = SubSeq(wire, 1, n)
    BY SpeakKeepsWire DEF StreamInv
<1>2. /\ pc = "running" /\ harness' = harness /\ state' = state /\ pc' = pc
      /\ heard' = (IF harness = "sdk" THEN heard ELSE heard + 1)
      /\ Len(wire) < MaxEvents
    BY DEF Speak
<1>3. heard \in 0 .. Len(wire) /\ (harness # "sdk" => heard = Len(wire))
    BY <1>2 DEF StreamInv, PlaceInv
<1>4. PlaceInv'
    BY <1>1, <1>2, <1>3, BoundsAssumption DEF PlaceInv
<1>5. StateInv'
    <2> SUFFICES ASSUME harness = "sdk"
                 PROVE  state' = [text |-> Run(heard).text, usage |-> Run(heard).tokens,
                                  acc |-> Spent(heard, {"text", "use"}),
                                  pending |-> Run(heard).pending, trace |-> Run(heard).trace]'
        BY <1>2 DEF StateInv
    <2>1. Run(heard)' = Run(heard)
        BY <1>1, <1>2, <1>3 DEF Run, Claude
    <2>2. heard' = heard /\ heard \in Nat /\ \A m \in 1 .. heard : wire'[m] = wire[m]
        BY <1>1, <1>2, <1>3, WireType DEF StreamInv
    <2>3. Spent(heard, {"text", "use"})' = Spent(heard, {"text", "use"})
        <3>1. {m \in 1 .. heard : wire'[m].kind \in {"text", "use"} /\ wire'[m].usage = 1}
                = {m \in 1 .. heard : wire[m].kind \in {"text", "use"} /\ wire[m].usage = 1}
            BY <2>2
        <3> QED BY <2>2, <3>1 DEF Spent
    <2> QED BY <1>2, <2>1, <2>3 DEF StreamInv, StateInv
<1>6. ResultInv'
    BY <1>2 DEF ResultInv, Returned
<1> QED BY <1>1, <1>4, <1>5, <1>6 DEF StreamInv

(* _consume does to the state what the parser does to the run. *)
LEMMA HearStep ==
    ASSUME StreamInv, Hear
    PROVE  StreamInv'
<1> DEFINE n == heard + 1
           e == wire[n]
           run == Run(heard)
           new == Run(n)
<1>1. /\ harness = "sdk" /\ Claude /\ pc # "ended" /\ heard < Len(wire)
      /\ state' = Consume(state, e, n) /\ heard' = n
      /\ UNCHANGED <<harness, wire, pc, result>>
    BY DEF Hear, Claude
<1>2. /\ n \in DOMAIN wire /\ n \in Nat \ {0} /\ n - 1 = heard /\ heard \in 0 .. Len(wire)
      /\ wire \in Seq(Event) /\ DOMAIN wire = 1 .. Len(wire) /\ Len(wire) \in Nat
    BY <1>1, WireType DEF StreamInv, PlaceInv, WireInv
<1>3. new = ParseLine(run, e, n)
    BY <1>1, <1>2, OneLineMore DEF Run
<1>4. /\ run = [text |-> run.text, tokens |-> run.tokens, pending |-> run.pending, trace |-> run.trace]
      /\ run.tokens = IF CanonicalBy(heard) THEN Total ELSE 0
    BY <1>1, <1>2, LinesFit DEF StreamInv, Run, LineFits
<1>5. state = [text |-> run.text, usage |-> run.tokens, acc |-> Spent(heard, {"text", "use"}),
               pending |-> run.pending, trace |-> run.trace]
    BY <1>1 DEF StreamInv, StateInv
<1>6. /\ e \in Event /\ e.kind \in {"text", "use", "answer", "result"}
      /\ e.kind = "text" => e.usage \in {0, 1}
      /\ e.kind = "use" => e.usage = 1
    BY <1>1, <1>2, WireType, EventFields DEF StreamInv, WireInv, Kinds
<1>7. /\ e.kind \in {"text", "use"} =>
           Spent(n, {"text", "use"}) = Spent(heard, {"text", "use"}) + e.usage
      /\ e.kind \notin {"text", "use"} => Spent(n, {"text", "use"}) = Spent(heard, {"text", "use"})
    <2>1. /\ Spent(heard, {"text", "use"}) \in Nat
          /\ Spent(n, {"text", "use"}) = IF e.kind \in {"text", "use"} /\ e.usage = 1
                                         THEN Spent(heard, {"text", "use"}) + 1
                                         ELSE Spent(heard, {"text", "use"})
        BY <1>2, SpentStep
    <2> HIDE DEF n, e
    <2>2. e.kind \in {"text", "use"} => e.usage \in {0, 1}
        BY <1>6
    <2> QED BY <2>1, <2>2
<1> HIDE DEF n, e, run, new
<1>8. state' = [text |-> new.text, usage |-> new.tokens, acc |-> Spent(n, {"text", "use"}),
                pending |-> new.pending, trace |-> new.trace]
    <2>1. CASE e.kind = "text"
        BY <1>1, <1>3, <1>4, <1>5, <1>7, <2>1 DEF Consume, ParseLine
    <2>2. CASE e.kind = "use"
        BY <1>1, <1>3, <1>4, <1>5, <1>7, <2>2 DEF Consume, ParseLine
    <2>3. CASE e.kind = "answer"
        BY <1>1, <1>3, <1>4, <1>5, <1>7, <2>3 DEF Consume, ParseLine
    <2>4. CASE e.kind = "result"
        BY <1>1, <1>3, <1>4, <1>5, <1>7, <2>4 DEF Consume, ParseLine, ResultText
    <2> QED BY <1>6, <2>1, <2>2, <2>3, <2>4
<1>9. WireInv'
    BY <1>1 DEF StreamInv, WireInv, Kinds, Claude, Uses
<1>10. PlaceInv'
    BY <1>1, <1>2 DEF StreamInv, PlaceInv, n
<1>11. StateInv'
    <2>1. Run(heard)' = new /\ Spent(heard, {"text", "use"})' = Spent(n, {"text", "use"})
        BY <1>1 DEF Run, Claude, Spent, new
    <2> QED BY <1>8, <2>1 DEF StateInv
<1>12. ResultInv'
    BY <1>1 DEF ResultInv, Returned
<1> QED BY <1>9, <1>10, <1>11, <1>12 DEF StreamInv

(* Nothing more is heard, and the result is of what was. *)
LEMMA Ends ==
    ASSUME StreamInv, UNCHANGED <<harness, wire, state>>, pc' = "ended", heard' \in 0 .. Len(wire),
           harness = "sdk" => heard' = heard,
           Returned' => \E timed_out \in BOOLEAN, exit \in {0, 1} : result' = Outcome(timed_out, exit)'
    PROVE  StreamInv'
<1>1. WireInv'
    BY DEF StreamInv, WireInv, Kinds, Claude, Uses
<1>2. PlaceInv'
    BY DEF StreamInv, PlaceInv
<1>3. StateInv'
    BY DEF StreamInv, StateInv, Run, Claude, Spent
<1>4. ResultInv'
    BY DEF ResultInv
<1> QED BY <1>1, <1>2, <1>3, <1>4 DEF StreamInv

(* What the SDK driver hands over is of what it heard. *)
LEMMA SdkEnds ==
    ASSUME StreamInv, harness = "sdk", NEW timed_out \in BOOLEAN
    PROVE  SdkResult(timed_out) = Outcome(timed_out, 0)
<1>1. state = [text |-> Run(heard).text, usage |-> Run(heard).tokens,
               acc |-> Spent(heard, {"text", "use"}), pending |-> Run(heard).pending,
               trace |-> Run(heard).trace]
    BY DEF StreamInv, StateInv
<1> QED BY <1>1 DEF SdkResult, Outcome, Tokens, SdkTokens

(* What the other two hand over is of the lines they were left. *)
LEMMA ParserEnds ==
    ASSUME StreamInv, harness # "sdk", harness' = harness, wire' = wire,
           NEW lines, lines = SubSeq(wire, 1, heard'),
           NEW timed_out \in BOOLEAN, NEW exit \in {0, 1}
    PROVE  Parsed(lines, timed_out, exit) = Outcome(timed_out, exit)'
<1>1. harness \in {"cli", "opencode"}
    BY HarnessAssumption DEF StreamInv, WireInv
<1> QED BY <1>1 DEF Parsed, Outcome, Tokens, Run, Claude

(* A killed process leaves a beginning of what it wrote. *)
LEMMA LeftLines ==
    ASSUME StreamInv, NEW lines \in Left
    PROVE  Len(lines) \in 0 .. Len(wire) /\ lines = SubSeq(wire, 1, Len(lines))
<1>1. wire \in Seq(Event) /\ Len(wire) \in Nat
    BY WireType DEF StreamInv, WireInv
<1>2. wire = SubSeq(wire, 1, Len(wire))
    BY <1>1
<1>3. CASE lines = wire
    BY <1>1, <1>2, <1>3
<1>4. CASE lines # wire
    <2>1. Len(wire) - 1 \in Nat /\ lines = SubSeq(wire, 1, Len(wire) - 1)
        BY <1>4 DEF Left
    <2> DEFINE k == Len(wire) - 1
    <2>2. k \in Nat /\ k <= Len(wire) /\ lines = SubSeq(wire, 1, k)
        BY <1>1, <2>1
    <2> HIDE DEF k
    <2>3. Len(lines) = k
        BY <1>1, <2>2
    <2> QED BY <1>1, <2>2, <2>3
<1> QED BY <1>3, <1>4

(* Every step keeps the invariant. *)
LEMMA StreamInvStep == StreamInv /\ [Next]_vars => StreamInv'
<1> SUFFICES ASSUME StreamInv, [Next]_vars PROVE StreamInv'
    OBVIOUS
<1>0. heard \in 0 .. Len(wire) /\ wire \in Seq(Event) /\ Len(wire) \in Nat
    BY WireType DEF StreamInv, PlaceInv, WireInv
<1>1. CASE Speak
    BY <1>1, SpeakStep
<1>2. CASE Hear
    BY <1>2, HearStep
<1>3. CASE Finish
    <2>1. UNCHANGED <<harness, wire, heard, state, result>> /\ pc = "running" /\ pc' = "over"
        BY <1>3 DEF Finish
    <2>2. WireInv'
        BY <2>1 DEF StreamInv, WireInv, Kinds, Claude, Uses
    <2>3. PlaceInv'
        BY <2>1 DEF StreamInv, PlaceInv
    <2>4. StateInv'
        BY <2>1 DEF StreamInv, StateInv, Run, Claude, Spent
    <2>5. ResultInv'
        BY <2>1 DEF ResultInv, Returned
    <2> QED BY <2>2, <2>3, <2>4, <2>5 DEF StreamInv
<1>4. CASE Return
    <2>1. /\ UNCHANGED <<harness, wire, heard, state>> /\ pc' = "ended" /\ heard = Len(wire)
          /\ result' = IF harness = "sdk" THEN SdkResult(FALSE) ELSE Parsed(wire, FALSE, 0)
        BY <1>4 DEF Return, End
    <2>2. CASE harness = "sdk"
        <3>1. SdkResult(FALSE) = Outcome(FALSE, 0)
            BY <2>2, SdkEnds
        <3>2. result' = Outcome(FALSE, 0)'
            BY <2>1, <2>2, <3>1 DEF Outcome, Run, Claude, Tokens, Spent
        <3> QED BY <1>0, <2>1, <2>2, <3>2, Ends
    <2>3. CASE harness # "sdk"
        <3>1. wire = SubSeq(wire, 1, heard')
            BY <1>0, <2>1
        <3>2. result' = Outcome(FALSE, 0)'
            BY <2>1, <2>3, <3>1, ParserEnds
        <3> QED BY <1>0, <2>1, <2>3, <3>2, Ends
    <2> QED BY <2>2, <2>3
<1>5. CASE CancelSdk
    <2>1. /\ UNCHANGED <<harness, wire, heard, state>> /\ pc' = "ended" /\ harness = "sdk"
          /\ result' = SdkResult(TRUE)
        BY <1>5 DEF CancelSdk, End
    <2>2. SdkResult(TRUE) = Outcome(TRUE, 0)
        BY <2>1, SdkEnds
    <2>3. result' = Outcome(TRUE, 0)'
        BY <2>1, <2>2 DEF Outcome, Run, Claude, Tokens, Spent
    <2> QED BY <1>0, <2>1, <2>3, Ends
<1>6. CASE KillGroup
    <2>1. PICK lines \in Left : End(Parsed(lines, TRUE, 0)) /\ heard' = Len(lines)
        BY <1>6 DEF KillGroup
    <2>2. UNCHANGED <<harness, wire, state>> /\ harness # "sdk" /\ pc' = "ended"
        BY <1>6, <2>1 DEF KillGroup, End
    <2>3. heard' \in 0 .. Len(wire) /\ lines = SubSeq(wire, 1, heard')
        BY <2>1, LeftLines
    <2>4. result' = Outcome(TRUE, 0)'
        BY <2>1, <2>2, <2>3, ParserEnds DEF End
    <2> QED BY <2>2, <2>3, <2>4, Ends
<1>7. CASE CutCharacter
    <2>1. /\ UNCHANGED <<harness, wire, heard, state>> /\ harness # "sdk" /\ pc' = "ended"
          /\ result' = Raised
        BY <1>7 DEF CutCharacter, End
    <2>2. ~Returned'
        BY <2>1 DEF Returned, Raised
    <2> QED BY <1>0, <2>1, <2>2, Ends
<1>8. CASE ExitAbnormally
    <2>1. CASE harness = "cli"
        <3>1. PICK lines \in Left : End(Parsed(lines, FALSE, 1)) /\ heard' = Len(lines)
            BY <1>8, <2>1 DEF ExitAbnormally
        <3>2. UNCHANGED <<harness, wire, state>> /\ harness # "sdk" /\ pc' = "ended"
            BY <1>8, <2>1, <3>1 DEF ExitAbnormally, End
        <3>3. heard' \in 0 .. Len(wire) /\ lines = SubSeq(wire, 1, heard')
            BY <3>1, LeftLines
        <3>4. result' = Outcome(FALSE, 1)'
            BY <3>1, <3>2, <3>3, ParserEnds DEF End
        <3> QED BY <3>2, <3>3, <3>4, Ends
    <2>2. CASE harness # "cli"
        <3>1. UNCHANGED <<harness, wire, heard, state>> /\ pc' = "ended" /\ result' = Raised
            BY <1>8, <2>2 DEF ExitAbnormally, End
        <3>2. ~Returned'
            BY <3>1 DEF Returned, Raised
        <3> QED BY <1>0, <3>1, <3>2, Ends
    <2> QED BY <2>1, <2>2
<1>9. CASE UNCHANGED vars
    <2>1. UNCHANGED <<harness, wire, heard, state, pc, result>>
        BY <1>9 DEF vars
    <2>2. WireInv'
        BY <2>1 DEF StreamInv, WireInv, Kinds, Claude, Uses
    <2>3. PlaceInv'
        BY <2>1 DEF StreamInv, PlaceInv
    <2>4. StateInv'
        BY <2>1 DEF StreamInv, StateInv, Run, Claude, Spent
    <2>5. ResultInv'
        BY <2>1 DEF StreamInv, ResultInv, Returned, Outcome, Run, Claude, Tokens, Spent
    <2> QED BY <2>2, <2>3, <2>4, <2>5 DEF StreamInv
<1> QED BY <1>1, <1>2, <1>3, <1>4, <1>5, <1>6, <1>7, <1>8, <1>9 DEF Next

(* So it always holds. *)
LEMMA StreamInvAlways == Spec => []StreamInv
BY StreamInvInit, StreamInvStep, PTL DEF Spec

-----------------------------------------------------------------------------
(* What the driver hands over.                                             *)

(* What was spent is a number. *)
LEMMA SpentType ==
    ASSUME NEW n \in Nat, NEW kinds
    PROVE  Spent(n, kinds) \in Nat
<1>1. CASE n = 0
    BY <1>1, SpentNone
<1>2. CASE n # 0
    BY <1>2, SpentStep
<1> QED BY <1>1, <1>2

(* What a result is made of. *)
LEMMA HandedOver ==
    ASSUME StreamInv, Returned
    PROVE  /\ heard \in Nat /\ heard <= Len(wire) /\ 1 .. heard \subseteq DOMAIN wire
           /\ result.text = Run(heard).text /\ result.trace = Run(heard).trace
           /\ result.tokens = Tokens(heard)
           /\ result.timed_out \in BOOLEAN /\ result.exit \in {0, 1}
           /\ Claude => LineFits(heard, Run(heard))
           /\ ~Claude => EventFits(heard, Run(heard))
           /\ TraceFits(heard, result.trace)
<1>1. PICK timed_out \in BOOLEAN, exit \in {0, 1} : result = Outcome(timed_out, exit)
    BY DEF StreamInv, ResultInv
<1>2. heard \in 0 .. Len(wire) /\ Len(wire) \in Nat /\ DOMAIN wire = 1 .. Len(wire)
    BY WireType DEF StreamInv, PlaceInv
<1>3. Claude => LineFits(heard, Run(heard))
    BY <1>2, LinesFit DEF StreamInv, Run
<1>4. ~Claude => EventFits(heard, Run(heard))
    BY <1>2, EventsFit DEF StreamInv, Run
<1>5. /\ result.text = Run(heard).text /\ result.trace = Run(heard).trace
      /\ result.tokens = Tokens(heard)
      /\ result.timed_out \in BOOLEAN /\ result.exit \in {0, 1}
    BY <1>1 DEF Outcome
<1>6. TraceFits(heard, result.trace)
    BY <1>3, <1>4, <1>5 DEF LineFits, EventFits
<1>7. heard \in Nat /\ heard <= Len(wire) /\ 1 .. heard \subseteq DOMAIN wire
    BY <1>2
<1> QED BY <1>3, <1>4, <1>5, <1>6, <1>7

(* What a driver hands over names only what was heard. *)
THEOREM StreamTyping == Spec => []TypeOK
<1>1. ASSUME StreamInv PROVE TypeOK
    <2>1. harness \in Harnesses /\ heard \in 0 .. Len(wire) /\ Len(wire) <= MaxEvents
          /\ pc \in {"running", "over", "ended"}
        BY <1>1 DEF StreamInv, WireInv, PlaceInv
    <2>2. ASSUME Returned PROVE result.text \in Seq(1 .. heard)
        <3>1. CASE Claude
            <4>1. LastOf(heard, result.text)
                BY <1>1, <2>2, <3>1, HandedOver DEF LineFits
            <4>2. Speech(heard) \subseteq 1 .. heard
                BY DEF Speech
            <4>3. <<>> \in Seq(1 .. heard) /\ \A m \in 1 .. heard : <<m>> \in Seq(1 .. heard)
                OBVIOUS
            <4> QED BY <4>1, <4>2, <4>3 DEF LastOf
        <3>2. CASE ~Claude
            BY <1>1, <2>2, <3>2, HandedOver DEF EventFits
        <3> QED BY <3>1, <3>2
    <2>3. ASSUME Returned PROVE result.tokens \in Nat
        <3>1. heard \in Nat
            BY <1>1, <2>3, HandedOver
        <3>2. Run(heard).tokens \in Nat
            <4>1. CASE Claude
                BY <1>1, <2>3, <4>1, HandedOver, BoundsAssumption DEF LineFits
            <4>2. CASE ~Claude
                BY <1>1, <2>3, <3>1, <4>2, HandedOver, SpentType DEF EventFits
            <4> QED BY <4>1, <4>2
        <3> QED BY <1>1, <2>3, <3>1, <3>2, HandedOver, SpentType DEF Tokens
    <2>4. ASSUME Returned
          PROVE  result.trace \in Seq(Calls) /\ result.timed_out \in BOOLEAN /\ result.exit \in {0, 1}
        BY <1>1, <2>4, HandedOver DEF TraceFits
    <2> QED BY <2>1, <2>2, <2>3, <2>4 DEF TypeOK
<1> QED BY <1>1, StreamInvAlways, PTL

(* The SDK driver's state is what the CLI driver's parser makes of the same *)
(* events (claude_sdk.py _consume, claude_cli.py parse_stream_json).        *)
THEOREM SdkIsMirrored == Spec => []MirrorsTheSdk
<1>1. ASSUME StreamInv PROVE MirrorsTheSdk
    <2> SUFFICES ASSUME harness = "sdk"
                 PROVE  LET run == ParseStreamJson(SubSeq(wire, 1, heard)) IN
                        state.text = run.text /\ state.trace = run.trace /\ state.usage = run.tokens
        BY DEF MirrorsTheSdk
    <2>1. Run(heard) = ParseStreamJson(SubSeq(wire, 1, heard))
        BY DEF Run, Claude
    <2>2. state = [text |-> Run(heard).text, usage |-> Run(heard).tokens,
                   acc |-> Spent(heard, {"text", "use"}), pending |-> Run(heard).pending,
                   trace |-> Run(heard).trace]
        BY <1>1 DEF StreamInv, StateInv
    <2> QED BY <2>1, <2>2
<1> QED BY <1>1, StreamInvAlways, PTL

(* Every answered call is in the trace, in the order of the answers and     *)
(* under the name it was made with, when the run ends in the middle too.    *)
THEOREM CallsAreTraced == Spec => []CallsAreAnswers
<1>1. ASSUME StreamInv PROVE CallsAreAnswers
    <2> SUFFICES ASSUME Returned PROVE CallsAreAnswers
        BY DEF CallsAreAnswers
    <2>1. TraceFits(heard, result.trace) /\ 1 .. heard \subseteq DOMAIN wire
        BY <1>1, HandedOver
    <2>2. ASSUME NEW n \in AnswersUpTo(heard)
          PROVE  LET e    == wire[n]
                     call == result.trace[Cardinality(AnswersUpTo(n))]
                 IN /\ call.tool = MadeWith(n)
                    /\ e.error => ~call.ok
                    /\ e.content \in Codes /\ (e.error \/ ~Claude) => call.code = e.content
        <3>1. result.trace[Cardinality(AnswersUpTo(n))] = Entry(n)
            BY <2>1, <2>2 DEF TraceFits, Rank
        <3>2. n \in DOMAIN wire /\ wire[n].kind \in {"answer", "call"} /\ wire[n].kind \in Kinds
            BY <1>1, <2>1, <2>2 DEF AnswersUpTo, StreamInv, WireInv
        <3>3. CASE Claude
            <4>1. Entry(n) = ClassifyToolResult(MadeWith(n), wire[n])
                BY <3>3 DEF Entry
            <4>2. wire[n].content \in Codes =>
                    EnvelopeCode(wire[n].content) = wire[n].content /\ wire[n].content # "none"
                BY CodeAssumption DEF EnvelopeCode
            <4>3. CASE ~wire[n].error
                <5>1. Entry(n) = [tool |-> MadeWith(n), ok |-> TRUE, code |-> "none"]
                    BY <4>1, <4>3 DEF ClassifyToolResult, ToolCall
                <5> QED BY <3>1, <3>3, <4>3, <5>1
            <4>4. CASE wire[n].error
                <5> DEFINE code == CASE EnvelopeCode(wire[n].content) # "none" -> EnvelopeCode(wire[n].content)
                                     [] wire[n].content = "missing"            -> "TOOL_NOT_FOUND"
                                     [] OTHER                                  -> "ERROR"
                <5>1. Entry(n) = [tool |-> MadeWith(n), ok |-> FALSE, code |-> code]
                    BY <4>1, <4>4 DEF ClassifyToolResult, ToolCall
                <5>2. wire[n].content \in Codes => code = wire[n].content
                    <6>1. wire[n].content \in Codes => wire[n].content # "missing"
                        BY CodeAssumption
                    <6> QED BY <4>2, <6>1
                <5> HIDE DEF code
                <5> QED BY <3>1, <5>1, <5>2
            <4> QED BY <4>3, <4>4
        <3>4. CASE ~Claude
            <4>1. Entry(n) = ClassifyOpencode(wire[n])
                BY <3>4 DEF Entry
            <4>2. MadeWith(n) = wire[n].tool
                BY <3>2, <3>4 DEF Kinds, MadeWith
            <4> DEFINE code == EnvelopeCode(wire[n].content)
                       ok   == ~wire[n].error /\ code = "none"
            <4>3. Entry(n) = [tool |-> wire[n].tool, ok |-> ok,
                              code |-> IF code # "none" \/ ok THEN code ELSE "ERROR"]
                BY <4>1 DEF ClassifyOpencode, ToolCall
            <4>4. /\ wire[n].error => ~ok
                  /\ wire[n].content \in Codes => code = wire[n].content /\ code # "none"
                BY CodeAssumption DEF EnvelopeCode
            <4> HIDE DEF code, ok
            <4> QED BY <3>1, <4>2, <4>3, <4>4
        <3> QED BY <3>3, <3>4
    <2> QED BY <2>1, <2>2 DEF CallsAreAnswers, TraceFits, Rank
<1> QED BY <1>1, StreamInvAlways, PTL

(* The blocks of a text heard are pairs of numbers, and bounded in each text. *)
LEMMA BlockType ==
    ASSUME StreamInv, NEW places \in SUBSET Speech(heard)
    PROVE  /\ \A n \in places : n \in 1 .. heard /\ Len(wire[n].says) \in Nat
           /\ \A b \in Blocks(places) : /\ b = <<b[1], b[2]>> /\ b[1] \in places
                                        /\ b[2] \in 1 .. Len(wire[b[1]].says)
           /\ \A n \in places : \A i \in DOMAIN wire[n].says : <<n, i>> \in Blocks(places)
<1>0. heard \in 0 .. Len(wire) /\ Len(wire) \in Nat /\ DOMAIN wire = 1 .. Len(wire)
    BY WireType DEF StreamInv, PlaceInv
<1>1. \A n \in places : n \in 1 .. heard /\ n \in DOMAIN wire /\ wire[n].kind \in {"text", "result"}
    <2>1. \A n \in places : n \in 1 .. heard /\ wire[n].kind \in {"text", "result"}
        BY DEF Speech
    <2> QED BY <1>0, <2>1
<1>2. ASSUME NEW n \in places
      PROVE  Len(wire[n].says) \in Nat /\ DOMAIN wire[n].says = 1 .. Len(wire[n].says)
    <2>1. wire[n].says \in Says \cup {Nothing}
        BY <1>1, WireType, EventFields DEF StreamInv
    <2>2. CASE wire[n].says \in Says
        BY <2>2, SaysAssumption
    <2>3. CASE wire[n].says = Nothing
        BY <2>3 DEF Nothing
    <2> QED BY <2>1, <2>2, <2>3
<1>3. \A b \in Blocks(places) : \E n \in places : \E i \in DOMAIN wire[n].says : b = <<n, i>>
    BY DEF Blocks
<1> QED BY <1>1, <1>2, <1>3 DEF Blocks

(* Some blocks have a last one. *)
LEMMA LastBlock ==
    ASSUME StreamInv, NEW places \in SUBSET Speech(heard), NEW found \in SUBSET Blocks(places),
           found # {}
    PROVE  \E b \in found : \A c \in found : c = b \/ Before(c, b)
<1> DEFINE firsts == {b[1] : b \in found}
<1>1. heard \in Nat /\ firsts \in SUBSET (1 .. heard) /\ firsts # {}
    BY BlockType, WireType DEF StreamInv, PlaceInv
<1>2. PICK n \in firsts : \A m \in firsts : m <= n
    BY <1>1, GreatestElement
<1> DEFINE seconds == {b[2] : b \in {c \in found : c[1] = n}}
<1>3. n \in places /\ n \in 1 .. heard
    BY <1>1, <1>2, BlockType
<1>4. /\ Len(wire[n].says) \in Nat /\ seconds \in SUBSET (1 .. Len(wire[n].says)) /\ seconds # {}
    BY <1>2, <1>3, BlockType
<1>5. PICK i \in seconds : \A j \in seconds : j <= i
    BY <1>4, GreatestElement
<1>6. <<n, i>> \in found
    BY BlockType
<1>7. ASSUME NEW c \in found PROVE c = <<n, i>> \/ Before(c, <<n, i>>)
    <2>1. c[1] \in firsts /\ c = <<c[1], c[2]>> /\ (c[1] = n => c[2] \in seconds)
        BY BlockType
    <2>2. c[1] \in Nat /\ n \in Nat /\ c[1] <= n
        BY <1>1, <1>2, <2>1
    <2>3. c[1] = n => c[2] \in Nat /\ i \in Nat /\ c[2] <= i
        <3> HIDE DEF seconds
        <3> QED BY <1>4, <1>5, <2>1
    <2> HIDE DEF firsts, seconds
    <2> QED BY <2>1, <2>2, <2>3 DEF Before
<1> QED BY <1>6, <1>7

(* Of two blocks only one comes before the other. *)
LEMMA BeforeIsStrict ==
    ASSUME StreamInv, NEW places \in SUBSET Speech(heard),
           NEW a \in Blocks(places), NEW b \in Blocks(places), a = b \/ Before(a, b)
    PROVE  ~Before(b, a)
<1>1. /\ a[1] \in Nat /\ b[1] \in Nat /\ a[2] \in Nat /\ b[2] \in Nat
    BY BlockType, WireType DEF StreamInv, PlaceInv
<1> QED BY <1>1 DEF Before

(* What is extracted is the last of the blocks that parse. *)
LEMMA Extracted ==
    ASSUME StreamInv, NEW text, Range(text) \subseteq Speech(heard)
    PROVE  LET found == Parseable(Blocks(Range(text)))
               b     == ExtractReport(text)
           IN /\ (found = {} <=> b = NoReport)
              /\ found # {} => b \in found /\ \A c \in found : c = b \/ Before(c, b)
<1> DEFINE found == Parseable(Blocks(Range(text)))
           b     == ExtractReport(text)
<1>1. found \in SUBSET Blocks(Range(text))
    BY DEF Parseable
<1>2. CASE found = {}
    BY <1>2 DEF ExtractReport
<1>3. CASE found # {}
    <2>1. \E d \in found : \A c \in found : c = d \/ Before(c, d)
        <3> HIDE DEF found
        <3> QED BY <1>1, <1>3, LastBlock
    <2>2. b = CHOOSE d \in found : \A c \in found : c = d \/ Before(c, d)
        BY <1>3 DEF ExtractReport
    <2> HIDE DEF found, b
    <2>3. b \in found /\ \A c \in found : c = b \/ Before(c, b)
        BY <2>1, <2>2
    <2>4. b # NoReport
        <3>1. b[1] \in 1 .. heard
            BY <1>1, <2>3, BlockType
        <3> QED BY <3>1 DEF NoReport
    <2> QED BY <1>3, <2>3, <2>4 DEF found, b
<1> QED BY <1>2, <1>3

(* The text a driver keeps: the last said on the anchors, all of it joined   *)
(* on opencode.                                                            *)
LEMMA TextKept ==
    ASSUME StreamInv, Returned
    PROVE  /\ Range(result.text) \subseteq Speech(heard)
           /\ \A m \in Range(result.text), n \in Speech(heard) : m <= n => n \in Range(result.text)
           /\ \A n \in Speech(heard) :
                (\A m \in Speech(heard) : m <= n) => n \in Range(result.text)
<1>1. heard \in Nat /\ 1 .. heard \subseteq DOMAIN wire /\ Speech(heard) \subseteq 1 .. heard
    BY HandedOver DEF Speech
<1>2. CASE Claude
    <2>1. LastOf(heard, result.text)
        BY <1>2, HandedOver DEF LineFits
    <2>2. CASE result.text = <<>> /\ Speech(heard) = {}
        BY <2>2 DEF Range
    <2>3. CASE \E k \in Speech(heard) : result.text = <<k>> /\ \A m \in Speech(heard) : m <= k
        <3>1. PICK k \in Speech(heard) : result.text = <<k>> /\ \A m \in Speech(heard) : m <= k
            BY <2>3
        <3>2. Range(result.text) = {k}
            BY <3>1 DEF Range
        <3>3. \A n \in Speech(heard) : k <= n => n = k
            BY <1>1, <3>1
        <3> QED BY <3>1, <3>2, <3>3
    <2> QED BY <2>1, <2>2, <2>3 DEF LastOf
<1>3. CASE ~Claude
    <2>1. /\ result.text \in Seq(1 .. heard)
          /\ \A m \in 1 .. heard :
               wire[m].kind = "text" <=> \E i \in DOMAIN result.text : result.text[i] = m
        BY <1>3, HandedOver DEF EventFits
    <2>2. \A i \in DOMAIN result.text : result.text[i] \in 1 .. heard
        <3> DEFINE text == result.text
                   S == 1 .. heard
        <3>1. text \in Seq(S)
            BY <2>1
        <3> HIDE DEF text, S
        <3>2. \A i \in DOMAIN text : text[i] \in S
            BY <3>1
        <3> QED BY <3>2 DEF text, S
    <2>3. \A m \in 1 .. heard : wire[m].kind # "result"
        BY <1>1, <1>3 DEF StreamInv, WireInv, Kinds
    <2>4. Range(result.text) = Speech(heard)
        BY <2>1, <2>2, <2>3 DEF Range, Speech
    <2> QED BY <2>4
<1> QED BY <1>2, <1>3

(* The report that selects the run is the last one heard that the scan can  *)
(* find, and a final one is never passed over (scoring.py extract_report).  *)
THEOREM LastReportCounts == Spec => []NeverASupersededReport
<1>1. ASSUME StreamInv PROVE NeverASupersededReport
    <2> DEFINE kept  == Blocks(Range(result.text))
               heeds == ExtractReport(result.text)
               given == Blocks(Speech(heard))
               found == Parseable(kept)
               Accepted(b) == Holds(b) = "good" /\ ~Swallowed(b, kept)
               Final(b) == /\ \A m \in Speech(heard) : m <= b[1]
                           /\ \A c \in given : c = b \/ Before(c, b)
    <2> SUFFICES ASSUME Returned, NEW b \in given, Accepted(b)
                 PROVE  /\ heeds # NoReport => ~Before(heeds, b)
                        /\ Final(b) => heeds = b
        BY DEF NeverASupersededReport
    <2>1. /\ Range(result.text) \subseteq Speech(heard)
          /\ \A m \in Range(result.text), n \in Speech(heard) : m <= n => n \in Range(result.text)
          /\ \A n \in Speech(heard) :
               (\A m \in Speech(heard) : m <= n) => n \in Range(result.text)
        BY <1>1, TextKept
    <2>2. /\ b = <<b[1], b[2]>> /\ b[1] \in Speech(heard) /\ b[1] \in Nat
          /\ b[2] \in DOMAIN wire[b[1]].says
        <3>1. \E n \in Speech(heard) : \E i \in DOMAIN wire[n].says : b = <<n, i>>
            BY DEF Blocks
        <3> QED BY <3>1 DEF Speech
    <2>3. kept \subseteq given
        BY <2>1 DEF Blocks
    <2>4. b[1] \in Range(result.text) => b \in found
        BY <2>2 DEF Blocks, Parseable
    <2>5. /\ found \subseteq kept /\ (found = {} <=> heeds = NoReport)
          /\ found # {} => heeds \in found /\ \A c \in found : c = heeds \/ Before(c, heeds)
        BY <1>1, <2>1, Extracted DEF Parseable
    <2>6. \A c, d \in given : c = d \/ Before(c, d) => ~Before(d, c)
        BY <1>1, BeforeIsStrict
    <2>7. \A c \in kept : c[1] \in Range(result.text) /\ c[1] \in Nat
        <3>1. \A c \in kept : \E n \in Range(result.text) : \E i \in DOMAIN wire[n].says : c = <<n, i>>
            BY DEF Blocks
        <3> QED BY <2>1, <3>1 DEF Speech
    <2> HIDE DEF kept, heeds, given, found
    <2>8. ASSUME heeds # NoReport, Before(heeds, b) PROVE FALSE
        <3>1. heeds \in found /\ heeds \in kept
            BY <2>5, <2>8
        <3>2. heeds[1] <= b[1]
            BY <2>2, <2>7, <2>8, <3>1 DEF Before
        <3>3. b \in found
            BY <2>1, <2>2, <2>4, <2>7, <3>1, <3>2
        <3> QED BY <2>3, <2>5, <2>6, <2>8, <3>1, <3>3
    <2>9. ASSUME Final(b) PROVE heeds = b
        <3>1. b \in found
            BY <2>1, <2>2, <2>4, <2>9
        <3>2. heeds \in given /\ (b = heeds \/ Before(b, heeds))
            BY <2>3, <2>5, <3>1
        <3>3. heeds = b \/ Before(heeds, b)
            BY <2>9, <3>2
        <3> QED BY <2>6, <3>2, <3>3
    <2> QED BY <2>8, <2>9
<1> QED BY <1>1, StreamInvAlways, PTL

(* Tokens are counted once, and are somebody's.                            *)
THEOREM TokensAreCounted == Spec => []TokensAreReported
<1>1. ASSUME StreamInv PROVE TokensAreReported
    <2> SUFFICES ASSUME Returned
                 PROVE  result.tokens = IF CanonicalHeard THEN Total
                                        ELSE CASE harness = "sdk"      -> UsageOf({"text", "use"})
                                               [] harness = "cli"      -> 0
                                               [] harness = "opencode" -> UsageOf({"step"})
        BY DEF TokensAreReported
    <2>1. /\ harness \in {"sdk", "cli", "opencode"} /\ Total # 0
          /\ CanonicalHeard <=> CanonicalBy(heard)
          /\ \A kinds : UsageOf(kinds) = Spent(heard, kinds)
        BY <1>1, HarnessAssumption, BoundsAssumption
        DEF StreamInv, WireInv, CanonicalHeard, CanonicalBy, UsageOf, Spent
    <2>2. result.tokens = Tokens(heard) /\ 1 .. heard \subseteq DOMAIN wire
        BY <1>1, HandedOver
    <2>3. CASE Claude
        <3>1. Run(heard).tokens = IF CanonicalBy(heard) THEN Total ELSE 0
            BY <1>1, <2>3, HandedOver DEF LineFits
        <3>2. CASE harness = "sdk"
            BY <2>1, <2>2, <3>1, <3>2 DEF Tokens
        <3>3. CASE harness = "cli"
            BY <2>1, <2>2, <3>1, <3>3 DEF Tokens
        <3> QED BY <2>3, <3>2, <3>3 DEF Claude
    <2>4. CASE ~Claude
        <3>1. harness = "opencode"
            BY <2>1, <2>4 DEF Claude
        <3>2. ~CanonicalBy(heard)
            BY <1>1, <2>2, <2>4 DEF StreamInv, WireInv, Kinds, CanonicalBy
        <3>3. result.tokens = Spent(heard, {"step"})
            BY <1>1, <2>2, <2>4, <3>1, HandedOver DEF EventFits, Tokens
        <3> QED BY <2>1, <3>1, <3>2, <3>3
    <2> QED BY <2>3, <2>4
<1> QED BY <1>1, StreamInvAlways, PTL

-----------------------------------------------------------------------------
(* The workflow metrics.                                                   *)

(* A trace as the drivers hand it over. *)
IsTrace(calls) ==
    calls \in Seq(Calls) /\ \A i \in DOMAIN calls : calls[i].ok <=> calls[i].code = "none"

Failures(calls) == {i \in DOMAIN calls : ~calls[i].ok}

(* The calls of a trace, in the form the proofs use. *)
LEMMA TraceDomain ==
    ASSUME NEW calls, IsTrace(calls)
    PROVE  /\ Len(calls) \in Nat /\ DOMAIN calls = 1 .. Len(calls)
           /\ IsFiniteSet(DOMAIN calls) /\ Cardinality(DOMAIN calls) = Len(calls)
           /\ \A i \in DOMAIN calls :
                calls[i].tool \in Tools \cup {"<unknown>"} /\ calls[i].ok \in BOOLEAN
<1>1. calls \in Seq(Calls)
    BY DEF IsTrace
<1>2. Len(calls) \in Nat /\ DOMAIN calls = 1 .. Len(calls) /\ \A i \in DOMAIN calls : calls[i] \in Calls
    BY <1>1
<1>3. IsFiniteSet(1 .. Len(calls)) /\ Cardinality(1 .. Len(calls)) = Len(calls)
    BY <1>2, FS_Interval
<1> QED BY <1>2, <1>3 DEF Calls

(* The size of a set in two parts. *)
LEMMA SplitsInTwo ==
    ASSUME NEW S, NEW A, NEW B, IsFiniteSet(S), S = A \cup B, A \cap B = {}
    PROVE  /\ IsFiniteSet(A) /\ IsFiniteSet(B)
           /\ Cardinality(S) \in Nat /\ Cardinality(A) \in Nat /\ Cardinality(B) \in Nat
           /\ Cardinality(S) = Cardinality(A) + Cardinality(B)
<1>1. IsFiniteSet(A) /\ IsFiniteSet(B)
    BY FS_Subset
<1>2. Cardinality(S) \in Nat /\ Cardinality(A) \in Nat /\ Cardinality(B) \in Nat
    BY <1>1, FS_CardinalityType
<1>3. Cardinality(A \cap B) = 0
    BY FS_EmptySet
<1>4. Cardinality(A \cup B) = Cardinality(A) + Cardinality(B) - Cardinality(A \cap B)
    BY <1>1, FS_Union
<1> QED BY <1>1, <1>2, <1>3, <1>4

(* The failed calls that are neither schema errors nor hallucinated. *)
Others(calls) == {i \in DOMAIN calls : calls[i].code \notin {"none", "USER_INPUT_ERROR", "TOOL_NOT_FOUND"}}

(* The failed calls by what they failed of. *)
LEMMA FailuresByCode ==
    ASSUME NEW calls, IsTrace(calls)
    PROVE  LET m == ParseToolTrace(calls)
               errors == Cardinality(Others(calls))
           IN /\ m.total = m.valid + m.failed
              /\ m.failed = m.schema + m.hallucinated + errors
              /\ IsFiniteSet(Others(calls))
              /\ m.failed \in Nat /\ m.schema \in Nat /\ m.hallucinated \in Nat /\ errors \in Nat
<1> DEFINE ok     == {i \in DOMAIN calls : calls[i].ok}
           failed == Failures(calls)
           schema == Coded(calls, "USER_INPUT_ERROR")
           absent == Coded(calls, "TOOL_NOT_FOUND")
           other  == Others(calls)
           m      == ParseToolTrace(calls)
<1>1. /\ m.total = Len(calls) /\ m.valid = Cardinality(ok) /\ m.failed = Cardinality(failed)
      /\ m.schema = Cardinality(schema) /\ m.hallucinated = Cardinality(absent)
    BY DEF ParseToolTrace, Failures
<1>2. DOMAIN calls = ok \cup failed /\ ok \cap failed = {}
    BY DEF Failures
<1>3. failed = schema \cup (absent \cup other) /\ schema \cap (absent \cup other) = {}
      /\ absent \cap other = {}
    <2>1. \A i \in DOMAIN calls : calls[i].ok <=> calls[i].code = "none"
        BY DEF IsTrace
    <2> QED BY <2>1 DEF Failures, Coded, Others
<1>4. IsFiniteSet(DOMAIN calls) /\ Cardinality(DOMAIN calls) = Len(calls)
    BY TraceDomain
<1> HIDE DEF ok, failed, schema, absent, other, m
<1>5. /\ Len(calls) = Cardinality(ok) + Cardinality(failed)
      /\ IsFiniteSet(failed) /\ Cardinality(failed) \in Nat
    <2> DEFINE all == DOMAIN calls
    <2>1. all = ok \cup failed /\ ok \cap failed = {} /\ IsFiniteSet(all) /\ Cardinality(all) = Len(calls)
        BY <1>2, <1>4
    <2> HIDE DEF all
    <2> QED BY <2>1, SplitsInTwo
<1> DEFINE rest == absent \cup other
<1>6. /\ Cardinality(failed) = Cardinality(schema) + Cardinality(rest)
      /\ IsFiniteSet(rest) /\ Cardinality(schema) \in Nat
    <2>1. failed = schema \cup rest /\ schema \cap rest = {}
        BY <1>3
    <2> HIDE DEF rest
    <2> QED BY <1>5, <2>1, SplitsInTwo
<1>7. /\ Cardinality(rest) = Cardinality(absent) + Cardinality(other)
      /\ IsFiniteSet(other) /\ Cardinality(absent) \in Nat /\ Cardinality(other) \in Nat
    <2>1. rest = absent \cup other /\ absent \cap other = {}
        BY <1>3
    <2> HIDE DEF rest
    <2> QED BY <1>6, <2>1, SplitsInTwo
<1> HIDE DEF rest
<1>8. /\ m.total = m.valid + m.failed
      /\ m.failed = m.schema + m.hallucinated + Cardinality(other)
    BY <1>1, <1>5, <1>6, <1>7
<1> QED BY <1>1, <1>5, <1>6, <1>7, <1>8 DEF m, other

(* A failure is recovered from if it is before the last success of its tool. *)
LEMMA RecoveredIsBeforeLast ==
    ASSUME NEW calls, IsTrace(calls), NEW i \in Failures(calls)
    PROVE  Recovered(calls, i) <=> i < LastSuccess(calls, calls[i].tool)
<1> DEFINE ok == {k \in DOMAIN calls : calls[k].ok /\ calls[k].tool = calls[i].tool}
           last == LastSuccess(calls, calls[i].tool)
<1>1. Len(calls) \in Nat /\ DOMAIN calls = 1 .. Len(calls)
    BY TraceDomain
<1>2. i \in 1 .. Len(calls) /\ ~calls[i].ok
    BY <1>1 DEF Failures
<1>3. Recovered(calls, i) <=> \E k \in ok : i < k
    BY <1>1, <1>2 DEF Recovered
<1>4. CASE ok = {}
    <2>1. last = 0
        BY <1>4 DEF LastSuccess
    <2> QED BY <1>2, <1>3, <1>4, <2>1
<1>5. CASE ok # {}
    <2>1. ok \in SUBSET (1 .. Len(calls))
        BY <1>1
    <2>2. last = CHOOSE k \in ok : \A j \in ok : j <= k
        BY <1>5 DEF LastSuccess
    <2> HIDE DEF ok, last
    <2>3. \E k \in ok : \A j \in ok : j <= k
        BY <1>1, <1>5, <2>1, GreatestElement
    <2>4. last \in ok /\ \A j \in ok : j <= last
        BY <2>2, <2>3
    <2>5. (\E k \in ok : i < k) <=> i < last
        BY <1>2, <2>1, <2>4
    <2> QED BY <1>3, <2>5 DEF last
<1> QED BY <1>4, <1>5

(* validated_before_execute looks at the first call that matters. *)
LEMMA ValidationFits ==
    ASSUME NEW calls, IsTrace(calls)
    PROVE  LET workflow == {i \in DOMAIN calls : calls[i].tool \in ValidateTools \cup ExecuteTools}
               first    == CHOOSE i \in workflow : \A k \in workflow : i <= k
               ran      == \E i \in workflow : calls[i].tool \in ExecuteTools
           IN ValidatedBeforeExecute(calls) =
                IF ~ran THEN "undefined"
                ELSE IF calls[first].tool \in ValidateTools THEN "yes" ELSE "no"
<1> DEFINE workflow == {i \in DOMAIN calls : calls[i].tool \in ValidateTools \cup ExecuteTools}
           first    == CHOOSE i \in workflow : \A k \in workflow : i <= k
           ran      == \E i \in workflow : calls[i].tool \in ExecuteTools
           runs     == {i \in DOMAIN calls : calls[i].tool \in ExecuteTools}
           start    == CHOOSE i \in runs : \A k \in runs : i <= k
<1>1. DOMAIN calls = 1 .. Len(calls) /\ Len(calls) \in Nat
    BY TraceDomain
<1>2. ran <=> runs # {}
    OBVIOUS
<1>3. ValidatedBeforeExecute(calls) =
        IF runs = {} THEN "undefined"
        ELSE IF \E i \in 1 .. start - 1 : calls[i].tool \in ValidateTools THEN "yes" ELSE "no"
    BY DEF ValidatedBeforeExecute
<1>4. ASSUME runs # {}
      PROVE  (\E i \in 1 .. start - 1 : calls[i].tool \in ValidateTools)
                <=> calls[first].tool \in ValidateTools
    <2>1. runs \subseteq workflow /\ workflow \in SUBSET Nat /\ runs \in SUBSET Nat
        BY <1>1
    <2>2. \A i \in workflow : i \in 1 .. Len(calls) /\ calls[i].tool \in ValidateTools \cup ExecuteTools
        BY <1>1
    <2>3. \A i \in 1 .. Len(calls) :
             /\ calls[i].tool \in ExecuteTools <=> i \in runs
             /\ calls[i].tool \in ValidateTools => i \in workflow /\ i \notin runs
        BY <1>1, ToolAssumption
    <2> HIDE DEF runs, workflow
    <2>4. first \in workflow /\ \A k \in workflow : first <= k
        <3>1. \E i \in workflow : \A k \in workflow : i <= k
            BY <1>4, <2>1, LeastElement
        <3> HIDE DEF first
        <3> QED BY <3>1 DEF first
    <2>5. start \in runs /\ \A k \in runs : start <= k
        <3>1. \E i \in runs : \A k \in runs : i <= k
            BY <1>4, <2>1, LeastElement
        <3> HIDE DEF start
        <3> QED BY <3>1 DEF start
    <2> HIDE DEF first, start
    <2>6. first \in 1 .. Len(calls) /\ start \in 1 .. Len(calls) /\ first <= start
        BY <2>1, <2>2, <2>4, <2>5
    <2>7. ASSUME calls[first].tool \in ValidateTools
          PROVE  \E i \in 1 .. start - 1 : calls[i].tool \in ValidateTools
        BY <2>3, <2>5, <2>6, <2>7, <1>1
    <2>8. ASSUME NEW i \in 1 .. start - 1, calls[i].tool \in ValidateTools
          PROVE  calls[first].tool \in ValidateTools
        <3>1. i \in 1 .. Len(calls) /\ i < start
            BY <1>1, <2>6
        <3>2. first <= i
            BY <2>3, <2>4, <2>8, <3>1
        <3>3. first \notin runs
            BY <2>5, <2>6, <3>1, <3>2
        <3> QED BY <2>2, <2>3, <2>4, <2>6, <3>3
    <2> QED BY <2>7, <2>8
<1> HIDE DEF ran, runs, start, first
<1>5. ValidatedBeforeExecute(calls) =
        IF ~ran THEN "undefined"
        ELSE IF calls[first].tool \in ValidateTools THEN "yes" ELSE "no"
    BY <1>2, <1>3, <1>4
<1> HIDE DEF workflow
<1> QED BY <1>5 DEF ran, first, workflow

(* The counts of parse_tool_trace mean what they are named for. *)
LEMMA TraceFitsMetrics ==
    ASSUME NEW calls, IsTrace(calls)
    PROVE  TraceMetricsFit(calls)
<1> DEFINE m == ParseToolTrace(calls)
           failures == {i \in DOMAIN calls : ~calls[i].ok}
<1>1. m.total = m.valid + m.failed /\ m.schema + m.hallucinated <= m.failed
    BY FailuresByCode
<1>2. m.recovered = Cardinality({i \in failures : i < LastSuccess(calls, calls[i].tool)})
    <2>1. \A i \in DOMAIN calls : Recovered(calls, i) => i \in failures
        BY DEF Recovered
    <2>2. {i \in DOMAIN calls : Recovered(calls, i)}
            = {i \in failures : i < LastSuccess(calls, calls[i].tool)}
        BY <2>1, RecoveredIsBeforeLast DEF Failures
    <2> QED BY <2>2 DEF ParseToolTrace
<1>3. m.validated = ValidatedBeforeExecute(calls)
    BY DEF ParseToolTrace
<1> HIDE DEF m
<1> QED BY <1>1, <1>2, <1>3, ValidationFits DEF TraceMetricsFit, m

-----------------------------------------------------------------------------
(* The provenance trail.                                                   *)

(* Activities, each at its place in the stream. *)
IsLog(acts) == DOMAIN acts \subseteq DOMAIN wire

(* The recursive function of read_provenance satisfies its equation. *)
LEMMA RecoveriesExist ==
    ASSUME NEW acts, Len(wire) \in Nat
    PROVE  Recoveries(acts) = [n \in 0 .. Len(wire) |->
               IF n = 0 THEN NothingSeen
               ELSE IF n \in DOMAIN acts THEN Recover(Recoveries(acts)[n - 1], acts[n])
               ELSE Recoveries(acts)[n - 1]]
<1> DEFINE Next1(x, n) == IF n \in DOMAIN acts THEN Recover(x, acts[n]) ELSE x
           Runs(f, k) == f = [n \in 0 .. k |->
               IF n = 0 THEN NothingSeen
               ELSE IF n \in DOMAIN acts THEN Recover(f[n - 1], acts[n]) ELSE f[n - 1]]
           T == {k \in Nat : \E f : Runs(f, k)}
<1>1. 0 \in T
    <2> DEFINE f == [n \in 0 .. 0 |-> NothingSeen]
    <2>1. Runs(f, 0)
        OBVIOUS
    <2> QED BY <2>1
<1>2. \A k \in T : k + 1 \in T
    <2> SUFFICES ASSUME NEW k \in Nat, NEW f, Runs(f, k) PROVE \E g : Runs(g, k + 1)
        OBVIOUS
    <2> DEFINE g == [n \in 0 .. k + 1 |-> IF n <= k THEN f[n] ELSE Next1(f[k], k + 1)]
               Held(h, n) == h[n] = IF n = 0 THEN NothingSeen
                                    ELSE IF n \in DOMAIN acts THEN Recover(h[n - 1], acts[n]) ELSE h[n - 1]
    <2>1. \A n \in 0 .. k : Held(f, n)
        OBVIOUS
    <2>2. \A n \in 0 .. k + 1 : Held(g, n)
        <3> SUFFICES ASSUME NEW n \in 0 .. k + 1 PROVE Held(g, n)
            OBVIOUS
        <3>1. CASE n = k + 1
            BY <3>1
        <3>2. CASE n # k + 1
            BY <3>2, <2>1
        <3> QED BY <3>1, <3>2
    <2>3. g = [n \in 0 .. k + 1 |-> g[n]]
        OBVIOUS
    <2> HIDE DEF g
    <2>4. Runs(g, k + 1)
        BY <2>2, <2>3, Zenon
    <2> QED BY <2>4
<1> HIDE DEF T
<1>3. Len(wire) \in T
    <2>1. T \in SUBSET Nat
        BY DEF T
    <2> QED BY <1>1, <1>2, <2>1, Induction
<1>4. PICK f : Runs(f, Len(wire))
    BY <1>3 DEF T
<1>5. Recoveries(acts) = CHOOSE g : Runs(g, Len(wire))
    BY DEF Recoveries
<1> QED BY <1>4, <1>5

(* A success that ends a run of failures of its type. *)
EndsFailures(acts, i) ==
    /\ acts[i].status = "completed"
    /\ \E k \in DOMAIN acts :
         /\ k < i /\ acts[k].type = acts[i].type /\ acts[k].status = "failed"
         /\ \A l \in DOMAIN acts :
               k < l /\ l < i /\ acts[l].type = acts[i].type => acts[l].status # "completed"

(* The types that failed and have not completed since, by the n-th place. *)
Owes(acts, n, type) ==
    \E k \in DOMAIN acts :
        /\ k <= n /\ acts[k].type = type /\ acts[k].status = "failed"
        /\ \A l \in DOMAIN acts :
             k < l /\ l <= n /\ acts[l].type = type => acts[l].status # "completed"

EndedBy(acts, n) == {i \in DOMAIN acts : i <= n /\ EndsFailures(acts, i)}

SeenFits(acts, n, acc) ==
    /\ acc = [recovered |-> acc.recovered, seen |-> acc.seen]
    /\ acc.recovered = Cardinality(EndedBy(acts, n))
    /\ \A type : type \in acc.seen <=> Owes(acts, n, type)

(* The activities that end failures, up to the next place. *)
LEMMA EndedStep ==
    ASSUME WireInv, NEW acts, IsLog(acts), NEW n \in DOMAIN wire
    PROVE  /\ Cardinality(EndedBy(acts, n - 1)) \in Nat
           /\ Cardinality(EndedBy(acts, n)) =
                IF n \in DOMAIN acts /\ EndsFailures(acts, n)
                THEN Cardinality(EndedBy(acts, n - 1)) + 1 ELSE Cardinality(EndedBy(acts, n - 1))
<1> DEFINE S == EndedBy(acts, n)
           R == EndedBy(acts, n - 1)
<1>1. n \in Nat \ {0} /\ DOMAIN wire = 1 .. Len(wire) /\ Len(wire) \in Nat
    BY WireType
<1>2. S \in SUBSET (1 .. n) /\ R \in SUBSET (1 .. n - 1) /\ S \cap (1 .. n - 1) = R
    BY <1>1 DEF EndedBy, IsLog
<1>3. n \in S <=> n \in DOMAIN acts /\ EndsFailures(acts, n)
    BY <1>1 DEF EndedBy
<1> HIDE DEF S, R
<1>4. Cardinality(R) \in Nat /\ Cardinality(S) = IF n \in S THEN Cardinality(R) + 1 ELSE Cardinality(R)
    BY <1>1, <1>2, CountStep
<1> QED BY <1>3, <1>4 DEF S, R

(* A type owes a success from its failure to its success. *)
LEMMA OwesStep ==
    ASSUME WireInv, NEW acts, IsLog(acts), NEW n \in DOMAIN wire, NEW type
    PROVE  Owes(acts, n, type) <=>
             \/ n \in DOMAIN acts /\ acts[n].type = type /\ acts[n].status = "failed"
             \/ /\ Owes(acts, n - 1, type)
                /\ ~(n \in DOMAIN acts /\ acts[n].type = type /\ acts[n].status = "completed")
<1>1. /\ n \in Nat /\ DOMAIN acts \subseteq Nat
      /\ \A k \in DOMAIN acts : k <= n <=> k <= n - 1 \/ k = n
    BY WireType DEF IsLog
<1>2. ASSUME Owes(acts, n, type),
             ~(n \in DOMAIN acts /\ acts[n].type = type /\ acts[n].status = "failed")
      PROVE  /\ Owes(acts, n - 1, type)
             /\ ~(n \in DOMAIN acts /\ acts[n].type = type /\ acts[n].status = "completed")
    <2>1. PICK k \in DOMAIN acts :
             /\ k <= n /\ acts[k].type = type /\ acts[k].status = "failed"
             /\ \A l \in DOMAIN acts :
                  k < l /\ l <= n /\ acts[l].type = type => acts[l].status # "completed"
        BY <1>2 DEF Owes
    <2>2. k <= n - 1 /\ k < n
        BY <1>1, <1>2, <2>1
    <2> QED BY <1>1, <2>1, <2>2 DEF Owes
<1>3. ASSUME n \in DOMAIN acts, acts[n].type = type, acts[n].status = "failed"
      PROVE  Owes(acts, n, type)
    <2>1. \A l \in DOMAIN acts : ~(n < l /\ l <= n)
        BY <1>1
    <2>2. n <= n
        BY <1>1
    <2> QED BY <1>3, <2>1, <2>2 DEF Owes
<1>4. ASSUME Owes(acts, n - 1, type),
             ~(n \in DOMAIN acts /\ acts[n].type = type /\ acts[n].status = "completed")
      PROVE  Owes(acts, n, type)
    <2>1. PICK k \in DOMAIN acts :
             /\ k <= n - 1 /\ acts[k].type = type /\ acts[k].status = "failed"
             /\ \A l \in DOMAIN acts :
                  k < l /\ l <= n - 1 /\ acts[l].type = type => acts[l].status # "completed"
        BY <1>4 DEF Owes
    <2>2. \A l \in DOMAIN acts :
             k < l /\ l <= n /\ acts[l].type = type => acts[l].status # "completed"
        BY <1>1, <1>4, <2>1
    <2> QED BY <1>1, <2>1, <2>2 DEF Owes
<1> QED BY <1>2, <1>3, <1>4

(* A success ends failures exactly if its type owed one. *)
LEMMA EndsIfOwed ==
    ASSUME WireInv, NEW acts, IsLog(acts), NEW n \in DOMAIN acts
    PROVE  EndsFailures(acts, n) <=> acts[n].status = "completed" /\ Owes(acts, n - 1, acts[n].type)
<1>1. n \in Nat /\ DOMAIN acts \subseteq Nat /\ \A k \in DOMAIN acts : k < n <=> k <= n - 1
    BY WireType DEF IsLog
<1> QED BY <1>1 DEF EndsFailures, Owes

(* One row more keeps the count and the types that owe. *)
LEMMA RecoverStep ==
    ASSUME WireInv, NEW acts, IsLog(acts), NEW n \in DOMAIN wire, NEW acc, SeenFits(acts, n - 1, acc)
    PROVE  SeenFits(acts, n, IF n \in DOMAIN acts THEN Recover(acc, acts[n]) ELSE acc)
<1> DEFINE count == Cardinality(EndedBy(acts, n - 1))
           Made(recovered, seen) == [recovered |-> recovered, seen |-> seen]
<1>1. /\ acc = Made(acc.recovered, acc.seen)
      /\ acc.recovered = count /\ count \in Nat
      /\ \A type : type \in acc.seen <=> Owes(acts, n - 1, type)
    BY EndedStep DEF SeenFits
<1>2. CASE n \notin DOMAIN acts
    <2>1. Cardinality(EndedBy(acts, n)) = count
        BY <1>2, EndedStep
    <2>2. \A type : Owes(acts, n, type) <=> Owes(acts, n - 1, type)
        BY <1>2, OwesStep
    <2> QED BY <1>1, <1>2, <2>1, <2>2 DEF SeenFits
<1>3. CASE n \in DOMAIN acts
    <2> DEFINE a == acts[n]
               new == Recover(acc, a)
    <2>1. Cardinality(EndedBy(acts, n)) =
            IF a.status = "completed" /\ a.type \in acc.seen THEN count + 1 ELSE count
        BY <1>1, <1>3, EndedStep, EndsIfOwed
    <2>2. \A type : Owes(acts, n, type) <=>
             \/ a.type = type /\ a.status = "failed"
             \/ type \in acc.seen /\ ~(a.type = type /\ a.status = "completed")
        BY <1>1, <1>3, OwesStep
    <2> HIDE DEF a, count
    <2>3. CASE a.status = "failed"
        <3>1. new = Made(acc.recovered, acc.seen \cup {a.type})
            BY <1>1, <2>3 DEF Recover
        <3> QED BY <1>1, <1>3, <2>1, <2>2, <2>3, <3>1 DEF SeenFits, a
    <2>4. CASE a.status # "failed" /\ a.status = "completed" /\ a.type \in acc.seen
        <3>1. new = Made(acc.recovered + 1, acc.seen \ {a.type})
            BY <1>1, <2>4 DEF Recover
        <3> QED BY <1>1, <1>3, <2>1, <2>2, <2>4, <3>1 DEF SeenFits, a
    <2>5. CASE a.status # "failed" /\ ~(a.status = "completed" /\ a.type \in acc.seen)
        <3>1. new = acc
            BY <1>1, <2>5 DEF Recover
        <3>2. \A type : Owes(acts, n, type) <=> type \in acc.seen
            BY <2>2, <2>5
        <3> QED BY <1>1, <1>3, <2>1, <2>5, <3>1, <3>2 DEF SeenFits, a
    <2> QED BY <2>3, <2>4, <2>5
<1> QED BY <1>2, <1>3

(* recovered_activities counts the activities that end failures. *)
LEMMA RecoveriesFit ==
    ASSUME WireInv, NEW acts, IsLog(acts)
    PROVE  Recoveries(acts)[Len(wire)].recovered = Cardinality({i \in DOMAIN acts : EndsFailures(acts, i)})
<1> DEFINE acc == Recoveries(acts)
           T == {n \in Nat : n <= Len(wire) => SeenFits(acts, n, acc[n])}
<1>1. Len(wire) \in Nat /\ DOMAIN wire = 1 .. Len(wire) /\ DOMAIN acts \subseteq 1 .. Len(wire)
    BY WireType DEF IsLog
<1>2. acc = [n \in 0 .. Len(wire) |->
               IF n = 0 THEN NothingSeen
               ELSE IF n \in DOMAIN acts THEN Recover(acc[n - 1], acts[n]) ELSE acc[n - 1]]
    BY <1>1, RecoveriesExist
<1> HIDE DEF acc
<1>3. 0 \in T
    <2>1. acc[0] = NothingSeen
        BY <1>1, <1>2
    <2>2. EndedBy(acts, 0) = {} /\ \A type : ~Owes(acts, 0, type)
        BY <1>1 DEF EndedBy, Owes
    <2>3. SeenFits(acts, 0, NothingSeen)
        BY <2>2, FS_EmptySet DEF SeenFits, NothingSeen
    <2> QED BY <2>1, <2>3
<1>4. \A n \in T : n + 1 \in T
    <2> SUFFICES ASSUME NEW n \in Nat, SeenFits(acts, n, acc[n]), n + 1 <= Len(wire)
                 PROVE  SeenFits(acts, n + 1, acc[n + 1])
        BY <1>1
    <2>1. n + 1 \in DOMAIN wire /\ (n + 1) - 1 = n
        BY <1>1
    <2>2. acc[n + 1] = IF n + 1 \in DOMAIN acts THEN Recover(acc[n], acts[n + 1]) ELSE acc[n]
        BY <1>1, <1>2, <2>1
    <2> QED BY <2>1, <2>2, RecoverStep
<1> HIDE DEF T
<1>5. T = Nat
    BY <1>3, <1>4, Induction DEF T
<1>6. acc[Len(wire)].recovered = Cardinality(EndedBy(acts, Len(wire)))
    <2>1. SeenFits(acts, Len(wire), acc[Len(wire)])
        BY <1>1, <1>5 DEF T
    <2> QED BY <2>1 DEF SeenFits
<1>7. EndedBy(acts, Len(wire)) = {i \in DOMAIN acts : EndsFailures(acts, i)}
    BY <1>1 DEF EndedBy
<1> QED BY <1>6, <1>7 DEF acc

(* The answer a failed activity was closed by. *)
Failed(n) == n \in Started /\ ActivityStatus(n) = "failed"

ClosedBy(n) == CHOOSE k \in AnswersTo(n) : TRUE

Unclassified(code) == code \notin {"none", "USER_INPUT_ERROR", "TOOL_NOT_FOUND"}

Unmarked(k) == Claude /\ ~wire[k].error /\ wire[k].content \in Codes \ {"USER_INPUT_ERROR"}

(* A failed activity was answered with an error, or with an envelope in an   *)
(* answer not marked as one.                                               *)
LEMMA FailureIsAnswered ==
    ASSUME WireInv, NEW n \in DOMAIN wire, Failed(n)
    PROVE  /\ wire[n].kind \in {"use", "call"}
           /\ ClosedBy(n) \in DOMAIN wire /\ IsAnswer(ClosedBy(n))
           /\ Unclassified(Entry(ClosedBy(n)).code) \/ Unmarked(ClosedBy(n))
           /\ wire[n].kind = "call" => ClosedBy(n) = n
           /\ wire[n].kind = "use" => /\ wire[ClosedBy(n)].kind = "answer"
                                      /\ wire[ClosedBy(n)].id = wire[n].id
<1> DEFINE k == ClosedBy(n)
<1>1. wire[n].kind \in {"use", "call"} /\ wire[n].kind \in Kinds
    BY DEF Failed, Started, WireInv
<1>2. AnswersTo(n) # {}
    BY DEF Failed, ActivityStatus
<1>3. k \in AnswersTo(n)
    BY <1>2 DEF ClosedBy
<1>4. /\ wire[k].content \notin {"missing", "USER_INPUT_ERROR", "data"}
      /\ wire[k].content = "words" => wire[k].error
    BY <1>2 DEF Failed, ActivityStatus, ClosedBy
<1>5. k \in DOMAIN wire /\ IsAnswer(k)
    BY <1>1, <1>3 DEF AnswersTo, IsAnswer
<1>6. \/ wire[k].content \in Codes \ {"USER_INPUT_ERROR"} /\ Unclassified(wire[k].content)
         /\ EnvelopeCode(wire[k].content) = wire[k].content
      \/ /\ wire[k].error /\ wire[k].content # "missing"
         /\ EnvelopeCode(wire[k].content) = "none"
    <2>1. wire[k].content \in Contents
        BY <1>5, WireType, EventFields DEF IsAnswer
    <2>2. CASE wire[k].content \in Codes
        BY <1>4, <2>2, CodeAssumption DEF Unclassified, EnvelopeCode
    <2>3. CASE wire[k].content \notin Codes
        BY <1>4, <2>1, <2>3 DEF Contents, EnvelopeCode
    <2> QED BY <2>2, <2>3
<1> HIDE DEF k
<1>7. CASE wire[n].kind = "call"
    <2>1. k = n /\ ~Claude
        BY <1>1, <1>3, <1>7 DEF AnswersTo, Kinds
    <2>2. Entry(k) = ClassifyOpencode(wire[k])
        BY <2>1 DEF Entry
    <2> DEFINE code == EnvelopeCode(wire[k].content)
               ok   == ~wire[k].error /\ code = "none"
    <2>3. Entry(k).code = IF code # "none" \/ ok THEN code ELSE "ERROR"
        BY <2>2 DEF ClassifyOpencode, ToolCall
    <2>4. Unclassified(Entry(k).code)
        BY <1>6, <2>3 DEF Unclassified
    <2> QED BY <1>5, <1>7, <2>1, <2>4 DEF k
<1>8. CASE wire[n].kind = "use"
    <2>1. k \in DOMAIN wire /\ wire[k].kind = "answer" /\ wire[k].id = wire[n].id
        BY <1>3, <1>8 DEF AnswersTo
    <2>2. Claude
        BY <1>1, <1>8 DEF Kinds
    <2>3. Entry(k) = ClassifyToolResult(MadeWith(k), wire[k])
        BY <2>2 DEF Entry
    <2>4. Unclassified(Entry(k).code) \/ Unmarked(k)
        <3>1. CASE ~wire[k].error
            BY <1>6, <2>2, <3>1 DEF Unmarked
        <3>2. CASE wire[k].error
            <4> DEFINE code == CASE EnvelopeCode(wire[k].content) # "none" -> EnvelopeCode(wire[k].content)
                                 [] wire[k].content = "missing"            -> "TOOL_NOT_FOUND"
                                 [] OTHER                                  -> "ERROR"
            <4>1. Entry(k) = [tool |-> MadeWith(k), ok |-> FALSE, code |-> code]
                BY <2>3, <3>2 DEF ClassifyToolResult, ToolCall
            <4>2. CASE wire[k].content \in Codes \ {"USER_INPUT_ERROR"} /\ Unclassified(wire[k].content)
                       /\ EnvelopeCode(wire[k].content) = wire[k].content
                <5>1. wire[k].content # "missing" /\ wire[k].content # "none"
                    BY <4>2, CodeAssumption
                <5>2. code = wire[k].content
                    BY <4>2, <5>1
                <5> HIDE DEF code
                <5> QED BY <4>1, <4>2, <5>2
            <4>3. CASE wire[k].content # "missing" /\ EnvelopeCode(wire[k].content) = "none"
                <5>1. code = "ERROR"
                    BY <4>3
                <5> HIDE DEF code
                <5> QED BY <4>1, <5>1 DEF Unclassified
            <4> QED BY <1>6, <4>2, <4>3
        <3> QED BY <3>1, <3>2
    <2> QED BY <1>5, <1>8, <2>1, <2>4 DEF k
<1> QED BY <1>1, <1>7, <1>8

(* Two failed activities were closed by two answers. *)
LEMMA ClosedApart ==
    ASSUME WireInv, NEW m \in DOMAIN wire, NEW n \in DOMAIN wire, Failed(m), Failed(n),
           ClosedBy(m) = ClosedBy(n)
    PROVE  m = n
<1>1. /\ wire[m].kind = "call" => ClosedBy(m) = m
      /\ wire[m].kind = "use" => /\ wire[ClosedBy(m)].kind = "answer"
                                 /\ wire[ClosedBy(m)].id = wire[m].id
      /\ wire[m].kind \in {"use", "call"}
    BY FailureIsAnswered
<1>2. /\ wire[n].kind = "call" => ClosedBy(n) = n
      /\ wire[n].kind = "use" => /\ wire[ClosedBy(n)].kind = "answer"
                                 /\ wire[ClosedBy(n)].id = wire[n].id
      /\ wire[n].kind \in {"use", "call"}
    BY FailureIsAnswered
<1>3. CASE wire[m].kind = "call" /\ wire[n].kind = "call"
    BY <1>1, <1>2, <1>3
<1>4. CASE wire[m].kind = "use" /\ wire[n].kind = "use"
    <2>1. m \in Uses /\ n \in Uses /\ wire[m].id = wire[n].id
        BY <1>1, <1>2, <1>4 DEF Uses
    <2> QED BY <2>1 DEF WireInv
<1>5. ~(wire[m].kind = "use" /\ wire[n].kind = "call")
    BY <1>1, <1>2
<1>6. ~(wire[m].kind = "call" /\ wire[n].kind = "use")
    BY <1>1, <1>2
<1> QED BY <1>1, <1>2, <1>3, <1>4, <1>5, <1>6

(* Answers of the same rank are the same. *)
LEMMA RankIsOwn ==
    ASSUME NEW i \in Nat, NEW j \in Nat, IsAnswer(i), IsAnswer(j), Rank(i) = Rank(j)
    PROVE  i = j
<1>1. Rank(i) \in Nat
    BY AnswersFinite
<1>2. ~(i < j) /\ ~(j < i)
    BY <1>1, RankGrows
<1> QED BY <1>2

(* A failed activity is an error in the trace, or overlooked. *)
LEMMA FailuresAreTraced ==
    ASSUME WireInv, heard = Len(wire), NEW calls, TraceFits(heard, calls), IsTrace(calls)
    PROVE  /\ Cardinality({n \in DOMAIN wire : Failed(n)})
                <= Cardinality(Others(calls)) + Cardinality(Overlooked)
           /\ Cardinality({n \in DOMAIN wire : Failed(n)}) \in Nat /\ Cardinality(Overlooked) \in Nat
<1> DEFINE F == {n \in DOMAIN wire : Failed(n)}
           traced == {k \in AnswersUpTo(heard) : Unclassified(Entry(k).code)}
           E == Others(calls)
           f == [n \in F |-> ClosedBy(n)]
           g == [k \in traced |-> Rank(k)]
<1>1. DOMAIN wire = 1 .. heard /\ heard \in Nat /\ IsFiniteSet(1 .. heard)
    BY WireType, FS_Interval
<1>2. traced \subseteq 1 .. heard /\ Overlooked \subseteq 1 .. heard /\ F \subseteq 1 .. heard
    BY <1>1 DEF AnswersUpTo, Overlooked
<1>3. IsFiniteSet(traced) /\ IsFiniteSet(Overlooked) /\ IsFiniteSet(F) /\ IsFiniteSet(E)
    BY <1>1, <1>2, FS_Subset, FailuresByCode
<1>4. f \in Injection(F, traced \cup Overlooked)
    <2>1. ASSUME NEW n \in F PROVE ClosedBy(n) \in traced \cup Overlooked
        <3>1. ClosedBy(n) \in AnswersUpTo(heard)
            BY <1>1, FailureIsAnswered DEF AnswersUpTo, IsAnswer
        <3>2. Unclassified(Entry(ClosedBy(n)).code) \/ Unmarked(ClosedBy(n))
            BY FailureIsAnswered
        <3> QED BY <3>1, <3>2 DEF Overlooked, Unmarked
    <2>2. \A m, n \in F : f[m] = f[n] => m = n
        BY ClosedApart
    <2> QED BY <2>1, <2>2 DEF Injection, IsInjective
<1>5. g \in Injection(traced, E)
    <2>1. ASSUME NEW k \in traced PROVE Rank(k) \in E
        <3>1. calls[Rank(k)] = Entry(k) /\ Len(calls) = Rank(heard) /\ Rank(k) \in 1 .. Rank(heard)
            BY <1>1, RankBounds DEF TraceFits
        <3> QED BY <3>1, TraceDomain DEF Others, Unclassified
    <2>2. \A k \in traced : k \in Nat /\ IsAnswer(k)
        BY <1>1 DEF AnswersUpTo, IsAnswer
    <2>3. \A k, l \in traced : g[k] = g[l] => k = l
        <3> SUFFICES ASSUME NEW k \in traced, NEW l \in traced, Rank(k) = Rank(l) PROVE k = l
            OBVIOUS
        <3> QED BY <2>2, RankIsOwn
    <2> QED BY <2>1, <2>3 DEF Injection, IsInjective
<1> HIDE DEF F, traced, E, f, g
<1>6. /\ IsFiniteSet(traced \cup Overlooked)
      /\ Cardinality(traced \cup Overlooked) =
            Cardinality(traced) + Cardinality(Overlooked) - Cardinality(traced \cap Overlooked)
    BY <1>3, FS_Union
<1>7. Cardinality(F) <= Cardinality(traced \cup Overlooked)
    BY <1>4, <1>6, FS_Injection
<1>8. Cardinality(traced) <= Cardinality(E)
    BY <1>3, <1>5, FS_Injection
<1>9. /\ Cardinality(F) \in Nat /\ Cardinality(traced) \in Nat /\ Cardinality(E) \in Nat
      /\ Cardinality(Overlooked) \in Nat /\ Cardinality(traced \cap Overlooked) \in Nat
    <2>1. IsFiniteSet(traced \cap Overlooked)
        BY <1>3, FS_Subset
    <2> QED BY <1>3, <2>1, FS_CardinalityType
<1>10. Cardinality(F) <= Cardinality(E) + Cardinality(Overlooked)
    BY <1>6, <1>7, <1>8, <1>9
<1> QED BY <1>9, <1>10 DEF F, E

(* Both trails tell what they are said to tell (trace.py parse_tool_trace,  *)
(* read_provenance), for every stream.                                     *)
THEOREM MetricsTellTheTruth == Spec => []MetricsFit
<1>1. ASSUME StreamInv PROVE MetricsFit
    <2> SUFFICES ASSUME Returned
                 PROVE  TraceMetricsFit(result.trace) /\ ProvenanceFits(result.trace, Activities)
        BY DEF MetricsFit
    <2> DEFINE calls == result.trace
               acts  == Activities
               errors == Cardinality(Others(calls))
    <2>1. WireInv /\ TraceFits(heard, calls)
        BY <1>1, HandedOver DEF StreamInv
    <2>2. IsTrace(calls)
        BY <2>1 DEF TraceFits, IsTrace
    <2>3. DOMAIN acts = Started /\ Started \subseteq DOMAIN wire
        BY DEF Activities, Started
    <2>4. IsLog(acts)
        BY <2>3 DEF IsLog, Activities
    <2>5. ReadProvenance(acts).recovered = Cardinality({i \in DOMAIN acts : EndsFailures(acts, i)})
        BY <2>1, <2>4, RecoveriesFit DEF ReadProvenance
    <2>6. ReadProvenance(acts).failed = Cardinality({n \in DOMAIN wire : Failed(n)})
        <3>1. {n \in DOMAIN acts : acts[n].status = "failed"} = {n \in DOMAIN wire : Failed(n)}
            BY <2>3 DEF Failed, Activities
        <3> QED BY <3>1 DEF ReadProvenance
    <2> HIDE DEF calls, acts
    <2>7. ASSUME heard = Len(wire)
          PROVE  ReadProvenance(acts).failed <=
                   ParseToolTrace(calls).failed - ParseToolTrace(calls).schema
                   - ParseToolTrace(calls).hallucinated + Cardinality(Overlooked)
        <3>1. /\ ReadProvenance(acts).failed <= errors + Cardinality(Overlooked)
              /\ ReadProvenance(acts).failed \in Nat /\ Cardinality(Overlooked) \in Nat
            BY <2>1, <2>2, <2>6, <2>7, FailuresAreTraced
        <3>2. /\ ParseToolTrace(calls).failed =
                   ParseToolTrace(calls).schema + ParseToolTrace(calls).hallucinated + errors
              /\ ParseToolTrace(calls).failed \in Nat /\ ParseToolTrace(calls).schema \in Nat
              /\ ParseToolTrace(calls).hallucinated \in Nat /\ errors \in Nat
            BY <2>2, FailuresByCode
        <3> HIDE DEF errors
        <3> QED BY <3>1, <3>2
    <2>8. ProvenanceFits(calls, acts)
        BY <2>5, <2>7 DEF ProvenanceFits, EndsFailures
    <2>9. TraceMetricsFit(calls)
        BY <2>2, TraceFitsMetrics
    <2> QED BY <2>8, <2>9 DEF calls, acts
<1> QED BY <1>1, StreamInvAlways, PTL
================================================================================
