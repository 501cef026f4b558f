------------------------------ MODULE AgentStream ------------------------------
(***************************************************************************)
(* How an agent's event stream becomes an AgentResult, in the three        *)
(* drivers.  "sdk" consumes messages one by one and is cancelled between   *)
(* two of them when the wall clock runs out; "cli" and "opencode" read     *)
(* the stdout of a process group they kill, whose last line may be cut,    *)
(* and parse it as a whole.  The metrics of trace.py are computed from     *)
(* what the driver hands over.                                             *)
(*                                                                         *)
(* What the agent and omd do is external: any text, any calls, several at  *)
(* once, answered in any order or not at all.  A text is the fenced blocks  *)
(* it holds: a report that parses ("good"), one that does not ("bad"), one  *)
(* whose brace or fence is never closed ("open"); mere talk holds none.    *)
(* Texts are told apart by their place in the stream.                      *)
(***************************************************************************)
EXTENDS Integers, Sequences, FiniteSets, SequencesExt

CONSTANTS
    Harnesses,      \* the drivers of this instance
    Tools,          \* names of omd tools
    ValidateTools,  \* VALIDATE_TOOLS
    ExecuteTools,   \* EXECUTE_TOOLS
    Codes,          \* the codes of omd's error envelopes
    Says,           \* what a text may hold
    Total,          \* the canonical usage of a ResultMessage
    MaxEvents,      \* bound: events of a stream
    MaxLag          \* bound: messages sent and not consumed yet

ASSUME HarnessAssumption == Harnesses \subseteq {"sdk", "cli", "opencode"}
ASSUME ToolAssumption ==
    ValidateTools \subseteq Tools /\ ExecuteTools \subseteq Tools
    /\ ValidateTools \cap ExecuteTools = {} /\ "<unknown>" \notin Tools
ASSUME CodeAssumption ==
    /\ "USER_INPUT_ERROR" \in Codes
    /\ Codes \cap {"none", "TOOL_NOT_FOUND", "data", "missing", "words"} = {}
ASSUME SaysAssumption == Says \subseteq Seq({"good", "bad", "open"})
ASSUME BoundsAssumption == MaxEvents \in Nat /\ MaxLag \in Nat \ {0} /\ Total \in Nat \ {0}

VARIABLES
    harness,    \* the driver at work
    wire,       \* the events the agent's side has written
    heard,      \* how many of them the driver has got
    state,      \* _StreamState of the SDK driver
    pc,         \* "running", "over" (the stream has ended), "ended"
    result      \* the AgentResult; Raised if run() raised

vars == <<harness, wire, heard, state, pc, result>>

(* The text of a result that is empty. *)
Nothing == <<"nothing">>

(* What a tool answers with: a result, an omd error envelope (its code),     *)
(* words that say the tool is missing, other words.                         *)
Contents == Codes \cup {"data", "missing", "words"}

Text(said, used)          == [kind |-> "text", says |-> said, usage |-> used]
Use(i, tool)              == [kind |-> "use", id |-> i, tool |-> tool, usage |-> 1]
Reply(i, error, content)  == [kind |-> "answer", id |-> i, error |-> error, content |-> content]
Done(said, used)          == [kind |-> "result", says |-> said, usage |-> used]
Called(tool, error, content) ==
    [kind |-> "call", tool |-> tool, error |-> error, content |-> content]
Step(used)                == [kind |-> "step", usage |-> used]

-----------------------------------------------------------------------------
(* Classification of an answer                                             *)

ToolCall(tool, ok, code) == [tool |-> tool, ok |-> ok, code |-> code]

(* parse_omd_error_code, "none" when the content is no envelope. *)
EnvelopeCode(content) == IF content \in Codes THEN content ELSE "none"

(* _classify_tool_result: only an answer marked as an error is looked into. *)
ClassifyToolResult(tool, e) ==
    IF ~e.error THEN ToolCall(tool, TRUE, "none")
    ELSE ToolCall(tool, FALSE,
            CASE EnvelopeCode(e.content) # "none" -> EnvelopeCode(e.content)
              [] e.content = "missing"            -> "TOOL_NOT_FOUND"
              [] OTHER                            -> "ERROR")

(* opencode: the envelope counts whatever the status says. *)
ClassifyOpencode(e) ==
    LET code == EnvelopeCode(e.content)
        ok   == ~e.error /\ code = "none"
    IN ToolCall(e.tool, ok, IF code # "none" \/ ok THEN code ELSE "ERROR")

(* Fault: no default. *)
PendingOrNone(open, i) == IF i \in DOMAIN open THEN open[i] ELSE "None"

(* pending.get(id, "<unknown>") *)
Pending(open, i) == IF i \in DOMAIN open THEN open[i] ELSE "<unknown>"

(* Fault: there is one open call at a time. *)
OpenedAlone(open, i, tool) == (i :> tool)

Opened(open, i, tool) == [j \in DOMAIN open \cup {i} |-> IF j = i THEN tool ELSE open[j]]

-----------------------------------------------------------------------------
(* The SDK driver: _consume, one message.                                  *)

FreshState == [text |-> <<>>, usage |-> 0, acc |-> 0, pending |-> <<>>, trace |-> <<>>]

(* n is the place of the message in the stream.  Only a message of the      *)
(* assistant and the result carry usage and text.                           *)
Consume(st, e, n) ==
    CASE e.kind = "text"   -> [st EXCEPT !.text = <<n>>, !.acc = @ + e.usage]
      [] e.kind = "use"    -> [st EXCEPT !.pending = Opened(@, e.id, e.tool), !.acc = @ + e.usage]
      [] e.kind = "answer" -> [st EXCEPT !.trace =
                                Append(@, ClassifyToolResult(Pending(st.pending, e.id), e))]
      [] e.kind = "result" -> [st EXCEPT !.text = IF e.says # Nothing THEN <<n>> ELSE @,
                                         !.usage = e.usage]

(* Fault: the two are summed. *)
SdkTokensSummed(st) == st.usage + st.acc

(* state.usage or state.usage_acc; 0 is None, nothing was reported. *)
SdkTokens(st) == IF st.usage # 0 THEN st.usage ELSE st.acc

SdkResult(timed_out) ==
    [text |-> state.text, trace |-> state.trace, tokens |-> SdkTokens(state),
     timed_out |-> timed_out, exit |-> 0]

-----------------------------------------------------------------------------
(* The CLI driver: parse_stream_json over the lines there are.             *)

(* Fault: an empty result clears the text. *)
ResultTextAlways(text, e, n) == <<n>>

ResultText(text, e, n) == IF e.says = Nothing THEN text ELSE <<n>>

ParseLine(run, e, n) ==
    CASE e.kind = "text"   -> [run EXCEPT !.text = <<n>>]
      [] e.kind = "use"    -> [run EXCEPT !.pending = Opened(@, e.id, e.tool)]
      [] e.kind = "answer" -> [run EXCEPT !.trace =
                                Append(@, ClassifyToolResult(Pending(run.pending, e.id), e))]
      [] e.kind = "result" -> [run EXCEPT !.text = ResultText(@, e, n), !.tokens = e.usage]

NoLine == [text |-> <<>>, tokens |-> 0, pending |-> <<>>, trace |-> <<>>]

(* The run after each of the lines. *)
LineRuns(lines) ==
    LET run[n \in 0 .. Len(lines)] ==
            IF n = 0 THEN NoLine ELSE ParseLine(run[n - 1], lines[n], n)
    IN run

ParseStreamJson(lines) == LineRuns(lines)[Len(lines)]

-----------------------------------------------------------------------------
(* The opencode driver: parse_opencode_events, texts joined in order.      *)

ParseEvent(run, e, n) ==
    CASE e.kind = "text" -> [run EXCEPT !.text = Append(@, n)]
      [] e.kind = "call" -> [run EXCEPT !.trace = Append(@, ClassifyOpencode(e))]
      [] e.kind = "step" -> [run EXCEPT !.tokens = @ + e.usage]

NoEvent == [text |-> <<>>, tokens |-> 0, trace |-> <<>>]

EventRuns(lines) ==
    LET run[n \in 0 .. Len(lines)] ==
            IF n = 0 THEN NoEvent ELSE ParseEvent(run[n - 1], lines[n], n)
    IN run

ParseOpencodeEvents(lines) == EventRuns(lines)[Len(lines)]

Parsed(lines, timed_out, exit) ==
    LET run == IF harness = "cli" THEN ParseStreamJson(lines) ELSE ParseOpencodeEvents(lines)
    IN [text |-> run.text, trace |-> run.trace, tokens |-> run.tokens,
        timed_out |-> timed_out, exit |-> exit]

-----------------------------------------------------------------------------
(* scoring.extract_report                                                  *)

(* The blocks of some texts, <<place, index>>, and their order. *)
Blocks(places) == UNION {{n} \X DOMAIN wire[n].says : n \in places}

Holds(b) == wire[b[1]].says[b[2]]

Before(a, b) == a[1] < b[1] \/ (a[1] = b[1] /\ a[2] < b[2])

(* The pattern runs from an unfinished block to the next closing fence, and  *)
(* takes the block in between with it.                                      *)
Swallowed(b, blocks) ==
    \E a \in blocks : /\ Holds(a) = "open" /\ Before(a, b)
                      /\ \A c \in blocks : ~(Before(a, c) /\ Before(c, b))

(* The blocks json.loads accepts; the others are passed over. *)
Parseable(blocks) == {b \in blocks : Holds(b) = "good" /\ ~Swallowed(b, blocks)}

NoReport == <<0, 0>>

(* Fault: the first block is taken. *)
OldestReport(text) ==
    LET found == Parseable(Blocks(Range(text))) IN
    IF found = {} THEN NoReport ELSE CHOOSE b \in found : \A c \in found : c = b \/ Before(b, c)

ExtractReport(text) ==
    LET found == Parseable(Blocks(Range(text))) IN
    IF found = {} THEN NoReport ELSE CHOOSE b \in found : \A c \in found : c = b \/ Before(c, b)

-----------------------------------------------------------------------------
(* trace.parse_tool_trace                                                  *)

Coded(calls, code) == {i \in DOMAIN calls : calls[i].code = code}

(* Fault: a success anywhere redeems a failure. *)
RecoveredAnywhere(calls, i) ==
    ~calls[i].ok /\ \E k \in DOMAIN calls : calls[k].ok /\ calls[k].tool = calls[i].tool

Recovered(calls, i) ==
    ~calls[i].ok /\ \E k \in i + 1 .. Len(calls) : calls[k].ok /\ calls[k].tool = calls[i].tool

ValidatedBeforeExecute(calls) ==
    LET runs == {i \in DOMAIN calls : calls[i].tool \in ExecuteTools} IN
    IF runs = {} THEN "undefined"
    ELSE LET first == CHOOSE i \in runs : \A k \in runs : i <= k
         IN IF \E i \in 1 .. first - 1 : calls[i].tool \in ValidateTools THEN "yes" ELSE "no"

ParseToolTrace(calls) ==
    [total        |-> Len(calls),
     valid        |-> Cardinality({i \in DOMAIN calls : calls[i].ok}),
     schema       |-> Cardinality(Coded(calls, "USER_INPUT_ERROR")),
     hallucinated |-> Cardinality(Coded(calls, "TOOL_NOT_FOUND")),
     failed       |-> Cardinality({i \in DOMAIN calls : ~calls[i].ok}),
     recovered    |-> Cardinality({i \in DOMAIN calls : Recovered(calls, i)}),
     validated    |-> ValidatedBeforeExecute(calls)]

-----------------------------------------------------------------------------
(* trace.read_provenance: the other trail.  omd starts an activity for a    *)
(* call it accepts and never for one it rejects or never sees; a failure is  *)
(* answered with an envelope, whether or not the harness marks the answer   *)
(* as an error, or by the harness in words of its own.  Rows are in the     *)
(* order the activities started, each at the place of its call.             *)

ActivityType(tool) == IF tool \in ExecuteTools THEN "execute" ELSE "decide"

AnswersTo(n) ==
    IF wire[n].kind = "call" THEN {n}
    ELSE {k \in DOMAIN wire : wire[k].kind = "answer" /\ wire[k].id = wire[n].id}

ActivityStatus(n) ==
    IF AnswersTo(n) = {} THEN "running"
    ELSE LET e == wire[CHOOSE k \in AnswersTo(n) : TRUE] IN
         CASE e.content \in {"missing", "USER_INPUT_ERROR"}                 -> "refused"
           [] e.content = "data" \/ (e.content = "words" /\ ~e.error)       -> "completed"
           [] OTHER                                                         -> "failed"

Started == {n \in DOMAIN wire : /\ wire[n].kind \in {"use", "call"}
                                /\ wire[n].tool \notin ValidateTools
                                /\ ActivityStatus(n) # "refused"}

Activities == [n \in Started |-> [type |-> ActivityType(wire[n].tool), status |-> ActivityStatus(n)]]

NothingSeen == [recovered |-> 0, seen |-> {}]

Recover(acc, a) ==
    IF a.status = "failed" THEN [acc EXCEPT !.seen = @ \cup {a.type}]
    ELSE IF a.status = "completed" /\ a.type \in acc.seen
    THEN [recovered |-> acc.recovered + 1, seen |-> acc.seen \ {a.type}]
    ELSE acc

(* What has been seen before each place. *)
Recoveries(acts) ==
    LET acc[n \in 0 .. Len(wire)] ==
            IF n = 0 THEN NothingSeen
            ELSE IF n \in DOMAIN acts THEN Recover(acc[n - 1], acts[n]) ELSE acc[n - 1]
    IN acc

ReadProvenance(acts) ==
    [activities |-> Cardinality(DOMAIN acts),
     failed     |-> Cardinality({n \in DOMAIN acts : acts[n].status = "failed"}),
     recovered  |-> Recoveries(acts)[Len(wire)].recovered]

-----------------------------------------------------------------------------
(* The agent's side.                                                       *)

Claude    == harness \in {"sdk", "cli"}
Uses      == {n \in DOMAIN wire : wire[n].kind = "use"}
Answered  == {wire[n].id : n \in {k \in DOMAIN wire : wire[k].kind = "answer"}}
Concluded == \E n \in DOMAIN wire : wire[n].kind = "result"

(* Id 0 is of a call this stream never showed. *)
Unanswered == ({wire[n].id : n \in Uses} \cup {0}) \ Answered

ClaudeEvents ==
    {Text(said, used) : said \in Says, used \in {0, 1}}
    \cup {Use(Cardinality(Uses) + 1, tool) : tool \in Tools}
    \cup {Reply(i, error, content) : i \in Unanswered, error \in BOOLEAN, content \in Contents}
    \cup {Done(said, used) : said \in Says \cup {Nothing}, used \in {0, Total}}

OpencodeEvents ==
    {Text(said, 0) : said \in Says}
    \cup {Called(tool, error, content) : tool \in Tools, error \in BOOLEAN, content \in Contents}
    \cup {Step(used) : used \in {0, 1}}

Speak ==
    /\ pc = "running" /\ ~Concluded
    /\ Len(wire) < MaxEvents /\ Len(wire) - heard < MaxLag
    /\ \E e \in (IF Claude THEN ClaudeEvents ELSE OpencodeEvents) : wire' = Append(wire, e)
    /\ heard' = IF harness = "sdk" THEN heard ELSE heard + 1
    /\ UNCHANGED <<harness, state, pc, result>>

(* The harness exits by itself: claude after its result, opencode when done. *)
Finish ==
    /\ pc = "running" /\ (Claude => Concluded)
    /\ pc' = "over"
    /\ UNCHANGED <<harness, wire, heard, state, result>>

-----------------------------------------------------------------------------
(* The driver.                                                             *)

Raised == [raised |-> TRUE]
NoResult == [raised |-> FALSE]

End(outcome) == pc' = "ended" /\ result' = outcome

Hear ==
    /\ harness = "sdk" /\ pc # "ended" /\ heard < Len(wire)
    /\ state' = Consume(state, wire[heard + 1], heard + 1)
    /\ heard' = heard + 1
    /\ UNCHANGED <<harness, wire, pc, result>>

(* The stream has ended and everything in it was heard. *)
Return ==
    /\ pc = "over" /\ heard = Len(wire)
    /\ End(IF harness = "sdk" THEN SdkResult(FALSE) ELSE Parsed(wire, FALSE, 0))
    /\ UNCHANGED <<harness, wire, heard, state>>

(* Between two messages, whatever has been heard by then. *)
CancelSdk ==
    /\ harness = "sdk" /\ pc # "ended"
    /\ End(SdkResult(TRUE))
    /\ UNCHANGED <<harness, wire, heard, state>>

(* The lines a dead process group leaves: all of them, or all but a last    *)
(* one cut short, which json.loads refuses and the parser skips ...         *)
Left == {wire} \cup {SubSeq(wire, 1, n) : n \in {Len(wire) - 1} \cap Nat}

KillGroup ==
    /\ harness # "sdk" /\ pc = "running"
    /\ \E lines \in Left :
          /\ End(Parsed(lines, TRUE, 0))
          /\ heard' = Len(lines)
    /\ UNCHANGED <<harness, wire, state>>

(* ... and one cut inside a character cannot be decoded: communicate raises. *)
CutCharacter ==
    /\ harness # "sdk" /\ pc = "running" /\ wire # <<>>
    /\ End(Raised)
    /\ UNCHANGED <<harness, wire, heard, state>>

(* A non-zero exit: the CLI driver reports it, the others raise. *)
ExitAbnormally ==
    /\ pc = "running"
    /\ IF harness = "cli"
       THEN \E lines \in Left : End(Parsed(lines, FALSE, 1)) /\ heard' = Len(lines)
       ELSE End(Raised) /\ UNCHANGED heard
    /\ UNCHANGED <<harness, wire, state>>

-----------------------------------------------------------------------------
Init ==
    /\ harness \in Harnesses
    /\ wire = <<>> /\ heard = 0
    /\ state = FreshState
    /\ pc = "running" /\ result = NoResult

Next == Speak \/ Finish \/ Hear \/ Return \/ CancelSdk \/ KillGroup \/ CutCharacter \/ ExitAbnormally

Spec == Init /\ [][Next]_vars

-----------------------------------------------------------------------------
(* Properties                                                              *)

Calls == [tool : Tools \cup {"<unknown>"}, ok : BOOLEAN,
          code : Codes \cup {"none", "TOOL_NOT_FOUND", "ERROR"}]

Returned == pc = "ended" /\ result # Raised

TypeOK ==
    /\ harness \in Harnesses
    /\ heard \in 0 .. Len(wire) /\ Len(wire) <= MaxEvents
    /\ pc \in {"running", "over", "ended"}
    /\ Returned =>
        /\ result.trace \in Seq(Calls) /\ result.text \in Seq(1 .. heard)
        /\ result.tokens \in Nat /\ result.timed_out \in BOOLEAN /\ result.exit \in {0, 1}

(* Whatever has been heard, the SDK driver's running state is what the CLI *)
(* driver's parser makes of the same events in one go: the two anchors'    *)
(* reports, traces and canonical usage are comparable (claude_cli.py:95,   *)
(* "Mirrors the SDK driver's message handling").                           *)
MirrorsTheSdk ==
    harness = "sdk" =>
        LET run == ParseStreamJson(SubSeq(wire, 1, heard)) IN
        state.text = run.text /\ state.trace = run.trace /\ state.usage = run.tokens

(* However the run ended, the trace lists every call whose answer was       *)
(* heard, under the name it was made with, in the order of the answers, and *)
(* what it lacks are the calls still open (trace.py:5, "every MCP call the  *)
(* agent attempted", for those).                                           *)
AnswersUpTo(n) == {m \in 1 .. n : wire[m].kind \in {"answer", "call"}}

MadeWith(n) ==
    IF wire[n].kind = "call" THEN wire[n].tool
    ELSE LET opening == {k \in Uses : k < n /\ wire[k].id = wire[n].id} IN
         IF opening = {} THEN "<unknown>" ELSE wire[CHOOSE k \in opening : TRUE].tool

CallsAreAnswers ==
    Returned =>
        /\ Len(result.trace) = Cardinality(AnswersUpTo(heard))
        /\ \A n \in AnswersUpTo(heard) :
             LET e    == wire[n]
                 call == result.trace[Cardinality(AnswersUpTo(n))]
             IN /\ call.tool = MadeWith(n)
                /\ e.error => ~call.ok
                /\ e.content \in Codes /\ (e.error \/ ~Claude) => call.code = e.content

(* The report that selects the graded run is the agent's last word: what    *)
(* was heard after it holds no report that parses, but for one an unfinished *)
(* block before it took along; and a run that was heard to end in a report  *)
(* that parses is graded by that one (scoring.py:57, "Return the last       *)
(* parseable fenced-JSON object", whose letter the exception breaks).        *)
Speech(n) == {m \in 1 .. n : \/ wire[m].kind = "text"
                             \/ wire[m].kind = "result" /\ wire[m].says # Nothing}

NeverASupersededReport ==
    Returned =>
        LET kept  == Blocks(Range(result.text))
            heeds == ExtractReport(result.text)
            given == Blocks(Speech(heard))
            Accepted(b) == Holds(b) = "good" /\ ~Swallowed(b, kept)
            Final(b) == /\ \A m \in Speech(heard) : m <= b[1]
                        /\ \A c \in given : c = b \/ Before(c, b)
        IN \A b \in given :
             /\ heeds # NoReport /\ Before(heeds, b) => ~Accepted(b)
             /\ Final(b) /\ Accepted(b) => heeds = b

(* Tokens: the canonical total where it was heard, counted once; before     *)
(* that what the messages heard so far carried, except by the CLI driver,   *)
(* which has no fallback; never a number nobody reported.                   *)
UsageOf(kinds) ==
    LET spent == {n \in 1 .. heard : wire[n].kind \in kinds /\ wire[n].usage = 1}
    IN Cardinality(spent)

CanonicalHeard == \E n \in 1 .. heard : wire[n].kind = "result" /\ wire[n].usage = Total

TokensAreReported ==
    Returned =>
        result.tokens = IF CanonicalHeard THEN Total
                        ELSE CASE harness = "sdk"      -> UsageOf({"text", "use"})
                               [] harness = "cli"      -> 0
                               [] harness = "opencode" -> UsageOf({"step"})

(* The workflow metrics are what their definitions say, put another way:    *)
(* calls split into valid and failed, only failed ones are schema errors or *)
(* hallucinated, the recovered ones are each tool's failures before its     *)
(* last success, and a plan was validated first iff the first call that     *)
(* validates or executes validates (trace.py:112-121).                      *)
LastSuccess(calls, tool) ==
    LET ok == {i \in DOMAIN calls : calls[i].ok /\ calls[i].tool = tool}
    IN IF ok = {} THEN 0 ELSE CHOOSE i \in ok : \A k \in ok : k <= i

TraceMetricsFit(calls) ==
    LET m == ParseToolTrace(calls)
        failures == {i \in DOMAIN calls : ~calls[i].ok}
        workflow == {i \in DOMAIN calls : calls[i].tool \in ValidateTools \cup ExecuteTools}
        first    == CHOOSE i \in workflow : \A k \in workflow : i <= k
        ran      == \E i \in workflow : calls[i].tool \in ExecuteTools
    IN /\ m.total = m.valid + m.failed
       /\ m.schema + m.hallucinated <= m.failed
       /\ m.recovered = Cardinality({i \in failures : i < LastSuccess(calls, calls[i].tool)})
       /\ m.validated = IF ~ran THEN "undefined"
                        ELSE IF calls[first].tool \in ValidateTools THEN "yes" ELSE "no"

(* In the database a recovery is a success that ends a run of failures of   *)
(* its type, and a failed activity is a failed call that omd accepted.  If  *)
(* the whole stream was heard, it is in the trace among the failures that   *)
(* are neither rejections nor hallucinations; on the anchors it may also be *)
(* one whose envelope came in an answer not marked as an error, which the   *)
(* trace takes for a valid call (claude_sdk.py:127).                        *)
Overlooked == {n \in AnswersUpTo(heard) :
                 Claude /\ ~wire[n].error /\ wire[n].content \in Codes \ {"USER_INPUT_ERROR"}}

ProvenanceFits(calls, acts) ==
    LET p == ReadProvenance(acts)
        t == ParseToolTrace(calls)
        ends(i) == /\ acts[i].status = "completed"
                   /\ \E k \in DOMAIN acts :
                        /\ k < i /\ acts[k].type = acts[i].type /\ acts[k].status = "failed"
                        /\ \A l \in DOMAIN acts :
                              k < l /\ l < i /\ acts[l].type = acts[i].type
                                  => acts[l].status # "completed"
    IN /\ p.recovered = Cardinality({i \in DOMAIN acts : ends(i)})
       /\ heard = Len(wire) =>
            p.failed <= t.failed - t.schema - t.hallucinated + Cardinality(Overlooked)

(* Both trails of a run tell what they are said to tell. *)
MetricsFit ==
    Returned => TraceMetricsFit(result.trace) /\ ProvenanceFits(result.trace, Activities)
=============================================================================
