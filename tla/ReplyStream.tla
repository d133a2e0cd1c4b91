----------------------------- MODULE ReplyStream -----------------------------
(***************************************************************************)
(* One reply of a model, from the provider's server to the tool phase: the *)
(* request with its retries, the parser of the provider's stream, the      *)
(* driver that pushes its events into the kernel's model turn, and what    *)
(* the turn commits and hands over.  There are two providers, whose        *)
(* streams differ (openai_codex.rs, openrouter.rs and their Bun packages), *)
(* and two drivers: run_model_turn of the core (turn.rs) and               *)
(* runProviderTurn of the agent plugin (turn.ts), which watches the events *)
(* with an assembler of its own (stream.ts).                               *)
(*                                                                         *)
(* A frame is sent, read and translated in one action, when everything the *)
(* previous one yielded was taken: the parsers are lazy.  The driver takes *)
(* one event at a time.  A text delta is a number, the arguments of a call *)
(* are counted in fragments.  Events that change nothing in the turn       *)
(* (Started, TextStart, ThinkingStart, Usage) are left out.  A definition  *)
(* no action uses, put before the one it varies, is that one with a        *)
(* plausible mistake.                                                      *)
(***************************************************************************)
EXTENDS Integers, Sequences, FiniteSets, SequencesExt

CONSTANTS
  MaxItems,       (* bound: items of a codex reply, calls of any reply     *)
  MaxDeltas,      (* bound: text and reasoning deltas                      *)
  Fragments,      (* fragments the arguments of a call come in             *)
  MaxRetries      (* MAX_RETRIES (2 or 3)                                  *)

ASSUME ReplyStreamAssumption ==
  /\ MaxItems \in Nat \ {0} /\ MaxDeltas \in Nat
  /\ Fragments \in Nat \ {0} /\ MaxRetries \in Nat

VARIABLES
  provider, driver,        (* fixed: who parses, who pushes                *)
  stage, attempt,          (* the exchange with the server                 *)
  item, items, sent,       (* the server: open item, items, deltas sent    *)
  block, tools, stopSeen,  (* the parser: last block of each kind, calls   *)
  pending,                 (* events yielded and not yet taken             *)
  observed,                (* StreamAssembler: what it holds of each call  *)
  content, buffer, calls, turnStop,   (* the kernel's model turn           *)
  shown,                   (* the deltas sent to the consumer              *)
  aborted,                 (* the token, or the signal                     *)
  result, handed           (* how the turn ended; the tool calls it gives  *)

server == <<item, items, sent>>
parser == <<block, tools, stopSeen>>
turn == <<content, buffer, calls, turnStop>>
outcome == <<result, handed>>
vars == <<provider, driver, stage, attempt, server, parser, pending, observed,
          turn, shown, aborted, outcome>>

Kinds == {"text", "thinking"}
Indices == 1..MaxItems
CallKinds == {"callStart", "callDelta", "callEnd"}
StopReasons == {"stop", "toolUse", "length", "error"}
Bare == [k \in Kinds |-> <<>>]
Only(is, x) == IF is THEN <<x>> ELSE <<>>

-----------------------------------------------------------------------------
(* The events of a provider stream.  tokens is the text of a text event;   *)
(* known says that a call's id and name are, whole that its arguments      *)
(* parse (else {} stands for them).                                        *)

NoEvent == [kind |-> "none", of |-> "text", tokens |-> <<>>, index |-> 1,
            known |-> FALSE, whole |-> FALSE, stop |-> "stop"]
Delta(k, token) ==
  [NoEvent EXCEPT !.kind = "delta", !.of = k, !.tokens = <<token>>]
End(k, tokens) == [NoEvent EXCEPT !.kind = "end", !.of = k, !.tokens = tokens]
CallEvent(kind, i, known) ==
  [NoEvent EXCEPT !.kind = kind, !.index = i, !.known = known]
CallEnd(i, whole) ==
  [NoEvent EXCEPT !.kind = "callEnd", !.index = i, !.known = TRUE,
                  !.whole = whole]
Done(stop) == [NoEvent EXCEPT !.kind = "done", !.stop = stop]

-----------------------------------------------------------------------------
(* send_with_retry.                                                        *)

\* An aborted fetch is not an answer; it rejects like a transport error.
Answered ==
  /\ stage = "request" /\ (driver = "core" \/ ~aborted)
  /\ stage' = "streaming" /\ attempt' = 0
  /\ UNCHANGED <<provider, driver, server, parser, pending, observed, turn,
                 shown, aborted, outcome>>

Retry ==
  /\ stage = "request" /\ attempt < MaxRetries
  /\ attempt' = attempt + 1
  /\ UNCHANGED <<provider, driver, stage, server, parser, pending, observed,
                 turn, shown, aborted, outcome>>

-----------------------------------------------------------------------------
(* A codex stream: items one after the other.                              *)

Reading == stage = "streaming" /\ pending = <<>>
Codex == provider = "codex" /\ Reading
Count == Len(tools)
LastTool == tools[Count]

Token(k) ==
  /\ sent < MaxDeltas /\ sent' = sent + 1
  /\ block' = [block EXCEPT ![k] = Append(@, sent + 1)]
  /\ pending' = <<Delta(k, sent + 1)>>

\* Of the events of an added item only those of a call change the turn.
AddedEvents(kind, known) ==
  Only(kind = "call", CallEvent("callStart", Count + 1, known))

\* The call_id or the name may be missing.
ItemAdded ==
  /\ Codex /\ item = "none" /\ items < MaxItems
  /\ items' = items + 1
  /\ \/ \E k \in Kinds :
          /\ item' = k
          /\ block' = [block EXCEPT ![k] = <<>>]
          /\ pending' = AddedEvents(k, TRUE)
          /\ UNCHANGED tools
     \/ \E known \in BOOLEAN :
          /\ item' = "call"
          /\ tools' = Append(tools, [known |-> known, arguments |-> 0])
          /\ pending' = AddedEvents("call", known)
          /\ UNCHANGED block
  /\ UNCHANGED <<provider, driver, stage, attempt, sent, stopSeen, observed,
                 turn, shown, aborted, outcome>>

ItemDelta ==
  /\ Codex /\ item \in Kinds
  /\ Token(item)
  /\ UNCHANGED <<provider, driver, stage, attempt, item, items, tools,
                 stopSeen, observed, turn, shown, aborted, outcome>>

\* arguments.delta adds a fragment; arguments.done brings what is missing.
ArgumentsArrive ==
  /\ Codex /\ item = "call" /\ LastTool.arguments < Fragments
  /\ \E n \in {LastTool.arguments + 1, Fragments} :
       tools' = [tools EXCEPT ![Count].arguments = n]
  /\ pending' = <<CallEvent("callDelta", Count, LastTool.known)>>
  /\ UNCHANGED <<provider, driver, stage, attempt, server, block, stopSeen,
                 observed, turn, shown, aborted, outcome>>

\* A call without id or name is started and never ended.
ItemDone ==
  /\ Codex /\ item \in Kinds \cup {"call"}
  /\ item = "call" => LastTool.arguments = Fragments
  /\ item' = "none"
  /\ pending' = CASE item \in Kinds -> <<End(item, block[item])>>
                  [] item = "call" /\ LastTool.known -> <<CallEnd(Count, TRUE)>>
                  [] OTHER -> <<>>
  /\ UNCHANGED <<provider, driver, stage, attempt, items, sent, parser,
                 observed, turn, shown, aborted, outcome>>

\* response.completed or incomplete; a call cut off has no item.done.
Completed ==
  /\ Codex /\ item # "ended"
  /\ \E s \in {"stop", "length"} :
       /\ s = "stop" => item = "none"
       /\ stopSeen' = s
  /\ item' = "ended"
  /\ UNCHANGED <<provider, driver, stage, attempt, items, sent, block, tools,
                 pending, observed, turn, shown, aborted, outcome>>

-----------------------------------------------------------------------------
(* An openrouter stream: deltas of text, reasoning and calls in any order. *)

OpenRouter == provider = "openrouter" /\ Reading /\ item # "ended"

ContentDelta ==
  /\ OpenRouter
  /\ \E k \in Kinds : Token(k)
  /\ UNCHANGED <<provider, driver, stage, attempt, item, items, tools,
                 stopSeen, observed, turn, shown, aborted, outcome>>

\* One entry of tool_calls merged into what is held of its call, and the
\* events that yields: the start once id and name are known, and the fragment.
Merged(call, named, n) ==
  [known |-> call.known \/ named, arguments |-> call.arguments + n]
MergedEvents(i, old, new) ==
  Only(new.known /\ ~old.known, CallEvent("callStart", i, TRUE))
    \o Only(new.arguments # old.arguments,
            CallEvent("callDelta", i, new.known))

\* The id and name of an entry may come later, or never; the
\* server numbers calls in the order of their first entry.
CallDelta ==
  /\ OpenRouter
  /\ \E i \in 1..(Count + 1), named \in BOOLEAN, n \in 0..1 :
       LET old == IF i <= Count THEN tools[i]
                  ELSE [known |-> FALSE, arguments |-> 0]
           new == Merged(old, named, n)
       IN  /\ i <= MaxItems /\ new # old /\ new.arguments <= Fragments
           /\ tools' = IF i <= Count THEN [tools EXCEPT ![i] = new]
                       ELSE Append(tools, new)
           /\ pending' = MergedEvents(i, old, new)
  /\ UNCHANGED <<provider, driver, stage, attempt, server, block, stopSeen,
                 observed, turn, shown, aborted, outcome>>

\* finish_reason: "tool_calls" when there are some, else "stop"; but some
\* servers say "stop" after calls as well.
FinishReason ==
  /\ OpenRouter
  /\ \E s \in StopReasons :
       /\ s \in {"stop", "toolUse"} =>
            \A i \in DOMAIN tools : tools[i].arguments = Fragments
       /\ s = "toolUse" => tools # <<>>
       /\ stopSeen' = s
  /\ item' = "ended"
  /\ UNCHANGED <<provider, driver, stage, attempt, items, sent, block, tools,
                 pending, observed, turn, shown, aborted, outcome>>

-----------------------------------------------------------------------------
(* The stream closes: as it should, or cut off.                            *)

\* saw_tool_call: a codex call was ended; any_tool_call: one was started.
SawToolCall ==
  \E i \in DOMAIN tools :
    /\ tools[i].known
    /\ provider = "codex" => (i < Count \/ item # "call")
                             /\ tools[i].arguments = Fragments

ReportedStop == stopSeen
FinalStop ==
  IF SawToolCall /\ stopSeen = "stop" THEN "toolUse" ELSE stopSeen

\* flush_tool_calls: arguments that do not parse become {}.
Flushed ==
  IF provider = "codex" THEN <<>>
  ELSE FlattenSeq([i \in DOMAIN tools |->
         Only(tools[i].known, CallEnd(i, tools[i].arguments = Fragments))])

StreamCloses ==
  /\ Reading
  /\ stage' = "closed"
  /\ pending' = Append(Flushed, Done(FinalStop))
  /\ UNCHANGED <<provider, driver, attempt, server, parser, observed, turn,
                 shown, aborted, outcome>>

-----------------------------------------------------------------------------
(* StreamAssembler, the agent's own view.                                  *)

Held(known) == IF known THEN "open" ELSE "unknown"

Observe(e) ==
  observed' =
    IF driver = "core" \/ e.kind \notin CallKinds THEN observed
    ELSE [observed EXCEPT ![e.index] =
            CASE e.kind = "callStart" -> Held(e.known)
              [] e.kind = "callEnd" -> "ended"
              [] e.kind = "callDelta" /\ @ \in {"none", "unknown"} ->
                   Held(e.known)
              [] OTHER -> @]

OnlyUnnamed == \E i \in Indices : observed[i] = "unknown"
InvalidCalls == \E i \in Indices : observed[i] \in {"unknown", "open"}

-----------------------------------------------------------------------------
(* The kernel's ModelTurn.                                                 *)

Block(k, tokens) ==
  [of |-> k, tokens |-> tokens, index |-> 0, whole |-> TRUE]
CallBlock(i, whole) ==
  [of |-> "call", tokens |-> <<>>, index |-> i, whole |-> whole]

Buffered(k) == Only(buffer[k] # <<>>, Block(k, buffer[k]))
Flush == Buffered("thinking") \o Buffered("text")

FlushedTurnKeepingText ==
  content' = content \o Flush /\ buffer' = [buffer EXCEPT !["thinking"] = <<>>]
FlushTurn == content' = content \o Flush /\ buffer' = Bare

\* ToolCallAssembler.start: the index has no entry yet.
IsNew(e) == calls[e.index] = "none"

Push(e) ==
  CASE e.kind = "delta" ->
         /\ buffer' = [buffer EXCEPT ![e.of] = @ \o e.tokens]
         /\ UNCHANGED <<content, calls, turnStop>>
    [] e.kind = "end" ->
         /\ buffer' = [buffer EXCEPT ![e.of] = e.tokens]
         /\ UNCHANGED <<content, calls, turnStop>>
    [] e.kind \in {"callStart", "callDelta"} ->
         /\ IF e.kind = "callStart" \/ IsNew(e)
            THEN FlushTurn ELSE UNCHANGED <<content, buffer>>
         /\ calls' = [calls EXCEPT ![e.index] = IF IsNew(e) THEN "open" ELSE @]
         /\ UNCHANGED turnStop
    [] e.kind = "callEnd" ->
         /\ calls' = [calls EXCEPT ![e.index] =
                        IF e.whole THEN "whole" ELSE "empty"]
         /\ content' = Append(content, CallBlock(e.index, e.whole))
         /\ UNCHANGED <<buffer, turnStop>>
    [] OTHER ->
         /\ turnStop' = e.stop
         /\ UNCHANGED <<content, buffer, calls>>

\* The CoreEvents the push adds.
Announced(e) ==
  CASE e.kind = "delta" -> <<e>>
    [] e.kind = "callStart" -> Only(IsNew(e), e)
    [] e.kind = "callDelta" ->
         Only(IsNew(e), CallEvent("callStart", e.index, e.known)) \o <<e>>
    [] e.kind = "callEnd" -> <<e>>
    [] OTHER -> <<>>

\* finish_all, in the order of the indices.
FinishedCalls == {i \in Indices : calls[i] \in {"whole", "empty"}}
Assembled ==
  FlattenSeq([i \in Indices |->
    Only(i \in FinishedCalls, CallBlock(i, calls[i] = "whole"))])
AllFinished == \A i \in Indices : calls[i] # "open"

\* ModelTurn.cancel keeps what has arrived and hands over no call.
CancelTurn ==
  /\ FlushTurn
  /\ result' = "cancelled" /\ handed' = <<>>
  /\ UNCHANGED <<calls, turnStop>>

FailTurn(how) ==
  /\ result' = how /\ handed' = <<>>
  /\ UNCHANGED turn

-----------------------------------------------------------------------------
(* run_model_turn and runProviderTurn.                                     *)

Event == Head(pending)
Running == result = "none" /\ stage \in {"streaming", "closed"}

\* The agent looks at the signal before it pushes an event, and at the calls
\* before it pushes done.
Accepts ==
  \/ driver = "core"
  \/ /\ ~aborted
     /\ Event.kind = "done" => ~InvalidCalls

TakeEvent ==
  /\ Running /\ pending # <<>> /\ Accepts
  /\ Push(Event)
  /\ shown' = shown \o Announced(Event)
  /\ Observe(Event)
  /\ pending' = Tail(pending)
  /\ stage' = IF Event.kind = "done" THEN "finishing" ELSE stage
  /\ UNCHANGED <<provider, driver, attempt, server, parser, aborted, outcome>>

\* The cancellation wins against a send: the turn has the event, and the
\* consumer what was sent of it.
PushInterrupted ==
  /\ Running /\ pending # <<>> /\ Accepts
  /\ \E n \in 0..(Len(Announced(Event)) - 1) :
       shown' = shown \o SubSeq(Announced(Event), 1, n)
  /\ aborted' = TRUE
  /\ Push(Event)
  /\ Observe(Event)
  /\ pending' = Tail(pending) /\ stage' = "interrupted"
  /\ UNCHANGED <<provider, driver, attempt, server, parser, outcome>>

CancelInterrupted ==
  /\ stage = "interrupted" /\ result = "none"
  /\ CancelTurn
  /\ stage' = "over"
  /\ UNCHANGED <<provider, driver, attempt, server, parser, pending, observed,
                 shown, aborted>>

\* The core's select!; the agent's look at the signal, or the body of the
\* response, which rejects when the signal fires.
InterruptAtEvents ==
  /\ Running /\ aborted /\ pending # <<>>
  /\ CancelTurn
  /\ stage' = "over"
  /\ UNCHANGED <<provider, driver, attempt, server, parser, pending, observed,
                 shown, aborted>>
Interrupt ==
  /\ Running /\ aborted
  /\ CancelTurn
  /\ stage' = "over"
  /\ UNCHANGED <<provider, driver, attempt, server, parser, pending, observed,
                 shown, aborted>>

\* Done with a call that is not complete: the agent cancels the turn.
RefuseReply ==
  /\ Running /\ pending # <<>> /\ driver = "agent" /\ ~aborted
  /\ Event.kind = "done" /\ InvalidCalls
  /\ CancelTurn
  /\ stage' = "over"
  /\ UNCHANGED <<provider, driver, attempt, server, parser, pending, observed,
                 shown, aborted>>

\* The stream throws, or the request does for the last time: the core fails;
\* so does the agent, unless it was aborted or holds an incomplete call.
HandleError ==
  /\ IF driver = "agent" /\ (aborted \/ InvalidCalls)
     THEN CancelTurn ELSE FailTurn("failed")
  /\ stage' = "over"
  /\ UNCHANGED <<provider, driver, attempt, server, parser, pending, observed,
                 shown, aborted>>

\* An error event, a broken connection, a frame that does not parse.
StreamBreaks == Reading /\ result = "none" /\ HandleError

\* Any attempt may meet an error that is not worth a retry, but an aborted
\* fetch is retried like one that is.
RequestFails ==
  /\ stage = "request"
  /\ attempt = MaxRetries \/ driver = "core" \/ ~aborted
  /\ HandleError

\* The core's last send may be interrupted, after the turn is finished.
FinishTurn ==
  /\ stage = "finishing"
  /\ IF ~AllFinished THEN FailTurn("unassembled")
     ELSE /\ FlushTurn
          /\ \/ result' = "completed" /\ handed' = Assembled
             \/ /\ driver = "core" /\ aborted
                /\ result' = "cancelled" /\ handed' = <<>>
          /\ UNCHANGED <<calls, turnStop>>
  /\ stage' = "over"
  /\ UNCHANGED <<provider, driver, attempt, server, parser, pending, observed,
                 shown, aborted>>

Abort ==
  /\ ~aborted /\ result = "none"
  /\ aborted' = TRUE
  /\ UNCHANGED <<provider, driver, stage, attempt, server, parser, pending,
                 observed, turn, shown, outcome>>

-----------------------------------------------------------------------------

Init ==
  /\ provider \in {"codex", "openrouter"} /\ driver \in {"core", "agent"}
  /\ stage = "request" /\ attempt = 0
  /\ item = "none" /\ items = 0 /\ sent = 0
  /\ block = Bare /\ tools = <<>> /\ stopSeen = "stop"
  /\ pending = <<>>
  /\ observed = [i \in Indices |-> "none"]
  /\ content = <<>> /\ buffer = Bare
  /\ calls = [i \in Indices |-> "none"] /\ turnStop = "stop"
  /\ shown = <<>> /\ aborted = FALSE
  /\ result = "none" /\ handed = <<>>

ServerStep ==
  \/ Answered
  \/ ItemAdded \/ ItemDelta \/ ArgumentsArrive \/ ItemDone \/ Completed
  \/ ContentDelta \/ CallDelta \/ FinishReason
  \/ StreamCloses \/ StreamBreaks
DriverStep ==
  \/ TakeEvent \/ PushInterrupted \/ CancelInterrupted \/ Interrupt
  \/ RefuseReply \/ FinishTurn
RequestStep == Retry \/ RequestFails
Next == ServerStep \/ DriverStep \/ RequestStep \/ Abort

Spec == Init /\ [][Next]_vars

\* The driver's task is run.  An aborted fetch rejects at once; otherwise
\* nothing makes a server answer, or a stream end.
FairSpec ==
  /\ Spec
  /\ WF_vars(DriverStep)
  /\ WF_vars(driver = "agent" /\ aborted /\ RequestStep)

-----------------------------------------------------------------------------
(* The request that follows: the reply and the results of its calls, as    *)
(* they are told to the provider.  The system prompt, the tools and the    *)
(* parameters do not depend on the reply; a reply holds no image.          *)

Item(what, tokens, index) ==
  [what |-> what, tokens |-> tokens, index |-> index]
OfSort(what, list) ==
  FlattenSeq([i \in DOMAIN list |-> Only(list[i].what = what, list[i])])
Tokens(list) == FlattenSeq([i \in DOMAIN list |-> list[i].tokens])

\* Thinking is not sent back.
ConvertBlock(b) == CASE b.of = "text" -> <<Item("text", b.tokens, 0)>>
                     [] b.of = "call" -> <<Item("call", <<>>, b.index)>>
                     [] OTHER -> <<>>
Items(blocks) ==
  FlattenSeq([i \in DOMAIN blocks |-> ConvertBlock(blocks[i])])

\* convert_message of codex: an item for each block, in order.
ConvertMessage(blocks) == Items(blocks)

\* convert_assistant of openrouter: one message, whose text is joined and
\* comes before its calls wherever it was in the reply.
ConvertAssistant(blocks) ==
  <<Item("text", Tokens(OfSort("text", Items(blocks))), 0)>>
    \o OfSort("call", Items(blocks))

\* The messages of the session, each lowered: the tool phase answers the
\* calls it was handed one by one.
ToModelMessages ==
  [reply |-> content,
   results |-> [j \in DOMAIN handed |-> Item("output", <<>>, handed[j].index)]]

CodexRequest(m) == ConvertMessage(m.reply) \o m.results
OpenRouterRequest(m) == ConvertAssistant(m.reply) \o m.results

Request == IF provider = "codex" THEN CodexRequest(ToModelMessages)
           ELSE OpenRouterRequest(ToModelMessages)

-----------------------------------------------------------------------------
(* Properties.                                                             *)

ShownOf(i) ==
  FlattenSeq([j \in DOMAIN shown |->
    Only(shown[j].kind \in CallKinds /\ shown[j].index = i, shown[j])])

CallsOf(blocks) ==
  FlattenSeq([i \in DOMAIN blocks |->
    Only(blocks[i].of = "call", blocks[i])])

IndicesOf(what) ==
  LET list == OfSort(what, Request)
  IN  [i \in DOMAIN list |-> list[i].index]

TextOf(k, blocks) ==
  FlattenSeq([i \in DOMAIN blocks |->
    IF blocks[i].of = k THEN blocks[i].tokens ELSE <<>>])
TokensOf(k) == TextOf(k, content)
ShownTokens(k) ==
  FlattenSeq([j \in DOMAIN shown |->
    IF shown[j].kind = "delta" /\ shown[j].of = k
    THEN shown[j].tokens ELSE <<>>])
Settled == result \in {"completed", "cancelled"}

\* The tool phase is given exactly the calls of the reply that is committed,
\* in the same order and once each; and the reply says toolUse if and only
\* if there are some, when the server did not cut it short: else the loop
\* rejects it (classify_stop_reason).  So the next request of a loop that
\* goes on repeats every call it sends an output for and sends an output for
\* every call it repeats, in the same order (a provider refuses it otherwise),
\* and it has all of the text, however the provider wants the reply cut up.
CallsAreCommitted ==
  result = "completed" =>
    /\ CallsOf(content) = handed
    /\ \A i, j \in DOMAIN handed : handed[i].index = handed[j].index => i = j
    /\ turnStop \notin {"length", "error"} =>
         /\ turnStop = "toolUse" <=> handed # <<>>
         /\ IndicesOf("call") = IndicesOf("output")
         /\ Tokens(OfSort("text", Request)) = TokensOf("text")

\* Whatever the consumer hears of a call begins with its one Start, also
\* when its arguments came before its name, and nothing follows its End.  A
\* reply that is committed holds the text in the order it arrived and nothing
\* twice; of an openrouter reply nothing the consumer was shown is missing,
\* however text and calls were mixed and wherever it was stopped.
ShownInOrder ==
  /\ \A i \in Indices :
       LET es == ShownOf(i)
       IN  /\ es # <<>> => es[1].kind = "callStart"
           /\ \A j \in DOMAIN es :
                /\ es[j].kind = "callStart" => j = 1
                /\ es[j].kind = "callEnd" => j = Len(es)
  /\ Settled =>
       \A k \in Kinds :
         /\ \A i, j \in DOMAIN TokensOf(k) :
              i < j => TokensOf(k)[i] < TokensOf(k)[j]
         /\ provider = "openrouter" => IsPrefix(ShownTokens(k), TokensOf(k))

\* The agent's assembler and the kernel's agree: when the agent lets a reply
\* end, the kernel does not find a call unfinished.
AssemblersAgree == driver = "agent" => result # "unassembled"

\* An abort ends a reply although the server is silent: at once when the
\* stream is read, and in the agent also while the request is retried.
Abortable == aborted /\ (stage # "request" \/ driver = "agent")
AbortSettles == Abortable ~> result # "none"
=============================================================================
