--------------------------- MODULE ProviderStream ---------------------------
(***************************************************************************)
(* One streamed response, from bytes to normalized events: decode_stream   *)
(* and the native stream state of the Gemini (Interactions and             *)
(* generateContent), OpenAI-compatible and Codex adapters.                 *)
(*                                                                         *)
(* The provider sends messages of its dialect, framed in any of the ways   *)
(* server-sent events allow, and its bytes arrive one by one (a chunk is   *)
(* its bytes: only when one of them exceeds the frame limit are the frames *)
(* before it in that chunk dropped as well); the provider may break off    *)
(* anywhere, and the user may cancel at any moment.  Text and tool         *)
(* arguments are sequences of letters; arguments are complete when they    *)
(* end with "end", and <<"end">> is the empty object.                      *)
(***************************************************************************)
EXTENDS SseDecoder

CONSTANTS
    Streams,        \* <<dialect, framing>>: the dialects are "interactions",
                    \* "generate", "openai", "codex"; a framing says how lines end,
                    \* how many a message has and whether heartbeats precede it
    Indexes,        \* indexes of steps and tool calls
    CallIds,        \* provider call identities
    Texts,          \* text fragments
    Fragments,      \* fragments of tool arguments
    Arguments,      \* complete tool arguments
    Secret,         \* the credential, as letters
    MaxSteps,       \* MAX_INTERACTION_STEPS_PER_TURN, MAX_TOOL_CALLS_PER_TURN
    MaxArguments,   \* MAX_TOOL_ARGUMENT_BYTES_PER_TURN, MAX_PENDING_TOOL_BYTES
    MaxFrame,       \* MAX_SSE_FRAME_BYTES
    MaxEvents,      \* MAX_STREAM_EVENTS of the Codex adapter
    MaxMessages     \* bound: messages of the provider

ASSUME StreamAssumption ==
    /\ Len(Secret) > 0 /\ Indexes \subseteq Nat
    /\ {MaxSteps, MaxArguments, MaxFrame, MaxEvents, MaxMessages} \subseteq Nat

VARIABLES
    dialect, framing,
    todo,       \* bytes of the current message that have not arrived
    decoder,    \* the SSE decoder
    state,      \* the native stream state
    phase,      \* "open" until the stream has yielded its last item
    output,     \* the items yielded
    sent,       \* observer: messages of the provider
    handled     \* observer: messages handed to the native state

vars == <<dialect, framing, todo, decoder, state, phase, output, sent, handled>>

NoCall == [id |-> "none", partial |-> <<>>, complete |-> <<>>]
NewState ==
    [outputs |-> {}, calls |-> [i \in Indexes |-> NoCall], pending |-> {}, emitted |-> {},
     bytes |-> 0, completion |-> "none", textTail |-> <<>>, fragmentTail |-> <<>>,
     argumentTail |-> <<>>]

Init ==
    /\ \E s \in Streams : dialect = s[1] /\ framing = s[2]
    /\ todo = <<>> /\ decoder = NewDecoder /\ state = NewState
    /\ phase = "open" /\ output = <<[kind |-> "started"]>>
    /\ sent = <<>> /\ handled = <<>>

-----------------------------------------------------------------------------
(* Results of handling one message. *)

Ok(s, events) == [state |-> s, events |-> events, failed |-> FALSE]
Fail(s) == [state |-> s, events |-> <<>>, failed |-> TRUE]
Completed(reason) == [kind |-> "completed", reason |-> reason]

\* normalized_text_event; the Codex adapter does not redact, it only scans.
TextEvent(s, text) ==
    LET shown == IF dialect = "codex" THEN text ELSE Redact(text, Secret)
        scan == Observe(s.textTail, shown, Secret)
    IN  IF scan.found THEN Fail(s)
        ELSE Ok([s EXCEPT !.textTail = scan.tail], <<[kind |-> "text", text |-> shown]>>)

Parses(arguments) ==
    arguments # <<>> /\ \A i \in 1..Len(arguments) : (arguments[i] = "end") = (i = Len(arguments))

EmptyObject == <<"end">>

\* The scan of complete arguments and the event of one call.
CallEvent(s, i, arguments) ==
    LET scan == ObserveStructured(s.argumentTail, arguments, Secret)
    IN  IF ~Parses(arguments) \/ scan.found \/ s.calls[i].id = "none" THEN Fail(s)
        ELSE Ok([s EXCEPT !.argumentTail = scan.tail, !.pending = @ \ {i}, !.emitted = @ \cup {i}],
                <<[kind |-> "call", index |-> i, arguments |-> arguments]>>)

\* One step after another, until one fails.
Then(result, Step(_, _), i) ==
    LET next == Step(result.state, i)
    IN  IF result.failed THEN result
        ELSE IF next.failed THEN next ELSE Ok(next.state, result.events \o next.events)

InOrder(indexes) == SetToSortSeq(indexes, LAMBDA i, j : i < j)

-----------------------------------------------------------------------------
(* Gemini Interactions. *)

\* set_complete_arguments: the same again is accepted, anything else is not.
SetComplete(s, i, arguments) ==
    LET call == s.calls[i]
        counted == call.complete = <<>> /\ call.partial = <<>>
        total == s.bytes + (IF counted THEN Len(arguments) ELSE 0)
    IN  IF \/ i \notin s.pending
           \/ call.complete # <<>> /\ call.complete # arguments
           \/ total > MaxArguments
        THEN Fail(s)
        ELSE Ok([s EXCEPT !.calls[i].complete = arguments, !.bytes = total], <<>>)

StartFunctionCall(s, i, id, arguments) ==
    LET started == [s EXCEPT !.pending = @ \cup {i}, !.calls[i].id = id]
    IN  CASE i \in s.emitted -> Ok(s, <<>>)
          [] i \notin s.emitted /\
             \/ i \notin s.pending /\ Cardinality(s.pending) + Cardinality(s.emitted) >= MaxSteps
             \/ s.calls[i].id \notin {"none", id} -> Fail(s)
          [] OTHER -> IF arguments \in {<<>>, EmptyObject} THEN Ok(started, <<>>)
                      ELSE SetComplete(started, i, arguments)

AppendFunctionArguments(s, i, fragment) ==
    LET scan == Observe(s.fragmentTail, fragment, Secret)
    IN  IF \/ i \in s.emitted \/ i \notin s.pending
           \/ s.bytes + Len(fragment) > MaxArguments \/ scan.found
        THEN Fail(s)
        ELSE Ok([s EXCEPT !.calls[i].partial = @ \o fragment, !.bytes = @ + Len(fragment),
                          !.fragmentTail = scan.tail], <<>>)

\* Complete arguments are taken whatever the fragments said.
ChooseComplete(call) ==
    IF call.complete # <<>> THEN call.complete
    ELSE IF call.partial = <<>> THEN EmptyObject ELSE call.partial

\* Fragments win; complete arguments that are not empty have to agree with
\* them.  <<>> stands for a contradiction.
ChooseArguments(call) ==
    CASE call.partial = <<>> -> IF call.complete = <<>> THEN EmptyObject ELSE call.complete
      [] call.partial # <<>> /\ call.complete \notin {<<>>, EmptyObject, call.partial} -> <<>>
      [] OTHER -> call.partial

CompleteFunctionCall(s, i) == CallEvent(s, i, ChooseArguments(s.calls[i]))

CompletePendingFunctionCalls(s) ==
    FoldLeft(LAMBDA result, i : Then(result, CompleteFunctionCall, i), Ok(s, <<>>), InOrder(s.pending))

HandleInteractions(s, m) ==
    CASE m.type = "output_start" ->
            IF m.index \notin s.outputs /\ Cardinality(s.outputs) >= MaxSteps THEN Fail(s)
            ELSE Ok([s EXCEPT !.outputs = @ \cup {m.index}], <<>>)
      [] m.type = "text" -> IF m.index \in s.outputs THEN TextEvent(s, m.text) ELSE Ok(s, <<>>)
      [] m.type = "start" -> StartFunctionCall(s, m.index, m.id, m.arguments)
      [] m.type = "fragment" -> AppendFunctionArguments(s, m.index, m.arguments)
      [] m.type = "arguments" ->
            IF m.index \in s.emitted THEN Fail(s) ELSE SetComplete(s, m.index, m.arguments)
      [] m.type = "stop" ->
            IF m.index \notin s.pending THEN Ok(s, <<>>)
            ELSE LET last == IF m.arguments = <<>> THEN Ok(s, <<>>)
                             ELSE SetComplete(s, m.index, m.arguments)
                 IN  Then(last, CompleteFunctionCall, m.index)
      [] m.type = "completed" ->
            LET all == CompletePendingFunctionCalls(s)
            IN  IF all.failed THEN all
                ELSE Ok(all.state, Append(all.events,
                        Completed(IF all.state.emitted # {} THEN "tool_calls" ELSE "stop")))
      [] m.type = "cancelled" -> Ok(s, <<[kind |-> "cancelled"]>>)
      [] m.type = "failed" -> Fail(s)

-----------------------------------------------------------------------------
(* Gemini generateContent and Codex. *)

HandleText(s, m) ==
    CASE m.type = "text" -> TextEvent(s, m.text)
      [] m.type = "completed" -> Ok(s, <<Completed(m.reason)>>)
      [] m.type = "failed" -> Fail(s)

-----------------------------------------------------------------------------
(* OpenAI-compatible. *)

AppendToolCall(s, i, id, fragment) ==
    LET call == s.calls[i]
    IN  IF \/ i \notin s.pending \cup s.emitted
              /\ Cardinality(s.pending \cup s.emitted) >= MaxSteps
           \/ id # "none" /\ call.id \notin {"none", id}
           \/ s.bytes + Len(fragment) > MaxArguments
        THEN Fail(s)
        ELSE Ok([s EXCEPT !.calls[i] = [@ EXCEPT !.id = IF id = "none" THEN @ ELSE id,
                                                 !.partial = @ \o fragment],
                          !.pending = IF i \in s.emitted THEN @ ELSE @ \cup {i},
                          !.bytes = @ + Len(fragment)], <<>>)

CompleteToolCalls(s) ==
    IF s.pending = {} THEN Fail(s)
    ELSE FoldLeft(LAMBDA result, i :
                    Then(result, LAMBDA t, j : CallEvent(t, j, t.calls[j].partial), i),
                  Ok(s, <<>>), InOrder(s.pending))

\* finish_reason: the calls are emitted once, with the first reason that says so.
FinishReason(s, reason) ==
    LET calls == IF reason = "tool_calls" /\ s.emitted = {} THEN CompleteToolCalls(s) ELSE Ok(s, <<>>)
    IN  IF calls.failed THEN calls
        ELSE Ok([calls.state EXCEPT !.completion = reason], calls.events)

HandleChoices(s, m) ==
    CASE m.type = "text" -> TextEvent(s, m.text)
      [] m.type = "call" -> AppendToolCall(s, m.index, m.id, m.arguments)
      [] m.type = "finish" -> FinishReason(s, m.reason)
      [] m.type = "done" ->
            IF s.completion = "none" THEN Fail(s)
            ELSE Ok([s EXCEPT !.completion = "none"], <<Completed(s.completion)>>)
      [] m.type = "failed" -> Fail(s)

-----------------------------------------------------------------------------
(* What the provider may say. *)

Messages ==
    [type : {"failed"}] \cup
    CASE dialect = "interactions" ->
            [type : {"output_start"}, index : Indexes]
            \cup [type : {"text"}, index : Indexes, text : Texts]
            \cup [type : {"start"}, index : Indexes, id : CallIds, arguments : Arguments \cup {<<>>}]
            \cup [type : {"fragment"}, index : Indexes, arguments : Fragments]
            \cup [type : {"arguments"}, index : Indexes, arguments : Arguments]
            \cup [type : {"stop"}, index : Indexes, arguments : Arguments \cup {<<>>}]
            \cup [type : {"completed", "cancelled"}]
      [] dialect = "generate" ->
            [type : {"text"}, text : Texts] \cup [type : {"completed"}, reason : {"stop", "safety"}]
      [] dialect = "openai" ->
            [type : {"text"}, text : Texts]
            \cup [type : {"call"}, index : Indexes, id : CallIds \cup {"none"},
                  arguments : Fragments \cup {<<>>}]
            \cup [type : {"finish"}, reason : {"stop", "tool_calls"}]
            \cup [type : {"done"}]
      [] dialect = "codex" ->
            [type : {"text"}, text : Texts] \cup [type : {"completed"}, reason : {"stop", "length"}]

Byte(kind) == [kind |-> kind]
LineEnd == [CRLF |-> <<Byte("CR"), Byte("LF")>>, CR |-> <<Byte("CR")>>, LF |-> <<Byte("LF")>>]

\* A message on one or several data lines and a blank one, after a heartbeat: a
\* comment that is an event of its own.
Framed(m) ==
    LET end == LineEnd[framing.ends]
        line(k) == <<[kind |-> "data", message |-> m, line |-> k]>> \o end
        heartbeat == IF framing.heartbeat THEN <<Byte("comment")>> \o end \o end ELSE <<>>
    IN  heartbeat \o FlattenSeq([k \in 1..framing.lines |-> line(k)]) \o end

\* The message of a frame, if all of its lines are there.
Garbage == [type |-> "garbage"]
MessageOf(frame) ==
    LET m == frame[1].message
    IN  IF frame = [k \in 1..framing.lines |-> [kind |-> "data", message |-> m, line |-> k]]
        THEN m ELSE Garbage

Handle(s, m) ==
    CASE m = Garbage -> Fail(s)
      [] m # Garbage /\ dialect = "interactions" -> HandleInteractions(s, m)
      [] m # Garbage /\ dialect = "openai" -> HandleChoices(s, m)
      [] OTHER -> HandleText(s, m)

-----------------------------------------------------------------------------
(* decode_stream *)

ProviderSends(m) ==
    /\ phase = "open" /\ todo = <<>> /\ Len(sent) < MaxMessages
    /\ sent' = Append(sent, m) /\ todo' = Framed(m)
    /\ UNCHANGED <<dialect, framing, decoder, state, phase, output, handled>>

Terminal(event) == event.kind \in {"completed", "cancelled"}
Failure == [kind |-> "failed"]

\* One byte; a complete frame is handled before the next is read.  Nothing
\* follows a terminal event.
ByteArrives ==
    LET pushed == Push(decoder, Head(todo), MaxFrame)
        m == MessageOf(pushed.frames[1])
        result == Handle(state, m)
        over == dialect = "codex" /\ Len(handled) >= MaxEvents
    IN  /\ phase = "open" /\ todo # <<>>
        /\ todo' = Tail(todo) /\ decoder' = pushed.decoder
        /\ CASE pushed.failed \/ (pushed.frames # <<>> /\ over) ->
                   /\ output' = Append(output, Failure) /\ phase' = "closed"
                   /\ UNCHANGED <<state, handled>>
             [] ~pushed.failed /\ pushed.frames = <<>> ->
                   UNCHANGED <<state, handled, output, phase>>
             [] OTHER ->
                   /\ handled' = Append(handled, m) /\ state' = result.state
                   /\ output' = output \o (IF result.failed THEN <<Failure>> ELSE result.events)
                   /\ phase' = IF result.failed \/ \E e \in ToSet(result.events) : Terminal(e)
                               THEN "closed" ELSE "open"
        /\ UNCHANGED <<dialect, framing, sent>>

\* The stream yields its last item and drops the response.
EndWith(item) ==
    /\ phase = "open" /\ phase' = "closed" /\ output' = Append(output, item)
    /\ todo' = <<>> /\ decoder' = NewDecoder
    /\ UNCHANGED <<dialect, framing, state, sent, handled>>

\* The connection ends or breaks, inside a frame or between two: never a
\* completion, which would have ended the stream before.
ConnectionEnds == EndWith(Failure)

Cancel == EndWith([kind |-> "cancelled"])

Next == (\E m \in Messages : ProviderSends(m)) \/ ByteArrives \/ ConnectionEnds \/ Cancel

Spec == Init /\ [][Next]_vars

-----------------------------------------------------------------------------
(* Properties. *)

\* However the provider ends and splits its lines, the native state is handed
\* exactly the messages that were sent, in order and once each (push, finish).
MessagesArriveOnce ==
    /\ IsPrefix(handled, sent)
    /\ phase = "open" /\ todo = <<>> => handled = sent

TextsShown == SelectSeq(output, LAMBDA e : e.kind = "text")
CallsMade == SelectSeq(output, LAMBDA e : e.kind = "call")
ShownText == FoldLeft(LAMBDA shown, e : shown \o e.text, <<>>, TextsShown)

\* The credential never leaves the adapter: not in the text put together from
\* fragments, and not in the arguments of a call, in whatever pieces and order
\* the provider echoes it (redact, observe_text, observe_structured).
CredentialStaysInside ==
    /\ ~Holds(ShownText, Secret)
    /\ \A e \in ToSet(CallsMade) : ~MayContain(e.arguments, Secret)

\* The arguments the messages give for a call, in fragments and at once
\* (once its step has started: before, they belong to no call).
SentFragments(messages, i) ==
    FoldLeft(LAMBDA text, m : IF m.type \in {"fragment", "call"} /\ m.index = i
                              THEN text \o m.arguments ELSE text, <<>>, messages)
SentAtOnce(messages, i) ==
    LET says(k, types) == messages[k].type \in types /\ messages[k].index = i
    IN  {messages[k].arguments : k \in {k \in 1..Len(messages) :
            /\ says(k, {"start", "arguments", "stop"})
            /\ \E first \in 1..k : says(first, {"start"})}} \ {<<>>, EmptyObject}

\* A call is passed on once, and says all that the provider has said of it:
\* every fragment, and nothing else than the arguments given at once, if any
\* were; a turn ends for its tool calls only after some were passed on.
CallsAreAsSent ==
    [][/\ \A e \in ToSet(CallsMade') \ ToSet(CallsMade) :
             /\ \A earlier \in ToSet(CallsMade) : earlier.index # e.index
             /\ SentFragments(handled', e.index) \in {<<>>, e.arguments}
             /\ SentAtOnce(handled', e.index) \subseteq {e.arguments}
       /\ Completed("tool_calls") \in ToSet(output') => CallsMade' # <<>>]_vars
=============================================================================
