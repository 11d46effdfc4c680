------------------------------ MODULE ToolLoop ------------------------------
(***************************************************************************)
(* A conversation with tools through the gateway.  The client speaks       *)
(* OpenAI's dialect (over HTTP, server/app.py) or Anthropic's (as a        *)
(* library); each request is answered by a model of either family, as      *)
(* routes and fallback have it: openai_provider.py and                     *)
(* anthropic_provider.py translate what they send and what they get.  The  *)
(* client appends the reply as it got it, runs the tools and asks again.   *)
(*                                                                         *)
(* A reply is delivered whole or as a stream, which brings the fragments   *)
(* of its calls in any order.  A target without a stream method is not     *)
(* modelled here: StreamRunner._chunks_of cuts its reply into chunks that  *)
(* carry no calls.                                                         *)
(***************************************************************************)
EXTENDS ToolTrans

CONSTANTS Served,        \* pairs of a dialect and a family that answers it
          MaxRequests,   \* bound: requests of one conversation
          MaxCalls       \* bound: calls in one reply

ASSUME LoopAssumption ==
  /\ Served \subseteq {"openai", "anthropic"} \X {"openai", "anthropic"}
  /\ MaxRequests \in Nat /\ MaxCalls \in Nat

VARIABLES dialect,    \* of the client
          messages,   \* the conversation as the client keeps it
          said,       \* history: what was truly said in it
          at,         \* whose turn it is
          request,    \* the tool choice made, and the family that answers
          reply,      \* what the model answers: text and calls
          frags,      \* the provider's tool_frags: calls by index
          arrived,    \* per call of the reply: how many parts have arrived
          calls,      \* calls in the conversation, which number them
          requests    \* requests answered

vars ==
  <<dialect, messages, said, at, request, reply, frags, arrived, calls, requests>>

NoReply == [text |-> <<>>, calls |-> <<>>]
NoRequest == [family |-> "none", choice |-> Choice("str", "auto")]

(* A call comes in three parts: its id and two pieces of its arguments.    *)
Parts == 3

TypeOK ==
  /\ dialect \in {"openai", "anthropic"}
  /\ at \in {"client", "ready", "sent", "streaming"}
  /\ at = "sent" => <<dialect, request.family>> \in Served
  /\ at = "streaming" => DOMAIN frags = {i \in DOMAIN arrived : arrived[i] > 0}
  /\ \A i \in DOMAIN reply.calls : reply.calls[i].id \in 1..calls
  /\ \A i \in DOMAIN messages :
       /\ messages[i].form = "list" <=> messages[i].blocks # <<>>
       /\ dialect = "anthropic" =>
            messages[i].calls = <<>> /\ messages[i].id = NoId
  /\ requests \in 0..MaxRequests

Init ==
  /\ dialect \in {pair[1] : pair \in Served}
  /\ messages = <<>> /\ said = <<>>
  /\ at = "client"
  /\ request = NoRequest /\ reply = NoReply
  /\ frags = <<>> /\ arrived = <<>>
  /\ calls = 0 /\ requests = 0
----------------------------------------------------------------------------
(* to_normalized: all system messages become the system prompt. *)
to_normalized(all) == Where(all, LAMBDA m : m.role # "system")
Normalized == to_normalized(messages)
SystemPrompt ==
  FlattenSeq(Each(Where(messages, LAMBDA m : m.role = "system"), LAMBDA m : m.text))

(* The messages the provider sends. *)
Translated(family) ==
  IF family = "openai" THEN anthropic_messages_to_openai(Normalized)
  ELSE openai_messages_to_anthropic(Normalized)

(* What its model reads, the system prompt first. *)
Heard(family) ==
  WordItems("system", SystemPrompt) \o
  (IF family = "openai" THEN ReadByOpenAI(Translated(family))
   ELSE ReadByAnthropic(Translated(family)))

ChoiceTold(family, choice) ==
  IF family = "openai" THEN anthropic_tool_choice_to_openai(choice)
  ELSE openai_tool_choice_to_anthropic(choice)
----------------------------------------------------------------------------
(* What a client may write as tool_choice, in either dialect.  OpenAI's    *)
(* protocol has no "any".                                                  *)
ToolChoices ==
  {Choice("str", t) : t \in {"auto", "required", "none", "any"}} \cup
  {Choice("openai", "function")} \cup
  {Choice("anthropic", t) : t \in {"auto", "any", "none", "tool"}}

(* The client adds messages, which say some items, and makes a choice;     *)
(* what the gateway refuses (400) it takes back.                           *)
Speak(more, items) ==
  LET all == messages \o more IN
  /\ at = "client"
  /\ \E c \in ToolChoices :
       IF validate_local_content(to_normalized(all), c)
       THEN /\ messages' = all /\ said' = said \o items
            /\ at' = "ready" /\ request' = [NoRequest EXCEPT !.choice = c]
       ELSE UNCHANGED <<messages, said, at, request>>
  /\ UNCHANGED <<dialect, reply, frags, arrived, calls, requests>>

(* A user message, for OpenAI's dialect perhaps with a system message.     *)
SayText(w) ==
  /\ reply.calls = <<>>
  /\ \/ Speak(<<Saying("user", <<w>>)>>, WordItems("user", <<w>>))
     \/ /\ dialect = "openai"
        /\ Speak(<<Saying("system", <<w>>), Saying("user", <<w>>)>>,
                 WordItems("system", <<w>>) \o WordItems("user", <<w>>))

(* One with a picture, in either protocol's form, or with a sound. *)
ShowPicture(w, url) ==
  /\ reply.calls = <<>>
  /\ \E picture \in {ImageUrl(url)} \cup
         (IF dialect = "anthropic" /\ url \notin Plain THEN {Image(url)} ELSE {}) :
       Speak(<<Listing("user", <<TextBlock(<<w>>), picture>>)>>,
             WordItems("user", <<w>>) \o <<Item("image", NoId, url)>>)

PlaySound ==
  /\ reply.calls = <<>>
  /\ Speak(<<Listing("user", <<Block("input_audio")>>)>>, <<>>)

(* The ids of the calls in an assistant message, as the client finds them. *)
Ids(some) == Each(some, LAMBDA c : c.id)
IdsIn(m) == Ids(IF dialect = "openai" THEN m.calls ELSE OfType(m.blocks, {"tool_use"}))

(* The results of all calls in the last reply, in some order, and perhaps  *)
(* a word of the user's.                                                   *)
AnswerCalls(w) ==
  LET ids == IdsIn(Last(messages))
      Results(order) == Each(order, LAMBDA i : Item("result", i, <<w>>))
      ToolMessage(i) == [Saying("tool", <<w>>) EXCEPT !.id = i] IN
  /\ reply.calls # <<>>
  /\ \E order \in {ids, Reverse(ids)}, more \in {<<>>, <<w>>} :
       Speak(IF dialect = "openai"
             THEN Each(order, ToolMessage) \o
                  (IF more = <<>> THEN <<>> ELSE <<Saying("user", more)>>)
             ELSE <<Listing("user", Each(order, LAMBDA i : ToolResult(i, <<w>>)) \o
                                    NonEmptyText(more))>>,
             Results(order) \o WordItems("user", more))

Send(family) ==
  /\ at = "ready" /\ <<dialect, family>> \in Served /\ requests < MaxRequests
  /\ request' = [request EXCEPT !.family = family]
  /\ at' = "sent"
  /\ requests' = requests + 1
  /\ reply' = NoReply
  /\ UNCHANGED <<dialect, messages, said, frags, arrived, calls>>
----------------------------------------------------------------------------
(* The assistant message the client keeps: to_openai_response and          *)
(* _sse_frames for one dialect, the content blocks for the other.          *)
OpenAIReply(text, tool_calls) ==
  [Message("assistant") EXCEPT
     !.form = IF tool_calls # <<>> /\ text = <<>> THEN "null" ELSE "str",
     !.text = text, !.calls = tool_calls]

(* Faulty: only the text of a whole reply is kept. *)
WholeReplyText(family, text, tool_calls) == Saying("assistant", text)

(* invoke() of either provider gives the reply as Anthropic blocks. *)
WholeReply(family, text, tool_calls) ==
  LET raw == IF family = "openai"
             THEN openai_message_to_anthropic_content(text, tool_calls)
             ELSE NonEmptyText(text) \o
                  Each(tool_calls, LAMBDA c : ToolUse(c.id, c.args)) IN
  IF dialect = "anthropic" THEN Listing("assistant", raw)
  ELSE OpenAIReply(text, _raw_tool_uses_to_openai(raw))

StreamedReply(text, tool_calls) ==
  IF dialect = "openai" THEN OpenAIReply(text, tool_calls)
  ELSE Listing("assistant", NonEmptyText(text) \o
         Each(tool_calls, LAMBDA c : ToolUse(c.id, Parsed(c.args))))

(* The model's replies: some text, some calls, perhaps with arguments that *)
(* are no JSON, which Anthropic's protocol has no place for.               *)
Replies ==
  {r \in [text : {<<>>} \cup {<<w>> : w \in Words},
          calls : UNION {[1..n -> [id : (calls + 1)..(calls + n),
                                   args : Args \cup {Broken}]] : n \in 0..MaxCalls}] :
     /\ r.text # <<>> \/ r.calls # <<>>
     /\ \A i \in DOMAIN r.calls :
          /\ r.calls[i].id = calls + i
          /\ request.family = "anthropic" => r.calls[i].args # Broken}

Utter(r) ==
  /\ at = "sent"
  /\ reply' = r
  /\ said' = said \o WordItems("assistant", r.text) \o CallItems(r.calls)
  /\ calls' = calls + Len(r.calls)
  /\ request' = NoRequest
  /\ UNCHANGED <<dialect, requests>>

ReplyWhole ==
  /\ \E r \in Replies :
       /\ Utter(r)
       /\ messages' = Append(messages, WholeReply(request.family, r.text, r.calls))
  /\ at' = "client"
  /\ UNCHANGED <<frags, arrived>>

StartStream ==
  /\ \E r \in Replies : Utter(r) /\ arrived' = Each(r.calls, LAMBDA c : 0)
  /\ at' = "streaming"
  /\ frags' = <<>>
  /\ UNCHANGED messages

NewFrag == [id |-> NoId, args |-> <<>>]

(* Faulty: a part without arguments is skipped. *)
FragmentWithArguments(i, part) ==
  LET f == IF i \in DOMAIN frags THEN frags[i] ELSE NewFrag IN
  IF part = 1 THEN frags
  ELSE [k \in DOMAIN frags \cup {i} |->
          IF k = i THEN [f EXCEPT !.args = Append(@, part - 1)] ELSE frags[k]]

(* A part of call i updates what is there of it, or the first one of it.   *)
Fragment(i, part) ==
  LET f == IF i \in DOMAIN frags THEN frags[i] ELSE NewFrag IN
  [k \in DOMAIN frags \cup {i} |->
     IF k # i THEN frags[k]
     ELSE IF part = 1 THEN [f EXCEPT !.id = reply.calls[i].id]
     ELSE [f EXCEPT !.args = Append(@, part - 1)]]

FragmentArrives(i) ==
  /\ at = "streaming" /\ arrived[i] < Parts
  /\ arrived' = [arrived EXCEPT ![i] = @ + 1]
  /\ frags' = Fragment(i, arrived'[i])
  /\ UNCHANGED <<dialect, messages, said, at, request, reply, calls, requests>>

Sorted(numbers) ==
  CHOOSE s \in [1..Cardinality(numbers) -> numbers] :
    \A i, j \in DOMAIN s : i < j => s[i] < s[j]

(* The done chunk: the calls by index, their arguments put together.       *)
StreamDone ==
  LET Assembled(i) ==
        [id   |-> frags[i].id,
         args |-> IF frags[i].args = <<1, 2>> THEN reply.calls[i].args ELSE Broken]
      tool_calls == Each(Sorted(DOMAIN frags), Assembled) IN
  /\ at = "streaming" /\ \A i \in DOMAIN arrived : arrived[i] = Parts
  /\ messages' = Append(messages, StreamedReply(reply.text, tool_calls))
  /\ at' = "client"
  /\ frags' = <<>> /\ arrived' = <<>>
  /\ UNCHANGED <<dialect, said, request, reply, calls, requests>>

(* The request fails before it is answered: the client, or the gateway     *)
(* with another family, asks again.                                        *)
RequestFails ==
  /\ at = "sent"
  /\ at' = "ready"
  /\ UNCHANGED <<dialect, messages, said, request, reply, frags, arrived, calls,
                 requests>>

(* A new conversation. *)
StartOver ==
  /\ at \in {"client", "ready"}
  /\ dialect' \in {pair[1] : pair \in Served}
  /\ messages' = <<>> /\ said' = <<>>
  /\ at' = "client"
  /\ request' = NoRequest /\ reply' = NoReply
  /\ frags' = <<>> /\ arrived' = <<>>
  /\ calls' = 0 /\ requests' = 0

Next ==
  \/ \E w \in Words :
       \/ SayText(w) \/ AnswerCalls(w)
       \/ \E url \in Pictures : ShowPicture(w, url)
  \/ PlaySound
  \/ \E family \in {"openai", "anthropic"} : Send(family)
  \/ ReplyWhole \/ StartStream \/ StreamDone \/ RequestFails \/ StartOver
  \/ \E i \in DOMAIN arrived : FragmentArrives(i)

Spec == Init /\ [][Next]_vars
----------------------------------------------------------------------------
(* Whichever family answers, and however earlier replies were delivered,   *)
(* the model reads what was said: each word by its speaker, each call with *)
(* its id and arguments, each result with the id of its call, in order,    *)
(* the system prompt first.  For OpenAI's dialect and a model of OpenAI's  *)
(* family the loop breaks (anthropic_messages_to_openai, tooltrans.py:188, *)
(* says it runs there too).                                                *)
HeardIsSaid ==
  at = "sent" =>
    Heard(request.family) =
      Where(said, LAMBDA i : i.kind = "system") \o
      Where(said, LAMBDA i : i.kind # "system")

(* A request between OpenAI's dialect and its family is the only one that  *)
(* may be misread: every other one is read as it was said, also in a       *)
(* conversation that had such requests before.                             *)
HeardBesides ==
  ~(dialect = "openai" /\ request.family = "openai") => HeardIsSaid

(* The client finds in a reply the calls that the model made, with their   *)
(* ids, in order: whole or streamed, however the fragments came.           *)
CallsDelivered ==
  at = "client" /\ messages # <<>> =>
    IdsIn(Last(messages)) = Ids(reply.calls)

(* Anthropic never gets two messages of one role in a row, though OpenAI's *)
(* dialect has a message for every result.                                 *)
RolesAlternate ==
  at = "sent" /\ request.family = "anthropic" => Alternating(Translated("anthropic"))

(* A translation never refuses what the gateway has let in, neither its    *)
(* content nor its tool choice: such an error would be raised inside the   *)
(* provider's call and counted by its breaker.                             *)
NeverRefusedLate ==
  at = "ready" => /\ ~RaisesToOpenAI(Normalized)
                  /\ ~RaisesToAnthropic(Normalized, request.choice)

(* The model is told the tool choice the client made, except that OpenAI's *)
(* family is told "auto" for two of them: Anthropic's "none", and a        *)
(* function that is chosen in OpenAI's own form.                           *)
ChoiceKept ==
  LET c == request.choice
      told == ChoiceTold(request.family, c) IN
  at = "sent" =>
    \/ ChoiceRead(told) = ChoiceRead(c)
    \/ /\ request.family = "openai"
       /\ c \in {Choice("anthropic", "none"), Choice("openai", "function")}

(* What the gateway has let in, the provider takes, and it knows whether   *)
(* to call a tool.                                                         *)
RequestsUnderstood == RolesAlternate /\ NeverRefusedLate /\ ChoiceKept
============================================================================
