------------------------------ MODULE ToolTrans ------------------------------
(***************************************************************************)
(* The translations of agent_ctl/providers/tooltrans.py between the        *)
(* messages of OpenAI's and of Anthropic's protocol, and what a model of   *)
(* either family reads in a list of messages.                              *)
(*                                                                         *)
(* A message carries content, which is null, a string or a list of blocks, *)
(* and the two fields of OpenAI's tool messages, calls and id.  A text is  *)
(* a sequence of words.  The arguments of a call are a value, whether they *)
(* are written as JSON or as an object, or Broken, which no JSON parser    *)
(* takes.  A result of a tool is one word: its content is passed on.       *)
(***************************************************************************)
EXTENDS Integers, Sequences, SequencesExt

CONSTANTS Words, Args, Broken, NoArgs,   \* NoArgs: {}
          Pictures,                      \* URLs of images,
          Plain                          \* those that are data: but not base64

ASSUME ToolTransAssumption ==
  /\ Plain \subseteq Pictures
  /\ NoArgs \in Args /\ Broken \notin Args

(* Calls are numbered from 1; NoId stands for an empty tool_call_id.       *)
NoId == 0

(* Blocks, of either protocol; what a type has no use for stays empty.     *)
Block(type) == [type |-> type, text |-> <<>>, id |-> NoId, args |-> NoArgs]
TextBlock(text) == [Block("text") EXCEPT !.text = text]
ToolUse(id, args) == [Block("tool_use") EXCEPT !.id = id, !.args = args]
ToolResult(id, text) == [Block("tool_result") EXCEPT !.id = id, !.text = text]
Image(url) == [Block("image") EXCEPT !.text = url]
ImageUrl(url) == [Block("image_url") EXCEPT !.text = url]

Message(role) == [role |-> role, form |-> "null", text |-> <<>>, blocks |-> <<>>,
                  calls |-> <<>>, id |-> NoId]
Saying(role, text) == [Message(role) EXCEPT !.form = "str", !.text = text]
Listing(role, blocks) == [Message(role) EXCEPT !.form = "list", !.blocks = blocks]

(* json.loads, or the empty object if that fails. *)
Parsed(args) == IF args = Broken THEN NoArgs ELSE args

(* List comprehensions: [op(x) for x in s] and [x for x in s if test(x)].  *)
Each(s, Op(_)) == [i \in DOMAIN s |-> Op(s[i])]
Where(s, Test(_)) == FlattenSeq(Each(s, LAMBDA x : IF Test(x) THEN <<x>> ELSE <<>>))

OfType(blocks, types) == Where(blocks, LAMBDA b : b.type \in types)
Joined(blocks) == FlattenSeq(Each(OfType(blocks, {"text"}), LAMBDA b : b.text))
----------------------------------------------------------------------------
(* tool_choice: a string or an object of OpenAI's, or an object of         *)
(* Anthropic's.  The name of the tool goes along.                          *)
Choice(form, type) == [form |-> form, type |-> type]

(* Faulty: the name that Anthropic has for it is let in as well. *)
ChoiceStringsOfBoth == {"auto", "required", "none", "any"}
_TOOL_CHOICE_STRINGS == {"auto", "required", "none"}

(* What Anthropic calls them. *)
StringChoices == [auto |-> "auto", required |-> "any", none |-> "none"]

(* What the gateway refuses before it calls anybody: validate_local_content. *)
Unsupported(b) == b.type = "input_audio"
BadImage(b) == b.type = "image_url" /\ b.text \in Plain

validate_local_content(messages, choice) ==
  /\ \A i \in DOMAIN messages : \A j \in DOMAIN messages[i].blocks :
       ~Unsupported(messages[i].blocks[j]) /\ ~BadImage(messages[i].blocks[j])
  /\ choice.form = "str" => choice.type \in _TOOL_CHOICE_STRINGS

(* Where the translations themselves raise TerminalError: that of a choice *)
(* for OpenAI's family never does.                                         *)
RaisesToOpenAI(messages) ==
  \E i \in DOMAIN messages : messages[i].role # "assistant" /\
    \E j \in DOMAIN messages[i].blocks : Unsupported(messages[i].blocks[j])

RaisesToAnthropic(messages, choice) ==
  \/ \E i \in DOMAIN messages : messages[i].role # "tool" /\
       \E j \in DOMAIN messages[i].blocks :
         Unsupported(messages[i].blocks[j]) \/ BadImage(messages[i].blocks[j])
  \/ choice.form = "str" /\ choice.type \notin DOMAIN StringChoices
----------------------------------------------------------------------------
(* Requests for the OpenAI family. *)
AssistantToOpenAI(m) ==
  LET text == Joined(m.blocks) IN
  [Message("assistant") EXCEPT
     !.form  = IF text = <<>> THEN "null" ELSE "str",
     !.text  = text,
     !.calls = Each(OfType(m.blocks, {"tool_use"}),
                    LAMBDA b : [id |-> b.id, args |-> b.args])]

(* Results become messages of their own, before the rest of the message,   *)
(* which is one string unless it holds an image.                           *)
UserToOpenAI(m) ==
  LET parts == OfType(m.blocks, {"text", "image", "image_url"})
      ToolMessage(b) == [Saying("tool", b.text) EXCEPT !.id = b.id] IN
  Each(OfType(m.blocks, {"tool_result"}), ToolMessage) \o
  (IF parts = <<>> THEN <<>>
   ELSE IF \A i \in DOMAIN parts : parts[i].type = "text"
   THEN <<Saying("user", Joined(parts))>>
   ELSE <<Listing("user", Each(parts, LAMBDA b : IF b.type = "image"
                                                 THEN ImageUrl(b.text) ELSE b))>>)

(* A message whose content is no list keeps its role and its content. *)
MessageToOpenAI(m) ==
  IF m.form # "list" THEN <<[m EXCEPT !.calls = <<>>, !.id = NoId]>>
  ELSE IF m.role = "assistant" THEN <<AssistantToOpenAI(m)>>
  ELSE UserToOpenAI(m)

anthropic_messages_to_openai(messages) == FlattenSeq(Each(messages, MessageToOpenAI))
----------------------------------------------------------------------------
(* Requests for Anthropic. *)
_openai_content_to_anthropic_blocks(blocks) ==
  Each(blocks, LAMBDA b : IF b.type = "image_url" THEN Image(b.text) ELSE b)

NonEmptyText(text) == IF text = <<>> THEN <<>> ELSE <<TextBlock(text)>>

(* What the user says after results joins them in one message. *)
Merged(s, m) ==
  LET said == IF m.form = "str" THEN NonEmptyText(m.text) ELSE m.blocks IN
  [out |-> Append(s.out, Listing("user", s.pending \o said)), pending |-> <<>>]

Flushed(s) ==
  IF s.pending = <<>> THEN s
  ELSE [out |-> Append(s.out, Listing("user", s.pending)), pending |-> <<>>]

(* Faulty: the text beside tool calls is left out. *)
AssistantCallsOnly(m) ==
  Listing("assistant", Each(m.calls, LAMBDA c : ToolUse(c.id, Parsed(c.args))))

(* Calls become blocks after the text, if that is a string. *)
AssistantToAnthropic(m) ==
  Listing("assistant",
    (IF m.form = "str" THEN NonEmptyText(m.text) ELSE <<>>) \o
    Each(m.calls, LAMBDA c : ToolUse(c.id, Parsed(c.args))))

(* Results are gathered until something else comes. *)
NextMessage(s, original) ==
  LET m == [original EXCEPT !.blocks = _openai_content_to_anthropic_blocks(@)] IN
  IF m.role = "tool"
  THEN [s EXCEPT !.pending = Append(@, ToolResult(m.id, m.text))]
  ELSE IF m.role = "user" /\ s.pending # <<>> THEN Merged(s, m)
  ELSE [Flushed(s) EXCEPT
          !.out = Append(@, IF m.role = "assistant" /\ m.calls # <<>>
                            THEN AssistantToAnthropic(m) ELSE m)]

Gathered(messages) ==
  LET gathered[i \in 0..Len(messages)] ==
        IF i = 0 THEN [out |-> <<>>, pending |-> <<>>]
        ELSE NextMessage(gathered[i - 1], messages[i])
  IN gathered[Len(messages)]

openai_messages_to_anthropic(messages) == Flushed(Gathered(messages)).out
----------------------------------------------------------------------------
(* The tool choice of a request. *)
anthropic_tool_choice_to_openai(c) ==
  CASE c.form = "str" -> c
    [] c.form # "str" /\ c.type = "tool" -> Choice("openai", "function")
    [] c.form # "str" /\ c.type = "any" -> Choice("str", "required")
    [] c.form # "str" /\ c.type \notin {"tool", "any"} -> Choice("str", "auto")

openai_tool_choice_to_anthropic(c) ==
  CASE c.form = "str" -> Choice("anthropic", StringChoices[c.type])
    [] c.form # "str" /\ c.type = "function" -> Choice("anthropic", "tool")
    [] c.form # "str" /\ c.type # "function" -> c

(* What a model takes a choice for. *)
ChoiceRead(c) == CASE c.type \in {"tool", "function"} -> "that tool"
                   [] c.type \in {"any", "required"} -> "some tool"
                   [] c.type \in {"auto", "none"} -> c.type
----------------------------------------------------------------------------
(* Replies: an OpenAI message as Anthropic blocks, and blocks as calls.    *)
openai_message_to_anthropic_content(text, calls) ==
  LET blocks == NonEmptyText(text) \o
                Each(calls, LAMBDA c : ToolUse(c.id, Parsed(c.args))) IN
  IF blocks = <<>> THEN <<TextBlock(<<>>)>> ELSE blocks

_raw_tool_uses_to_openai(blocks) ==
  Each(OfType(blocks, {"tool_use"}), LAMBDA b : [id |-> b.id, args |-> b.args])
----------------------------------------------------------------------------
(* What a model reads: who says which word, in which order, which calls it *)
(* made and which results they had.  Fields and blocks that its protocol   *)
(* does not have say nothing.                                              *)
Item(kind, id, what) == [kind |-> kind, id |-> id, what |-> what]
WordItems(role, text) == Each(text, LAMBDA w : Item(role, NoId, w))
CallItems(calls) == Each(calls, LAMBDA c : Item("call", c.id, Parsed(c.args)))

BlockItems(role, b) ==
  CASE b.type = "text" -> WordItems(role, b.text)
    [] b.type \in {"image", "image_url"} -> <<Item("image", NoId, b.text)>>
    [] b.type = "tool_use" -> <<Item("call", b.id, b.args)>>
    [] b.type = "tool_result" -> <<Item("result", b.id, b.text)>>

ContentItems(m, types) ==
  IF m.form = "str" THEN WordItems(m.role, m.text)
  ELSE FlattenSeq(Each(OfType(m.blocks, types), LAMBDA b : BlockItems(m.role, b)))

ReadByOpenAI(messages) ==
  FlattenSeq(Each(messages, LAMBDA m :
    IF m.role = "tool"
    THEN IF m.id = NoId THEN <<>> ELSE <<Item("result", m.id, m.text)>>
    ELSE ContentItems(m, {"text", "image_url"}) \o CallItems(m.calls)))

ReadByAnthropic(messages) ==
  FlattenSeq(Each(messages, LAMBDA m :
    IF m.role = "tool" THEN <<>>
    ELSE ContentItems(m, {"text", "image", "tool_use", "tool_result"})))

(* Anthropic refuses two messages of one role in a row. *)
Alternating(messages) ==
  \A i \in 1..(Len(messages) - 1) : messages[i].role # messages[i + 1].role
============================================================================
