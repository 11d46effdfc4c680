--------------------------- MODULE ToolLoopProofs ----------------------------
(***************************************************************************)
(* The translations of tool conversations keep what was said, and the      *)
(* conversation of ToolLoop is what each model reads and the client finds, *)
(* for all words, arguments and pictures, for conversations of any length  *)
(* and for every set of pairs that is served.                              *)
(***************************************************************************)
EXTENDS ToolLoop, SequenceLemmas
----------------------------------------------------------------------------
(* What the translations are for: texts, arguments that a JSON parser      *)
(* takes, blocks and messages of either protocol, and what they say.       *)
Texts == Seq(Words)
Roles == {"system", "user", "assistant", "tool"}

Blocks ==
  {b \in [type : {"text", "image", "image_url", "input_audio", "tool_use", "tool_result"},
          text : Texts \cup Pictures, id : Nat, args : Args] :
     b.type \in {"text", "tool_result"} => b.text \in Texts}

Calls == [id : Nat, args : Args \cup {Broken}]

Messages ==
  [role : Roles, form : {"null", "str", "list"},
   text : Texts, blocks : Seq(Blocks), calls : Seq(Calls), id : Nat]

Items ==
  [kind : Roles \cup {"image", "call", "result"}, id : Nat,
   what : Words \cup Texts \cup Pictures \cup Args \cup {Broken}]

(* What a block says, in either protocol; what a list of them says.        *)
BlockSays(role, b) == IF b.type = "input_audio" THEN <<>> ELSE BlockItems(role, b)
OfBlock(role) == [b \in Blocks |-> BlockSays(role, b)]
BlocksSay(role, blocks) == FlatMap(OfBlock(role), blocks)

(* What a message says, whichever protocol it is written for, and what a   *)
(* conversation does.                                                      *)
Content(m) ==
  IF m.form = "str" THEN WordItems(m.role, m.text) ELSE BlocksSay(m.role, m.blocks)
Says(m) ==
  IF m.role = "tool" THEN <<Item("result", m.id, m.text)>>
  ELSE Content(m) \o CallItems(m.calls)
OfMessage == [m \in Messages |-> Says(m)]
ConversationSays(ms) == FlatMap(OfMessage, ms)
----------------------------------------------------------------------------
(* Words, calls, blocks and messages say items.                            *)
LEMMA WordsSay ==
  ASSUME NEW role \in Roles, NEW t \in Texts
  PROVE  /\ WordItems(role, t) \in Seq(Items)
         /\ Len(WordItems(role, t)) = Len(t)
         /\ \A i \in 1..Len(t) : WordItems(role, t)[i] = Item(role, NoId, t[i])
<1>1. t \in Seq(Words) /\ Len(t) \in Nat /\ DOMAIN t = 1..Len(t) /\ \A i \in 1..Len(t) : t[i] \in Words
  BY DEF Texts
<1>2. \A i \in 1..Len(t) : Item(role, NoId, t[i]) \in Items
  BY <1>1 DEF Item, Items, NoId
<1> QED
  BY <1>1, <1>2 DEF WordItems, Each

(* Calls say one item each, in order.                                      *)
LEMMA CallsSay ==
  ASSUME NEW c \in Seq(Calls)
  PROVE  /\ CallItems(c) \in Seq(Items)
         /\ Len(CallItems(c)) = Len(c)
         /\ \A i \in 1..Len(c) : CallItems(c)[i] = Item("call", c[i].id, Parsed(c[i].args))
<1>1. Len(c) \in Nat /\ DOMAIN c = 1..Len(c) /\ \A i \in 1..Len(c) : c[i] \in Calls
  OBVIOUS
<1>2. \A i \in 1..Len(c) : Item("call", c[i].id, Parsed(c[i].args)) \in Items
  BY <1>1, ToolTransAssumption DEF Item, Items, Parsed, Calls
<1> QED
  BY <1>1, <1>2 DEF CallItems, Each

(* A block says items.                                                     *)
LEMMA OneBlockSays ==
  ASSUME NEW role \in Roles, NEW b \in Blocks
  PROVE  /\ BlockSays(role, b) \in Seq(Items)
         /\ OfBlock(role)[b] = BlockSays(role, b)
<1>1. CASE b.type = "text"
  <2>1. b.text \in Texts
    BY <1>1 DEF Blocks
  <2>2. WordItems(role, b.text) \in Seq(Items)
    BY <2>1, WordsSay
  <2> QED
    BY <1>1, <2>2 DEF BlockSays, BlockItems, OfBlock
<1>2. CASE b.type # "text"
  <2>1. \A kind \in {"image", "call", "result"} : \A id \in Nat :
          \A what \in Words \cup Texts \cup Pictures \cup Args :
             <<Item(kind, id, what)>> \in Seq(Items)
    BY DEF Items, Item
  <2>2. b.id \in Nat /\ b.text \in Texts \cup Pictures /\ b.args \in Args /\ NoId \in Nat
    BY DEF Blocks, NoId
  <2>3. b.type \in {"image", "image_url", "input_audio", "tool_use", "tool_result"}
    BY <1>2 DEF Blocks
  <2> QED
    BY <2>1, <2>2, <2>3 DEF BlockSays, BlockItems, OfBlock
<1> QED
  BY <1>1, <1>2

(* The same of the function that gives them.                               *)
LEMMA OfBlockType ==
  ASSUME NEW role \in Roles
  PROVE  Maps(OfBlock(role), Blocks, Seq(Items))
<1>1. \A b \in Blocks : BlockSays(role, b) \in Seq(Items)
  BY OneBlockSays
<1> QED
  BY <1>1 DEF Maps, OfBlock

(* A message says items.                                                   *)
LEMMA OneMessageSays ==
  ASSUME NEW m \in Messages
  PROVE  /\ Says(m) \in Seq(Items) /\ OfMessage[m] = Says(m)
         /\ Content(m) \in Seq(Items) /\ CallItems(m.calls) \in Seq(Items)
<1>1. /\ m.role \in Roles /\ m.text \in Texts /\ m.blocks \in Seq(Blocks)
      /\ m.calls \in Seq(Calls) /\ m.id \in Nat
  BY DEF Messages
<1>2. <<Item("result", m.id, m.text)>> \in Seq(Items)
  BY <1>1 DEF Items, Item
<1>3. WordItems(m.role, m.text) \in Seq(Items) /\ CallItems(m.calls) \in Seq(Items)
  BY <1>1, WordsSay, CallsSay
<1>4. BlocksSay(m.role, m.blocks) \in Seq(Items)
  BY <1>1, OfBlockType, FlatMapType DEF BlocksSay
<1>5. OfMessage[m] = Says(m)
  BY DEF OfMessage
<1> QED
  BY <1>2, <1>3, <1>4, <1>5 DEF Says, Content

(* The same of the function that gives them.                               *)
LEMMA OfMessageType == Maps(OfMessage, Messages, Seq(Items))
<1>1. \A m \in Messages : Says(m) \in Seq(Items)
  BY OneMessageSays
<1> QED
  BY <1>1 DEF Maps, OfMessage
----------------------------------------------------------------------------
(* Blocks of some types, picked from others, and what they say.            *)
Picked(types) == {b \in Blocks : b.type \in types}
Picking(types) == [b \in Blocks |-> IF b.type \in types THEN <<b>> ELSE <<>>]

(* Blocks of some types, as a comprehension.                               *)
LEMMA PickingType ==
  ASSUME NEW types
  PROVE  Maps(Picking(types), Blocks, Seq(Picked(types)))
<1>1. ASSUME NEW b \in Blocks PROVE Picking(types)[b] \in Seq(Picked(types))
  <2>1. CASE b.type \in types
    <3>1. b \in Picked(types) /\ Picking(types)[b] = <<b>>
      BY <2>1 DEF Picking, Picked
    <3> QED
      BY <3>1
  <2>2. CASE b.type \notin types
    BY <2>2 DEF Picking
  <2> QED
    BY <2>1, <2>2
<1> QED
  BY <1>1 DEF Maps, Picking

(* OfType is that comprehension, and gives blocks of these types.          *)
LEMMA PickedType ==
  ASSUME NEW types, NEW bs \in Seq(Blocks)
  PROVE  /\ OfType(bs, types) = FlatMap(Picking(types), bs)
         /\ OfType(bs, types) \in Seq(Picked(types))
         /\ OfType(bs, types) \in Seq(Blocks)
<1>2. Maps(Picking(types), Blocks, Seq(Picked(types)))
  BY PickingType
<1>3. DOMAIN bs = 1..Len(bs) /\ \A i \in 1..Len(bs) : bs[i] \in Blocks
  OBVIOUS
<1>4. OfType(bs, types) = FlatMap(Picking(types), bs)
  BY <1>3 DEF OfType, Where, Each, FlatMap, MapSeq, Picking
<1>5. OfType(bs, types) \in Seq(Picked(types))
  BY <1>2, <1>4, FlatMapType
<1>6. Picked(types) \subseteq Blocks
  BY DEF Picked
<1> QED
  BY <1>2, <1>4, <1>5, <1>6, SeqMonotonic

(* All of them, none of them, and those of two lists.                      *)
LEMMA PickedAll ==
  ASSUME NEW types, NEW bs \in Seq(Blocks), \A i \in 1..Len(bs) : bs[i].type \in types
  PROVE  OfType(bs, types) = bs
<1>1. \A i \in 1..Len(bs) : bs[i] \in Blocks
  OBVIOUS
<1>2. \A i \in 1..Len(bs) : Picking(types)[bs[i]] = <<bs[i]>>
  BY <1>1 DEF Picking
<1> QED
  BY <1>2, PickedType, FlatMapSame

(* No block of these types, none picked.                                   *)
LEMMA PickedNone ==
  ASSUME NEW types, NEW bs \in Seq(Blocks), \A i \in 1..Len(bs) : bs[i].type \notin types
  PROVE  OfType(bs, types) = <<>>
<1>1. \A i \in 1..Len(bs) : bs[i] \in Blocks
  OBVIOUS
<1>2. \A i \in 1..Len(bs) : Picking(types)[bs[i]] = <<>>
  BY <1>1 DEF Picking
<1> QED
  BY <1>2, PickedType, FlatMapNone

(* Picking distributes over concatenation.                                 *)
LEMMA PickedConcat ==
  ASSUME NEW types, NEW a \in Seq(Blocks), NEW b \in Seq(Blocks)
  PROVE  OfType(a \o b, types) = OfType(a, types) \o OfType(b, types)
<1>1. a \o b \in Seq(Blocks)
  OBVIOUS
<1>2. FlatMap(Picking(types), a \o b) = FlatMap(Picking(types), a) \o FlatMap(Picking(types), b)
  BY PickingType, FlatMapConcat
<1> QED
  BY <1>1, <1>2, PickedType

(* Picking loses nothing of what is said by blocks of other types if there *)
(* are none but sounds.                                                    *)
LEMMA PickedSay ==
  ASSUME NEW role \in Roles, NEW types, "input_audio" \notin types,
         NEW bs \in Seq(Blocks),
         \A i \in 1..Len(bs) : bs[i].type \in types \cup {"input_audio"}
  PROVE  FlattenSeq(Each(OfType(bs, types), LAMBDA b : BlockItems(role, b))) =
           BlocksSay(role, bs)
<1> DEFINE g == [b \in Picked(types) |-> BlockSays(role, b)]
           h == [b \in Blocks |-> IF b.type \in types THEN BlockSays(role, b) ELSE <<>>]
           picked == OfType(bs, types)
<1>1. Maps(g, Picked(types), Seq(Items)) /\ Maps(h, Blocks, Seq(Items))
  <2>1. <<>> \in Seq(Items) /\ \A b \in Blocks : BlockSays(role, b) \in Seq(Items)
    BY OneBlockSays
  <2> QED
    BY <2>1 DEF Maps, Picked
<1>2. picked \in Seq(Picked(types)) /\ picked = FlatMap(Picking(types), bs)
  BY PickedType
<1>3. FlattenSeq(Each(picked, LAMBDA b : BlockItems(role, b))) = FlatMap(g, picked)
  <2>1. /\ DOMAIN picked = 1..Len(picked)
        /\ \A i \in 1..Len(picked) : picked[i] \in Picked(types)
    BY <1>2
  <2>2. \A i \in DOMAIN picked : g[picked[i]] = BlockItems(role, picked[i])
    BY <2>1 DEF Picked, BlockSays
  <2> HIDE DEF g, picked
  <2> QED
    BY <2>2 DEF FlatMap, MapSeq, Each
<1>4. \A x \in Blocks : h[x] = FlatMap(g, Picking(types)[x])
  <2> SUFFICES ASSUME NEW x \in Blocks PROVE h[x] = FlatMap(g, Picking(types)[x])
    OBVIOUS
  <2>1. CASE x.type \in types
    <3>1. x \in Picked(types) /\ Picking(types)[x] = <<x>> /\ g[x] = h[x]
      BY <2>1 DEF Picked, Picking
    <3> HIDE DEF g, h
    <3>2. FlatMap(g, <<x>>) = g[x]
      BY <1>1, <3>1, FlatMapFew
    <3> QED
      BY <3>1, <3>2
  <2>2. CASE x.type \notin types
    <3>1. Picking(types)[x] = <<>> /\ h[x] = <<>>
      BY <2>2 DEF Picking
    <3>2. FlatMap(g, <<>>) = <<>>
      BY DEF FlatMap, MapSeq, FlattenSeq
    <3> QED
      BY <3>1, <3>2
  <2> QED
    BY <2>1, <2>2
<1>5. FlatMap(g, FlatMap(Picking(types), bs)) = FlatMap(h, bs)
  <2>1. Maps(Picking(types), Blocks, Seq(Picked(types)))
    BY PickingType
  <2> HIDE DEF g, h
  <2> QED
    BY <1>1, <1>4, <2>1, FlatMapTwice
<1>6. FlatMap(h, bs) = FlatMap(OfBlock(role), bs)
  <2>1. \A i \in 1..Len(bs) : bs[i] \in Blocks
    OBVIOUS
  <2>2. \A i \in 1..Len(bs) : h[bs[i]] = OfBlock(role)[bs[i]]
    BY <2>1 DEF OfBlock, BlockSays
  <2> HIDE DEF h
  <2> QED
    BY <2>2, FlatMapAgree
<1> QED
  BY <1>2, <1>3, <1>5, <1>6 DEF BlocksSay
----------------------------------------------------------------------------
(* Messages and blocks as they are made.                                   *)
LEMMA MadeMessages ==
  ASSUME NEW role \in Roles, NEW t \in Texts, NEW bs \in Seq(Blocks)
  PROVE  /\ Saying(role, t) \in Messages /\ Listing(role, bs) \in Messages
         /\ Saying(role, t) = [role |-> role, form |-> "str", text |-> t, blocks |-> <<>>,
                               calls |-> <<>>, id |-> NoId]
         /\ Listing(role, bs) = [role |-> role, form |-> "list", text |-> <<>>, blocks |-> bs,
                                 calls |-> <<>>, id |-> NoId]
<1> DEFINE fields == {"role", "form", "text", "blocks", "calls", "id"}
<1>1. DOMAIN Message(role) = fields
  BY DEF Message
<1>2. Saying(role, t) = [role |-> role, form |-> "str", text |-> t, blocks |-> <<>>,
                         calls |-> <<>>, id |-> NoId]
  <2>1. Saying(role, t) =
          [x \in fields |-> IF x = "form" THEN "str" ELSE IF x = "text" THEN t
                           ELSE Message(role)[x]]
    BY <1>1 DEF Saying
  <2>2. [x \in fields |-> IF x = "form" THEN "str" ELSE IF x = "text" THEN t
                         ELSE Message(role)[x]] =
          [role |-> role, form |-> "str", text |-> t, blocks |-> <<>>, calls |-> <<>>,
           id |-> NoId]
    BY DEF Message
  <2> QED
    BY <2>1, <2>2
<1>3. Listing(role, bs) = [role |-> role, form |-> "list", text |-> <<>>, blocks |-> bs,
                           calls |-> <<>>, id |-> NoId]
  <2>1. Listing(role, bs) =
          [x \in fields |-> IF x = "form" THEN "list" ELSE IF x = "blocks" THEN bs
                           ELSE Message(role)[x]]
    BY <1>1 DEF Listing
  <2>2. [x \in fields |-> IF x = "form" THEN "list" ELSE IF x = "blocks" THEN bs
                         ELSE Message(role)[x]] =
          [role |-> role, form |-> "list", text |-> <<>>, blocks |-> bs, calls |-> <<>>,
           id |-> NoId]
    BY DEF Message
  <2> QED
    BY <2>1, <2>2
<1>4. <<>> \in Seq(Words) /\ <<>> \in Seq(Blocks) /\ <<>> \in Seq(Calls) /\ NoId \in Nat
  BY DEF NoId
<1> QED
  BY <1>2, <1>3, <1>4 DEF Messages, Texts

(* The blocks that the constructors make.                                  *)
LEMMA MadeText ==
  ASSUME NEW t \in Texts
  PROVE  TextBlock(t) \in Blocks /\ TextBlock(t).type = "text" /\ TextBlock(t).text = t
<1>1. NoId \in Nat /\ NoArgs \in Args
  BY ToolTransAssumption DEF NoId
<1> QED
  BY <1>1 DEF TextBlock, Block, Blocks

(* A tool_use block has its id and arguments.                              *)
LEMMA MadeUse ==
  ASSUME NEW n \in Nat, NEW args \in Args
  PROVE  /\ ToolUse(n, args) \in Blocks /\ ToolUse(n, args).type = "tool_use"
         /\ ToolUse(n, args).id = n /\ ToolUse(n, args).args = args
<1>1. <<>> \in Texts
  BY DEF Texts
<1> QED
  BY <1>1 DEF ToolUse, Block, Blocks

(* A tool_result block has the id of its call and a text.                  *)
LEMMA MadeResult ==
  ASSUME NEW n \in Nat, NEW t \in Texts
  PROVE  /\ ToolResult(n, t) \in Blocks /\ ToolResult(n, t).type = "tool_result"
         /\ ToolResult(n, t).id = n /\ ToolResult(n, t).text = t
<1>1. NoArgs \in Args
  BY ToolTransAssumption
<1> QED
  BY <1>1 DEF ToolResult, Block, Blocks

(* An image has its url in either protocol's form.                         *)
LEMMA MadeImage ==
  ASSUME NEW url \in Texts \cup Pictures
  PROVE  /\ Image(url) \in Blocks /\ Image(url).type = "image" /\ Image(url).text = url
         /\ ImageUrl(url) \in Blocks /\ ImageUrl(url).type = "image_url"
         /\ ImageUrl(url).text = url
<1>1. NoId \in Nat /\ NoArgs \in Args
  BY ToolTransAssumption DEF NoId
<1> QED
  BY <1>1 DEF Image, ImageUrl, Block, Blocks

(* A text, a list of calls and a list of results as blocks.                *)
LEMMA TextSays ==
  ASSUME NEW role \in Roles, NEW t \in Texts
  PROVE  /\ NonEmptyText(t) \in Seq(Blocks)
         /\ \A i \in 1..Len(NonEmptyText(t)) : NonEmptyText(t)[i].type = "text"
         /\ BlocksSay(role, NonEmptyText(t)) = WordItems(role, t)
<1>1. TextBlock(t) \in Blocks /\ TextBlock(t).type = "text" /\ TextBlock(t).text = t
  BY MadeText
<1>2. CASE t = <<>>
  <2>1. NonEmptyText(t) = <<>>
    BY <1>2 DEF NonEmptyText
  <2>2. BlocksSay(role, <<>>) = <<>>
    BY DEF BlocksSay, FlatMap, MapSeq, FlattenSeq
  <2>3. WordItems(role, t) = <<>>
    <3>1. Len(WordItems(role, t)) = 0 /\ WordItems(role, t) \in Seq(Items)
      BY <1>2, WordsSay
    <3> QED
      BY <3>1
  <2> QED
    BY <2>1, <2>2, <2>3
<1>3. CASE t # <<>>
  <2> DEFINE b == TextBlock(t)
  <2>1. NonEmptyText(t) = <<b>>
    BY <1>3 DEF NonEmptyText
  <2>2. OfBlock(role)[b] = WordItems(role, t)
    BY <1>1, OneBlockSays DEF BlockSays, BlockItems
  <2>3. b \in Blocks /\ b.type = "text"
    BY <1>1
  <2> HIDE DEF b
  <2>4. FlatMap(OfBlock(role), <<b>>) = OfBlock(role)[b]
    BY <2>3, OfBlockType, FlatMapFew
  <2>5. <<b>> \in Seq(Blocks) /\ \A i \in 1..Len(<<b>>) : <<b>>[i].type = "text"
    BY <2>3
  <2> QED
    BY <2>1, <2>2, <2>4, <2>5 DEF BlocksSay
<1> QED
  BY <1>2, <1>3

Uses(c) == Each(c, LAMBDA x : ToolUse(x.id, Parsed(x.args)))

(* Calls made tool_use blocks keep ids, order and parsed arguments.        *)
LEMMA CallsAsBlocks ==
  ASSUME NEW role \in Roles, NEW c \in Seq(Calls)
  PROVE  /\ Uses(c) \in Seq(Blocks) /\ Len(Uses(c)) = Len(c)
         /\ \A i \in 1..Len(c) : /\ Uses(c)[i].type = "tool_use" /\ Uses(c)[i].id = c[i].id
                                 /\ Uses(c)[i].args = Parsed(c[i].args)
         /\ BlocksSay(role, Uses(c)) = CallItems(c)
<1>1. /\ DOMAIN c = 1..Len(c) /\ Len(c) \in Nat
      /\ \A i \in 1..Len(c) : c[i].id \in Nat /\ Parsed(c[i].args) \in Args
  <2>1. DOMAIN c = 1..Len(c) /\ Len(c) \in Nat /\ \A i \in 1..Len(c) : c[i] \in Calls
    OBVIOUS
  <2>2. \A x \in Calls : x.id \in Nat /\ Parsed(x.args) \in Args
    BY ToolTransAssumption DEF Calls, Parsed
  <2> QED
    BY <2>1, <2>2
<1>2. \A i \in 1..Len(c) :
        LET b == ToolUse(c[i].id, Parsed(c[i].args)) IN
        b \in Blocks /\ b.type = "tool_use" /\ b.id = c[i].id /\ b.args = Parsed(c[i].args)
  BY <1>1, MadeUse
<1>3. /\ Uses(c) \in Seq(Blocks) /\ Len(Uses(c)) = Len(c)
      /\ \A i \in 1..Len(c) : /\ Uses(c)[i].type = "tool_use" /\ Uses(c)[i].id = c[i].id
                              /\ Uses(c)[i].args = Parsed(c[i].args)
  BY <1>1, <1>2 DEF Uses, Each
<1>4. BlocksSay(role, Uses(c)) = CallItems(c)
  <2> DEFINE u == Uses(c)
             g == [b \in Blocks |-> Item("call", b.id, b.args)]
  <2>1. u \in Seq(Blocks) /\ DOMAIN u = DOMAIN c /\ DOMAIN c = 1..Len(u)
    BY <1>1, <1>3
  <2>2. \A i \in 1..Len(u) : u[i] \in Blocks
    BY <2>1
  <2>3. Single(OfBlock(role), g, u)
    <3>1. \A i \in 1..Len(u) : OfBlock(role)[u[i]] = <<g[u[i]]>>
      BY <1>1, <1>3, <2>1, <2>2 DEF OfBlock, BlockSays, BlockItems
    <3> QED
      BY ONLY <3>1 DEF Single
  <2>8. u \in Seq(Blocks)
    BY <2>1
  <2>4. Maps(g, Blocks, Items)
    <3>1. \A b \in Blocks : Item("call", b.id, b.args) \in Items
      BY DEF Items, Item, Blocks
    <3> QED
      BY <3>1 DEF Maps
  <2>5. \A i \in 1..Len(u) : g[u[i]] = Item("call", c[i].id, Parsed(c[i].args))
    BY <1>1, <1>3, <2>1, <2>2
  <2> HIDE DEF u, g
  <2>6. FlatMap(OfBlock(role), u) = MapSeq(g, u)
    BY ONLY <2>1, <2>8, <2>3, <2>4, FlatMapEach
  <2>7. MapSeq(g, u) = CallItems(c)
    BY <2>1, <2>5 DEF MapSeq, CallItems, Each
  <2> QED
    BY <2>6, <2>7 DEF BlocksSay, u
<1> QED
  BY <1>3, <1>4
----------------------------------------------------------------------------
(* Towards Anthropic.  Images change their form, and say what they said.   *)
LEMMA Converted ==
  ASSUME NEW role \in Roles, NEW bs \in Seq(Blocks),
         NEW c, c = _openai_content_to_anthropic_blocks(bs)
  PROVE  /\ c \in Seq(Blocks)
         /\ Len(c) = Len(bs)
         /\ \A i \in 1..Len(c) : c[i].type # "image_url"
         /\ BlocksSay(role, c) = BlocksSay(role, bs)
<1>1. Len(bs) \in Nat /\ DOMAIN bs = 1..Len(bs) /\ \A i \in 1..Len(bs) : bs[i] \in Blocks
  OBVIOUS
<1>2. \A b \in Blocks : b.text \in Texts \cup Pictures
  BY DEF Blocks
<1>3. \A b \in Blocks : /\ Image(b.text) \in Blocks /\ Image(b.text).type = "image"
                        /\ Image(b.text).text = b.text
  BY <1>2, MadeImage
<1>4. DOMAIN c = 1..Len(bs) /\ \A i \in 1..Len(bs) :
        c[i] = IF bs[i].type = "image_url" THEN Image(bs[i].text) ELSE bs[i]
  BY <1>1 DEF _openai_content_to_anthropic_blocks, Each
<1>5. \A i \in 1..Len(bs) : /\ c[i] \in Blocks /\ c[i].type # "image_url"
                            /\ BlockSays(role, c[i]) = BlockSays(role, bs[i])
  <2> SUFFICES ASSUME NEW i \in 1..Len(bs)
               PROVE  /\ c[i] \in Blocks /\ c[i].type # "image_url"
                      /\ BlockSays(role, c[i]) = BlockSays(role, bs[i])
    OBVIOUS
  <2>1. bs[i] \in Blocks
    BY <1>1
  <2>2. CASE bs[i].type = "image_url"
    <3>1. c[i] = Image(bs[i].text)
      BY <1>4, <2>2
    <3>2. c[i] \in Blocks /\ c[i].type = "image" /\ c[i].text = bs[i].text
      BY <1>3, <2>1, <3>1
    <3> QED
      BY <2>2, <3>2 DEF BlockSays, BlockItems
  <2>3. CASE bs[i].type # "image_url"
    BY <1>4, <2>1, <2>3
  <2> QED
    BY <2>2, <2>3
<1>6. c = [i \in 1..Len(bs) |-> c[i]]
  BY <1>4 DEF _openai_content_to_anthropic_blocks, Each
<1>7. c \in Seq(Blocks) /\ Len(c) = Len(bs)
  BY <1>1, <1>5, <1>6
<1>8. MapSeq(OfBlock(role), c) = MapSeq(OfBlock(role), bs)
  <2>1. \A i \in 1..Len(bs) : OfBlock(role)[c[i]] = OfBlock(role)[bs[i]]
    BY <1>1, <1>5, OneBlockSays
  <2> QED
    BY <1>1, <1>4, <2>1 DEF MapSeq
<1> QED
  BY <1>5, <1>7, <1>8 DEF BlocksSay, FlatMap
----------------------------------------------------------------------------
(* Messages in a form that Anthropic's protocol has, and what is read in   *)
(* them; the results of tools that wait; the state of the translation.     *)
Sent ==
  {m \in Messages : /\ m.role # "tool"
                    /\ \A i \in 1..Len(m.blocks) : m.blocks[i].type # "image_url"}
OfSent == [m \in Sent |-> Content(m)]
ResultBlocks == Picked({"tool_result"})
Gathering == [out : Seq(Sent), pending : Seq(ResultBlocks)]
Gathers(s) == FlatMap(OfSent, s.out) \o BlocksSay("user", s.pending)

(* What is sent to Anthropic's model says what its content says.           *)
LEMMA OfSentType ==
  /\ Maps(OfSent, Sent, Seq(Items))
  /\ \A m \in Sent : m \in Messages /\ OfSent[m] = Content(m) /\ Content(m) \in Seq(Items)
<1>1. \A m \in Sent : m \in Messages /\ Content(m) \in Seq(Items)
  BY OneMessageSays DEF Sent
<1> QED
  BY <1>1 DEF Maps, OfSent

(* Pending results are blocks of their type.                               *)
LEMMA ResultsAreBlocks ==
  ASSUME NEW p \in Seq(ResultBlocks)
  PROVE  /\ p \in Seq(Blocks)
         /\ \A i \in 1..Len(p) : p[i].type = "tool_result"
<1>1. ResultBlocks \subseteq Blocks /\ \A b \in ResultBlocks : b.type = "tool_result"
  BY DEF ResultBlocks, Picked
<1>2. p \in Seq(Blocks)
  BY <1>1, SeqMonotonic
<1> QED
  BY <1>1, <1>2

(* A model of Anthropic's reads in such messages what they say.            *)
LEMMA ReadAsSent ==
  ASSUME NEW ms \in Seq(Sent)
  PROVE  ReadByAnthropic(ms) = FlatMap(OfSent, ms)
<1> DEFINE types == {"text", "image", "tool_use", "tool_result"}
<1>1. DOMAIN ms = 1..Len(ms) /\ \A i \in 1..Len(ms) : ms[i] \in Sent
  OBVIOUS
<1>2. ASSUME NEW m \in Sent PROVE m.role # "tool" /\ ContentItems(m, types) = OfSent[m]
  <2>1. /\ m.role \in Roles /\ m.role # "tool" /\ m.blocks \in Seq(Blocks)
        /\ \A i \in 1..Len(m.blocks) : m.blocks[i].type # "image_url"
    BY DEF Sent, Messages
  <2>2. \A i \in 1..Len(m.blocks) : m.blocks[i].type \in types \cup {"input_audio"}
    <3>1. \A b \in Blocks : b.type # "image_url" => b.type \in types \cup {"input_audio"}
      BY DEF Blocks
    <3> QED
      BY <2>1, <3>1
  <2>3. FlattenSeq(Each(OfType(m.blocks, types), LAMBDA b : BlockItems(m.role, b))) =
          BlocksSay(m.role, m.blocks)
    <3> DEFINE role == m.role
               bs == m.blocks
    <3>1. role \in Roles /\ bs \in Seq(Blocks) /\ "input_audio" \notin types
          /\ \A i \in 1..Len(bs) : bs[i].type \in types \cup {"input_audio"}
      BY <2>1, <2>2
    <3> HIDE DEF role, bs, types
    <3>2. FlattenSeq(Each(OfType(bs, types), LAMBDA b : BlockItems(role, b))) = BlocksSay(role, bs)
      BY <3>1, PickedSay
    <3> QED
      BY <3>2 DEF role, bs
  <2> QED
    BY <2>1, <2>3, OfSentType DEF ContentItems, Content
<1>3. Each(ms, LAMBDA m : IF m.role = "tool" THEN <<>> ELSE ContentItems(m, types)) =
        MapSeq(OfSent, ms)
  <2> HIDE DEF types
  <2> QED
    BY <1>1, <1>2 DEF Each, MapSeq
<1> QED
  BY <1>3 DEF ReadByAnthropic, FlatMap

(* A list of blocks as a message.                                          *)
LEMMA ListingSent ==
  ASSUME NEW role \in Roles, role # "tool", NEW bs \in Seq(Blocks),
         \A i \in 1..Len(bs) : bs[i].type # "image_url"
  PROVE  /\ Listing(role, bs) \in Sent
         /\ Content(Listing(role, bs)) = BlocksSay(role, bs)
<1>1. <<>> \in Texts
  BY DEF Texts
<1>2. /\ Listing(role, bs) \in Messages
      /\ Listing(role, bs) = [role |-> role, form |-> "list", text |-> <<>>, blocks |-> bs,
                              calls |-> <<>>, id |-> NoId]
  BY <1>1, MadeMessages
<1>3. /\ Listing(role, bs).role = role /\ Listing(role, bs).form = "list"
      /\ Listing(role, bs).blocks = bs
  BY <1>2
<1> QED
  BY <1>2, <1>3 DEF Sent, Content

(* One more message sent says what it has to say.                          *)
LEMMA SendMore ==
  ASSUME NEW out \in Seq(Sent), NEW m \in Sent
  PROVE  /\ Append(out, m) \in Seq(Sent)
         /\ FlatMap(OfSent, out) \in Seq(Items)
         /\ FlatMap(OfSent, Append(out, m)) = FlatMap(OfSent, out) \o Content(m)
<1>1. FlatMap(OfSent, Append(out, m)) = FlatMap(OfSent, out) \o OfSent[m]
  BY OfSentType, FlatMapAppend
<1>2. FlatMap(OfSent, out) \in Seq(Items)
  BY OfSentType, FlatMapType
<1>3. OfSent[m] = Content(m)
  BY OfSentType
<1>4. Append(out, m) \in Seq(Sent)
  OBVIOUS
<1> QED
  BY <1>1, <1>2, <1>3, <1>4

(* Content said one after the other.                                       *)
LEMMA BlocksSayConcat ==
  ASSUME NEW role \in Roles, NEW a \in Seq(Blocks), NEW b \in Seq(Blocks)
  PROVE  /\ BlocksSay(role, <<>>) = <<>>
         /\ BlocksSay(role, a) \in Seq(Items)
         /\ BlocksSay(role, a \o b) = BlocksSay(role, a) \o BlocksSay(role, b)
<1>1. BlocksSay(role, <<>>) = <<>>
  BY DEF BlocksSay, FlatMap, MapSeq, FlattenSeq
<1>2. FlatMap(OfBlock(role), a) \in Seq(Items)
  BY OfBlockType, FlatMapType
<1>3. FlatMap(OfBlock(role), a \o b) = FlatMap(OfBlock(role), a) \o FlatMap(OfBlock(role), b)
  BY OfBlockType, FlatMapConcat
<1> QED
  BY <1>1, <1>2, <1>3 DEF BlocksSay

(* Sending the results that wait changes nothing of what is said.          *)
LEMMA FlushSays ==
  ASSUME NEW s \in Gathering
  PROVE  /\ Flushed(s) \in Gathering
         /\ Flushed(s).pending = <<>>
         /\ FlatMap(OfSent, Flushed(s).out) = Gathers(s)
         /\ Gathers(s) \in Seq(Items)
<1>1. s.out \in Seq(Sent) /\ s.pending \in Seq(ResultBlocks) /\ s = [out |-> s.out, pending |-> s.pending]
  BY DEF Gathering
<1>2. /\ s.pending \in Seq(Blocks)
      /\ \A i \in 1..Len(s.pending) : s.pending[i].type = "tool_result"
  BY <1>1, ResultsAreBlocks
<1>3. /\ BlocksSay("user", s.pending) \in Seq(Items) /\ BlocksSay("user", <<>>) = <<>>
      /\ FlatMap(OfSent, s.out) \in Seq(Items)
  BY <1>1, <1>2, BlocksSayConcat, OfSentType, FlatMapType DEF Roles
<1>4. CASE s.pending = <<>>
  <2>1. Flushed(s) = s
    BY <1>4 DEF Flushed
  <2> QED
    BY <1>1, <1>3, <1>4, <2>1 DEF Gathers
<1>5. CASE s.pending # <<>>
  <2> DEFINE m == Listing("user", s.pending)
  <2>1. m \in Sent /\ Content(m) = BlocksSay("user", s.pending)
    BY <1>2, ListingSent DEF Roles
  <2>2. Flushed(s) = [out |-> Append(s.out, m), pending |-> <<>>]
    BY <1>5 DEF Flushed
  <2> HIDE DEF m
  <2>3. Append(s.out, m) \in Seq(Sent) /\ <<>> \in Seq(ResultBlocks)
    BY <1>1, <2>1
  <2>4. FlatMap(OfSent, Append(s.out, m)) = FlatMap(OfSent, s.out) \o Content(m)
    BY <1>1, <2>1, SendMore
  <2> QED
    BY <1>3, <2>1, <2>2, <2>3, <2>4 DEF Gathers, Gathering
<1> QED
  BY <1>4, <1>5
----------------------------------------------------------------------------
(* Messages that openai_messages_to_anthropic gets: in OpenAI's protocol,  *)
(* or what Anthropic's has in the same form.                               *)
Receivable ==
  {m \in Messages : /\ m.form # "list" => m.blocks = <<>>
                    /\ m.calls # <<>> => m.role = "assistant" /\ m.form # "list"}

(* A message whose images have changed their form.                         *)
LEMMA WithBlocks ==
  ASSUME NEW m \in Messages, NEW bs \in Seq(Blocks), NEW n, n = [m EXCEPT !.blocks = bs]
  PROVE  /\ n \in Messages /\ n.blocks = bs
         /\ n.role = m.role /\ n.form = m.form /\ n.text = m.text
         /\ n.calls = m.calls /\ n.id = m.id
  BY DEF Messages

(* No calls say nothing.                                                   *)
LEMMA NothingCalled == CallItems(<<>>) = <<>>
  BY DEF CallItems, Each

(* Whatever message comes next, the translation says it after the others.  *)
LEMMA GatherStep ==
  ASSUME NEW s \in Gathering, NEW original \in Receivable
  PROVE  /\ NextMessage(s, original) \in Gathering
         /\ Gathers(NextMessage(s, original)) = Gathers(s) \o Says(original)
<1> DEFINE c == _openai_content_to_anthropic_blocks(original.blocks)
           m == [original EXCEPT !.blocks = c]
           n == NextMessage(s, original)
<1>1. /\ original \in Messages
      /\ original.form # "list" => original.blocks = <<>>
      /\ original.calls # <<>> => original.role = "assistant" /\ original.form # "list"
      /\ original.role \in Roles /\ original.form \in {"null", "str", "list"}
      /\ original.text \in Texts /\ original.blocks \in Seq(Blocks)
      /\ original.calls \in Seq(Calls) /\ original.id \in Nat
  BY DEF Receivable, Messages
<1>2. /\ c \in Seq(Blocks) /\ Len(c) = Len(original.blocks)
      /\ \A i \in 1..Len(c) : c[i].type # "image_url"
      /\ BlocksSay(original.role, c) = BlocksSay(original.role, original.blocks)
  BY <1>1, Converted
<1>3. /\ m \in Messages /\ m.blocks = c
      /\ m.role = original.role /\ m.form = original.form /\ m.text = original.text
      /\ m.calls = original.calls /\ m.id = original.id
  <2> HIDE DEF c
  <2> QED
    BY <1>1, <1>2, WithBlocks
<1>4. /\ n = IF m.role = "tool"
             THEN [s EXCEPT !.pending = Append(@, ToolResult(m.id, m.text))]
             ELSE IF m.role = "user" /\ s.pending # <<>> THEN Merged(s, m)
             ELSE [Flushed(s) EXCEPT
                     !.out = Append(@, IF m.role = "assistant" /\ m.calls # <<>>
                                       THEN AssistantToAnthropic(m) ELSE m)]
  BY DEF NextMessage
<1>5. Says(original) = IF m.role = "tool" THEN <<Item("result", m.id, m.text)>>
                       ELSE Content(m) \o CallItems(m.calls)
  <2>1. Content(m) = Content(original)
    BY <1>2, <1>3 DEF Content
  <2> QED
    BY <1>3, <2>1 DEF Says
<1>6. /\ s.out \in Seq(Sent) /\ s.pending \in Seq(ResultBlocks) /\ s = [out |-> s.out, pending |-> s.pending]
      /\ s.pending \in Seq(Blocks)
      /\ \A i \in 1..Len(s.pending) : s.pending[i].type = "tool_result"
      /\ FlatMap(OfSent, s.out) \in Seq(Items) /\ BlocksSay("user", s.pending) \in Seq(Items)
      /\ Gathers(s) = FlatMap(OfSent, s.out) \o BlocksSay("user", s.pending)
  <2>1. /\ s.out \in Seq(Sent) /\ s.pending \in Seq(ResultBlocks)
        /\ s = [out |-> s.out, pending |-> s.pending]
    BY DEF Gathering
  <2> QED
    BY <2>1, ResultsAreBlocks, BlocksSayConcat, OfSentType, FlatMapType DEF Roles, Gathers
<1>7. /\ Content(m) \in Seq(Items) /\ CallItems(m.calls) \in Seq(Items)
  BY <1>3, OneMessageSays
<1> HIDE DEF m, c, n
<1>8. CASE m.role = "tool"
  <2> DEFINE b == ToolResult(m.id, m.text)
  <2>1. /\ b \in Blocks /\ b.type = "tool_result" /\ b.id = m.id /\ b.text = m.text
    BY <1>1, <1>3, MadeResult
  <2>2. OfBlock("user")[b] = <<Item("result", m.id, m.text)>>
    BY <2>1, OneBlockSays DEF BlockSays, BlockItems, Roles
  <2> HIDE DEF b
  <2>3. b \in ResultBlocks /\ Append(s.pending, b) \in Seq(ResultBlocks)
    BY <1>6, <2>1 DEF ResultBlocks, Picked
  <2>4. n = [out |-> s.out, pending |-> Append(s.pending, b)]
    BY <1>4, <1>6, <1>8 DEF b
  <2>5. BlocksSay("user", Append(s.pending, b)) = BlocksSay("user", s.pending) \o OfBlock("user")[b]
    <3>1. "user" \in Roles
      BY DEF Roles
    <3> QED
      BY <1>6, <2>1, <3>1, OfBlockType, FlatMapAppend DEF BlocksSay
  <2>6. <<Item("result", m.id, m.text)>> \in Seq(Items)
    BY <1>1, <1>3, <1>5, <1>8, OneMessageSays
  <2> DEFINE x == FlatMap(OfSent, s.out)
             y == BlocksSay("user", s.pending)
             z == <<Item("result", m.id, m.text)>>
  <2>7. x \in Seq(Items) /\ y \in Seq(Items) /\ z \in Seq(Items)
    BY <1>6, <2>6
  <2>8. Gathers(n) = x \o (y \o z) /\ Gathers(s) \o Says(original) = (x \o y) \o z
    BY <1>5, <1>6, <1>8, <2>2, <2>4, <2>5 DEF Gathers
  <2>9. n \in Gathering
    BY <1>6, <2>3, <2>4 DEF Gathering
  <2> HIDE DEF x, y, z
  <2>10. x \o (y \o z) = (x \o y) \o z
    BY ONLY <2>7, ConcatAssociative
  <2> QED
    BY <2>8, <2>9, <2>10 DEF n
<1>9. CASE m.role = "user" /\ s.pending # <<>>
  <2> DEFINE spoken == IF m.form = "str" THEN NonEmptyText(m.text) ELSE m.blocks
  <2>1. /\ spoken \in Seq(Blocks) /\ \A i \in 1..Len(spoken) : spoken[i].type # "image_url"
        /\ BlocksSay("user", spoken) = Content(m)
    <3>1. CASE m.form = "str"
      <4>1. NonEmptyText(m.text) \in Seq(Blocks)
            /\ (\A i \in 1..Len(NonEmptyText(m.text)) : NonEmptyText(m.text)[i].type = "text")
            /\ BlocksSay("user", NonEmptyText(m.text)) = WordItems("user", m.text)
        BY <1>1, <1>3, TextSays DEF Roles
      <4> QED
        BY <1>9, <3>1, <4>1 DEF Content
    <3>2. CASE m.form # "str"
      BY <1>2, <1>3, <1>9, <3>2 DEF Content
    <3> QED
      BY <3>1, <3>2
  <2> DEFINE all == s.pending \o spoken
             sent == Listing("user", all)
  <2>2. n = [out |-> Append(s.out, sent), pending |-> <<>>]
    BY <1>4, <1>9 DEF Merged
  <2> HIDE DEF spoken
  <2>3. all \in Seq(Blocks) /\ \A i \in 1..Len(all) : all[i].type # "image_url"
    <3>1. /\ all \in Seq(Blocks)
          /\ \A i \in 1..Len(all) : \/ \E j \in 1..Len(s.pending) : all[i] = s.pending[j]
                                    \/ \E j \in 1..Len(spoken) : all[i] = spoken[j]
      <4>1. /\ all \in Seq(Blocks) /\ Len(all) = Len(s.pending) + Len(spoken)
            /\ Len(s.pending) \in Nat /\ Len(spoken) \in Nat
            /\ \A i \in 1..(Len(s.pending) + Len(spoken)) :
                 all[i] = IF i <= Len(s.pending) THEN s.pending[i] ELSE spoken[i - Len(s.pending)]
        BY <1>6, <2>1, ConcatProperties
      <4> HIDE DEF all
      <4>2. ASSUME NEW i \in 1..Len(all), i > Len(s.pending)
            PROVE  \E j \in 1..Len(spoken) : all[i] = spoken[j]
        <5>1. i - Len(s.pending) \in 1..Len(spoken) /\ all[i] = spoken[i - Len(s.pending)]
          BY <4>1, <4>2
        <5> QED
          BY <5>1
      <4>3. ASSUME NEW i \in 1..Len(all), ~(i > Len(s.pending))
            PROVE  \E j \in 1..Len(s.pending) : all[i] = s.pending[j]
        <5>1. i \in 1..Len(s.pending) /\ all[i] = s.pending[i]
          BY <4>1, <4>3
        <5> QED
          BY <5>1
      <4>4. ASSUME NEW i \in 1..Len(all)
            PROVE  \/ \E j \in 1..Len(s.pending) : all[i] = s.pending[j]
                   \/ \E j \in 1..Len(spoken) : all[i] = spoken[j]
        BY ONLY <4>2, <4>3, i \in 1..Len(all)
      <4> QED
        BY <4>1, <4>4
    <3> HIDE DEF all
    <3> QED
      BY <1>6, <2>1, <3>1
  <2>4. BlocksSay("user", all) = BlocksSay("user", s.pending) \o Content(m)
    <3>1. "user" \in Roles
      BY DEF Roles
    <3>2. s.pending \in Seq(Blocks) /\ spoken \in Seq(Blocks)
      BY <1>6, <2>1
    <3>3. BlocksSay("user", s.pending \o spoken) =
            BlocksSay("user", s.pending) \o BlocksSay("user", spoken)
      BY ONLY <3>1, <3>2, BlocksSayConcat
    <3> QED
      BY <2>1, <3>3
  <2> HIDE DEF all
  <2>5. sent \in Sent /\ Content(sent) = BlocksSay("user", all)
    BY <2>3, ListingSent DEF Roles
  <2> HIDE DEF sent
  <2>6. /\ Append(s.out, sent) \in Seq(Sent)
        /\ FlatMap(OfSent, Append(s.out, sent)) = FlatMap(OfSent, s.out) \o Content(sent)
    BY <1>6, <2>5, SendMore
  <2>7. n \in Gathering
    BY <2>2, <2>6 DEF Gathering
  <2>8. m.calls = <<>>
    BY <1>1, <1>3, <1>9
  <2> DEFINE x == FlatMap(OfSent, s.out)
             y == BlocksSay("user", s.pending)
             z == Content(m)
  <2>9. BlocksSay("user", <<>>) = <<>> /\ Append(s.out, sent) = n.out /\ n.pending = <<>>
    BY <2>2, BlocksSayConcat, <1>6 DEF Roles
  <2>10. Gathers(n) = (x \o (y \o z)) \o <<>> /\ Gathers(s) \o Says(original) = (x \o y) \o (z \o <<>>)
    BY <1>5, <1>6, <1>9, <2>4, <2>5, <2>6, <2>8, <2>9, NothingCalled DEF Gathers
  <2>11. x \in Seq(Items) /\ y \in Seq(Items) /\ z \in Seq(Items)
    BY <1>6, <1>7
  <2> HIDE DEF x, y, z
  <2>12. (x \o (y \o z)) \o <<>> = (x \o y) \o (z \o <<>>)
    BY ONLY <2>11, ConcatAssociative
  <2> QED
    BY <2>7, <2>10, <2>12 DEF n
<1>10. CASE m.role # "tool" /\ ~(m.role = "user" /\ s.pending # <<>>)
  <2> DEFINE sent == IF m.role = "assistant" /\ m.calls # <<>> THEN AssistantToAnthropic(m) ELSE m
  <2>1. sent \in Sent /\ Content(sent) = Content(m) \o CallItems(m.calls)
    <3>1. CASE m.role = "assistant" /\ m.calls # <<>>
      <4> DEFINE t == IF m.form = "str" THEN NonEmptyText(m.text) ELSE <<>>
                 u == Uses(m.calls)
      <4>1. sent = Listing("assistant", t \o u)
        BY <3>1 DEF AssistantToAnthropic, Uses
      <4>2. /\ t \in Seq(Blocks) /\ \A i \in 1..Len(t) : t[i].type = "text"
            /\ BlocksSay("assistant", t) = Content(m)
        <5>1. CASE m.form = "str"
          BY <1>1, <1>3, <3>1, <5>1, TextSays DEF Roles, Content
        <5>2. CASE m.form # "str"
          <6>1. m.blocks = <<>>
            <7>1. original.blocks = <<>>
              BY <1>1, <1>3, <3>1
            <7> QED
              BY <7>1, <1>3 DEF c, _openai_content_to_anthropic_blocks, Each
          <6> QED
            BY <3>1, <5>2, <6>1 DEF Content
        <5> QED
          BY <5>1, <5>2
      <4>3. /\ u \in Seq(Blocks) /\ \A i \in 1..Len(u) : u[i].type = "tool_use"
            /\ BlocksSay("assistant", u) = CallItems(m.calls)
        BY <1>1, <1>3, CallsAsBlocks DEF Roles
      <4> HIDE DEF t, u
      <4>4. /\ t \o u \in Seq(Blocks) /\ \A i \in 1..Len(t \o u) : (t \o u)[i].type # "image_url"
        <5>1. /\ t \o u \in Seq(Blocks) /\ Len(t \o u) = Len(t) + Len(u)
              /\ Len(t) \in Nat /\ Len(u) \in Nat
              /\ \A i \in 1..(Len(t) + Len(u)) :
                   (t \o u)[i] = IF i <= Len(t) THEN t[i] ELSE u[i - Len(t)]
          BY <4>2, <4>3, ConcatProperties
        <5>2. ASSUME NEW i \in 1..Len(t \o u) PROVE (t \o u)[i].type # "image_url"
          <6>1. CASE i <= Len(t)
            BY <4>2, <5>1, <6>1
          <6>2. CASE ~(i <= Len(t))
            <7>1. i - Len(t) \in 1..Len(u) /\ (t \o u)[i] = u[i - Len(t)]
              BY <5>1, <6>2
            <7> QED
              BY <4>3, <7>1
          <6> QED
            BY <6>1, <6>2
        <5> QED
          BY <5>1, <5>2
      <4>5. BlocksSay("assistant", t \o u) = Content(m) \o CallItems(m.calls)
        BY <4>2, <4>3, BlocksSayConcat DEF Roles
      <4> DEFINE v == t \o u
      <4>6. v \in Seq(Blocks) /\ (\A i \in 1..Len(v) : v[i].type # "image_url")
            /\ sent = Listing("assistant", v)
        BY <4>1, <4>4
      <4> HIDE DEF v, sent
      <4>7. sent \in Sent /\ Content(sent) = BlocksSay("assistant", v)
        BY <4>6, ListingSent DEF Roles
      <4> QED
        BY <4>5, <4>7 DEF v
    <3>2. CASE ~(m.role = "assistant" /\ m.calls # <<>>)
      <4>1. m.calls = <<>> /\ sent = m
        BY <1>1, <1>3, <3>2
      <4>2. m \in Sent
        BY <1>2, <1>3, <1>10 DEF Sent
      <4>3. Content(m) \o <<>> = Content(m)
        BY <1>7
      <4> QED
        BY <4>1, <4>2, <4>3, NothingCalled
    <3> QED
      BY <3>1, <3>2
  <2> HIDE DEF sent
  <2> DEFINE f == Flushed(s)
  <2>2. /\ f \in Gathering /\ f.pending = <<>> /\ FlatMap(OfSent, f.out) = Gathers(s)
        /\ Gathers(s) \in Seq(Items)
    BY FlushSays
  <2>3. n = [f EXCEPT !.out = Append(@, sent)]
    BY <1>4, <1>10 DEF sent
  <2> HIDE DEF f
  <2>4. f.out \in Seq(Sent) /\ f = [out |-> f.out, pending |-> <<>>]
    BY <2>2 DEF Gathering
  <2>5. /\ Append(f.out, sent) \in Seq(Sent)
        /\ FlatMap(OfSent, Append(f.out, sent)) = Gathers(s) \o Content(sent)
    BY <2>1, <2>2, <2>4, SendMore
  <2>6. n.out = Append(f.out, sent) /\ n.pending = <<>> /\ n \in Gathering
    <3>1. DOMAIN f = {"out", "pending"} /\ f.pending = <<>>
      BY <2>4
    <3>2. n = [x \in {"out", "pending"} |-> IF x = "out" THEN Append(f.out, sent) ELSE f[x]]
      BY <2>3, <3>1
    <3>3. n = [out |-> Append(f.out, sent), pending |-> <<>>]
      BY <3>1, <3>2
    <3>4. <<>> \in Seq(ResultBlocks)
      OBVIOUS
    <3> QED
      BY <2>5, <3>3, <3>4 DEF Gathering
  <2>7. Gathers(n) = (Gathers(s) \o (Content(m) \o CallItems(m.calls))) \o <<>>
    BY <2>1, <2>5, <2>6, BlocksSayConcat, <1>6 DEF Gathers, Roles
  <2>8. Gathers(n) = Gathers(s) \o (Content(m) \o CallItems(m.calls))
    <3> DEFINE x == Gathers(s) \o (Content(m) \o CallItems(m.calls))
    <3>1. x \in Seq(Items)
      BY <1>7, <2>2
    <3> HIDE DEF x
    <3>2. x \o <<>> = x
      BY <3>1
    <3> QED
      BY <2>7, <3>2 DEF x
  <2> QED
    BY <1>5, <1>10, <2>6, <2>8 DEF n
<1> QED
  BY <1>8, <1>9, <1>10
----------------------------------------------------------------------------
(* g is the table that Gathered reads for ms.                              *)
Begun == [out |-> <<>>, pending |-> <<>>]
Tabled(g, ms) ==
  g = [i \in 0..Len(ms) |-> IF i = 0 THEN Begun ELSE NextMessage(g[i - 1], ms[i])]

(* The table exists: it is built up one message at a time.                 *)
LEMMA TableExists ==
  ASSUME NEW S, NEW ms \in Seq(S)
  PROVE  \E g : Tabled(g, ms)
<1> DEFINE step(g, i) == IF i = 0 THEN Begun ELSE NextMessage(g[i - 1], ms[i])
           P(n) == \E g : g = [i \in 0..n |-> step(g, i)]
           T == {n \in 0..Len(ms) : ~P(n)}
<1>1. Len(ms) \in Nat
  OBVIOUS
<1> HIDE DEF P
<1>2. T = {}
  <2> SUFFICES ASSUME T # {} PROVE FALSE
    OBVIOUS
  <2> DEFINE m == Min(T)
  <2>1. T \in SUBSET Nat
    BY <1>1
  <2>2. m \in T /\ \A n \in T : m <= n
    BY <2>1, LeastNumber
  <2> HIDE DEF m
  <2>3. m \in 0..Len(ms) /\ ~P(m) /\ m \in Nat
    BY <2>2
  <2>4. CASE m = 0
    <3> DEFINE g == [i \in 0..0 |-> Begun]
    <3>1. ASSUME NEW i \in 0..0 PROVE step(g, i) = Begun
      BY i = 0
    <3>2. g = [i \in 0..0 |-> step(g, i)]
      <4>1. g = [i \in 0..0 |-> Begun]
        OBVIOUS
      <4> HIDE DEF g, step
      <4> QED
        BY <3>1, <4>1
    <3> HIDE DEF g
    <3> QED
      BY <2>3, <2>4, <3>2 DEF P
  <2>5. CASE m # 0
    <3>1. m - 1 \in 0..Len(ms) /\ m - 1 \notin T
      BY <1>1, <2>2, <2>3, <2>5
    <3>2. PICK g : g = [i \in 0..(m - 1) |-> step(g, i)]
      BY <3>1 DEF P
    <3> DEFINE h == [i \in 0..m |-> step(g, i)]
    <3>3. \A i \in 0..(m - 1) : h[i] = g[i]
      <4> SUFFICES ASSUME NEW i \in 0..(m - 1) PROVE h[i] = g[i]
        OBVIOUS
      <4>1. g[i] = step(g, i)
        BY ONLY <3>2, i \in 0..(m - 1)
      <4>2. i \in 0..m
        BY <2>3
      <4> QED
        BY <4>1, <4>2
    <3>4. ASSUME NEW i \in 0..m PROVE step(g, i) = step(h, i)
      <4>1. CASE i = 0
        BY <4>1
      <4>2. CASE i # 0
        <5>1. i - 1 \in 0..(m - 1)
          BY <2>3, <4>2
        <5> HIDE DEF h
        <5> QED
          BY <3>3, <5>1
      <4> QED
        BY <4>1, <4>2
    <3>5. h = [i \in 0..m |-> step(h, i)]
      <4>1. h = [i \in 0..m |-> step(g, i)]
        OBVIOUS
      <4> HIDE DEF h, step
      <4> QED
        BY <4>1, <3>4
    <3> HIDE DEF h
    <3> QED
      BY <2>3, <3>5 DEF P
  <2> QED
    BY <2>4, <2>5
<1>3. P(Len(ms))
  <2>1. Len(ms) \in 0..Len(ms)
    BY <1>1
  <2> QED
    BY <2>1, <1>2
<1> QED
  BY <1>3 DEF P, Tabled

(* Its entries depend on the messages before them only.                    *)
LEMMA TablesAgree ==
  ASSUME NEW S, NEW ms \in Seq(S), NEW more \in Seq(S),
         NEW n \in Nat, n <= Len(ms), n <= Len(more),
         \A i \in 1..n : ms[i] = more[i],
         NEW g, Tabled(g, ms), NEW h, Tabled(h, more)
  PROVE  g[n] = h[n]
<1> DEFINE T == {i \in 0..n : g[i] # h[i]}
<1>1. Len(ms) \in Nat /\ Len(more) \in Nat
  OBVIOUS
<1>2. T = {}
  <2> SUFFICES ASSUME T # {} PROVE FALSE
    OBVIOUS
  <2> DEFINE m == Min(T)
  <2>1. m \in T /\ \A i \in T : m <= i
    <3>1. T \in SUBSET Nat
      OBVIOUS
    <3> QED
      BY <3>1, LeastNumber
  <2> HIDE DEF m
  <2>2. m \in 0..n /\ m \in 0..Len(ms) /\ m \in 0..Len(more) /\ m \in Nat /\ g[m] # h[m]
    BY <1>1, <2>1
  <2>3. /\ g[m] = IF m = 0 THEN Begun ELSE NextMessage(g[m - 1], ms[m])
        /\ h[m] = IF m = 0 THEN Begun ELSE NextMessage(h[m - 1], more[m])
    BY <2>2 DEF Tabled
  <2>4. CASE m = 0
    BY <2>2, <2>3, <2>4
  <2>5. CASE m # 0
    <3>1. m - 1 \in 0..n /\ m - 1 \notin T /\ m \in 1..n
      BY <2>1, <2>2, <2>5
    <3>2. g[m - 1] = h[m - 1] /\ ms[m] = more[m]
      BY <3>1
    <3> QED
      BY <2>2, <2>3, <2>5, <3>2
  <2> QED
    BY <2>4, <2>5
<1> QED
  BY <1>2

(* So the messages are gathered one after the other.                       *)
LEMMA GatheredNext ==
  ASSUME NEW S, NEW ms \in Seq(S), NEW m \in S
  PROVE  /\ Gathered(<<>>) = Begun
         /\ Gathered(Append(ms, m)) = NextMessage(Gathered(ms), m)
<1> DEFINE table(u) == CHOOSE g : Tabled(g, u)
<1>1. ASSUME NEW u \in Seq(S) PROVE Gathered(u) = table(u)[Len(u)] /\ Tabled(table(u), u)
  <2>1. Tabled(table(u), u)
    BY TableExists
  <2> QED
    BY <2>1 DEF Gathered, Tabled, Begun
<1>2. Gathered(<<>>) = Begun
  <2>1. <<>> \in Seq(S) /\ Len(<<>>) = 0
    OBVIOUS
  <2>2. Gathered(<<>>) = table(<<>>)[Len(<<>>)] /\ Tabled(table(<<>>), <<>>)
    BY <1>1, <2>1
  <2> HIDE DEF table
  <2> QED
    BY <2>1, <2>2 DEF Tabled
<1> DEFINE more == Append(ms, m)
<1>3. /\ more \in Seq(S) /\ Len(more) = Len(ms) + 1 /\ Len(ms) \in Nat
      /\ more[Len(more)] = m /\ \A i \in 1..Len(ms) : more[i] = ms[i]
  BY AppendProperties
<1> HIDE DEF more, table
<1>4. /\ Gathered(more) = table(more)[Len(more)] /\ Tabled(table(more), more)
      /\ Gathered(ms) = table(ms)[Len(ms)] /\ Tabled(table(ms), ms)
  BY <1>1, <1>3
<1>5. table(more)[Len(ms)] = table(ms)[Len(ms)]
  <2> DEFINE n == Len(ms)
             g == table(ms)
             h == table(more)
  <2>1. n \in Nat /\ n <= Len(ms) /\ n <= Len(more) /\ \A i \in 1..n : ms[i] = more[i]
    BY <1>3
  <2>2. Tabled(g, ms) /\ Tabled(h, more)
    BY <1>4
  <2> HIDE DEF n, g, h
  <2>3. g[n] = h[n]
    BY <1>3, <2>1, <2>2, TablesAgree
  <2> QED
    BY <2>3 DEF n, g, h
<1>6. table(more)[Len(more)] = NextMessage(table(more)[Len(ms)], m)
  <2>1. Len(more) \in 0..Len(more) /\ Len(more) # 0 /\ Len(more) - 1 = Len(ms)
    BY <1>3
  <2> QED
    BY <1>3, <1>4, <2>1 DEF Tabled
<1> QED
  BY <1>2, <1>4, <1>5, <1>6 DEF more
----------------------------------------------------------------------------
(* The state of the translation says what the conversation does.           *)
LEMMA GatheredSays ==
  ASSUME NEW ms \in Seq(Receivable)
  PROVE  /\ Gathered(ms) \in Gathering
         /\ Gathers(Gathered(ms)) = ConversationSays(ms)
<1> DEFINE Q(u) == Gathered(u) \in Gathering /\ Gathers(Gathered(u)) = ConversationSays(u)
           R == {n \in Nat : \E u \in Seq(Receivable) : Len(u) = n /\ ~Q(u)}
<1>1. R = {}
  <2> SUFFICES ASSUME R # {} PROVE FALSE
    OBVIOUS
  <2> HIDE DEF Q
  <2>1. Min(R) \in R /\ \A n \in R : Min(R) <= n
    <3>1. R \in SUBSET Nat
      OBVIOUS
    <3> QED
      BY <3>1, LeastNumber
  <2>2. PICK u \in Seq(Receivable) : Len(u) = Min(R) /\ ~Q(u)
    BY <2>1
  <2>3. CASE Len(u) = 0
    <3>1. u = <<>>
      BY <2>3
    <3>2. Gathered(<<>>) = Begun
      <4> DEFINE any == CHOOSE x : TRUE
      <4>1. <<>> \in Seq({any}) /\ any \in {any}
        OBVIOUS
      <4> HIDE DEF any
      <4> QED
        BY <4>1, GatheredNext
    <3>3. <<>> \in Seq(Sent) /\ <<>> \in Seq(ResultBlocks)
      OBVIOUS
    <3>4. FlatMap(OfSent, <<>>) = <<>> /\ ConversationSays(<<>>) = <<>> /\ BlocksSay("user", <<>>) = <<>>
      BY DEF FlatMap, MapSeq, FlattenSeq, ConversationSays, BlocksSay
    <3>5. Begun \in Gathering /\ Gathers(Begun) = ConversationSays(<<>>)
      <4>1. <<>> \o <<>> = <<>>
        OBVIOUS
      <4> QED
        BY <3>3, <3>4, <4>1 DEF Begun, Gathering, Gathers
    <3> QED
      BY <2>2, <3>1, <3>2, <3>5 DEF Q
  <2>4. CASE Len(u) # 0
    <3> DEFINE v == Shorter(u)
               x == u[Len(u)]
    <3>1. x \in Receivable /\ v \in Seq(Receivable) /\ Len(v) = Len(u) - 1 /\ u = Append(v, x)
      BY <2>4, LastElement
    <3> HIDE DEF v, x
    <3>2. Q(v)
      <4>1. Len(v) \in Nat /\ ~(Min(R) <= Len(v))
        BY <2>1, <2>2, <2>4, <3>1
      <4>2. Len(v) \notin R
        BY <2>1, <4>1
      <4> QED
        BY <3>1, <4>1, <4>2
    <3>3. Gathered(u) = NextMessage(Gathered(v), x)
      BY <3>1, GatheredNext
    <3>4. /\ NextMessage(Gathered(v), x) \in Gathering
          /\ Gathers(NextMessage(Gathered(v), x)) = Gathers(Gathered(v)) \o Says(x)
      <4>1. Gathered(v) \in Gathering
        BY <3>2 DEF Q
      <4> QED
        BY <3>1, <4>1, GatherStep
    <3>5. ConversationSays(u) = ConversationSays(v) \o Says(x)
      <4>1. Receivable \subseteq Messages
        BY DEF Receivable
      <4>2. x \in Messages /\ v \in Seq(Messages)
        BY <3>1, <4>1, SeqMonotonic
      <4>3. FlatMap(OfMessage, Append(v, x)) = FlatMap(OfMessage, v) \o OfMessage[x]
        BY <4>2, OfMessageType, FlatMapAppend
      <4>4. OfMessage[x] = Says(x)
        BY <4>2, OneMessageSays
      <4> QED
        BY <3>1, <4>3, <4>4 DEF ConversationSays
    <3> QED
      BY <2>2, <3>2, <3>3, <3>4, <3>5 DEF Q
  <2> QED
    BY <2>3, <2>4
<1> HIDE DEF Q
<1>2. Len(ms) \in Nat
  OBVIOUS
<1>3. Q(ms)
  BY <1>1, <1>2
<1> QED
  BY <1>3 DEF Q

(* Of any conversation in OpenAI's protocol, with results, texts, images   *)
(* and calls in any order, a model of Anthropic's reads what it says       *)
(* (openai_messages_to_anthropic, tooltrans.py).                           *)
THEOREM AnthropicReadsAll ==
  ASSUME NEW ms \in Seq(Receivable)
  PROVE  ReadByAnthropic(openai_messages_to_anthropic(ms)) = ConversationSays(ms)
<1>1. Gathered(ms) \in Gathering /\ Gathers(Gathered(ms)) = ConversationSays(ms)
  BY GatheredSays
<1> DEFINE out == Flushed(Gathered(ms)).out
<1>2. /\ FlatMap(OfSent, out) = ConversationSays(ms)
      /\ out \in Seq(Sent)
  <2>1. Flushed(Gathered(ms)) \in Gathering
        /\ FlatMap(OfSent, out) = Gathers(Gathered(ms))
    BY <1>1, FlushSays
  <2> QED
    BY <1>1, <2>1 DEF Gathering
<1> HIDE DEF out
<1>3. ReadByAnthropic(out) = FlatMap(OfSent, out)
  BY <1>2, ReadAsSent
<1> QED
  BY <1>2, <1>3 DEF out, openai_messages_to_anthropic
----------------------------------------------------------------------------
(* Messages that anthropic_messages_to_openai gets, in Anthropic's         *)
(* protocol: an assistant's texts before its calls, a user's results       *)
(* before the rest.                                                        *)
Answers == {b \in ResultBlocks : b.id # NoId}
Shown == Picked({"text", "image", "image_url"})
Spoken == Picked({"text"})
Used == Picked({"tool_use"})

Writable ==
  {m \in Messages :
     /\ m.calls = <<>> /\ m.id = NoId
     /\ m.form # "list" => m.blocks = <<>>
     /\ \/ /\ m.role = "assistant"
           /\ \E t \in Seq(Spoken), u \in Seq(Used) : m.blocks = t \o u
        \/ /\ m.role = "user"
           /\ \E r \in Seq(Answers), p \in Seq(Shown) : m.blocks = r \o p}

(* What a model of OpenAI's reads in one message.                          *)
HeardIn(m) ==
  IF m.role = "tool"
  THEN IF m.id = NoId THEN <<>> ELSE <<Item("result", m.id, m.text)>>
  ELSE ContentItems(m, {"text", "image_url"}) \o CallItems(m.calls)
OfHeard == [m \in Messages |-> HeardIn(m)]

(* Blocks of some types among those that may hold others: what they say.   *)
LEMMA PickedRead ==
  ASSUME NEW role \in Roles, NEW types, "input_audio" \notin types, NEW bs \in Seq(Blocks)
  PROVE  FlattenSeq(Each(OfType(bs, types), LAMBDA b : BlockItems(role, b))) =
           BlocksSay(role, OfType(bs, types))
<1> DEFINE picked == OfType(bs, types)
<1>1. picked \in Seq(Picked(types)) /\ picked \in Seq(Blocks)
  BY PickedType
<1>2. \A i \in 1..Len(picked) : picked[i].type \in types
  <2>1. \A b \in Picked(types) : b.type \in types
    BY DEF Picked
  <2> HIDE DEF picked
  <2> QED
    BY <1>1, <2>1
<1> HIDE DEF picked
<1>3. OfType(picked, types) = picked
  BY <1>1, <1>2, PickedAll
<1>4. FlattenSeq(Each(OfType(picked, types), LAMBDA b : BlockItems(role, b))) =
        BlocksSay(role, picked)
  BY <1>1, <1>2, PickedSay
<1> QED
  BY <1>3, <1>4 DEF picked

(* A model of OpenAI's family reads items in every message.                *)
LEMMA OfHeardType ==
  /\ Maps(OfHeard, Messages, Seq(Items))
  /\ \A m \in Messages : OfHeard[m] = HeardIn(m) /\ HeardIn(m) \in Seq(Items)
<1>1. ASSUME NEW m \in Messages PROVE HeardIn(m) \in Seq(Items)
  <2>1. /\ m.role \in Roles /\ m.text \in Texts /\ m.blocks \in Seq(Blocks)
        /\ m.calls \in Seq(Calls) /\ m.id \in Nat
    BY DEF Messages
  <2>2. <<Item("result", m.id, m.text)>> \in Seq(Items) /\ <<>> \in Seq(Items)
    BY <2>1 DEF Items, Item
  <2>3. WordItems(m.role, m.text) \in Seq(Items) /\ CallItems(m.calls) \in Seq(Items)
    BY <2>1, WordsSay, CallsSay
  <2>4. FlattenSeq(Each(OfType(m.blocks, {"text", "image_url"}),
                        LAMBDA b : BlockItems(m.role, b))) \in Seq(Items)
    <3> DEFINE types == {"text", "image_url"}
               role == m.role
               bs == m.blocks
    <3>1. "input_audio" \notin types /\ role \in Roles /\ bs \in Seq(Blocks)
      BY <2>1
    <3> HIDE DEF types, role, bs
    <3>2. FlattenSeq(Each(OfType(bs, types), LAMBDA b : BlockItems(role, b))) =
            BlocksSay(role, OfType(bs, types))
      BY <3>1, PickedRead
    <3>3. OfType(bs, types) \in Seq(Blocks)
      BY <3>1, PickedType
    <3>4. BlocksSay(role, OfType(bs, types)) \in Seq(Items)
      BY <3>1, <3>3, BlocksSayConcat
    <3>5. FlattenSeq(Each(OfType(bs, types), LAMBDA b : BlockItems(role, b))) \in Seq(Items)
      BY <3>2, <3>4
    <3> QED
      BY <3>5 DEF types, role, bs
  <2> QED
    BY <2>2, <2>3, <2>4 DEF HeardIn, ContentItems
<1> QED
  BY <1>1 DEF Maps, OfHeard

(* It reads a conversation message by message.                             *)
LEMMA HeardByOne ==
  ASSUME NEW ms \in Seq(Messages)
  PROVE  ReadByOpenAI(ms) = FlatMap(OfHeard, ms)
<1>1. DOMAIN ms = 1..Len(ms) /\ \A i \in 1..Len(ms) : ms[i] \in Messages
  OBVIOUS
<1> QED
  BY <1>1 DEF ReadByOpenAI, FlatMap, MapSeq, Each, OfHeard, HeardIn
----------------------------------------------------------------------------
(* The text of some text blocks, joined, says what they do.                *)
LEMMA JoinedSays ==
  ASSUME NEW role \in Roles, NEW bs \in Seq(Blocks),
         \A i \in 1..Len(bs) : bs[i].type = "text"
  PROVE  /\ Joined(bs) \in Texts
         /\ WordItems(role, Joined(bs)) = BlocksSay(role, bs)
<1> DEFINE f == [b \in Spoken |-> b.text]
           g == [w \in Words |-> <<Item(role, NoId, w)>>]
           h == [b \in Spoken |-> WordItems(role, b.text)]
           k == [w \in Words |-> Item(role, NoId, w)]
<1>1. \A b \in Spoken : b \in Blocks /\ b.type = "text" /\ b.text \in Seq(Words)
  BY DEF Spoken, Picked, Blocks, Texts
<1>2. bs \in Seq(Spoken) /\ OfType(bs, {"text"}) = bs
  <2>1. Len(bs) \in Nat /\ bs = [i \in 1..Len(bs) |-> bs[i]]
    OBVIOUS
  <2>2. \A i \in 1..Len(bs) : bs[i] \in Blocks
    OBVIOUS
  <2>3. \A i \in 1..Len(bs) : bs[i] \in Spoken /\ bs[i].type \in {"text"}
    BY <2>2 DEF Spoken, Picked
  <2>4. bs \in Seq(Spoken)
    BY <2>1, <2>3
  <2> QED
    BY <2>3, <2>4, PickedAll
<1>3. \A w \in Words : Item(role, NoId, w) \in Items
  BY DEF Items, Item, NoId
<1>4. Maps(f, Spoken, Seq(Words))
  BY <1>1 DEF Maps
<1>14. Maps(k, Words, Items)
  BY <1>3 DEF Maps
<1>5. Maps(g, Words, Seq(Items))
  <2>1. \A w \in Words : <<Item(role, NoId, w)>> \in Seq(Items)
    BY <1>3
  <2> QED
    BY <2>1 DEF Maps
<1>6. Maps(h, Spoken, Seq(Items))
  <2>1. \A b \in Spoken : WordItems(role, b.text) \in Seq(Items)
    BY <1>1, WordsSay DEF Texts
  <2> QED
    BY <2>1 DEF Maps
<1>7. Joined(bs) = FlatMap(f, bs)
  <2>1. DOMAIN bs = 1..Len(bs) /\ \A i \in 1..Len(bs) : bs[i] \in Spoken
    BY <1>2
  <2> QED
    BY <1>2, <2>1 DEF Joined, FlatMap, MapSeq, Each
<1>8. ASSUME NEW t \in Seq(Words) PROVE FlatMap(g, t) = WordItems(role, t)
  <2>1. DOMAIN t = 1..Len(t) /\ \A i \in 1..Len(t) : t[i] \in Words
    OBVIOUS
  <2>2. Single(g, k, t)
    BY <2>1 DEF Single
  <2>3. MapSeq(k, t) = WordItems(role, t)
    BY <2>1 DEF MapSeq, WordItems, Each
  <2>4. t \in Seq(Words)
    OBVIOUS
  <2> HIDE DEF g, k
  <2>5. FlatMap(g, t) = MapSeq(k, t)
    BY ONLY <1>14, <2>2, <2>4, FlatMapEach
  <2> QED
    BY <2>3, <2>5
<1>9. \A b \in Spoken : h[b] = FlatMap(g, f[b])
  <2> SUFFICES ASSUME NEW b \in Spoken PROVE h[b] = FlatMap(g, f[b])
    OBVIOUS
  <2>1. h[b] = WordItems(role, b.text) /\ f[b] = b.text /\ b.text \in Seq(Words)
    BY <1>1
  <2> HIDE DEF f, g, h
  <2> QED
    BY <1>8, <2>1
<1>10. \A i \in 1..Len(bs) : h[bs[i]] = OfBlock(role)[bs[i]]
  <2>1. \A i \in 1..Len(bs) : bs[i] \in Spoken
    BY <1>2
  <2>2. \A b \in Spoken : h[b] = OfBlock(role)[b]
    BY <1>1 DEF OfBlock, BlockSays, BlockItems
  <2> QED
    BY <2>1, <2>2
<1> HIDE DEF f, g, h, k
<1>11. FlatMap(g, FlatMap(f, bs)) = FlatMap(h, bs)
  BY <1>2, <1>4, <1>5, <1>6, <1>9, FlatMapTwice
<1>12. FlatMap(h, bs) = FlatMap(OfBlock(role), bs)
  BY <1>2, <1>10, FlatMapAgree
<1>13. FlatMap(f, bs) \in Seq(Words)
  BY <1>2, <1>4, FlatMapType
<1> QED
  BY <1>7, <1>8, <1>11, <1>12, <1>13 DEF Texts, BlocksSay
----------------------------------------------------------------------------
(* Calls, as blocks and as OpenAI's field.                                 *)
LEMMA BlocksAsCalls ==
  ASSUME NEW role \in Roles, NEW bs \in Seq(Blocks),
         \A i \in 1..Len(bs) : bs[i].type = "tool_use",
         NEW c, c = Each(bs, LAMBDA b : [id |-> b.id, args |-> b.args])
  PROVE  /\ c \in Seq(Calls)
         /\ CallItems(c) = BlocksSay(role, bs)
<1> DEFINE g == [b \in Blocks |-> Item("call", b.id, b.args)]
<1>1. DOMAIN bs = 1..Len(bs) /\ Len(bs) \in Nat /\ \A i \in 1..Len(bs) : bs[i] \in Blocks
  <2>1. bs \in Seq(Blocks)
    OBVIOUS
  <2> QED
    BY ONLY <2>1
<1>2. \A b \in Blocks : b.id \in Nat /\ b.args \in Args /\ Parsed(b.args) = b.args
  BY ToolTransAssumption DEF Blocks, Parsed
<1>3. c = [i \in 1..Len(bs) |-> [id |-> bs[i].id, args |-> bs[i].args]]
  BY <1>1 DEF Each
<1>4. c \in Seq(Calls) /\ DOMAIN c = 1..Len(bs)
  <2>1. \A i \in 1..Len(bs) : [id |-> bs[i].id, args |-> bs[i].args] \in Calls
    BY <1>1, <1>2 DEF Calls
  <2> QED
    BY ONLY <1>1, <1>3, <2>1
<1>5. Maps(g, Blocks, Items)
  <2>1. \A b \in Blocks : Item("call", b.id, b.args) \in Items
    BY <1>2 DEF Items, Item
  <2> QED
    BY <2>1 DEF Maps
<1>6. \A i \in 1..Len(bs) : OfBlock(role)[bs[i]] = <<g[bs[i]]>>
  <2>1. \A b \in Blocks : b.type = "tool_use" => OfBlock(role)[b] = <<g[b]>>
    BY DEF OfBlock, BlockSays, BlockItems
  <2> QED
    BY <1>1, <2>1
<1>7. CallItems(c) = MapSeq(g, bs)
  <2>1. \A i \in 1..Len(bs) : g[bs[i]] = Item("call", c[i].id, Parsed(c[i].args))
    <3>1. \A i \in 1..Len(bs) : c[i] = [id |-> bs[i].id, args |-> bs[i].args]
      BY ONLY <1>3
    <3>2. \A b \in Blocks : g[b] = Item("call", b.id, b.args) /\ Parsed(b.args) = b.args
      BY <1>2
    <3> HIDE DEF g
    <3>3. ASSUME NEW i \in 1..Len(bs) PROVE c[i].id = bs[i].id /\ c[i].args = bs[i].args
      <4>1. c[i] = [id |-> bs[i].id, args |-> bs[i].args]
        BY <3>1
      <4> QED
        BY ONLY <4>1
    <3> QED
      BY ONLY <1>1, <3>2, <3>3
  <2> HIDE DEF g
  <2> QED
    BY <1>1, <1>4, <2>1 DEF CallItems, Each, MapSeq
<1> HIDE DEF g
<1>8. FlatMap(OfBlock(role), bs) = MapSeq(g, bs)
  <2>1. bs \in Seq(Blocks)
    OBVIOUS
  <2>2. Single(OfBlock(role), g, bs)
    BY ONLY <1>6 DEF Single
  <2> QED
    BY ONLY <1>1, <1>5, <2>1, <2>2, FlatMapEach
<1> QED
  BY <1>4, <1>7, <1>8 DEF BlocksSay
----------------------------------------------------------------------------
(* Picking from two lists: all of one, none of the other.                  *)
LEMMA PickedFirst ==
  ASSUME NEW types, NEW a \in Seq(Blocks), NEW b \in Seq(Blocks),
         \A i \in 1..Len(a) : a[i].type \in types,
         \A i \in 1..Len(b) : b[i].type \notin types
  PROVE  OfType(a \o b, types) = a
<1>1. OfType(a, types) = a
  BY PickedAll
<1>2. OfType(b, types) = <<>>
  BY PickedNone
<1>3. OfType(a \o b, types) = OfType(a, types) \o OfType(b, types)
  BY PickedConcat
<1>4. a \o <<>> = a
  OBVIOUS
<1> QED
  BY <1>1, <1>2, <1>3, <1>4

(* Of two parts, one without and one of only these types, the second.      *)
LEMMA PickedSecond ==
  ASSUME NEW types, NEW a \in Seq(Blocks), NEW b \in Seq(Blocks),
         \A i \in 1..Len(a) : a[i].type \notin types,
         \A i \in 1..Len(b) : b[i].type \in types
  PROVE  OfType(a \o b, types) = b
<1>1. OfType(b, types) = b
  BY PickedAll
<1>2. OfType(a, types) = <<>>
  BY PickedNone
<1>3. OfType(a \o b, types) = OfType(a, types) \o OfType(b, types)
  BY PickedConcat
<1>4. <<>> \o b = b
  OBVIOUS
<1> QED
  BY <1>1, <1>2, <1>3, <1>4

(* Lists of blocks of some types are lists of blocks.                      *)
LEMMA PickedAreBlocks ==
  ASSUME NEW types, NEW bs \in Seq(Picked(types))
  PROVE  bs \in Seq(Blocks) /\ \A i \in 1..Len(bs) : bs[i] \in Blocks /\ bs[i].type \in types
<1>1. Picked(types) \subseteq Blocks /\ \A b \in Picked(types) : b.type \in types
  BY DEF Picked
<1>2. bs \in Seq(Blocks)
  BY <1>1, SeqMonotonic
<1> QED
  BY <1>1, <1>2

(* Nothing is read in no blocks.                                           *)
LEMMA NothingRead ==
  ASSUME NEW m, m.form # "str", m.blocks = <<>>, NEW types
  PROVE  ContentItems(m, types) = <<>>
<1>1. OfType(<<>>, types) = <<>>
  <2>1. <<>> \in Seq(Blocks) /\ \A i \in 1..Len(<<>>) : <<>>[i].type \notin types
    OBVIOUS
  <2> DEFINE none == <<>>
  <2>2. none \in Seq(Blocks) /\ \A i \in 1..Len(none) : none[i].type \notin types
    BY <2>1
  <2> HIDE DEF none
  <2>3. OfType(none, types) = <<>>
    BY <2>2, PickedNone
  <2> QED
    BY <2>3 DEF none
<1> QED
  BY <1>1 DEF ContentItems, Each, FlattenSeq
----------------------------------------------------------------------------
(* An assistant's texts and calls as a message of OpenAI's.                *)
LEMMA AssistantHeard ==
  ASSUME NEW t \in Seq(Spoken), NEW u \in Seq(Used), NEW m, m.blocks = t \o u
  PROVE  /\ AssistantToOpenAI(m) \in Messages
         /\ HeardIn(AssistantToOpenAI(m)) = BlocksSay("assistant", m.blocks)
<1> DEFINE n == AssistantToOpenAI(m)
           text == Joined(m.blocks)
           c == Each(u, LAMBDA b : [id |-> b.id, args |-> b.args])
<1>1. /\ t \in Seq(Blocks) /\ \A i \in 1..Len(t) : t[i] \in Blocks /\ t[i].type \in {"text"}
      /\ u \in Seq(Blocks) /\ \A i \in 1..Len(u) : u[i] \in Blocks /\ u[i].type \in {"tool_use"}
  BY PickedAreBlocks DEF Spoken, Used
<1>2. "assistant" \in Roles
  BY DEF Roles
<1>3. OfType(m.blocks, {"text"}) = t /\ OfType(m.blocks, {"tool_use"}) = u
  <2>1. /\ \A i \in 1..Len(t) : t[i].type \in {"text"} /\ t[i].type \notin {"tool_use"}
        /\ \A i \in 1..Len(u) : u[i].type \in {"tool_use"} /\ u[i].type \notin {"text"}
    BY <1>1
  <2>2. OfType(t \o u, {"text"}) = t
    BY <1>1, <2>1, PickedFirst
  <2>3. OfType(t \o u, {"tool_use"}) = u
    BY <1>1, <2>1, PickedSecond
  <2> QED
    BY <2>2, <2>3
<1>4. text = Joined(t)
  <2>1. OfType(t, {"text"}) = t
    BY <1>1, PickedAll
  <2> QED
    BY <1>3, <2>1 DEF Joined
<1>5. text \in Texts /\ WordItems("assistant", text) = BlocksSay("assistant", t)
  BY <1>1, <1>2, <1>4, JoinedSays
<1>6. c \in Seq(Calls) /\ CallItems(c) = BlocksSay("assistant", u)
  <2>1. \A i \in 1..Len(u) : u[i].type = "tool_use"
    BY <1>1
  <2> HIDE DEF n, text
  <2> QED
    BY <1>1, <1>2, <2>1, BlocksAsCalls
<1>7. n = [Message("assistant") EXCEPT
             !.form = IF text = <<>> THEN "null" ELSE "str", !.text = text, !.calls = c]
  BY <1>3 DEF AssistantToOpenAI
<1> HIDE DEF text, c, n
<1>8. n = [role |-> "assistant", form |-> IF text = <<>> THEN "null" ELSE "str",
           text |-> text, blocks |-> <<>>, calls |-> c, id |-> NoId]
  <2> DEFINE fields == {"role", "form", "text", "blocks", "calls", "id"}
             full == [x \in fields |-> IF x = "form" THEN IF text = <<>> THEN "null" ELSE "str"
                                       ELSE IF x = "text" THEN text
                                       ELSE IF x = "calls" THEN c ELSE Message("assistant")[x]]
  <2>1. DOMAIN Message("assistant") = fields
    BY DEF Message
  <2>2. n = full
    BY <1>7, <2>1
  <2>3. full = [role |-> "assistant", form |-> IF text = <<>> THEN "null" ELSE "str",
                text |-> text, blocks |-> <<>>, calls |-> c, id |-> NoId]
    BY DEF Message
  <2> QED
    BY <2>2, <2>3
<1>9. n \in Messages
  <2>1. <<>> \in Seq(Blocks) /\ NoId \in Nat
    BY DEF NoId
  <2> QED
    BY <1>2, <1>5, <1>6, <1>8, <2>1 DEF Messages
<1>10. ContentItems(n, {"text", "image_url"}) = BlocksSay("assistant", t)
  <2>1. CASE text = <<>>
    <3>1. n.form # "str" /\ n.blocks = <<>>
      BY <1>8, <2>1
    <3>2. ContentItems(n, {"text", "image_url"}) = <<>>
      BY <3>1, NothingRead
    <3>3. WordItems("assistant", text) = <<>>
      <4>1. WordItems("assistant", text) \in Seq(Items) /\ Len(WordItems("assistant", text)) = 0
        BY <1>2, <1>5, <2>1, WordsSay
      <4> QED
        BY <4>1
    <3> QED
      BY <1>5, <3>2, <3>3
  <2>2. CASE text # <<>>
    <3>1. n.form = "str" /\ n.text = text /\ n.role = "assistant"
      BY <1>8, <2>2
    <3> QED
      BY <1>5, <3>1 DEF ContentItems
  <2> QED
    BY <2>1, <2>2
<1>11. HeardIn(n) = BlocksSay("assistant", t) \o BlocksSay("assistant", u)
  <2>1. n.role = "assistant" /\ n.calls = c
    BY <1>8
  <2> QED
    BY <1>6, <1>10, <2>1 DEF HeardIn
<1>12. BlocksSay("assistant", t \o u) = BlocksSay("assistant", t) \o BlocksSay("assistant", u)
  BY <1>1, <1>2, BlocksSayConcat
<1> QED
  BY <1>9, <1>11, <1>12 DEF n
----------------------------------------------------------------------------
(* ResultBlocks as messages of their own.                                       *)
ResultMessage(b) == [Saying("tool", b.text) EXCEPT !.id = b.id]

(* A message per result says what the results say.                         *)
LEMMA ResultsHeard ==
  ASSUME NEW r \in Seq(Answers), NEW ms, ms = Each(r, ResultMessage)
  PROVE  /\ ms \in Seq(Messages)
         /\ FlatMap(OfHeard, ms) = BlocksSay("user", r)
<1>1. /\ Answers \subseteq Blocks
      /\ \A b \in Answers : /\ b.type = "tool_result" /\ b.text \in Texts
                            /\ b.id \in Nat /\ b.id # NoId
  BY DEF Answers, ResultBlocks, Picked, Blocks
<1>2. /\ Len(r) \in Nat /\ DOMAIN r = 1..Len(r) /\ r \in Seq(Blocks)
      /\ \A i \in 1..Len(r) : r[i] \in Answers
  BY <1>1, SeqMonotonic
<1>3. ASSUME NEW b \in Answers
      PROVE  /\ ResultMessage(b) \in Messages
             /\ HeardIn(ResultMessage(b)) = <<Item("result", b.id, b.text)>>
  <2> DEFINE plain == Saying("tool", b.text)
             n == ResultMessage(b)
  <2>1. /\ plain \in Messages
        /\ plain = [role |-> "tool", form |-> "str", text |-> b.text, blocks |-> <<>>,
                   calls |-> <<>>, id |-> NoId]
    <3>1. "tool" \in Roles /\ b.text \in Texts /\ <<>> \in Seq(Blocks)
      BY <1>1 DEF Roles
    <3> QED
      BY <3>1, MadeMessages
  <2> HIDE DEF plain
  <2>2. n = [plain EXCEPT !.id = b.id]
    BY DEF ResultMessage, plain
  <2> HIDE DEF n
  <2>3. n \in Messages /\ n.role = "tool" /\ n.id = b.id /\ n.text = b.text
    BY <1>1, <2>1, <2>2 DEF Messages
  <2>4. HeardIn(n) = <<Item("result", b.id, b.text)>>
    BY <1>1, <2>3 DEF HeardIn
  <2> QED
    BY <2>3, <2>4 DEF n
<1>4. ms = [i \in 1..Len(r) |-> ResultMessage(r[i])]
  BY <1>2 DEF Each
<1>5. ms \in Seq(Messages) /\ Len(ms) = Len(r)
  <2>1. \A i \in 1..Len(r) : ResultMessage(r[i]) \in Messages
    BY <1>2, <1>3
  <2> QED
    BY ONLY <1>2, <1>4, <2>1
<1>6. MapSeq(OfHeard, ms) = MapSeq(OfBlock("user"), r)
  <2>1. \A i \in 1..Len(r) : OfHeard[ms[i]] = OfBlock("user")[r[i]]
    <3> SUFFICES ASSUME NEW i \in 1..Len(r) PROVE OfHeard[ms[i]] = OfBlock("user")[r[i]]
      OBVIOUS
    <3>1. ms[i] = ResultMessage(r[i]) /\ r[i] \in Answers /\ r[i] \in Blocks
      BY <1>1, <1>2, <1>4
    <3>2. OfHeard[ms[i]] = <<Item("result", r[i].id, r[i].text)>>
      BY <1>3, <3>1, OfHeardType
    <3>3. OfBlock("user")[r[i]] = <<Item("result", r[i].id, r[i].text)>>
      BY <1>1, <3>1 DEF OfBlock, BlockSays, BlockItems
    <3> QED
      BY <3>2, <3>3
  <2>2. DOMAIN ms = 1..Len(r)
    BY <1>4
  <2> QED
    BY <1>2, <2>1, <2>2 DEF MapSeq
<1> QED
  BY <1>5, <1>6 DEF FlatMap, BlocksSay

(* What is shown, with images in OpenAI's form, says what it said.          *)
AsShown(p) == Each(p, LAMBDA b : IF b.type = "image" THEN ImageUrl(b.text) ELSE b)

(* One message with the texts and pictures says what they say.             *)
LEMMA ShownHeard ==
  ASSUME NEW p \in Seq(Shown)
  PROVE  /\ Listing("user", AsShown(p)) \in Messages
         /\ HeardIn(Listing("user", AsShown(p))) = BlocksSay("user", p)
<1> DEFINE c == AsShown(p)
           types == {"text", "image_url"}
           m == Listing("user", c)
<1>1. /\ p \in Seq(Blocks)
      /\ \A i \in 1..Len(p) : p[i] \in Blocks /\ p[i].type \in {"text", "image", "image_url"}
  BY PickedAreBlocks DEF Shown
<1>2. Len(p) \in Nat /\ DOMAIN p = 1..Len(p)
  BY <1>1
<1>3. \A b \in Blocks : /\ ImageUrl(b.text) \in Blocks /\ ImageUrl(b.text).type = "image_url"
                        /\ ImageUrl(b.text).text = b.text
  <2>1. \A b \in Blocks : b.text \in Texts \cup Pictures
    BY DEF Blocks
  <2> QED
    BY <2>1, MadeImage
<1>4. c = [i \in 1..Len(p) |-> IF p[i].type = "image" THEN ImageUrl(p[i].text) ELSE p[i]]
  BY <1>2 DEF AsShown, Each
<1> HIDE DEF c
<1>5. \A i \in 1..Len(p) : /\ c[i] \in Blocks /\ c[i].type \in types
                           /\ OfBlock("user")[c[i]] = OfBlock("user")[p[i]]
  <2> SUFFICES ASSUME NEW i \in 1..Len(p)
               PROVE  /\ c[i] \in Blocks /\ c[i].type \in types
                      /\ OfBlock("user")[c[i]] = OfBlock("user")[p[i]]
    OBVIOUS
  <2>1. p[i] \in Blocks /\ p[i].type \in {"text", "image", "image_url"}
    BY <1>1
  <2>2. CASE p[i].type = "image"
    <3>1. c[i] \in Blocks /\ c[i].type = "image_url" /\ c[i].text = p[i].text
      BY <1>3, <1>4, <2>1, <2>2
    <3> QED
      BY <2>1, <2>2, <3>1 DEF OfBlock, BlockSays, BlockItems
  <2>3. CASE p[i].type # "image"
    BY <1>4, <2>1, <2>3
  <2> QED
    BY <2>2, <2>3
<1>6. c \in Seq(Blocks) /\ Len(c) = Len(p) /\ DOMAIN c = 1..Len(p)
  <2>1. c = [i \in 1..Len(p) |-> c[i]]
    BY <1>4
  <2> QED
    BY ONLY <1>2, <1>5, <2>1
<1>7. BlocksSay("user", c) = BlocksSay("user", p)
  BY <1>2, <1>5, <1>6 DEF BlocksSay, FlatMap, MapSeq
<1>8. "user" \in Roles /\ <<>> \in Texts
  BY DEF Roles, Texts
<1>9. m \in Messages /\ m.role = "user" /\ m.form = "list" /\ m.blocks = c /\ m.calls = <<>>
  <2>1. /\ m \in Messages
        /\ m = [role |-> "user", form |-> "list", text |-> <<>>, blocks |-> c,
                calls |-> <<>>, id |-> NoId]
    BY <1>6, <1>8, MadeMessages
  <2> HIDE DEF m
  <2> QED
    BY <2>1
<1> HIDE DEF m
<1>10. ContentItems(m, types) = BlocksSay("user", c)
  <2>1. \A i \in 1..Len(c) : c[i].type \in types \cup {"input_audio"}
    BY <1>5, <1>6
  <2>2. "input_audio" \notin types
    OBVIOUS
  <2> HIDE DEF types
  <2>3. FlattenSeq(Each(OfType(c, types), LAMBDA b : BlockItems("user", b))) =
          BlocksSay("user", c)
    BY <1>6, <1>8, <2>1, <2>2, PickedSay
  <2> QED
    BY <1>9, <2>3 DEF ContentItems
<1>11. BlocksSay("user", c) \in Seq(Items)
  BY <1>6, <1>8, BlocksSayConcat
<1>12. HeardIn(m) = BlocksSay("user", p) \o <<>>
  BY <1>7, <1>9, <1>10, NothingCalled DEF HeardIn
<1>13. BlocksSay("user", p) \o <<>> = BlocksSay("user", p)
  BY <1>7, <1>11
<1> QED
  BY <1>9, <1>12, <1>13 DEF m, c
----------------------------------------------------------------------------
(* A user's results and what follows them.                                 *)
LEMMA UserHeard ==
  ASSUME NEW r \in Seq(Answers), NEW p \in Seq(Shown), NEW m, m.blocks = r \o p
  PROVE  /\ UserToOpenAI(m) \in Seq(Messages)
         /\ FlatMap(OfHeard, UserToOpenAI(m)) = BlocksSay("user", m.blocks)
<1> DEFINE ms == Each(r, ResultMessage)
           rest == IF p = <<>> THEN <<>>
                   ELSE IF \A i \in DOMAIN p : p[i].type = "text"
                   THEN <<Saying("user", Joined(p))>> ELSE <<Listing("user", AsShown(p))>>
<1>1. /\ r \in Seq(Blocks) /\ \A i \in 1..Len(r) : r[i] \in Blocks /\ r[i].type \in {"tool_result"}
      /\ p \in Seq(Blocks)
      /\ \A i \in 1..Len(p) : p[i] \in Blocks /\ p[i].type \in {"text", "image", "image_url"}
  <2>1. Answers \subseteq Picked({"tool_result"})
    BY DEF Answers, ResultBlocks
  <2>2. r \in Seq(Picked({"tool_result"}))
    BY <2>1, SeqMonotonic
  <2> QED
    BY <2>2, PickedAreBlocks DEF Shown
<1>2. "user" \in Roles
  BY DEF Roles
<1>3. UserToOpenAI(m) = ms \o rest
  <2>1. /\ \A i \in 1..Len(r) : r[i].type \in {"tool_result"}
                                /\ r[i].type \notin {"text", "image", "image_url"}
        /\ \A i \in 1..Len(p) : p[i].type \in {"text", "image", "image_url"}
                                /\ p[i].type \notin {"tool_result"}
    BY <1>1
  <2>2. OfType(r \o p, {"tool_result"}) = r
    BY <1>1, <2>1, PickedFirst
  <2>3. OfType(r \o p, {"text", "image", "image_url"}) = p
    BY <1>1, <2>1, PickedSecond
  <2> QED
    BY <2>2, <2>3 DEF UserToOpenAI, ResultMessage, AsShown
<1>4. ms \in Seq(Messages) /\ FlatMap(OfHeard, ms) = BlocksSay("user", r)
  BY ResultsHeard
<1> HIDE DEF ms
<1>5. rest \in Seq(Messages) /\ FlatMap(OfHeard, rest) = BlocksSay("user", p)
  <2>1. CASE p = <<>>
    <3>1. rest = <<>>
      BY <2>1
    <3>2. FlatMap(OfHeard, <<>>) = <<>> /\ BlocksSay("user", <<>>) = <<>>
      BY DEF FlatMap, MapSeq, FlattenSeq, BlocksSay
    <3> HIDE DEF rest
    <3> QED
      BY <2>1, <3>1, <3>2
  <2>2. CASE p # <<>> /\ \A i \in DOMAIN p : p[i].type = "text"
    <3> DEFINE n == Saying("user", Joined(p))
    <3>1. rest = <<n>>
      BY <2>2
    <3> HIDE DEF rest
    <3>2. Joined(p) \in Texts /\ WordItems("user", Joined(p)) = BlocksSay("user", p)
      <4>1. \A i \in 1..Len(p) : p[i].type = "text"
        BY <1>1, <2>2
      <4> QED
        BY <1>1, <1>2, <4>1, JoinedSays
    <3>3. n \in Messages /\ n = [role |-> "user", form |-> "str", text |-> Joined(p),
                                 blocks |-> <<>>, calls |-> <<>>, id |-> NoId]
      <4>1. <<>> \in Seq(Blocks)
        OBVIOUS
      <4> QED
        BY <1>2, <3>2, <4>1, MadeMessages
    <3> HIDE DEF n
    <3>4. OfHeard[n] = BlocksSay("user", p)
      <4>1. n.role = "user" /\ n.form = "str" /\ n.text = Joined(p) /\ n.calls = <<>>
        BY <3>3
      <4>2. HeardIn(n) = BlocksSay("user", p) \o <<>>
        BY <3>2, <4>1, NothingCalled DEF HeardIn, ContentItems
      <4>3. BlocksSay("user", p) \in Seq(Items)
        BY <1>1, <1>2, BlocksSayConcat
      <4> QED
        BY <3>3, <4>2, <4>3, OfHeardType
    <3>5. FlatMap(OfHeard, <<n>>) = OfHeard[n]
      BY <3>3, OfHeardType, FlatMapFew
    <3> QED
      BY <3>1, <3>3, <3>4, <3>5
  <2>3. CASE p # <<>> /\ ~\A i \in DOMAIN p : p[i].type = "text"
    <3> DEFINE n == Listing("user", AsShown(p))
    <3>1. rest = <<n>>
      BY <2>3
    <3> HIDE DEF rest
    <3>2. n \in Messages /\ HeardIn(n) = BlocksSay("user", p)
      BY ShownHeard
    <3> HIDE DEF n
    <3>3. FlatMap(OfHeard, <<n>>) = OfHeard[n]
      BY <3>2, OfHeardType, FlatMapFew
    <3> QED
      BY <3>1, <3>2, <3>3, OfHeardType
  <2> QED
    BY <2>1, <2>2, <2>3
<1> HIDE DEF rest
<1>6. FlatMap(OfHeard, ms \o rest) = FlatMap(OfHeard, ms) \o FlatMap(OfHeard, rest)
  BY <1>4, <1>5, OfHeardType, FlatMapConcat
<1>7. BlocksSay("user", r \o p) = BlocksSay("user", r) \o BlocksSay("user", p)
  BY <1>1, <1>2, BlocksSayConcat
<1>8. ms \o rest \in Seq(Messages)
  BY <1>4, <1>5
<1> QED
  BY <1>3, <1>4, <1>5, <1>6, <1>7, <1>8

(* What any message of Anthropic's becomes says what it says.              *)
LEMMA WrittenHeard ==
  ASSUME NEW m \in Writable
  PROVE  /\ MessageToOpenAI(m) \in Seq(Messages)
         /\ FlatMap(OfHeard, MessageToOpenAI(m)) = Says(m)
<1>1. /\ m \in Messages /\ m.calls = <<>> /\ m.id = NoId
      /\ m.form # "list" => m.blocks = <<>>
      /\ m.role \in {"user", "assistant"} /\ m.role \in Roles
      /\ m.text \in Texts /\ m.form \in {"null", "str", "list"}
  BY DEF Writable, Messages
<1>2. Says(m) = Content(m) /\ Content(m) \in Seq(Items)
  <2>1. Content(m) \in Seq(Items)
    BY <1>1, OneMessageSays
  <2>2. Content(m) \o <<>> = Content(m)
    BY <2>1
  <2> QED
    BY <1>1, <2>1, <2>2, NothingCalled DEF Says
<1>3. CASE m.form # "list"
  <2> DEFINE n == [m EXCEPT !.calls = <<>>, !.id = NoId]
  <2>1. MessageToOpenAI(m) = <<n>>
    BY <1>3 DEF MessageToOpenAI
  <2>2. /\ n \in Messages /\ n.role = m.role /\ n.form = m.form /\ n.text = m.text
        /\ n.blocks = <<>> /\ n.calls = <<>>
    <3>1. <<>> \in Seq(Calls) /\ NoId \in Nat
      BY DEF NoId
    <3> QED
      BY <1>1, <1>3, <3>1 DEF Messages
  <2> HIDE DEF n
  <2>3. FlatMap(OfHeard, <<n>>) = OfHeard[n]
    BY <2>2, OfHeardType, FlatMapFew
  <2>4. ContentItems(n, {"text", "image_url"}) = Content(m)
    <3>1. CASE m.form = "str"
      BY <2>2, <3>1 DEF ContentItems, Content
    <3>2. CASE m.form # "str"
      <4>1. ContentItems(n, {"text", "image_url"}) = <<>>
        BY <2>2, <3>2, NothingRead
      <4>2. BlocksSay(m.role, <<>>) = <<>>
        BY DEF FlatMap, MapSeq, FlattenSeq, BlocksSay
      <4> QED
        BY <1>1, <1>3, <3>2, <4>1, <4>2 DEF Content
    <3> QED
      BY <3>1, <3>2
  <2>5. OfHeard[n] = Content(m)
    <3>1. HeardIn(n) = Content(m) \o <<>>
      BY <1>1, <2>2, <2>4, NothingCalled DEF HeardIn
    <3> QED
      BY <1>2, <2>2, <3>1, OfHeardType
  <2> QED
    BY <1>2, <2>1, <2>2, <2>3, <2>5
<1>4. CASE m.form = "list" /\ m.role = "assistant"
  <2> DEFINE n == AssistantToOpenAI(m)
  <2>1. MessageToOpenAI(m) = <<n>>
    BY <1>4 DEF MessageToOpenAI
  <2>2. PICK t \in Seq(Spoken), u \in Seq(Used) : m.blocks = t \o u
    BY <1>4 DEF Writable
  <2>3. n \in Messages /\ HeardIn(n) = BlocksSay("assistant", m.blocks)
    BY <2>2, AssistantHeard
  <2> HIDE DEF n
  <2>4. FlatMap(OfHeard, <<n>>) = OfHeard[n]
    BY <2>3, OfHeardType, FlatMapFew
  <2> QED
    BY <1>2, <1>4, <2>1, <2>3, <2>4, OfHeardType DEF Content
<1>5. CASE m.form = "list" /\ m.role = "user"
  <2>1. MessageToOpenAI(m) = UserToOpenAI(m)
    BY <1>5 DEF MessageToOpenAI
  <2>2. PICK r \in Seq(Answers), p \in Seq(Shown) : m.blocks = r \o p
    BY <1>5 DEF Writable
  <2>3. /\ UserToOpenAI(m) \in Seq(Messages)
        /\ FlatMap(OfHeard, UserToOpenAI(m)) = BlocksSay("user", m.blocks)
    BY <2>2, UserHeard
  <2> QED
    BY <1>2, <1>5, <2>1, <2>3 DEF Content
<1> QED
  BY <1>1, <1>3, <1>4, <1>5

(* Of any conversation in Anthropic's protocol a model of OpenAI's reads   *)
(* what it says (anthropic_messages_to_openai, tooltrans.py).              *)
THEOREM OpenAIReadsAll ==
  ASSUME NEW ms \in Seq(Writable)
  PROVE  ReadByOpenAI(anthropic_messages_to_openai(ms)) = ConversationSays(ms)
<1> DEFINE f == [m \in Writable |-> MessageToOpenAI(m)]
           h == [m \in Writable |-> Says(m)]
<1>1. \A m \in Writable : m \in Messages /\ Says(m) \in Seq(Items) /\ OfMessage[m] = Says(m)
  BY OneMessageSays DEF Writable
<1>2. Maps(f, Writable, Seq(Messages)) /\ Maps(h, Writable, Seq(Items))
  BY <1>1, WrittenHeard DEF Maps
<1>3. \A m \in Writable : h[m] = FlatMap(OfHeard, f[m])
  BY WrittenHeard
<1>4. DOMAIN ms = 1..Len(ms) /\ \A i \in 1..Len(ms) : ms[i] \in Writable
  OBVIOUS
<1>5. anthropic_messages_to_openai(ms) = FlatMap(f, ms)
  BY <1>4 DEF anthropic_messages_to_openai, FlatMap, MapSeq, Each
<1>6. \A i \in 1..Len(ms) : h[ms[i]] = OfMessage[ms[i]]
  BY <1>1, <1>4
<1> HIDE DEF f, h
<1>7. FlatMap(f, ms) \in Seq(Messages)
  BY <1>2, FlatMapType
<1>8. ReadByOpenAI(FlatMap(f, ms)) = FlatMap(OfHeard, FlatMap(f, ms))
  BY <1>7, HeardByOne
<1>9. FlatMap(OfHeard, FlatMap(f, ms)) = FlatMap(h, ms)
  BY <1>2, <1>3, OfHeardType, FlatMapTwice
<1>10. FlatMap(h, ms) = FlatMap(OfMessage, ms)
  BY <1>6, FlatMapAgree
<1> QED
  BY <1>5, <1>8, <1>9, <1>10 DEF ConversationSays
----------------------------------------------------------------------------
(* Messages as a client of dialect d keeps them: those a translation
   takes, with at least one block in a list.                               *)
Kept(d) ==
  {m \in IF d = "openai" THEN Receivable ELSE Writable :
     m.form = "list" => m.blocks # <<>>}

(* The inductive invariant, in parts. The types: every message in the
   conversation is one that the translations take, and calls are numbered. *)
Typed ==
  /\ dialect \in {"openai", "anthropic"}
  /\ at \in {"client", "ready", "sent", "streaming"}
  /\ messages \in Seq(Kept(dialect))
  /\ said \in Seq(Items)
  /\ calls \in Nat
  /\ reply \in [text : Texts, calls : Seq(Calls)]
  /\ \A i \in 1..Len(reply.calls) : reply.calls[i].id \in 1..calls
  /\ requests \in 0..MaxRequests

(* A request went to a family that serves the dialect; the gateway has let
   in its content and its choice.                                          *)
Asked ==
  /\ at = "sent" => <<dialect, request.family>> \in Served
  /\ at \in {"ready", "sent"} =>
       /\ request \in [family : {"none", "openai", "anthropic"}, choice : ToolChoices]
       /\ validate_local_content(Normalized, request.choice)

(* The arguments of a call once n of its parts have arrived.               *)
Pieces(n) == IF n = 1 THEN <<>> ELSE IF n = 2 THEN <<1>> ELSE <<1, 2>>

(* While a reply is streamed, the fragments that have come are the calls
   of the reply, as far as their parts have arrived.                       *)
Assembling ==
  IF at # "streaming" THEN frags = <<>> /\ arrived = <<>>
  ELSE /\ arrived \in [1..Len(reply.calls) -> 0..Parts]
       /\ DOMAIN frags = {i \in DOMAIN arrived : arrived[i] > 0}
       /\ \A i \in DOMAIN frags :
            frags[i] = [id |-> reply.calls[i].id, args |-> Pieces(arrived[i])]
       /\ reply.text # <<>> \/ reply.calls # <<>>

(* On the client's turn the last message has the calls of the reply.       *)
Delivered ==
  at = "client" =>
    IF messages = <<>> THEN reply.calls = <<>>
    ELSE IdsIn(Last(messages)) = Ids(reply.calls)

(* The system prompt and the rest, of messages and of what was said.       *)
OfPrompt ==
  [m \in Messages |-> IF m.role = "system" THEN WordItems("system", m.text) ELSE <<>>]
OfTalk == [m \in Messages |-> IF m.role = "system" THEN <<>> ELSE Says(m)]
ToPrompt == [i \in Items |-> IF i.kind = "system" THEN <<i>> ELSE <<>>]
ToTalk == [i \in Items |-> IF i.kind # "system" THEN <<i>> ELSE <<>>]

(* The conversation as the client keeps it says what was truly said, less
   the reply that is still being streamed.                                 *)
Faithful ==
  /\ FlatMap(OfPrompt, messages) = FlatMap(ToPrompt, said)
  /\ FlatMap(OfTalk, messages) \o
       (IF at = "streaming"
        THEN WordItems("assistant", reply.text) \o CallItems(reply.calls) ELSE <<>>) =
       FlatMap(ToTalk, said)

(* Gathered for Anthropic the conversation alternates; after a reply no
   results are pending and the assistant spoke last, otherwise the user.   *)
Turns ==
  LET g == Gathered(Normalized) IN
  /\ Alternating(Flushed(g).out)
  /\ at = "client" => g.pending = <<>> /\ (g.out # <<>> => Last(g.out).role = "assistant")
  /\ at # "client" => Flushed(g).out # <<>> /\ Last(Flushed(g).out).role = "user"

IInv == Typed /\ Asked /\ Assembling /\ Delivered /\ Faithful /\ Turns
----------------------------------------------------------------------------
(* to_normalized takes the system messages out.                            *)
Talking(K) == [m \in K |-> IF m.role # "system" THEN <<m>> ELSE <<>>]

(* It does so message by message.                                          *)
LEMMA TalkingType ==
  ASSUME NEW K
  PROVE  Maps(Talking(K), K, Seq(K))
<1>1. ASSUME NEW m \in K PROVE Talking(K)[m] \in Seq(K)
  <2>1. <<m>> \in Seq(K) /\ <<>> \in Seq(K)
    OBVIOUS
  <2> QED
    BY <2>1 DEF Talking
<1> QED
  BY <1>1 DEF Maps, Talking

(* The messages left are the conversation's.                               *)
LEMMA TalkType ==
  ASSUME NEW K, NEW ms \in Seq(K)
  PROVE  to_normalized(ms) = FlatMap(Talking(K), ms) /\ to_normalized(ms) \in Seq(K)
<1>1. DOMAIN ms = 1..Len(ms) /\ \A i \in 1..Len(ms) : ms[i] \in K
  OBVIOUS
<1>2. to_normalized(ms) = FlatMap(Talking(K), ms)
  BY <1>1 DEF to_normalized, Where, Each, FlatMap, MapSeq, Talking
<1>3. FlatMap(Talking(K), ms) \in Seq(K)
  BY TalkingType, FlatMapType
<1> QED
  BY <1>2, <1>3

(* Two parts of a conversation are normalized each by itself.              *)
LEMMA TalkConcat ==
  ASSUME NEW K, NEW ms \in Seq(K), NEW more \in Seq(K)
  PROVE  to_normalized(ms \o more) = to_normalized(ms) \o to_normalized(more)
<1>1. ms \o more \in Seq(K)
  OBVIOUS
<1>2. FlatMap(Talking(K), ms \o more) = FlatMap(Talking(K), ms) \o FlatMap(Talking(K), more)
  BY TalkingType, FlatMapConcat
<1> QED
  BY <1>1, <1>2, TalkType

(* Without system messages nothing is taken out.                           *)
LEMMA TalkAll ==
  ASSUME NEW K, NEW ms \in Seq(K), \A i \in 1..Len(ms) : ms[i].role # "system"
  PROVE  to_normalized(ms) = ms
<1>1. \A i \in 1..Len(ms) : ms[i] \in K
  OBVIOUS
<1>2. \A i \in 1..Len(ms) : Talking(K)[ms[i]] = <<ms[i]>>
  BY <1>1 DEF Talking
<1> QED
  BY <1>2, TalkType, FlatMapSame

(* With nothing but those nothing is left.                                 *)
LEMMA TalkNone ==
  ASSUME NEW K, NEW ms \in Seq(K), \A i \in 1..Len(ms) : ms[i].role = "system"
  PROVE  to_normalized(ms) = <<>>
<1>1. \A i \in 1..Len(ms) : ms[i] \in K
  OBVIOUS
<1>2. \A i \in 1..Len(ms) : Talking(K)[ms[i]] = <<>>
  BY <1>1 DEF Talking
<1> QED
  BY <1>2, TalkType, FlatMapNone
----------------------------------------------------------------------------
(* What is said in messages, apart from prompts, and in items.             *)
LEMMA PartsSay ==
  /\ Maps(OfPrompt, Messages, Seq(Items)) /\ Maps(OfTalk, Messages, Seq(Items))
  /\ Maps(ToPrompt, Items, Seq(Items)) /\ Maps(ToTalk, Items, Seq(Items))
<1>1. <<>> \in Seq(Items)
  OBVIOUS
<1>2. \A m \in Messages : WordItems("system", m.text) \in Seq(Items) /\ Says(m) \in Seq(Items)
  <2>1. \A m \in Messages : m.text \in Texts
    BY DEF Messages
  <2>2. \A t \in Texts : WordItems("system", t) \in Seq(Items)
    BY WordsSay DEF Roles
  <2> QED
    BY <2>1, <2>2, OneMessageSays
<1>3. \A i \in Items : <<i>> \in Seq(Items)
  OBVIOUS
<1>4. Maps(OfPrompt, Messages, Seq(Items))
  BY <1>1, <1>2 DEF Maps, OfPrompt
<1>5. Maps(OfTalk, Messages, Seq(Items))
  BY <1>1, <1>2 DEF Maps, OfTalk
<1>6. Maps(ToPrompt, Items, Seq(Items))
  BY <1>1, <1>3 DEF Maps, ToPrompt
<1>7. Maps(ToTalk, Items, Seq(Items))
  BY <1>1, <1>3 DEF Maps, ToTalk
<1> QED
  BY <1>4, <1>5, <1>6, <1>7

(* The conversation without prompts says what is not a prompt.             *)
LEMMA TalkSays ==
  ASSUME NEW ms \in Seq(Messages)
  PROVE  ConversationSays(to_normalized(ms)) = FlatMap(OfTalk, ms)
<1>1. \A m \in Messages : OfTalk[m] = FlatMap(OfMessage, Talking(Messages)[m])
  <2> SUFFICES ASSUME NEW m \in Messages
               PROVE  OfTalk[m] = FlatMap(OfMessage, Talking(Messages)[m])
    OBVIOUS
  <2>1. FlatMap(OfMessage, <<m>>) = OfMessage[m] /\ FlatMap(OfMessage, <<>>) = <<>>
    BY OfMessageType, FlatMapFew
  <2>2. OfMessage[m] = Says(m)
    BY OneMessageSays
  <2> QED
    BY <2>1, <2>2 DEF OfTalk, Talking
<1>2. FlatMap(OfMessage, FlatMap(Talking(Messages), ms)) = FlatMap(OfTalk, ms)
  BY <1>1, OfMessageType, TalkingType, PartsSay, FlatMapTwice
<1> QED
  BY <1>2, TalkType DEF ConversationSays

(* The system prompt: the texts of the system messages, put together.      *)
Prompt(ms) == FlattenSeq(Each(Where(ms, LAMBDA m : m.role = "system"), LAMBDA m : m.text))

(* The joined system prompt says what the system messages say.             *)
LEMMA PromptSays ==
  ASSUME NEW ms \in Seq(Messages)
  PROVE  WordItems("system", Prompt(ms)) = FlatMap(OfPrompt, ms)
<1> DEFINE S == {m \in Messages : m.role = "system"}
           f == [m \in Messages |-> IF m.role = "system" THEN <<m>> ELSE <<>>]
           g == [m \in S |-> m.text]
           h == [m \in Messages |-> IF m.role = "system" THEN m.text ELSE <<>>]
           k == [w \in Words |-> <<Item("system", NoId, w)>>]
           one == [w \in Words |-> Item("system", NoId, w)]
           kept == Where(ms, LAMBDA m : m.role = "system")
<1>1. Maps(f, Messages, Seq(S))
  <2>1. \A m \in Messages : (IF m.role = "system" THEN <<m>> ELSE <<>>) \in Seq(S)
    <3> SUFFICES ASSUME NEW m \in Messages
                 PROVE  (IF m.role = "system" THEN <<m>> ELSE <<>>) \in Seq(S)
      OBVIOUS
    <3>1. CASE m.role = "system"
      <4>1. m \in S
        BY <3>1
      <4> HIDE DEF S
      <4> QED
        BY <3>1, <4>1
    <3>2. CASE m.role # "system"
      <4> HIDE DEF S
      <4> QED
        BY <3>2
    <3> QED
      BY <3>1, <3>2
  <2> HIDE DEF S
  <2> QED
    BY <2>1 DEF Maps
<1>2. \A m \in Messages : m.text \in Seq(Words)
  BY DEF Messages, Texts
<1>3. Maps(g, S, Seq(Words))
  BY <1>2 DEF Maps
<1>4. Maps(h, Messages, Seq(Words))
  <2>1. <<>> \in Seq(Words)
    OBVIOUS
  <2> QED
    BY <1>2, <2>1 DEF Maps
<1>5. \A w \in Words : Item("system", NoId, w) \in Items
  BY DEF Items, Item, NoId, Roles
<1>6. Maps(one, Words, Items)
  BY <1>5 DEF Maps
<1>7. Maps(k, Words, Seq(Items))
  <2>1. \A w \in Words : <<Item("system", NoId, w)>> \in Seq(Items)
    BY <1>5
  <2> QED
    BY <2>1 DEF Maps
<1>8. DOMAIN ms = 1..Len(ms) /\ \A i \in 1..Len(ms) : ms[i] \in Messages
  OBVIOUS
<1>9. kept = FlatMap(f, ms)
  BY <1>8 DEF Where, Each, FlatMap, MapSeq
<1>10. Prompt(ms) = FlatMap(g, kept)
  <2>1. kept \in Seq(S)
    <3> HIDE DEF f, S, kept
    <3> QED
      BY <1>1, <1>9, FlatMapType
  <2>2. DOMAIN kept = 1..Len(kept) /\ \A i \in 1..Len(kept) : kept[i] \in S
    <3> HIDE DEF S, kept
    <3> QED
      BY <2>1
  <2>3. Prompt(ms) = FlattenSeq(Each(kept, LAMBDA m : m.text))
    BY DEF Prompt
  <2>4. \A i \in DOMAIN kept : g[kept[i]] = kept[i].text
    <3> HIDE DEF kept
    <3> QED
      BY <2>2
  <2> HIDE DEF g, kept
  <2> QED
    BY <2>3, <2>4 DEF FlatMap, MapSeq, Each
<1>11. \A m \in Messages : h[m] = FlatMap(g, f[m])
  <2> SUFFICES ASSUME NEW m \in Messages PROVE h[m] = FlatMap(g, f[m])
    OBVIOUS
  <2>1. CASE m.role = "system"
    <3>1. m \in S /\ f[m] = <<m>> /\ g[m] = m.text /\ h[m] = m.text
      BY <2>1
    <3> HIDE DEF f, g, h, S
    <3>2. FlatMap(g, <<m>>) = g[m]
      BY <1>3, <3>1, FlatMapFew
    <3> QED
      BY <3>1, <3>2
  <2>2. CASE m.role # "system"
    <3>1. f[m] = <<>> /\ h[m] = <<>>
      BY <2>2
    <3>2. FlatMap(g, <<>>) = <<>>
      BY DEF FlatMap, MapSeq, FlattenSeq
    <3> QED
      BY <3>1, <3>2
  <2> QED
    BY <2>1, <2>2
<1>12. ASSUME NEW t \in Seq(Words) PROVE FlatMap(k, t) = WordItems("system", t)
  <2>1. DOMAIN t = 1..Len(t) /\ \A i \in 1..Len(t) : t[i] \in Words
    OBVIOUS
  <2>2. Single(k, one, t)
    BY <2>1 DEF Single
  <2>3. MapSeq(one, t) = WordItems("system", t)
    BY <2>1 DEF MapSeq, WordItems, Each
  <2>4. t \in Seq(Words)
    OBVIOUS
  <2> HIDE DEF k, one
  <2>5. FlatMap(k, t) = MapSeq(one, t)
    BY ONLY <1>6, <2>2, <2>4, FlatMapEach
  <2> QED
    BY <2>3, <2>5
<1>13. \A m \in Messages : OfPrompt[m] = FlatMap(k, h[m])
  <2> SUFFICES ASSUME NEW m \in Messages PROVE OfPrompt[m] = FlatMap(k, h[m])
    OBVIOUS
  <2>1. CASE m.role = "system"
    <3>1. h[m] = m.text /\ m.text \in Seq(Words) /\ OfPrompt[m] = WordItems("system", m.text)
      BY <1>2, <2>1 DEF OfPrompt
    <3> HIDE DEF k, h
    <3> QED
      BY <1>12, <3>1
  <2>2. CASE m.role # "system"
    <3>1. h[m] = <<>> /\ OfPrompt[m] = <<>>
      BY <2>2 DEF OfPrompt
    <3>2. FlatMap(k, <<>>) = <<>>
      BY DEF FlatMap, MapSeq, FlattenSeq
    <3> QED
      BY <3>1, <3>2
  <2> QED
    BY <2>1, <2>2
<1> HIDE DEF f, g, h, k, one, kept, S
<1>14. FlatMap(g, FlatMap(f, ms)) = FlatMap(h, ms)
  BY <1>1, <1>3, <1>4, <1>11, FlatMapTwice
<1>15. FlatMap(k, FlatMap(h, ms)) = FlatMap(OfPrompt, ms)
  <2>1. Maps(OfPrompt, Messages, Seq(Items))
    BY PartsSay
  <2> QED
    BY <1>4, <1>7, <1>13, <2>1, FlatMapTwice
<1>16. FlatMap(h, ms) \in Seq(Words)
  BY <1>4, FlatMapType
<1> QED
  BY <1>9, <1>10, <1>12, <1>14, <1>15, <1>16
----------------------------------------------------------------------------
(* Whose turn it is.  One more message alternates with those before it if  *)
(* it is not of the last one's role.                                       *)
LEMMA AlternatingMore ==
  ASSUME NEW S, NEW out \in Seq(S), NEW m, NEW more, more = Append(out, m), Alternating(out),
         out # <<>> => Last(out).role # m.role
  PROVE  /\ Alternating(more)
         /\ more # <<>> /\ Last(more) = m
<1>1. /\ Len(out) \in Nat /\ Len(more) = Len(out) + 1
      /\ more[Len(out) + 1] = m /\ \A i \in 1..Len(out) : more[i] = out[i]
  <2>1. out \in Seq(S \cup {m}) /\ m \in S \cup {m}
    OBVIOUS
  <2> QED
    BY <2>1, AppendProperties
<1>2. more # <<>> /\ Last(more) = m
  <2>1. Len(<<>>) = 0
    OBVIOUS
  <2> QED
    BY <1>1, <2>1 DEF Last
<1>3. ASSUME NEW i \in 1..(Len(more) - 1) PROVE more[i].role # more[i + 1].role
  <2>1. i \in 1..Len(out) /\ more[i] = out[i]
    BY <1>1
  <2>2. CASE i = Len(out)
    <3>1. out # <<>> /\ Last(out) = out[i]
      BY <2>1, <2>2 DEF Last
    <3> QED
      BY <1>1, <2>1, <2>2, <3>1
  <2>3. CASE i # Len(out)
    <3>1. i \in 1..(Len(out) - 1) /\ i + 1 \in 1..Len(out)
      BY <1>1, <2>1, <2>3
    <3>2. out[i].role # out[i + 1].role
      BY <3>1 DEF Alternating
    <3> QED
      BY <1>1, <2>1, <3>1, <3>2
  <2> QED
    BY <2>2, <2>3
<1> QED
  BY <1>2, <1>3 DEF Alternating

(* The fields of a message that the translation leaves alone.              *)
LEMMA ConvertedFields ==
  ASSUME NEW m \in Messages, NEW n,
         n = [m EXCEPT !.blocks = _openai_content_to_anthropic_blocks(@)]
  PROVE  n.role = m.role /\ n.calls = m.calls
  BY DEF Messages

(* Results only wait.                                                      *)
LEMMA ToolGathered ==
  ASSUME NEW s \in Gathering, NEW m \in Receivable, m.role = "tool"
  PROVE  NextMessage(s, m).out = s.out /\ NextMessage(s, m).pending # <<>>
<1> DEFINE c == [m EXCEPT !.blocks = _openai_content_to_anthropic_blocks(@)]
           r == ToolResult(c.id, c.text)
<1>1. c.role = "tool"
  BY ConvertedFields DEF Receivable
<1>2. NextMessage(s, m) = [s EXCEPT !.pending = Append(@, r)]
  BY <1>1 DEF NextMessage
<1>3. s = [out |-> s.out, pending |-> s.pending] /\ s.pending \in Seq(ResultBlocks)
  BY DEF Gathering
<1> HIDE DEF r, c
<1>4. NextMessage(s, m).out = s.out /\ NextMessage(s, m).pending = Append(s.pending, r)
  BY <1>2, <1>3
<1>5. Append(s.pending, r) # <<>>
  <2>1. Len(Append(s.pending, r)) = Len(s.pending) + 1 /\ Len(s.pending) \in Nat
    BY <1>3
  <2> QED
    BY <2>1
<1> QED
  BY <1>4, <1>5

(* Tool messages only wait to be sent, and do wait when there are some.    *)
LEMMA ToolsGathered ==
  ASSUME NEW ms \in Seq(Receivable), NEW tools \in Seq(Receivable),
         \A i \in 1..Len(tools) : tools[i].role = "tool",
         NEW g, g = Gathered(ms \o tools)
  PROVE  /\ g \in Gathering
         /\ g.out = Gathered(ms).out
         /\ tools # <<>> => g.pending # <<>>
         /\ tools = <<>> => g.pending = Gathered(ms).pending
<1> DEFINE Q(u) == /\ Gathered(ms \o u).out = Gathered(ms).out
                   /\ u # <<>> => Gathered(ms \o u).pending # <<>>
           Tools(u) == \A i \in 1..Len(u) : u[i].role = "tool"
           R == {n \in Nat : \E u \in Seq(Receivable) : Len(u) = n /\ Tools(u) /\ ~Q(u)}
<1>1. ms \o <<>> = ms
  OBVIOUS
<1>2. R = {}
  <2> SUFFICES ASSUME R # {} PROVE FALSE
    OBVIOUS
  <2> HIDE DEF Q, Tools
  <2>1. Min(R) \in R /\ \A n \in R : Min(R) <= n
    <3>1. R \in SUBSET Nat
      OBVIOUS
    <3> QED
      BY <3>1, LeastNumber
  <2>2. PICK u \in Seq(Receivable) : Len(u) = Min(R) /\ Tools(u) /\ ~Q(u)
    BY <2>1
  <2>3. CASE Len(u) = 0
    <3>1. u = <<>>
      BY <2>3
    <3> QED
      BY <1>1, <2>2, <3>1 DEF Q
  <2>4. CASE Len(u) # 0
    <3> DEFINE v == Shorter(u)
               x == u[Len(u)]
    <3>1. x \in Receivable /\ v \in Seq(Receivable) /\ Len(v) = Len(u) - 1 /\ u = Append(v, x)
      BY <2>4, LastElement
    <3>2. x.role = "tool" /\ Tools(v)
      <4>1. Len(u) \in 1..Len(u) /\ \A i \in 1..Len(v) : i \in 1..Len(u) /\ v[i] = u[i]
        BY <2>4, <3>1 DEF Shorter
      <4> HIDE DEF v
      <4> QED
        BY <2>2, <4>1 DEF Tools
    <3> HIDE DEF v, x
    <3>3. Q(v)
      <4>1. Len(v) \in Nat /\ ~(Min(R) <= Len(v))
        BY <2>1, <2>2, <2>4, <3>1
      <4>2. Len(v) \notin R
        BY <2>1, <4>1
      <4> QED
        BY <3>1, <3>2, <4>1, <4>2
    <3>4. ms \o u = Append(ms \o v, x) /\ ms \o v \in Seq(Receivable)
      BY <3>1, ConcatAppend
    <3>5. Gathered(ms \o u) = NextMessage(Gathered(ms \o v), x)
      BY <3>1, <3>4, GatheredNext
    <3>6. Gathered(ms \o v) \in Gathering
      BY <3>4, GatheredSays
    <3>7. /\ Gathered(ms \o u).out = Gathered(ms \o v).out
          /\ Gathered(ms \o u).pending # <<>>
      BY <3>1, <3>2, <3>5, <3>6, ToolGathered
    <3> QED
      BY <2>2, <3>3, <3>7 DEF Q
  <2> QED
    BY <2>3, <2>4
<1> HIDE DEF Q
<1>3. Len(tools) \in Nat
  OBVIOUS
<1>4. Q(tools)
  BY <1>2, <1>3
<1>5. ms \o tools \in Seq(Receivable)
  OBVIOUS
<1>6. g \in Gathering
  BY <1>5, GatheredSays
<1> QED
  BY <1>1, <1>4, <1>6 DEF Q

(* A user's turn: results, perhaps none, and then perhaps a message.       *)
LEMMA UserTurn ==
  ASSUME NEW ms \in Seq(Receivable), Gathered(ms).pending = <<>>,
         NEW tools \in Seq(Receivable), \A i \in 1..Len(tools) : tools[i].role = "tool",
         NEW rest \in Seq(Receivable), NEW m \in Receivable, m.role = "user",
         rest = <<>> \/ rest = <<m>>, tools # <<>> \/ rest # <<>>
  PROVE  \E sent : /\ sent.role = "user"
                   /\ Flushed(Gathered((ms \o tools) \o rest)).out =
                        Append(Gathered(ms).out, sent)
<1> DEFINE g == Gathered(ms \o tools)
<1>1. /\ g \in Gathering /\ g.out = Gathered(ms).out
      /\ tools # <<>> => g.pending # <<>>
      /\ tools = <<>> => g.pending = <<>>
  BY ToolsGathered
<1>2. ms \o tools \in Seq(Receivable)
  OBVIOUS
<1> HIDE DEF g
<1>3. \A bs : Listing("user", bs).role = "user"
  BY DEF Listing, Message
<1>4. CASE rest = <<>>
  <2>1. (ms \o tools) \o rest = ms \o tools
    BY <1>2, <1>4
  <2>2. g.pending # <<>>
    BY <1>1, <1>4
  <2>3. Flushed(g).out = Append(g.out, Listing("user", g.pending))
    BY <2>2 DEF Flushed
  <2> QED
    BY <1>1, <1>3, <2>1, <2>3 DEF g
<1>5. CASE rest = <<m>>
  <2> DEFINE c == [m EXCEPT !.blocks = _openai_content_to_anthropic_blocks(@)]
             h == NextMessage(g, m)
  <2>1. (ms \o tools) \o rest = Append(ms \o tools, m)
    BY <1>2, <1>5, AppendIsConcat
  <2>2. Gathered(Append(ms \o tools, m)) = h
    BY <1>2, GatheredNext DEF g
  <2>3. c.role = "user"
    BY ConvertedFields DEF Receivable
  <2>4. h = IF g.pending # <<>> THEN Merged(g, c) ELSE [g EXCEPT !.out = Append(@, c)]
    <3>1. /\ c.role # "tool" /\ c.role # "assistant"
          /\ g.pending = <<>> => Flushed(g) = g
      BY <2>3 DEF Flushed
    <3>2. h = IF g.pending # <<>> THEN Merged(g, c)
              ELSE [Flushed(g) EXCEPT !.out = Append(@, c)]
      BY <2>3, <3>1 DEF NextMessage
    <3> HIDE DEF h, c
    <3> QED
      BY <3>1, <3>2
  <2> HIDE DEF c, h
  <2>5. \E sent : sent.role = "user" /\ h.pending = <<>> /\ h.out = Append(g.out, sent)
    <3>1. CASE g.pending # <<>>
      <4> DEFINE added == IF c.form = "str" THEN NonEmptyText(c.text) ELSE c.blocks
                 sent == Listing("user", g.pending \o added)
      <4>1. h = [out |-> Append(g.out, sent), pending |-> <<>>]
        BY <2>4, <3>1 DEF Merged
      <4>2. sent.role = "user"
        BY <1>3
      <4> HIDE DEF sent
      <4> QED
        BY <4>1, <4>2
    <3>2. CASE g.pending = <<>>
      <4>1. g = [out |-> g.out, pending |-> <<>>]
        BY <1>1, <3>2 DEF Gathering
      <4>2. h.out = Append(g.out, c) /\ h.pending = <<>>
        BY <2>4, <3>2, <4>1
      <4> QED
        BY <2>3, <4>2
    <3> QED
      BY <3>1, <3>2
  <2>6. PICK sent : sent.role = "user" /\ h.pending = <<>> /\ h.out = Append(g.out, sent)
    BY <2>5
  <2>7. Flushed(h) = h
    BY <2>6 DEF Flushed
  <2> QED
    BY <1>1, <2>1, <2>2, <2>6, <2>7
<1> QED
  BY <1>4, <1>5

(* The assistant's turn: one message, after the results that waited.       *)
LEMMA AssistantTurn ==
  ASSUME NEW ms \in Seq(Receivable), NEW m \in Receivable, m.role = "assistant",
         NEW g, g = Gathered(Append(ms, m))
  PROVE  /\ g.pending = <<>>
         /\ \E sent : /\ sent.role = "assistant"
                      /\ g.out = Append(Flushed(Gathered(ms)).out, sent)
<1> DEFINE c == [m EXCEPT !.blocks = _openai_content_to_anthropic_blocks(@)]
           f == Flushed(Gathered(ms))
           sent == IF c.role = "assistant" /\ c.calls # <<>> THEN AssistantToAnthropic(c) ELSE c
<1>1. c.role = "assistant"
  BY ConvertedFields DEF Receivable
<1>2. Gathered(Append(ms, m)) = NextMessage(Gathered(ms), m)
  BY GatheredNext
<1>3. NextMessage(Gathered(ms), m) = [f EXCEPT !.out = Append(@, sent)]
  BY <1>1 DEF NextMessage
<1>4. sent.role = "assistant"
  <2>1. \A bs : Listing("assistant", bs).role = "assistant"
    BY DEF Listing, Message
  <2> HIDE DEF c
  <2> QED
    BY <1>1, <2>1 DEF AssistantToAnthropic
<1>5. f \in Gathering /\ f.pending = <<>>
  <2>1. Gathered(ms) \in Gathering
    BY GatheredSays
  <2> QED
    BY <2>1, FlushSays
<1> HIDE DEF f, sent
<1>6. f = [out |-> f.out, pending |-> <<>>]
  BY <1>5 DEF Gathering
<1>7. g.out = Append(f.out, sent) /\ g.pending = <<>>
  BY <1>2, <1>3, <1>6
<1> QED
  BY <1>4, <1>7 DEF f
----------------------------------------------------------------------------
(* What the client keeps is what the translations take.                    *)
LEMMA KeptTaken ==
  ASSUME NEW d \in {"openai", "anthropic"}
  PROVE  /\ Kept(d) \subseteq Receivable /\ Kept(d) \subseteq Messages
         /\ d = "anthropic" => Kept(d) \subseteq Writable
<1>1. Writable \subseteq Receivable
  BY DEF Writable, Receivable
<1>2. Receivable \subseteq Messages
  BY DEF Receivable
<1> QED
  BY <1>1, <1>2 DEF Kept

(* Texts, of the system or the user.                                       *)
LEMMA SayingKept ==
  ASSUME NEW role \in {"system", "user"}, NEW t \in Texts, NEW d \in {"openai", "anthropic"},
         d = "openai" \/ role = "user", NEW m, m = Saying(role, t)
  PROVE  /\ m \in Kept(d) /\ m.role = role /\ m.text = t
         /\ Says(m) = WordItems(role, t)
<1>1. /\ m \in Messages
      /\ m = [role |-> role, form |-> "str", text |-> t, blocks |-> <<>>,
              calls |-> <<>>, id |-> NoId]
  <2>1. role \in Roles /\ <<>> \in Seq(Blocks)
    BY DEF Roles
  <2> QED
    BY <2>1, MadeMessages
<1>2. /\ m.role = role /\ m.form = "str" /\ m.text = t /\ m.blocks = <<>>
      /\ m.calls = <<>> /\ m.id = NoId
  BY <1>1
<1>3. m \in Receivable
  BY <1>1, <1>2 DEF Receivable
<1>4. role = "user" => m \in Writable
  <2>1. <<>> \in Seq(Answers) /\ <<>> \in Seq(Shown) /\ <<>> = <<>> \o <<>>
    OBVIOUS
  <2>2. \E r \in Seq(Answers), p \in Seq(Shown) : m.blocks = r \o p
    BY <1>2, <2>1
  <2> QED
    BY <1>1, <1>2, <2>2 DEF Writable
<1>5. Says(m) = WordItems(role, t)
  <2>1. Says(m) = WordItems(role, t) \o <<>>
    BY <1>2, NothingCalled DEF Says, Content
  <2>2. WordItems(role, t) \in Seq(Items)
    BY WordsSay DEF Roles
  <2> QED
    BY <2>1, <2>2
<1> QED
  BY <1>2, <1>3, <1>4, <1>5 DEF Kept

(* A list of blocks from the user.                                         *)
LEMMA ListingKept ==
  ASSUME NEW r \in Seq(Answers), NEW p \in Seq(Shown), r \o p # <<>>,
         NEW d \in {"openai", "anthropic"}, NEW m, m = Listing("user", r \o p)
  PROVE  /\ m \in Kept(d) /\ m.role = "user"
         /\ Says(m) = BlocksSay("user", r) \o BlocksSay("user", p)
<1>1. r \in Seq(Blocks) /\ p \in Seq(Blocks) /\ "user" \in Roles
  <2>1. Answers \subseteq Blocks /\ Shown \subseteq Blocks
    BY DEF Answers, ResultBlocks, Shown, Picked
  <2> QED
    BY <2>1, SeqMonotonic DEF Roles
<1> DEFINE bs == r \o p
<1>2. bs \in Seq(Blocks)
  BY <1>1
<1>3. BlocksSay("user", bs) = BlocksSay("user", r) \o BlocksSay("user", p)
  BY <1>1, BlocksSayConcat
<1>4. bs # <<>> /\ m = Listing("user", bs) /\ \E a \in Seq(Answers), b \in Seq(Shown) : bs = a \o b
  OBVIOUS
<1> HIDE DEF bs
<1>5. /\ m \in Messages
      /\ m = [role |-> "user", form |-> "list", text |-> <<>>, blocks |-> bs,
              calls |-> <<>>, id |-> NoId]
  <2>1. <<>> \in Texts
    BY DEF Texts
  <2> QED
    BY <1>1, <1>2, <1>4, <2>1, MadeMessages
<1>6. /\ m.role = "user" /\ m.form = "list" /\ m.blocks = bs
      /\ m.calls = <<>> /\ m.id = NoId
  BY <1>5
<1>7. m \in Receivable /\ m \in Writable
  BY <1>4, <1>5, <1>6 DEF Receivable, Writable
<1>8. Says(m) = BlocksSay("user", bs)
  <2>1. BlocksSay("user", bs) \in Seq(Items)
    BY <1>1, <1>2, BlocksSayConcat
  <2>2. Says(m) = BlocksSay("user", bs) \o <<>>
    BY <1>6, NothingCalled DEF Says, Content
  <2> QED
    BY <2>1, <2>2
<1> QED
  BY <1>3, <1>4, <1>6, <1>7, <1>8 DEF Kept

(* Results of tools: in OpenAI's protocol a message each, in Anthropic's a *)
(* list of blocks.                                                         *)
ToolMessages(ids, t) == Each(ids, LAMBDA i : [Saying("tool", t) EXCEPT !.id = i])
ResultItems(ids, t) == Each(ids, LAMBDA i : Item("result", i, t))
ToolResults(ids, t) == Each(ids, LAMBDA i : ToolResult(i, t))

(* Results say one item each, with the id of the call.                     *)
LEMMA ResultItemsType ==
  ASSUME NEW ids \in Seq(Nat), NEW t \in Texts
  PROVE  /\ ResultItems(ids, t) \in Seq(Items)
         /\ Len(ResultItems(ids, t)) = Len(ids)
         /\ \A i \in 1..Len(ids) : ResultItems(ids, t)[i] = Item("result", ids[i], t)
<1>1. Len(ids) \in Nat /\ DOMAIN ids = 1..Len(ids) /\ \A i \in 1..Len(ids) : ids[i] \in Nat
  OBVIOUS
<1>2. \A i \in 1..Len(ids) : Item("result", ids[i], t) \in Items
  BY <1>1 DEF Item, Items
<1> QED
  BY <1>1, <1>2 DEF ResultItems, Each

(* Tool messages of OpenAI's client are kept, and say the results.         *)
LEMMA ToolMessagesKept ==
  ASSUME NEW ids \in Seq(Nat), NEW t \in Texts, NEW ms, ms = ToolMessages(ids, t)
  PROVE  /\ ms \in Seq(Kept("openai")) /\ Len(ms) = Len(ids)
         /\ \A i \in 1..Len(ms) : ms[i].role = "tool"
         /\ ConversationSays(ms) = ResultItems(ids, t)
<1>1. Len(ids) \in Nat /\ DOMAIN ids = 1..Len(ids) /\ \A i \in 1..Len(ids) : ids[i] \in Nat
  OBVIOUS
<1>2. ASSUME NEW i \in Nat, NEW m, m = [Saying("tool", t) EXCEPT !.id = i]
      PROVE  /\ m \in Kept("openai") /\ m \in Messages /\ m.role = "tool"
             /\ Says(m) = <<Item("result", i, t)>>
  <2> DEFINE plain == Saying("tool", t)
  <2>1. /\ plain \in Messages
        /\ plain = [role |-> "tool", form |-> "str", text |-> t, blocks |-> <<>>,
                    calls |-> <<>>, id |-> NoId]
    <3>1. "tool" \in Roles /\ <<>> \in Seq(Blocks)
      BY DEF Roles
    <3> QED
      BY <3>1, MadeMessages
  <2>2. m = [plain EXCEPT !.id = i]
    BY <1>2
  <2> HIDE DEF plain
  <2>3. /\ m \in Messages /\ m.role = "tool" /\ m.id = i /\ m.text = t /\ m.form = "str"
        /\ m.blocks = <<>> /\ m.calls = <<>>
    BY <2>1, <2>2 DEF Messages
  <2>4. m \in Kept("openai")
    BY <2>3 DEF Kept, Receivable
  <2> QED
    BY <2>3, <2>4 DEF Says
<1>3. ms = [i \in 1..Len(ids) |-> [Saying("tool", t) EXCEPT !.id = ids[i]]]
  BY <1>1 DEF ToolMessages, Each
<1>4. \A i \in 1..Len(ids) : /\ ms[i] \in Kept("openai") /\ ms[i] \in Messages
                             /\ ms[i].role = "tool"
                             /\ Says(ms[i]) = <<ResultItems(ids, t)[i]>>
  <2> SUFFICES ASSUME NEW i \in 1..Len(ids)
               PROVE  /\ ms[i] \in Kept("openai") /\ ms[i] \in Messages /\ ms[i].role = "tool"
                      /\ Says(ms[i]) = <<ResultItems(ids, t)[i]>>
    OBVIOUS
  <2>1. ids[i] \in Nat /\ ms[i] = [Saying("tool", t) EXCEPT !.id = ids[i]]
    BY <1>1, <1>3
  <2>2. ResultItems(ids, t)[i] = Item("result", ids[i], t)
    BY ResultItemsType
  <2> QED
    BY <1>2, <2>1, <2>2
<1>5. ms = [i \in 1..Len(ids) |-> ms[i]]
  BY <1>3
<1>6. ms \in Seq(Kept("openai")) /\ Len(ms) = Len(ids) /\ DOMAIN ms = 1..Len(ids)
  BY ONLY <1>1, <1>4, <1>5
<1> DEFINE items == ResultItems(ids, t)
           each == MapSeq(OfMessage, ms)
<1>7. items \in Seq(Items) /\ Len(items) = Len(ids)
  BY ResultItemsType
<1>8. each = [i \in 1..Len(items) |-> <<items[i]>>]
  <2>1. \A i \in 1..Len(ids) : OfMessage[ms[i]] = <<items[i]>>
    BY <1>4, OneMessageSays
  <2> HIDE DEF items
  <2> QED
    BY <1>6, <1>7, <2>1 DEF MapSeq
<1> HIDE DEF items, each
<1>9. FlattenSeq(each) = items
  BY <1>7, <1>8, FlattenSingles
<1> QED
  BY <1>4, <1>6, <1>9 DEF ConversationSays, FlatMap, items, each

(* Result blocks of Anthropic's client say the results.                    *)
LEMMA ToolResultsKept ==
  ASSUME NEW ids \in Seq(Nat), \A i \in 1..Len(ids) : ids[i] # NoId,
         NEW t \in Texts, NEW r, r = ToolResults(ids, t)
  PROVE  /\ r \in Seq(Answers) /\ Len(r) = Len(ids)
         /\ BlocksSay("user", r) = ResultItems(ids, t)
<1>1. /\ Len(ids) \in Nat /\ DOMAIN ids = 1..Len(ids)
      /\ \A i \in 1..Len(ids) : ids[i] \in Nat /\ ids[i] # NoId
  OBVIOUS
<1>2. ASSUME NEW i \in Nat, i # NoId, NEW b, b = ToolResult(i, t)
      PROVE  b \in Answers /\ b \in Blocks /\ BlockSays("user", b) = <<Item("result", i, t)>>
  <2>1. b \in Blocks /\ b.type = "tool_result" /\ b.id = i /\ b.text = t
    BY <1>2, MadeResult
  <2> QED
    BY <1>2, <2>1 DEF Answers, ResultBlocks, Picked, BlockSays, BlockItems
<1>3. r = [i \in 1..Len(ids) |-> ToolResult(ids[i], t)]
  BY <1>1 DEF ToolResults, Each
<1>4. \A i \in 1..Len(ids) : /\ r[i] \in Answers /\ r[i] \in Blocks
                             /\ OfBlock("user")[r[i]] = <<ResultItems(ids, t)[i]>>
  <2> SUFFICES ASSUME NEW i \in 1..Len(ids)
               PROVE  /\ r[i] \in Answers /\ r[i] \in Blocks
                      /\ OfBlock("user")[r[i]] = <<ResultItems(ids, t)[i]>>
    OBVIOUS
  <2>1. ids[i] \in Nat /\ ids[i] # NoId /\ r[i] = ToolResult(ids[i], t)
    BY <1>1, <1>3
  <2>2. ResultItems(ids, t)[i] = Item("result", ids[i], t)
    BY ResultItemsType
  <2>3. /\ r[i] \in Answers /\ r[i] \in Blocks
        /\ BlockSays("user", r[i]) = <<ResultItems(ids, t)[i]>>
    BY <1>2, <2>1, <2>2
  <2> QED
    BY <2>3 DEF OfBlock
<1>5. r = [i \in 1..Len(ids) |-> r[i]]
  BY <1>3
<1>6. r \in Seq(Answers) /\ Len(r) = Len(ids) /\ DOMAIN r = 1..Len(ids)
  BY ONLY <1>1, <1>4, <1>5
<1> DEFINE items == ResultItems(ids, t)
           each == MapSeq(OfBlock("user"), r)
<1>7. items \in Seq(Items) /\ Len(items) = Len(ids)
  BY ResultItemsType
<1>8. each = [i \in 1..Len(items) |-> <<items[i]>>]
  <2> HIDE DEF items
  <2> QED
    BY <1>4, <1>6, <1>7 DEF MapSeq, items
<1> HIDE DEF items, each
<1>9. FlattenSeq(each) = items
  BY <1>7, <1>8, FlattenSingles
<1> QED
  BY <1>6, <1>9 DEF BlocksSay, FlatMap, items, each
----------------------------------------------------------------------------
(* The assistant's message, in OpenAI's form and in Anthropic's.           *)
LEMMA OpenAIReplyKept ==
  ASSUME NEW t \in Texts, NEW c \in Seq(Calls), NEW m, m = OpenAIReply(t, c)
  PROVE  /\ m \in Kept("openai") /\ m.role = "assistant" /\ m.calls = c
         /\ Says(m) = WordItems("assistant", t) \o CallItems(c)
<1> DEFINE form == IF c # <<>> /\ t = <<>> THEN "null" ELSE "str"
           fields == {"role", "form", "text", "blocks", "calls", "id"}
           full == [x \in fields |-> IF x = "form" THEN form ELSE IF x = "text" THEN t
                                     ELSE IF x = "calls" THEN c ELSE Message("assistant")[x]]
<1>1. m = [Message("assistant") EXCEPT !.form = form, !.text = t, !.calls = c]
  BY DEF OpenAIReply
<1>2. DOMAIN Message("assistant") = fields
  BY DEF Message
<1> HIDE DEF form
<1>3. m = full
  BY <1>1, <1>2
<1>4. full = [role |-> "assistant", form |-> form, text |-> t, blocks |-> <<>>,
              calls |-> c, id |-> NoId]
  BY DEF Message
<1>5. /\ m.role = "assistant" /\ m.form = form /\ m.text = t /\ m.blocks = <<>>
      /\ m.calls = c /\ m.id = NoId
  BY <1>3, <1>4
<1>6. m \in Messages
  <2>1. /\ "assistant" \in Roles /\ <<>> \in Seq(Blocks) /\ NoId \in Nat
        /\ form \in {"null", "str", "list"} /\ t \in Texts /\ c \in Seq(Calls)
    BY DEF Roles, NoId, form
  <2>2. m = [role |-> "assistant", form |-> form, text |-> t, blocks |-> <<>>,
             calls |-> c, id |-> NoId]
    BY <1>3, <1>4
  <2> DEFINE none == <<>>
  <2>3. none \in Seq(Blocks) /\ m = [role |-> "assistant", form |-> form, text |-> t,
                                     blocks |-> none, calls |-> c, id |-> NoId]
    BY <2>1, <2>2
  <2> HIDE DEF none
  <2> QED
    BY ONLY <2>1, <2>3 DEF Messages
<1>7. m \in Kept("openai")
  BY <1>5, <1>6 DEF Kept, Receivable, form
<1>8. Content(m) = WordItems("assistant", t)
  <2>1. CASE form = "str"
    BY <1>5, <2>1 DEF Content
  <2>2. CASE form # "str"
    <3>1. t = <<>>
      BY <2>2 DEF form
    <3>2. WordItems("assistant", t) = <<>>
      <4>1. WordItems("assistant", t) \in Seq(Items) /\ Len(WordItems("assistant", t)) = 0
        BY <3>1, WordsSay DEF Roles
      <4> QED
        BY <4>1
    <3>3. BlocksSay("assistant", <<>>) = <<>>
      BY DEF FlatMap, MapSeq, FlattenSeq, BlocksSay
    <3> QED
      BY <1>5, <2>2, <3>2, <3>3 DEF Content
  <2> QED
    BY <2>1, <2>2
<1>9. Says(m) = WordItems("assistant", t) \o CallItems(c)
  BY <1>5, <1>8 DEF Says
<1> QED
  BY <1>5, <1>7, <1>9

(* A reply in blocks is kept, and says its text and calls.                 *)
LEMMA ListedReplyKept ==
  ASSUME NEW t \in Texts, NEW c \in Seq(Calls), t # <<>> \/ c # <<>>,
         NEW m, m = Listing("assistant", NonEmptyText(t) \o Uses(c))
  PROVE  /\ m \in Kept("anthropic") /\ m.role = "assistant"
         /\ m.blocks = NonEmptyText(t) \o Uses(c)
         /\ OfType(m.blocks, {"tool_use"}) = Uses(c)
         /\ Says(m) = WordItems("assistant", t) \o CallItems(c)
<1> DEFINE a == NonEmptyText(t)
           u == Uses(c)
           bs == a \o u
<1>1. "assistant" \in Roles
  BY DEF Roles
<1>2. /\ a \in Seq(Blocks) /\ \A i \in 1..Len(a) : a[i].type = "text"
      /\ BlocksSay("assistant", a) = WordItems("assistant", t)
  BY <1>1, TextSays
<1>3. /\ u \in Seq(Blocks) /\ Len(u) = Len(c) /\ \A i \in 1..Len(u) : u[i].type = "tool_use"
      /\ BlocksSay("assistant", u) = CallItems(c)
  BY <1>1, CallsAsBlocks
<1>4. a # <<>> \/ u # <<>>
  <2>1. CASE t # <<>>
    <3>1. a = <<TextBlock(t)>>
      BY <2>1 DEF NonEmptyText
    <3> QED
      BY <3>1
  <2>2. CASE c # <<>>
    <3>1. Len(c) # 0
      BY <2>2
    <3>2. Len(u) # 0
      BY <1>3, <3>1
    <3> HIDE DEF u
    <3> QED
      BY <3>2
  <2> QED
    BY <2>1, <2>2
<1> HIDE DEF a, u
<1>5. a \in Seq(Spoken) /\ u \in Seq(Used)
  <2>1. a = [i \in 1..Len(a) |-> a[i]] /\ Len(a) \in Nat /\ \A i \in 1..Len(a) : a[i] \in Blocks
    BY <1>2
  <2>2. \A i \in 1..Len(a) : a[i] \in Spoken
    BY <1>2, <2>1 DEF Spoken, Picked
  <2>3. a \in Seq(Spoken)
    BY ONLY <2>1, <2>2
  <2>4. u = [i \in 1..Len(u) |-> u[i]] /\ Len(u) \in Nat /\ \A i \in 1..Len(u) : u[i] \in Blocks
    BY <1>3
  <2>5. \A i \in 1..Len(u) : u[i] \in Used
    BY <1>3, <2>4 DEF Used, Picked
  <2>6. u \in Seq(Used)
    BY ONLY <2>4, <2>5
  <2> QED
    BY <2>3, <2>6
<1>6. bs \in Seq(Blocks) /\ bs # <<>>
  <2>1. bs \in Seq(Blocks) /\ Len(bs) = Len(a) + Len(u) /\ Len(a) \in Nat /\ Len(u) \in Nat
    <3>1. a \in Seq(Blocks) /\ u \in Seq(Blocks)
      BY <1>2, <1>3
    <3> QED
      BY ONLY <3>1, ConcatProperties DEF bs
  <2>2. Len(a) # 0 \/ Len(u) # 0
    BY <1>2, <1>3, <1>4
  <2>3. Len(bs) # 0
    BY <2>1, <2>2
  <2> HIDE DEF bs
  <2> QED
    BY <2>1, <2>3
<1>7. BlocksSay("assistant", bs) = BlocksSay("assistant", a) \o BlocksSay("assistant", u)
  BY <1>1, <1>2, <1>3, BlocksSayConcat
<1>8. \E x \in Seq(Spoken), y \in Seq(Used) : bs = x \o y
  BY <1>5
<1>9. OfType(bs, {"tool_use"}) = u
  <2>1. /\ \A i \in 1..Len(a) : a[i].type \notin {"tool_use"}
        /\ \A i \in 1..Len(u) : u[i].type \in {"tool_use"}
    BY <1>2, <1>3
  <2> QED
    BY <1>2, <1>3, <2>1, PickedSecond
<1>10. m = Listing("assistant", bs)
  BY DEF a, u
<1> HIDE DEF bs
<1>11. /\ m \in Messages
       /\ m = [role |-> "assistant", form |-> "list", text |-> <<>>, blocks |-> bs,
               calls |-> <<>>, id |-> NoId]
  <2>1. <<>> \in Texts
    BY DEF Texts
  <2> QED
    BY <1>1, <1>6, <1>10, <2>1, MadeMessages
<1>12. /\ m.role = "assistant" /\ m.form = "list" /\ m.blocks = bs
       /\ m.calls = <<>> /\ m.id = NoId
  BY <1>11
<1>13. m \in Kept("anthropic")
  <2>1. m \in Writable
    BY <1>8, <1>11, <1>12 DEF Writable
  <2> QED
    BY <1>6, <1>12, <2>1 DEF Kept
<1>14. Says(m) = BlocksSay("assistant", bs)
  <2>1. BlocksSay("assistant", bs) \in Seq(Items)
    BY <1>1, <1>6, BlocksSayConcat
  <2>2. Says(m) = BlocksSay("assistant", bs) \o <<>>
    BY <1>12, NothingCalled DEF Says, Content
  <2> QED
    BY <2>1, <2>2
<1> QED
  BY <1>2, <1>3, <1>7, <1>9, <1>12, <1>13, <1>14 DEF a, u, bs

(* The ids of the calls are found in either form.                          *)
LEMMA UsesIds ==
  ASSUME NEW c \in Seq(Calls)
  PROVE  Ids(Uses(c)) = Ids(c)
<1>1. /\ DOMAIN c = 1..Len(c) /\ Len(c) \in Nat
      /\ Uses(c) \in Seq(Blocks) /\ Len(Uses(c)) = Len(c)
      /\ \A i \in 1..Len(c) : Uses(c)[i].id = c[i].id
  <2>1. "assistant" \in Roles
    BY DEF Roles
  <2> QED
    BY <2>1, CallsAsBlocks
<1>2. DOMAIN Uses(c) = 1..Len(c)
  BY <1>1
<1> QED
  BY <1>1, <1>2 DEF Each, Ids

(* Calls with arguments as an object, and what becomes of them on the way. *)
ParsedCalls(c) == Each(c, LAMBDA x : [id |-> x.id, args |-> Parsed(x.args)])

(* Calls that have become blocks and calls again say what they did.        *)
LEMMA ParsedCallsSame ==
  ASSUME NEW c \in Seq(Calls)
  PROVE  /\ ParsedCalls(c) \in Seq(Calls)
         /\ ParsedCalls(c) = Each(Uses(c), LAMBDA b : [id |-> b.id, args |-> b.args])
         /\ CallItems(ParsedCalls(c)) = CallItems(c)
         /\ Ids(ParsedCalls(c)) = Ids(c)
<1> DEFINE p == ParsedCalls(c)
<1>1. DOMAIN c = 1..Len(c) /\ Len(c) \in Nat /\ \A i \in 1..Len(c) : c[i] \in Calls
  OBVIOUS
<1>2. \A x \in Calls : x.id \in Nat /\ Parsed(x.args) \in Args /\ Parsed(Parsed(x.args)) = Parsed(x.args)
  BY ToolTransAssumption DEF Calls, Parsed
<1>3. p = [i \in 1..Len(c) |-> [id |-> c[i].id, args |-> Parsed(c[i].args)]]
  BY <1>1 DEF ParsedCalls, Each
<1> HIDE DEF p
<1>4. ASSUME NEW i \in 1..Len(c)
      PROVE  /\ p[i] \in Calls /\ p[i].id = c[i].id /\ p[i].args = Parsed(c[i].args)
             /\ Parsed(p[i].args) = Parsed(c[i].args)
  <2>1. p[i] = [id |-> c[i].id, args |-> Parsed(c[i].args)] /\ c[i] \in Calls
    BY <1>1, <1>3
  <2>2. p[i].id = c[i].id /\ p[i].args = Parsed(c[i].args)
    BY ONLY <2>1
  <2>3. p[i] \in Calls
    BY <1>2, <2>1 DEF Calls
  <2> QED
    BY <1>2, <2>1, <2>2, <2>3
<1>5. p = [i \in 1..Len(c) |-> p[i]] /\ DOMAIN p = 1..Len(c)
  BY <1>3
<1>6. p \in Seq(Calls)
  BY ONLY <1>1, <1>4, <1>5
<1>7. p = Each(Uses(c), LAMBDA b : [id |-> b.id, args |-> b.args])
  <2>1. /\ Uses(c) \in Seq(Blocks) /\ Len(Uses(c)) = Len(c)
        /\ \A i \in 1..Len(c) : Uses(c)[i].id = c[i].id /\ Uses(c)[i].args = Parsed(c[i].args)
    <3>1. "assistant" \in Roles
      BY DEF Roles
    <3> QED
      BY <3>1, CallsAsBlocks
  <2>2. DOMAIN Uses(c) = 1..Len(c)
    BY <2>1
  <2> QED
    BY <1>3, <2>1, <2>2 DEF Each
<1>8. CallItems(p) = CallItems(c) /\ Ids(p) = Ids(c)
  BY <1>1, <1>4, <1>5 DEF CallItems, Ids, Each
<1> QED
  BY <1>6, <1>7, <1>8 DEF p

(* However the reply is delivered, the client keeps what was said, and     *)
(* finds the calls.                                                        *)
KeptReply(m, t, c) ==
  /\ m \in Kept(dialect) /\ m.role = "assistant"
  /\ IdsIn(m) = Ids(c)
  /\ Says(m) = WordItems("assistant", t) \o CallItems(c)

(* A streamed reply is kept in the client's dialect.                       *)
LEMMA StreamedReplyKept ==
  ASSUME NEW t \in Texts, NEW c \in Seq(Calls), t # <<>> \/ c # <<>>,
         dialect \in {"openai", "anthropic"}, NEW m, m = StreamedReply(t, c)
  PROVE  KeptReply(m, t, c)
<1>1. CASE dialect = "openai"
  <2>1. m = OpenAIReply(t, c)
    BY <1>1 DEF StreamedReply
  <2>2. /\ m \in Kept("openai") /\ m.role = "assistant" /\ m.calls = c
        /\ Says(m) = WordItems("assistant", t) \o CallItems(c)
    BY <2>1, OpenAIReplyKept
  <2> QED
    BY <1>1, <2>2 DEF KeptReply, IdsIn, Ids
<1>2. CASE dialect = "anthropic"
  <2>1. m = Listing("assistant", NonEmptyText(t) \o Uses(c))
    BY <1>2 DEF StreamedReply, Uses
  <2>2. /\ m \in Kept("anthropic") /\ m.role = "assistant"
        /\ OfType(m.blocks, {"tool_use"}) = Uses(c)
        /\ Says(m) = WordItems("assistant", t) \o CallItems(c)
    BY <2>1, ListedReplyKept
  <2> QED
    BY <1>2, <2>2, UsesIds DEF KeptReply, IdsIn
<1> QED
  BY <1>1, <1>2

(* A whole reply is, too: from either family, to either dialect.           *)
LEMMA WholeReplyKept ==
  ASSUME NEW t \in Texts, NEW c \in Seq(Calls), t # <<>> \/ c # <<>>,
         dialect \in {"openai", "anthropic"}, NEW family,
         family # "openai" => \A i \in 1..Len(c) : c[i].args # Broken,
         NEW m, m = WholeReply(family, t, c)
  PROVE  KeptReply(m, t, c)
<1> DEFINE raw == IF family = "openai" THEN openai_message_to_anthropic_content(t, c)
                  ELSE NonEmptyText(t) \o Each(c, LAMBDA x : ToolUse(x.id, x.args))
           listed == Listing("assistant", NonEmptyText(t) \o Uses(c))
<1>1. /\ listed \in Kept("anthropic") /\ listed.role = "assistant"
      /\ listed.blocks = NonEmptyText(t) \o Uses(c)
      /\ OfType(listed.blocks, {"tool_use"}) = Uses(c)
      /\ Says(listed) = WordItems("assistant", t) \o CallItems(c)
  BY ListedReplyKept
<1>2. NonEmptyText(t) \o Uses(c) # <<>>
  <2>1. listed.form = "list"
    BY DEF Listing, Message
  <2> HIDE DEF listed
  <2> QED
    BY <1>1, <2>1 DEF Kept
<1>3. raw = NonEmptyText(t) \o Uses(c)
  <2>1. CASE family = "openai"
    BY <1>2, <2>1 DEF openai_message_to_anthropic_content, Uses
  <2>2. CASE family # "openai"
    <3>1. DOMAIN c = 1..Len(c)
      OBVIOUS
    <3>2. \A i \in DOMAIN c : Parsed(c[i].args) = c[i].args
      BY <2>2, <3>1 DEF Parsed
    <3>3. Each(c, LAMBDA x : ToolUse(x.id, x.args)) = Uses(c)
      BY <3>2 DEF Each, Uses
    <3> QED
      BY <2>2, <3>3
  <2> QED
    BY <2>1, <2>2
<1>4. m = IF dialect = "anthropic" THEN Listing("assistant", raw)
          ELSE OpenAIReply(t, _raw_tool_uses_to_openai(raw))
  BY DEF WholeReply
<1> HIDE DEF raw
<1>5. CASE dialect = "anthropic"
  <2>1. m = listed
    BY <1>3, <1>4, <1>5
  <2> HIDE DEF listed
  <2> QED
    BY <1>1, <1>5, <2>1, UsesIds DEF KeptReply, IdsIn
<1>6. CASE dialect = "openai"
  <2>1. _raw_tool_uses_to_openai(raw) = ParsedCalls(c)
    BY <1>1, <1>3, ParsedCallsSame DEF _raw_tool_uses_to_openai
  <2>2. m = OpenAIReply(t, ParsedCalls(c)) /\ ParsedCalls(c) \in Seq(Calls)
    BY <1>4, <1>6, <2>1, ParsedCallsSame
  <2>3. /\ m \in Kept("openai") /\ m.role = "assistant" /\ m.calls = ParsedCalls(c)
        /\ Says(m) = WordItems("assistant", t) \o CallItems(ParsedCalls(c))
    BY <2>2, OpenAIReplyKept
  <2>4. CallItems(ParsedCalls(c)) = CallItems(c) /\ Ids(ParsedCalls(c)) = Ids(c)
    BY ParsedCallsSame
  <2>5. IdsIn(m) = Ids(m.calls)
    BY <1>6 DEF IdsIn, Ids
  <2> QED
    BY <1>6, <2>3, <2>4, <2>5 DEF KeptReply
<1> QED
  BY <1>5, <1>6
----------------------------------------------------------------------------
(* Calls 1 to n in order are just that.                                    *)
LEMMA SortedNumbers ==
  ASSUME NEW n \in Nat
  PROVE  Sorted(1..n) = [i \in 1..n |-> i]
<1> DEFINE id == [i \in 1..n |-> i]
           Fits(s) == /\ s \in [1..n -> 1..n]
                      /\ \A i, j \in DOMAIN s : i < j => s[i] < s[j]
<1>1. Cardinality(1..n) = n
  <2>1. 1 \in Int /\ n \in Int
    OBVIOUS
  <2>2. Cardinality(1..n) = IF 1 > n THEN 0 ELSE n - 1 + 1
    BY <2>1, FS_Interval
  <2> QED
    BY <2>2
<1>2. Sorted(1..n) = CHOOSE s : Fits(s)
  BY <1>1 DEF Sorted
<1>3. Fits(id)
  OBVIOUS
<1>4. ASSUME NEW s, Fits(s) PROVE s = id
  <2>1. /\ DOMAIN s = 1..n
        /\ \A i \in 1..n : s[i] \in 1..n
        /\ \A i, j \in 1..n : i < j => s[i] < s[j]
    BY <1>4
  <2> DEFINE L == {i \in 1..n : s[i] < i}
             H == {k \in 0..(n - 1) : s[n - k] > n - k}
  <2>2. L = {}
    <3> SUFFICES ASSUME L # {} PROVE FALSE
      OBVIOUS
    <3>1. L \in SUBSET Nat
      OBVIOUS
    <3>2. Min(L) \in L /\ \A i \in L : Min(L) <= i
      BY <3>1, LeastNumber
    <3> DEFINE m == Min(L)
    <3> HIDE DEF m
    <3>3. m \in 1..n /\ s[m] < m /\ s[m] \in 1..n
      BY <2>1, <3>2 DEF m
    <3>4. s[m] \in 1..n /\ s[s[m]] < s[m]
      BY <2>1, <3>3
    <3>5. s[m] \in L /\ ~(m <= s[m])
      BY <3>3, <3>4
    <3> QED
      BY <3>2, <3>5 DEF m
  <2>3. H = {}
    <3> SUFFICES ASSUME H # {} PROVE FALSE
      OBVIOUS
    <3>1. H \in SUBSET Nat
      OBVIOUS
    <3> DEFINE k == Min(H)
    <3>2. k \in H /\ \A i \in H : k <= i
      BY <3>1, LeastNumber
    <3> HIDE DEF k
    <3>7. k \in 0..(n - 1) /\ s[n - k] > n - k
      BY <3>2
    <3>8. n - k \in 1..n
      BY <3>7
    <3>3. k \in 0..(n - 1) /\ s[n - k] > n - k /\ n - k \in 1..n /\ s[n - k] \in 1..n
      BY <2>1, <3>7, <3>8
    <3> DEFINE h == n - s[n - k]
    <3>4. h \in 0..(n - 1) /\ n - h = s[n - k] /\ ~(k <= h)
      BY <3>3
    <3>5. s[n - h] > n - h
      BY <2>1, <3>3, <3>4
    <3> HIDE DEF h
    <3>6. h \in H
      BY <3>4, <3>5
    <3> QED
      BY <3>2, <3>4, <3>6
  <2>4. \A i \in 1..n : s[i] = i
    <3> SUFFICES ASSUME NEW i \in 1..n PROVE s[i] = i
      OBVIOUS
    <3>1. i \notin L /\ n - i \notin H
      BY <2>2, <2>3
    <3>2. ~(s[i] < i)
      BY <3>1
    <3>3. n - i \in 0..(n - 1) /\ n - (n - i) = i
      OBVIOUS
    <3>4. ~(s[i] > i)
      BY <3>1, <3>3
    <3> QED
      BY <2>1, <3>2, <3>4
  <2> QED
    BY <1>4, <2>4
<1> QED
  BY <1>2, <1>3, <1>4
----------------------------------------------------------------------------
(* What is said besides prompts.                                           *)
Talked == {i \in Items : i.kind # "system"}

(* Items that are no system prompt belong to the talk.                     *)
LEMMA TalkedType ==
  ASSUME NEW items \in Seq(Talked)
  PROVE  /\ items \in Seq(Items)
         /\ FlatMap(ToPrompt, items) = <<>> /\ FlatMap(ToTalk, items) = items
<1>1. Talked \subseteq Items
  BY DEF Talked
<1>2. items \in Seq(Items)
  BY <1>1, SeqMonotonic
<1>3. \A i \in 1..Len(items) : items[i] \in Talked
  OBVIOUS
<1>4. \A i \in 1..Len(items) : /\ ToPrompt[items[i]] = <<>>
                               /\ ToTalk[items[i]] = <<items[i]>>
  <2>1. \A i \in Talked : ToPrompt[i] = <<>> /\ ToTalk[i] = <<i>>
    BY DEF Talked, ToPrompt, ToTalk
  <2> QED
    BY <1>3, <2>1
<1>5. FlatMap(ToPrompt, items) = <<>>
  BY <1>2, <1>4, FlatMapNone
<1>6. FlatMap(ToTalk, items) = items
  BY <1>2, <1>4, FlatMapSame
<1> QED
  BY <1>2, <1>5, <1>6

(* The words of user and assistant do.                                     *)
LEMMA WordsTalked ==
  ASSUME NEW role \in {"user", "assistant"}, NEW t \in Texts
  PROVE  WordItems(role, t) \in Seq(Talked)
<1>1. /\ WordItems(role, t) \in Seq(Items) /\ Len(WordItems(role, t)) = Len(t)
      /\ \A i \in 1..Len(t) : WordItems(role, t)[i] = Item(role, NoId, t[i])
  BY WordsSay DEF Roles
<1> DEFINE s == WordItems(role, t)
<1>2. \A i \in 1..Len(s) : s[i].kind # "system"
  <2>1. \A x : Item(role, NoId, x).kind # "system"
    BY DEF Item
  <2> QED
    BY <1>1, <2>1
<1>3. s \in Seq(Items)
  BY <1>1
<1> HIDE DEF s
<1>4. s = [i \in 1..Len(s) |-> s[i]] /\ Len(s) \in Nat /\ \A i \in 1..Len(s) : s[i] \in Items
  BY <1>3
<1>5. \A i \in 1..Len(s) : s[i] \in Talked
  BY <1>2, <1>4 DEF Talked
<1>6. s \in Seq(Talked)
  BY ONLY <1>4, <1>5
<1> QED
  BY <1>6 DEF s

(* Calls do.                                                               *)
LEMMA CallsTalked ==
  ASSUME NEW c \in Seq(Calls)
  PROVE  CallItems(c) \in Seq(Talked)
<1>1. /\ CallItems(c) \in Seq(Items) /\ Len(CallItems(c)) = Len(c)
      /\ \A i \in 1..Len(c) : CallItems(c)[i] = Item("call", c[i].id, Parsed(c[i].args))
  BY CallsSay
<1> DEFINE s == CallItems(c)
<1>2. \A i \in 1..Len(s) : s[i].kind # "system"
  <2>1. \A x, y : Item("call", x, y).kind # "system"
    BY DEF Item
  <2> QED
    BY <1>1, <2>1
<1>3. s \in Seq(Items)
  BY <1>1
<1> HIDE DEF s
<1>4. s = [i \in 1..Len(s) |-> s[i]] /\ Len(s) \in Nat /\ \A i \in 1..Len(s) : s[i] \in Items
  BY <1>3
<1>5. \A i \in 1..Len(s) : s[i] \in Talked
  BY <1>2, <1>4 DEF Talked
<1>6. s \in Seq(Talked)
  BY ONLY <1>4, <1>5
<1> QED
  BY <1>6 DEF s

(* Results do.                                                             *)
LEMMA ResultsTalked ==
  ASSUME NEW ids \in Seq(Nat), NEW t \in Texts
  PROVE  ResultItems(ids, t) \in Seq(Talked)
<1>1. /\ ResultItems(ids, t) \in Seq(Items) /\ Len(ResultItems(ids, t)) = Len(ids)
      /\ \A i \in 1..Len(ids) : ResultItems(ids, t)[i] = Item("result", ids[i], t)
  BY ResultItemsType
<1> DEFINE s == ResultItems(ids, t)
<1>2. \A i \in 1..Len(s) : s[i].kind # "system"
  <2>1. \A x, y : Item("result", x, y).kind # "system"
    BY DEF Item
  <2> QED
    BY <1>1, <2>1
<1>3. s \in Seq(Items)
  BY <1>1
<1> HIDE DEF s
<1>4. s = [i \in 1..Len(s) |-> s[i]] /\ Len(s) \in Nat /\ \A i \in 1..Len(s) : s[i] \in Items
  BY <1>3
<1>5. \A i \in 1..Len(s) : s[i] \in Talked
  BY <1>2, <1>4 DEF Talked
<1>6. s \in Seq(Talked)
  BY ONLY <1>4, <1>5
<1> QED
  BY <1>6 DEF s

(* Messages besides prompts, which say some items.                         *)
Talks(more, items) ==
  /\ FlatMap(OfPrompt, more) = FlatMap(ToPrompt, items)
  /\ FlatMap(OfTalk, more) = FlatMap(ToTalk, items)

(* Messages that are no system messages say only talk.                     *)
LEMMA TalkedMessages ==
  ASSUME NEW more \in Seq(Messages), \A i \in 1..Len(more) : more[i].role # "system",
         NEW items \in Seq(Talked), ConversationSays(more) = items
  PROVE  Talks(more, items)
<1>1. \A i \in 1..Len(more) : more[i] \in Messages
  OBVIOUS
<1>2. \A i \in 1..Len(more) : /\ OfPrompt[more[i]] = <<>>
                              /\ OfTalk[more[i]] = OfMessage[more[i]]
  BY <1>1 DEF OfPrompt, OfTalk, OfMessage
<1>3. FlatMap(OfPrompt, more) = <<>>
  BY <1>2, FlatMapNone
<1>4. FlatMap(OfTalk, more) = FlatMap(OfMessage, more)
  BY <1>2, FlatMapAgree
<1>5. FlatMap(ToPrompt, items) = <<>> /\ FlatMap(ToTalk, items) = items
  BY TalkedType
<1> QED
  BY <1>3, <1>4, <1>5 DEF Talks, ConversationSays

(* Messages said one after the other say the items of both.                *)
LEMMA TalksConcat ==
  ASSUME NEW a \in Seq(Messages), NEW b \in Seq(Messages),
         NEW x \in Seq(Items), NEW y \in Seq(Items), Talks(a, x), Talks(b, y)
  PROVE  Talks(a \o b, x \o y)
<1>0. /\ a \in Seq(Messages) /\ b \in Seq(Messages) /\ x \in Seq(Items) /\ y \in Seq(Items)
      /\ Maps(OfPrompt, Messages, Seq(Items)) /\ Maps(OfTalk, Messages, Seq(Items))
      /\ Maps(ToPrompt, Items, Seq(Items)) /\ Maps(ToTalk, Items, Seq(Items))
  BY PartsSay
<1>1. FlatMap(OfPrompt, Then(a, b)) = Then(FlatMap(OfPrompt, a), FlatMap(OfPrompt, b))
  BY ONLY <1>0, FlatMapThen
<1>2. FlatMap(OfTalk, Then(a, b)) = Then(FlatMap(OfTalk, a), FlatMap(OfTalk, b))
  BY ONLY <1>0, FlatMapThen
<1>3. FlatMap(ToPrompt, Then(x, y)) = Then(FlatMap(ToPrompt, x), FlatMap(ToPrompt, y))
  BY ONLY <1>0, FlatMapThen
<1>4. FlatMap(ToTalk, Then(x, y)) = Then(FlatMap(ToTalk, x), FlatMap(ToTalk, y))
  BY ONLY <1>0, FlatMapThen
<1>5. Talks(Then(a, b), Then(x, y))
  BY <1>1, <1>2, <1>3, <1>4 DEF Talks
<1> QED
  BY <1>5 DEF Then
----------------------------------------------------------------------------
(* The conversation is one that both translations take, normalized too.    *)
LEMMA KeptSequences ==
  ASSUME Typed
  PROVE  /\ messages \in Seq(Kept(dialect)) /\ messages \in Seq(Receivable)
         /\ messages \in Seq(Messages)
         /\ Normalized = to_normalized(messages) /\ Normalized \in Seq(Kept(dialect))
         /\ Normalized \in Seq(Receivable) /\ Normalized \in Seq(Messages)
<1>1. messages \in Seq(Kept(dialect)) /\ dialect \in {"openai", "anthropic"}
  BY DEF Typed
<1>2. Kept(dialect) \subseteq Receivable /\ Kept(dialect) \subseteq Messages
  BY <1>1, KeptTaken
<1>3. Normalized = to_normalized(messages)
  BY DEF Normalized
<1>4. to_normalized(messages) \in Seq(Kept(dialect))
  BY <1>1, TalkType
<1> QED
  BY <1>1, <1>2, <1>3, <1>4, SeqMonotonic

(* A step that changes nothing.                                            *)
LEMMA StutterKeeps ==
  ASSUME IInv, UNCHANGED vars
  PROVE  IInv'
<1>1. /\ dialect' = dialect /\ messages' = messages /\ said' = said /\ at' = at
      /\ request' = request /\ reply' = reply /\ frags' = frags /\ arrived' = arrived
      /\ calls' = calls /\ requests' = requests
  BY DEF vars
<1>2. Typed' /\ Assembling' /\ Faithful'
  BY <1>1 DEF IInv, Typed, Assembling, Faithful
<1>3. Normalized' = Normalized
  BY <1>1 DEF Normalized
<1>4. Asked' /\ Turns'
  BY <1>1, <1>3 DEF IInv, Asked, Turns
<1>5. Delivered'
  BY <1>1 DEF IInv, Delivered, IdsIn
<1> QED
  BY <1>2, <1>4, <1>5 DEF IInv

(* The client speaks: the messages say the items, and the turn is its own. *)
LEMMA SpeakKeeps ==
  ASSUME IInv, NEW more \in Seq(Kept(dialect)), NEW items \in Seq(Items), Speak(more, items),
         Talks(more, items),
         \E sent : /\ sent.role = "user"
                   /\ Flushed(Gathered(to_normalized(messages \o more))).out =
                        Append(Gathered(to_normalized(messages)).out, sent)
  PROVE  IInv'
<1> DEFINE all == messages \o more
           good(c) == validate_local_content(to_normalized(all), c)
<1>0. PICK c \in ToolChoices :
        IF good(c)
        THEN /\ messages' = all /\ said' = said \o items
             /\ at' = "ready" /\ request' = [NoRequest EXCEPT !.choice = c]
        ELSE UNCHANGED <<messages, said, at, request>>
  BY DEF Speak
<1>1. CASE ~good(c)
  <2>1. UNCHANGED vars
    BY <1>0, <1>1 DEF Speak, vars
  <2> QED
    BY <2>1, StutterKeeps
<1>2. CASE good(c)
  <2>1. /\ at = "client" /\ at' = "ready" /\ messages' = all /\ said' = said \o items
        /\ request' = [NoRequest EXCEPT !.choice = c]
        /\ UNCHANGED <<dialect, reply, frags, arrived, calls, requests>>
    BY <1>0, <1>2 DEF Speak
  <2>2. /\ messages \in Seq(Kept(dialect)) /\ messages \in Seq(Messages) /\ said \in Seq(Items)
        /\ Normalized = to_normalized(messages) /\ Typed
    BY KeptSequences DEF IInv, Typed
  <2>3. Normalized' = to_normalized(all) /\ validate_local_content(Normalized', c)
    BY <1>2, <2>1 DEF Normalized
  <2>4. more \in Seq(Messages)
    BY <2>2, KeptTaken, SeqMonotonic DEF Typed
  <2>5. all \in Seq(Kept(dialect)) /\ said \o items \in Seq(Items)
    BY <2>2
  <2> HIDE DEF all, good
  <2>6. Typed'
    BY <2>1, <2>2, <2>5 DEF Typed
  <2>7. Asked'
    <3>1. request' = [family |-> "none", choice |-> c]
      BY <2>1 DEF NoRequest
    <3>2. /\ request' \in [family : {"none", "openai", "anthropic"}, choice : ToolChoices]
          /\ request'.choice = c
      BY <1>0, <3>1
    <3>3. validate_local_content(Normalized', request'.choice)
      BY <2>3, <3>2
    <3>4. at' = "ready" /\ ToolChoices' = ToolChoices
      BY <2>1 DEF ToolChoices
    <3> QED
      BY <3>2, <3>3, <3>4 DEF Asked, validate_local_content
  <2>8. Assembling'
    BY <2>1 DEF IInv, Assembling
  <2>9. Delivered'
    BY <2>1 DEF Delivered
  <2>10. Faithful'
    <3>0. /\ messages \in Seq(Messages) /\ more \in Seq(Messages)
          /\ said \in Seq(Items) /\ items \in Seq(Items)
          /\ Maps(OfPrompt, Messages, Seq(Items)) /\ Maps(OfTalk, Messages, Seq(Items))
          /\ Maps(ToPrompt, Items, Seq(Items)) /\ Maps(ToTalk, Items, Seq(Items))
      BY <2>2, <2>4, PartsSay
    <3> DEFINE both == Then(messages, more)
               told == Then(said, items)
    <3>1. FlatMap(OfPrompt, both) = Then(FlatMap(OfPrompt, messages), FlatMap(OfPrompt, more))
      BY ONLY <3>0, FlatMapThen
    <3>2. FlatMap(OfTalk, both) = Then(FlatMap(OfTalk, messages), FlatMap(OfTalk, more))
      BY ONLY <3>0, FlatMapThen
    <3>3. FlatMap(ToPrompt, told) = Then(FlatMap(ToPrompt, said), FlatMap(ToPrompt, items))
      BY ONLY <3>0, FlatMapThen
    <3>4. FlatMap(ToTalk, told) = Then(FlatMap(ToTalk, said), FlatMap(ToTalk, items))
      BY ONLY <3>0, FlatMapThen
    <3>9. all = both /\ said \o items = told
      BY DEF all, Then
    <3> HIDE DEF both, told
    <3>5. /\ FlatMap(OfTalk, messages) \in Seq(Items)
          /\ FlatMap(OfTalk, all) \in Seq(Items)
      <4>1. all \in Seq(Messages)
        BY <2>2, <2>4 DEF all
      <4> QED
        BY <2>2, <4>1, PartsSay, FlatMapType
    <3>6. /\ FlatMap(OfPrompt, messages) = FlatMap(ToPrompt, said)
          /\ FlatMap(OfTalk, messages) \o <<>> = FlatMap(ToTalk, said)
      BY <2>1 DEF IInv, Faithful
    <3>7. FlatMap(OfTalk, all) \o <<>> = FlatMap(ToTalk, said \o items)
      <4> DEFINE m1 == FlatMap(OfTalk, messages)
                 m2 == FlatMap(OfTalk, more)
                 s1 == FlatMap(ToTalk, said)
      <4>1. m1 \in Seq(Items) /\ m1 \o <<>> = s1 /\ m1 \o <<>> = m1
        BY <3>5, <3>6
      <4>2. FlatMap(OfTalk, both) = Then(m1, m2) /\ FlatMap(ToTalk, told) = Then(s1, m2)
        BY <3>2, <3>4, <2>1 DEF Talks
      <4> HIDE DEF m1, m2, s1
      <4>3. FlatMap(OfTalk, all) = FlatMap(ToTalk, said \o items)
        BY <3>9, <4>1, <4>2
      <4>4. FlatMap(OfTalk, all) \o <<>> = FlatMap(OfTalk, all)
        BY <3>5, ConcatEmptySeq
      <4> QED
        BY <4>3, <4>4
    <3>8. FlatMap(OfPrompt, all) = FlatMap(ToPrompt, said \o items)
      BY <3>1, <3>3, <3>6, <3>9 DEF Talks
    <3> QED
      BY <2>1, <3>7, <3>8 DEF Faithful
  <2>11. Turns'
    <3> DEFINE g == Gathered(Normalized)
               h == Gathered(to_normalized(all))
    <3>1. /\ Alternating(Flushed(g).out) /\ g.pending = <<>>
          /\ g.out # <<>> => Last(g.out).role = "assistant"
      BY <2>1 DEF IInv, Turns
    <3>2. PICK sent : sent.role = "user" /\ Flushed(h).out = Append(g.out, sent)
      BY <2>2 DEF all
    <3>3. g \in Gathering
      BY <2>2, KeptSequences, GatheredSays
    <3> HIDE DEF g
    <3>4. Alternating(g.out) /\ g.out \in Seq(Sent)
      BY <3>1, <3>3 DEF Flushed, Gathering
    <3> DEFINE out == Flushed(h).out
    <3>5. out = Append(g.out, sent) /\ (g.out # <<>> => Last(g.out).role # sent.role)
      BY <3>1, <3>2
    <3> HIDE DEF out, h
    <3>6. Alternating(out) /\ out # <<>> /\ Last(out) = sent
      BY <3>4, <3>5, AlternatingMore
    <3>7. h = Gathered(Normalized')
      BY <2>3 DEF h
    <3> QED
      BY <2>1, <3>2, <3>6, <3>7 DEF Turns, out
  <2> QED
    BY <2>6, <2>7, <2>8, <2>9, <2>10, <2>11 DEF IInv
<1> QED
  BY <1>1, <1>2
----------------------------------------------------------------------------
(* The client's turn: results, perhaps none, and perhaps a message.        *)
LEMMA ClientTurn ==
  ASSUME IInv, at = "client",
         NEW tools \in Seq(Kept(dialect)), \A i \in 1..Len(tools) : tools[i].role = "tool",
         NEW rest \in Seq(Kept(dialect)), NEW m \in Kept(dialect), m.role = "user",
         rest = <<>> \/ rest = <<m>>, tools # <<>> \/ rest # <<>>
  PROVE  \E sent : /\ sent.role = "user"
                   /\ Flushed(Gathered(to_normalized(messages \o (tools \o rest)))).out =
                        Append(Gathered(to_normalized(messages)).out, sent)
<1> DEFINE ms == to_normalized(messages)
<1>1. /\ messages \in Seq(Kept(dialect)) /\ ms \in Seq(Kept(dialect))
      /\ ms \in Seq(Receivable) /\ Normalized = ms /\ dialect \in {"openai", "anthropic"}
  BY KeptSequences DEF IInv, Typed
<1>2. Gathered(ms).pending = <<>>
  BY <1>1 DEF IInv, Turns
<1> HIDE DEF ms
<1>3. tools \in Seq(Receivable) /\ rest \in Seq(Receivable) /\ m \in Receivable
  <2>1. Kept(dialect) \subseteq Receivable
    BY <1>1, KeptTaken
  <2> QED
    BY <2>1, SeqMonotonic
<1>4. to_normalized(tools) = tools
  <2>1. \A i \in 1..Len(tools) : tools[i].role # "system"
    OBVIOUS
  <2> QED
    BY <2>1, TalkAll
<1>5. to_normalized(rest) = rest
  <2>1. \A i \in 1..Len(rest) : rest[i].role # "system"
    OBVIOUS
  <2> QED
    BY <2>1, TalkAll
<1>6. to_normalized(tools \o rest) = tools \o rest
  <2>1. to_normalized(tools \o rest) = to_normalized(tools) \o to_normalized(rest)
    BY TalkConcat
  <2> QED
    BY <1>4, <1>5, <2>1
<1>7. to_normalized(messages \o (tools \o rest)) = (ms \o tools) \o rest
  <2>1. tools \o rest \in Seq(Kept(dialect))
    OBVIOUS
  <2>2. to_normalized(messages \o (tools \o rest)) = to_normalized(messages) \o to_normalized(tools \o rest)
    BY <1>1, <2>1, TalkConcat
  <2>3. tools \in Seq(Kept(dialect)) /\ rest \in Seq(Kept(dialect))
    OBVIOUS
  <2>4. ms \o (tools \o rest) = (ms \o tools) \o rest
    BY ONLY <1>1, <2>3, ConcatAssociative
  <2> QED
    BY <1>6, <2>2, <2>4 DEF ms
<1>8. \E sent : /\ sent.role = "user"
                /\ Flushed(Gathered((ms \o tools) \o rest)).out = Append(Gathered(ms).out, sent)
  BY <1>1, <1>2, <1>3, UserTurn
<1> QED
  BY <1>7, <1>8 DEF ms

(* One message of the user's, which says some items.                       *)
LEMMA OneMessageKeeps ==
  ASSUME IInv, NEW m \in Kept(dialect), m.role = "user", NEW items \in Seq(Talked),
         Says(m) = items, NEW more, more = <<m>>, Speak(more, items)
  PROVE  IInv'
<1>1. dialect \in {"openai", "anthropic"} /\ at = "client"
  BY DEF IInv, Typed, Speak
<1>2. more \in Seq(Kept(dialect)) /\ <<>> \in Seq(Kept(dialect))
  OBVIOUS
<1>3. m \in Messages /\ more \in Seq(Messages)
  <2>1. Kept(dialect) \subseteq Messages
    BY <1>1, KeptTaken
  <2> QED
    BY <1>2, <2>1, SeqMonotonic
<1>4. ConversationSays(more) = items
  <2>1. FlatMap(OfMessage, <<m>>) = OfMessage[m]
    BY <1>3, OfMessageType, FlatMapFew
  <2> QED
    BY <1>3, <2>1, OneMessageSays DEF ConversationSays
<1>5. Talks(more, items) /\ items \in Seq(Items)
  <2>1. \A i \in 1..Len(more) : more[i].role # "system"
    OBVIOUS
  <2> QED
    BY <1>3, <1>4, <2>1, TalkedMessages, TalkedType
<1>6. \E sent : /\ sent.role = "user"
                /\ Flushed(Gathered(to_normalized(messages \o more))).out =
                     Append(Gathered(to_normalized(messages)).out, sent)
  <2> DEFINE tools == <<>>
  <2>1. /\ tools \in Seq(Kept(dialect)) /\ \A i \in 1..Len(tools) : tools[i].role = "tool"
        /\ more # <<>> /\ tools \o more = more
    BY <1>2
  <2> HIDE DEF tools
  <2>2. \E sent : /\ sent.role = "user"
                  /\ Flushed(Gathered(to_normalized(messages \o (tools \o more)))).out =
                       Append(Gathered(to_normalized(messages)).out, sent)
    BY <1>1, <1>2, <2>1, ClientTurn
  <2> QED
    BY <2>1, <2>2
<1> QED
  BY <1>2, <1>5, <1>6, SpeakKeeps

(* A system message says a prompt.                                         *)
LEMMA PromptTalks ==
  ASSUME NEW m \in Messages, m.role = "system", NEW more, more = <<m>>
  PROVE  /\ Talks(more, WordItems("system", m.text))
         /\ to_normalized(more) = <<>>
<1> DEFINE items == WordItems("system", m.text)
<1>1. m.text \in Texts /\ "system" \in Roles
  BY DEF Messages, Roles
<1>2. items \in Seq(Items) /\ \A i \in 1..Len(items) : items[i].kind = "system"
  <2>1. /\ items \in Seq(Items) /\ Len(items) = Len(m.text)
        /\ \A i \in 1..Len(m.text) : items[i] = Item("system", NoId, m.text[i])
    BY <1>1, WordsSay
  <2>2. \A x : Item("system", NoId, x).kind = "system"
    BY DEF Item
  <2> HIDE DEF items
  <2> QED
    BY <2>1, <2>2
<1> HIDE DEF items
<1>3. \A i \in 1..Len(items) : ToPrompt[items[i]] = <<items[i]>> /\ ToTalk[items[i]] = <<>>
  <2>1. \A i \in 1..Len(items) : items[i] \in Items
    BY <1>2
  <2> QED
    BY <1>2, <2>1 DEF ToPrompt, ToTalk
<1>4. FlatMap(ToPrompt, items) = items
  BY <1>2, <1>3, FlatMapSame
<1>5. FlatMap(ToTalk, items) = <<>>
  BY <1>2, <1>3, FlatMapNone
<1>6. FlatMap(OfPrompt, <<m>>) = OfPrompt[m] /\ OfPrompt[m] = items
  BY PartsSay, FlatMapFew DEF OfPrompt, items
<1>7. FlatMap(OfTalk, <<m>>) = OfTalk[m] /\ OfTalk[m] = <<>>
  BY PartsSay, FlatMapFew DEF OfTalk
<1>8. to_normalized(more) = <<>>
  <2>1. more \in Seq(Messages) /\ \A i \in 1..Len(more) : more[i].role = "system"
    OBVIOUS
  <2> QED
    BY <2>1, TalkNone
<1> QED
  BY <1>4, <1>5, <1>6, <1>7, <1>8 DEF Talks, items

(* Two one-element sequences.                                              *)
LEMMA PairConcat ==
  ASSUME NEW S, NEW x \in S, NEW y \in S
  PROVE  <<x>> \o <<y>> = <<x, y>>
<1> DEFINE a == <<x>>
           b == <<y>>
           c == a \o b
           d == <<x, y>>
<1>1. /\ a \in Seq(S) /\ b \in Seq(S)
      /\ Len(a) = 1 /\ Len(b) = 1 /\ a[1] = x /\ b[1] = y
  OBVIOUS
<1> HIDE DEF a, b
<1>2. /\ c \in Seq(S) /\ Len(c) = Len(a) + Len(b)
      /\ \A i \in 1..(Len(a) + Len(b)) : c[i] = IF i <= Len(a) THEN a[i] ELSE b[i - Len(a)]
  BY <1>1, ConcatProperties
<1>3. Len(c) = 2 /\ c[1] = x /\ c[2] = y
  BY <1>1, <1>2
<1>4. d \in Seq(S) /\ Len(d) = 2 /\ d[1] = x /\ d[2] = y
  OBVIOUS
<1> HIDE DEF c, d
<1>5. \A i \in 1..Len(c) : c[i] = d[i]
  BY <1>3, <1>4
<1>6. c = d
  BY <1>2, <1>3, <1>4, <1>5, SeqEqual
<1> QED
  BY <1>6 DEF a, b, c, d

(* What SayText does.                                                      *)
LEMMA SayTextKeeps ==
  ASSUME IInv, NEW w \in Words, SayText(w)
  PROVE  IInv'
<1> DEFINE t == <<w>>
           u == Saying("user", t)
           s == Saying("system", t)
<1>1. t \in Texts /\ dialect \in {"openai", "anthropic"}
  BY DEF Texts, IInv, Typed
<1>2. \/ Speak(<<u>>, WordItems("user", t))
      \/ /\ dialect = "openai"
         /\ Speak(<<s, u>>, WordItems("system", t) \o WordItems("user", t))
  BY DEF SayText
<1> HIDE DEF t
<1>3. u \in Kept(dialect) /\ u.role = "user" /\ Says(u) = WordItems("user", t)
  BY <1>1, SayingKept
<1>4. WordItems("user", t) \in Seq(Talked)
  BY <1>1, WordsTalked
<1> HIDE DEF u
<1>5. CASE Speak(<<u>>, WordItems("user", t))
  BY <1>3, <1>4, <1>5, OneMessageKeeps
<1>6. CASE /\ dialect = "openai"
           /\ Speak(<<s, u>>, WordItems("system", t) \o WordItems("user", t))
  <2> DEFINE a == <<s>>
             b == <<u>>
             x == WordItems("system", t)
             y == WordItems("user", t)
  <2>1. /\ s \in Kept(dialect) /\ s.role = "system" /\ s.text = t /\ s \in Messages
        /\ u \in Messages /\ Kept(dialect) \subseteq Messages
    <3>1. s \in Kept(dialect) /\ s.role = "system" /\ s.text = t
      BY <1>1, <1>6, SayingKept
    <3>2. Kept(dialect) \subseteq Messages
      BY <1>1, KeptTaken
    <3> HIDE DEF s
    <3> QED
      BY <1>3, <3>1, <3>2
  <2> HIDE DEF s
  <2>2. /\ a \in Seq(Kept(dialect)) /\ b \in Seq(Kept(dialect)) /\ a \o b = <<s, u>>
        /\ a \in Seq(Messages) /\ b \in Seq(Messages)
    <3> DEFINE K == Kept(dialect)
    <3>1. s \in K /\ u \in K
      BY <1>3, <2>1
    <3> HIDE DEF K
    <3>2. a \in Seq(K) /\ b \in Seq(K)
      BY <3>1
    <3>3. a \in Seq(Messages) /\ b \in Seq(Messages)
      BY <2>1
    <3>4. a \o b = <<s, u>>
      <4>1. s \in Messages /\ u \in Messages
        BY <2>1
      <4> QED
        BY <4>1, PairConcat
    <3> QED
      BY <3>2, <3>3, <3>4 DEF K
  <2>3. Talks(a, x) /\ to_normalized(a) = <<>>
    BY <2>1, PromptTalks
  <2>4. Talks(b, y)
    <3>1. FlatMap(OfMessage, <<u>>) = OfMessage[u]
      BY <2>1, OfMessageType, FlatMapFew
    <3>2. ConversationSays(b) = y
      BY <1>3, <2>1, <3>1, OneMessageSays DEF ConversationSays
    <3>3. \A i \in 1..Len(b) : b[i].role # "system"
      BY <1>3
    <3> HIDE DEF b, y
    <3> QED
      BY <1>4, <2>2, <3>2, <3>3, TalkedMessages DEF y
  <2>5. x \in Seq(Items) /\ y \in Seq(Items)
    BY <1>1, WordsSay DEF Roles
  <2>6. at = "client"
    BY <1>6 DEF Speak
  <2>7. b # <<>> /\ b = <<u>>
    OBVIOUS
  <2>8. Speak(a \o b, x \o y)
    BY <1>6, <2>2
  <2> HIDE DEF a, b, x, y
  <2>9. Talks(a \o b, x \o y)
    BY <2>2, <2>3, <2>4, <2>5, TalksConcat
  <2>10. to_normalized(messages \o (a \o b)) = to_normalized(messages \o b)
    <3>1. messages \in Seq(Kept(dialect)) /\ to_normalized(messages) \in Seq(Kept(dialect))
      BY KeptSequences DEF IInv
    <3>2. a \o b \in Seq(Kept(dialect))
      BY <2>2, ConcatProperties
    <3>3. to_normalized(messages \o (a \o b)) = to_normalized(messages) \o to_normalized(a \o b)
      BY <3>1, <3>2, TalkConcat
    <3>4. to_normalized(a \o b) = to_normalized(a) \o to_normalized(b)
      BY <2>2, TalkConcat
    <3>5. to_normalized(messages \o b) = to_normalized(messages) \o to_normalized(b)
      BY <2>2, <3>1, TalkConcat
    <3>6. to_normalized(b) \in Seq(Kept(dialect))
      BY <2>2, TalkType
    <3>7. <<>> \o to_normalized(b) = to_normalized(b)
      BY <3>6
    <3> QED
      BY <2>3, <3>3, <3>4, <3>5, <3>7
  <2>11. \E sent : /\ sent.role = "user"
                   /\ Flushed(Gathered(to_normalized(messages \o (a \o b)))).out =
                        Append(Gathered(to_normalized(messages)).out, sent)
    <3> DEFINE tools == <<>>
    <3>1. /\ tools \in Seq(Kept(dialect)) /\ \A i \in 1..Len(tools) : tools[i].role = "tool"
          /\ tools \o b = b
      BY <2>2
    <3> HIDE DEF tools
    <3>2. \E sent : /\ sent.role = "user"
                    /\ Flushed(Gathered(to_normalized(messages \o (tools \o b)))).out =
                         Append(Gathered(to_normalized(messages)).out, sent)
      BY <1>3, <2>2, <2>6, <2>7, <3>1, ClientTurn
    <3> QED
      BY <2>10, <3>1, <3>2
  <2> DEFINE more == a \o b
             items == x \o y
  <2>12. more \in Seq(Kept(dialect)) /\ items \in Seq(Items)
    BY <2>2, <2>5, ConcatProperties
  <2>13. Speak(more, items) /\ Talks(more, items)
    BY <2>8, <2>9
  <2>14. \E sent : /\ sent.role = "user"
                   /\ Flushed(Gathered(to_normalized(messages \o more))).out =
                        Append(Gathered(to_normalized(messages)).out, sent)
    BY <2>11
  <2> HIDE DEF more, items
  <2> QED
    BY <2>12, <2>13, <2>14, SpeakKeeps
<1> QED
  BY <1>2, <1>5, <1>6

(* What ShowPicture does.                                                  *)
LEMMA ShowPictureKeeps ==
  ASSUME IInv, NEW w \in Words, NEW url \in Pictures, ShowPicture(w, url)
  PROVE  IInv'
<1> DEFINE t == <<w>>
           b == TextBlock(t)
           image == <<Item("image", NoId, url)>>
<1>1. t \in Texts /\ dialect \in {"openai", "anthropic"} /\ "user" \in Roles
  BY DEF Texts, IInv, Typed, Roles
<1>2. PICK picture \in {ImageUrl(url), Image(url)} :
        Speak(<<Listing("user", <<b, picture>>)>>, WordItems("user", t) \o image)
  BY DEF ShowPicture
<1> HIDE DEF t
<1>3. b \in Blocks /\ b.type = "text" /\ b.text = t
  BY <1>1, MadeText
<1>4. /\ picture \in Blocks /\ picture.type \in {"image", "image_url"} /\ picture.text = url
  BY <1>2, MadeImage
<1> HIDE DEF b
<1>5. b \in Shown /\ picture \in Shown
  BY <1>3, <1>4 DEF Shown, Picked
<1>6. OfBlock("user")[b] = WordItems("user", t) /\ OfBlock("user")[picture] = image
  BY <1>1, <1>3, <1>4, OneBlockSays DEF BlockSays, BlockItems
<1>7. WordItems("user", t) \in Seq(Talked) /\ image \in Seq(Talked)
  <2>1. Item("image", NoId, url) \in Talked
    BY DEF Talked, Items, Item, NoId
  <2> QED
    BY <1>1, <2>1, WordsTalked
<1> DEFINE r == <<>>
           p == <<b, picture>>
           m == Listing("user", r \o p)
           items == WordItems("user", t) \o image
<1>8. /\ r \in Seq(Answers) /\ p \in Seq(Shown) /\ r \o p = p /\ r \o p # <<>>
      /\ m = Listing("user", p)
  BY <1>5
<1>9. BlocksSay("user", r) = <<>> /\ BlocksSay("user", p) = items
  <2> DEFINE x == <<b>>
             y == <<picture>>
  <2>1. x \in Seq(Blocks) /\ y \in Seq(Blocks) /\ p = x \o y
    BY <1>3, <1>4
  <2>2. FlatMap(OfBlock("user"), x) = OfBlock("user")[b]
    BY <1>1, <1>3, OfBlockType, FlatMapFew
  <2>3. FlatMap(OfBlock("user"), y) = OfBlock("user")[picture]
    BY <1>1, <1>4, OfBlockType, FlatMapFew
  <2> HIDE DEF x, y, p
  <2>4. BlocksSay("user", x \o y) = BlocksSay("user", x) \o BlocksSay("user", y)
    BY <1>1, <2>1, BlocksSayConcat
  <2>5. BlocksSay("user", <<>>) = <<>>
    BY DEF FlatMap, MapSeq, FlattenSeq, BlocksSay
  <2> QED
    BY <1>6, <2>1, <2>2, <2>3, <2>4, <2>5 DEF BlocksSay
<1>10. items \in Seq(Talked)
  BY <1>7
<1>11. Speak(<<m>>, items)
  BY <1>2, <1>8
<1> HIDE DEF r, p, m, items
<1>12. /\ m \in Kept(dialect) /\ m.role = "user"
       /\ Says(m) = BlocksSay("user", r) \o BlocksSay("user", p)
  BY <1>1, <1>8, ListingKept DEF m
<1>13. Says(m) = items
  <2>1. items \in Seq(Talked)
    BY <1>10
  <2>2. <<>> \o items = items
    BY ONLY <2>1
  <2> QED
    BY <1>9, <1>12, <2>2
<1> QED
  BY <1>10, <1>11, <1>12, <1>13, OneMessageKeeps

(* A sound is refused.                                                     *)
LEMMA PlaySoundKeeps ==
  ASSUME IInv, PlaySound
  PROVE  IInv'
<1> DEFINE b == Block("input_audio")
           m == Listing("user", <<b>>)
           more == <<m>>
           all == to_normalized(messages \o more)
<1>1. Speak(more, <<>>)
  BY DEF PlaySound
<1>2. b \in Blocks /\ Unsupported(b)
  <2>1. <<>> \in Texts /\ NoId \in Nat /\ NoArgs \in Args
    BY ToolTransAssumption DEF Texts, NoId
  <2> QED
    BY <2>1 DEF Block, Blocks, Unsupported
<1> HIDE DEF b
<1>3. m \in Messages /\ m.role = "user" /\ m.blocks = <<b>>
  <2> DEFINE bs == <<b>>
  <2>1. bs \in Seq(Blocks) /\ "user" \in Roles /\ <<>> \in Texts
    BY <1>2 DEF Roles, Texts
  <2> HIDE DEF bs
  <2>2. /\ Listing("user", bs) \in Messages
        /\ Listing("user", bs) = [role |-> "user", form |-> "list", text |-> <<>>, blocks |-> bs,
                                  calls |-> <<>>, id |-> NoId]
    BY <2>1, MadeMessages
  <2>3. Listing("user", bs).role = "user" /\ Listing("user", bs).blocks = bs
    BY <2>2
  <2> QED
    BY <2>2, <2>3 DEF bs
<1> HIDE DEF m
<1>4. messages \in Seq(Messages) /\ Normalized = to_normalized(messages) /\ Normalized \in Seq(Messages)
  BY KeptSequences DEF IInv
<1>5. more \in Seq(Messages) /\ \A i \in 1..Len(more) : more[i].role # "system"
  BY <1>3
<1> HIDE DEF more
<1>6. to_normalized(more) = more
  BY <1>5, TalkAll
<1>7. all = Normalized \o more
  BY <1>4, <1>5, <1>6, TalkConcat
<1>8. ASSUME NEW c PROVE ~validate_local_content(all, c)
  <2> DEFINE last == Len(Normalized) + 1
  <2>1. last \in DOMAIN all /\ all[last] = m
    <3>1. more = <<m>>
      BY DEF more
    <3> QED
      BY <1>4, <1>5, <1>7, <3>1
  <2> HIDE DEF last, all
  <2>2. 1 \in DOMAIN all[last].blocks /\ all[last].blocks[1] = b
    BY <1>3, <2>1
  <2> QED
    BY <1>2, <2>1, <2>2 DEF validate_local_content
<1>9. UNCHANGED vars
  BY <1>1, <1>8 DEF Speak, vars
<1> QED
  BY <1>9, StutterKeeps
----------------------------------------------------------------------------
(* The ids that the client answers, in either order.                       *)
LEMMA AnsweredIds ==
  ASSUME IInv, at = "client", reply.calls # <<>>, NEW ids, ids = IdsIn(Last(messages)),
         NEW order \in {ids, Reverse(ids)}
  PROVE  /\ order \in Seq(Nat) /\ order # <<>>
         /\ \A i \in 1..Len(order) : order[i] # NoId
<1>1. ids = Ids(reply.calls)
  BY DEF IInv, Delivered
<1>2. /\ reply.calls \in Seq(Calls) /\ calls \in Nat
      /\ \A i \in 1..Len(reply.calls) : reply.calls[i].id \in 1..calls
  BY DEF IInv, Typed
<1> DEFINE n == Len(reply.calls)
<1>3. n \in Nat /\ n # 0 /\ DOMAIN reply.calls = 1..n
  BY <1>2
<1>4. ids = [i \in 1..n |-> reply.calls[i].id]
  BY <1>1, <1>3 DEF Ids, Each
<1> HIDE DEF n
<1>5. ids \in Seq(Nat) /\ Len(ids) = n /\ \A i \in 1..n : ids[i] \in Nat /\ ids[i] # NoId
  BY <1>2, <1>3, <1>4 DEF NoId, n
<1>6. Reverse(ids) = [i \in 1..n |-> ids[(n - i) + 1]]
  BY <1>5 DEF Reverse
<1>7. \A i \in 1..n : (n - i) + 1 \in 1..n
  BY <1>3
<1>8. /\ Reverse(ids) \in Seq(Nat) /\ Len(Reverse(ids)) = n
      /\ \A i \in 1..n : Reverse(ids)[i] # NoId
  <2> DEFINE back == Reverse(ids)
  <2>1. \A i \in 1..n : back[i] \in Nat /\ back[i] # NoId
    BY <1>5, <1>6, <1>7
  <2>2. back = [i \in 1..n |-> back[i]]
    BY <1>6
  <2> HIDE DEF back
  <2>3. back \in Seq(Nat) /\ Len(back) = n
    BY ONLY <1>3, <2>1, <2>2
  <2> QED
    BY <2>1, <2>3 DEF back
<1>9. Len(order) = n /\ order \in Seq(Nat) /\ \A i \in 1..n : order[i] # NoId
  BY <1>5, <1>8
<1> QED
  BY <1>3, <1>9

(* In OpenAI's protocol, each result is a message.                         *)
LEMMA ToolMessagesKeep ==
  ASSUME IInv, dialect = "openai", NEW w \in Words, NEW ids \in Seq(Nat), ids # <<>>,
         NEW more \in {<<>>, <<w>>}, NEW t, t = <<w>>,
         NEW tools, tools = ToolMessages(ids, t),
         NEW rest, rest = IF more = <<>> THEN <<>> ELSE <<Saying("user", more)>>,
         NEW items, items = ResultItems(ids, t) \o WordItems("user", more),
         Speak(tools \o rest, items)
  PROVE  IInv'
<1>1. t \in Texts /\ more \in Texts /\ at = "client"
  <2>1. <<>> \in Seq(Words) /\ <<w>> \in Seq(Words)
    OBVIOUS
  <2>2. at = "client"
    BY DEF Speak
  <2> QED
    BY <2>1, <2>2 DEF Texts
<1> DEFINE r == ResultItems(ids, t)
           x == WordItems("user", more)
           m == Saying("user", t)
<1>2. /\ tools \in Seq(Kept(dialect)) /\ Len(tools) = Len(ids)
      /\ \A i \in 1..Len(tools) : tools[i].role = "tool"
      /\ ConversationSays(tools) = r
  BY <1>1, ToolMessagesKept
<1>3. Kept(dialect) \subseteq Messages
  BY KeptTaken
<1>4. tools \in Seq(Messages) /\ tools # <<>>
  <2>1. Len(tools) # 0
    BY <1>2
  <2> QED
    BY <1>2, <1>3, <2>1, SeqMonotonic
<1>5. r \in Seq(Talked) /\ x \in Seq(Talked)
  BY <1>1, ResultsTalked, WordsTalked
<1>6. r \in Seq(Items) /\ x \in Seq(Items)
  BY <1>5, TalkedType
<1>7. m \in Kept(dialect) /\ m.role = "user" /\ Says(m) = WordItems("user", t)
  BY <1>1, SayingKept
<1>8. rest = <<>> \/ rest = <<m>>
  OBVIOUS
<1>9. rest = <<>> => x = <<>>
  <2>1. <<m>> # <<>>
    OBVIOUS
  <2>2. rest = <<>> => more = <<>>
    BY <1>8
  <2>3. WordItems("user", <<>>) = <<>>
    BY DEF WordItems, Each
  <2> QED
    BY <2>2, <2>3
<1>10. rest = <<m>> => x = WordItems("user", t)
  BY <1>8
<1> HIDE DEF m, x, r
<1>11. rest \in Seq(Kept(dialect)) /\ rest \in Seq(Messages)
  BY <1>3, <1>7, <1>8
<1>12. Talks(tools, r)
  <2>1. \A i \in 1..Len(tools) : tools[i].role # "system"
    BY <1>2
  <2> QED
    BY <1>2, <1>4, <1>5, <2>1, TalkedMessages
<1>13. ConversationSays(rest) = x
  <2>1. m \in Messages
    BY <1>3, <1>7
  <2>2. FlatMap(OfMessage, <<m>>) = OfMessage[m] /\ FlatMap(OfMessage, <<>>) = <<>>
    BY <2>1, OfMessageType, FlatMapFew
  <2>3. OfMessage[m] = Says(m)
    BY <2>1, OneMessageSays
  <2> QED
    BY <1>7, <1>8, <1>9, <1>10, <2>2, <2>3 DEF ConversationSays
<1>14. Talks(rest, x)
  <2>1. \A i \in 1..Len(rest) : rest[i].role # "system"
    BY <1>7, <1>8
  <2> QED
    BY <1>5, <1>11, <1>13, <2>1, TalkedMessages
<1>15. Talks(tools \o rest, r \o x)
  BY <1>4, <1>6, <1>11, <1>12, <1>14, TalksConcat
<1> DEFINE all == tools \o rest
<1>16. \E sent : /\ sent.role = "user"
                 /\ Flushed(Gathered(to_normalized(messages \o all))).out =
                      Append(Gathered(to_normalized(messages)).out, sent)
  BY <1>1, <1>2, <1>4, <1>7, <1>8, <1>11, ClientTurn
<1>17. all \in Seq(Kept(dialect)) /\ items \in Seq(Items)
  BY <1>2, <1>6, <1>11, ConcatProperties DEF r, x
<1>18. Speak(all, items) /\ Talks(all, items)
  BY <1>15 DEF r, x
<1> HIDE DEF all
<1> QED
  BY <1>16, <1>17, <1>18, SpeakKeeps

(* In Anthropic's, they are blocks of one message.                         *)
LEMMA ToolResultsKeep ==
  ASSUME IInv, NEW w \in Words, NEW ids \in Seq(Nat), ids # <<>>,
         \A i \in 1..Len(ids) : ids[i] # NoId,
         NEW more \in {<<>>, <<w>>}, NEW t, t = <<w>>,
         NEW m, m = Listing("user", ToolResults(ids, t) \o NonEmptyText(more)),
         NEW items, items = ResultItems(ids, t) \o WordItems("user", more),
         Speak(<<m>>, items)
  PROVE  IInv'
<1>1. /\ t \in Texts /\ more \in Texts /\ "user" \in Roles
      /\ dialect \in {"openai", "anthropic"}
  <2>1. <<>> \in Seq(Words) /\ <<w>> \in Seq(Words)
    OBVIOUS
  <2>2. "user" \in Roles /\ dialect \in {"openai", "anthropic"}
    BY DEF Roles, IInv, Typed
  <2> QED
    BY <2>1, <2>2 DEF Texts
<1> DEFINE r == ToolResults(ids, t)
           p == NonEmptyText(more)
<1>2. r \in Seq(Answers) /\ Len(r) = Len(ids) /\ BlocksSay("user", r) = ResultItems(ids, t)
  BY <1>1, ToolResultsKept
<1>3. /\ p \in Seq(Blocks) /\ \A i \in 1..Len(p) : p[i].type = "text"
      /\ BlocksSay("user", p) = WordItems("user", more)
  BY <1>1, TextSays
<1>4. m = Listing("user", r \o p)
  OBVIOUS
<1> HIDE DEF r, p
<1>5. p \in Seq(Shown)
  <2>1. \A i \in 1..Len(p) : p[i] \in Shown
    BY <1>3 DEF Shown, Picked
  <2>2. p = [i \in 1..Len(p) |-> p[i]] /\ Len(p) \in Nat
    BY <1>3
  <2> QED
    BY ONLY <2>1, <2>2
<1>6. r \o p # <<>>
  <2>1. r \in Seq(Blocks) /\ Len(r) # 0 /\ Len(r) \in Nat
    <3>1. Answers \subseteq Blocks
      BY DEF Answers, ResultBlocks, Picked
    <3> QED
      BY <1>2, <3>1, SeqMonotonic
  <2>2. Len(r \o p) = Len(r) + Len(p) /\ Len(p) \in Nat
    BY <1>3, <2>1, ConcatProperties
  <2>3. Len(r \o p) # 0
    BY <2>1, <2>2
  <2> QED
    BY <2>3
<1>7. /\ m \in Kept(dialect) /\ m.role = "user"
      /\ Says(m) = BlocksSay("user", r) \o BlocksSay("user", p)
  BY <1>1, <1>2, <1>4, <1>5, <1>6, ListingKept
<1>8. items \in Seq(Talked)
  <2>1. ResultItems(ids, t) \in Seq(Talked) /\ WordItems("user", more) \in Seq(Talked)
    BY <1>1, ResultsTalked, WordsTalked
  <2> QED
    BY <2>1, ConcatProperties
<1>9. Says(m) = items
  BY <1>2, <1>3, <1>7
<1> QED
  BY <1>7, <1>8, <1>9, OneMessageKeeps

(* What AnswerCalls does.                                                  *)
LEMMA AnswerCallsKeeps ==
  ASSUME IInv, NEW w \in Words, AnswerCalls(w)
  PROVE  IInv'
<1> DEFINE ids == IdsIn(Last(messages))
           t == <<w>>
<1>1. PICK order \in {ids, Reverse(ids)}, more \in {<<>>, <<w>>} :
        Speak(IF dialect = "openai"
              THEN ToolMessages(order, t) \o
                   (IF more = <<>> THEN <<>> ELSE <<Saying("user", more)>>)
              ELSE <<Listing("user", ToolResults(order, t) \o NonEmptyText(more))>>,
              ResultItems(order, t) \o WordItems("user", more))
  BY DEF AnswerCalls, ToolMessages, ToolResults, ResultItems
<1>2. reply.calls # <<>> /\ at = "client"
  BY DEF AnswerCalls, Speak
<1>3. /\ order \in Seq(Nat) /\ order # <<>>
      /\ \A i \in 1..Len(order) : order[i] # NoId
  BY <1>1, <1>2, AnsweredIds
<1>4. t = <<w>>
  OBVIOUS
<1> HIDE DEF ids, t
<1> DEFINE items == ResultItems(order, t) \o WordItems("user", more)
<1>5. CASE dialect = "openai"
  <2> DEFINE tools == ToolMessages(order, t)
             rest == IF more = <<>> THEN <<>> ELSE <<Saying("user", more)>>
  <2>1. Speak(tools \o rest, items)
    BY <1>1, <1>5
  <2> HIDE DEF tools, rest, items
  <2> QED
    BY <1>3, <1>4, <1>5, <2>1, ToolMessagesKeep DEF tools, rest, items
<1>6. CASE dialect # "openai"
  <2> DEFINE m == Listing("user", ToolResults(order, t) \o NonEmptyText(more))
  <2>1. Speak(<<m>>, items)
    BY <1>1, <1>6
  <2> HIDE DEF m, items
  <2> QED
    BY <1>3, <1>4, <2>1, ToolResultsKeep DEF m, items
<1> QED
  BY <1>5, <1>6
----------------------------------------------------------------------------
(* A new conversation.                                                     *)
LEMMA InitKeeps == Init => IInv
<1> SUFFICES ASSUME Init PROVE IInv
  OBVIOUS
<1>1. dialect \in {"openai", "anthropic"}
  BY LoopAssumption DEF Init
<1>2. NoReply \in [text : Texts, calls : Seq(Calls)] /\ Len(NoReply.calls) = 0
  <2>1. <<>> \in Texts /\ <<>> \in Seq(Calls)
    BY DEF Texts
  <2> QED
    BY <2>1 DEF NoReply
<1>3. Typed
  <2>1. messages \in Seq(Kept(dialect)) /\ said \in Seq(Items)
    BY DEF Init
  <2>2. 0 \in 0..MaxRequests
    BY LoopAssumption
  <2> QED
    BY <1>1, <1>2, <2>1, <2>2 DEF Init, Typed
<1>4. Asked /\ Assembling
  BY DEF Init, Asked, Assembling
<1>5. Delivered
  BY DEF Init, Delivered, NoReply
<1>6. Faithful
  <2>1. /\ FlatMap(OfPrompt, <<>>) = <<>> /\ FlatMap(OfTalk, <<>>) = <<>>
        /\ FlatMap(ToPrompt, <<>>) = <<>> /\ FlatMap(ToTalk, <<>>) = <<>>
    BY DEF FlatMap, MapSeq, FlattenSeq
  <2>2. <<>> \o <<>> = <<>>
    OBVIOUS
  <2> QED
    BY <2>1, <2>2 DEF Init, Faithful
<1>7. Turns
  <2> DEFINE none == <<>>
  <2>1. none \in Seq({1}) /\ 1 \in {1}
    OBVIOUS
  <2> HIDE DEF none
  <2>2. Gathered(<<>>) = Begun
    BY <2>1, GatheredNext
  <2>3. Normalized = <<>>
    <3>1. messages \in Seq({1}) /\ \A i \in 1..Len(messages) : messages[i].role # "system"
      BY DEF Init
    <3>2. to_normalized(messages) = messages
      BY <3>1, TalkAll
    <3> QED
      BY <3>2 DEF Init, Normalized
  <2>4. /\ Begun.out = <<>> /\ Begun.pending = <<>> /\ Flushed(Begun).out = <<>>
    BY DEF Begun, Flushed
  <2>5. Alternating(<<>>)
    BY DEF Alternating
  <2> QED
    BY <2>2, <2>3, <2>4, <2>5 DEF Init, Turns
<1> QED
  BY <1>3, <1>4, <1>5, <1>6, <1>7 DEF IInv

(* What StartOver does.                                                    *)
LEMMA StartOverKeeps == StartOver => IInv'
<1>1. StartOver => Init'
  BY DEF StartOver, Init
<1>2. Init => IInv
  BY InitKeeps
<1> QED
  BY <1>1, <1>2, PTL

(* A turn of the server's that leaves the conversation as it is.           *)
LEMMA ServerTurn ==
  ASSUME IInv, at # "client", at' # "client", UNCHANGED messages
  PROVE  Normalized' = Normalized /\ Delivered' /\ Turns'
<1>1. Normalized' = Normalized
  BY DEF Normalized
<1>2. Delivered'
  BY DEF Delivered
<1>3. Turns'
  BY <1>1 DEF IInv, Turns
<1> QED
  BY <1>1, <1>2, <1>3

(* What Send does.                                                         *)
LEMMA SendKeeps ==
  ASSUME IInv, NEW family, Send(family)
  PROVE  IInv'
<1>1. /\ at = "ready" /\ at' = "sent" /\ <<dialect, family>> \in Served
      /\ requests < MaxRequests /\ requests' = requests + 1 /\ reply' = NoReply
      /\ UNCHANGED <<dialect, messages, said, frags, arrived, calls>>
  BY DEF Send
<1>2. /\ request' = [request EXCEPT !.family = family]
      /\ request \in [family : {"none", "openai", "anthropic"}, choice : ToolChoices]
      /\ family \in {"openai", "anthropic"}
  BY <1>1, LoopAssumption DEF Send, IInv, Asked
<1>3. Normalized' = Normalized /\ Delivered' /\ Turns'
  BY <1>1, ServerTurn
<1>4. Typed'
  <2>1. NoReply \in [text : Texts, calls : Seq(Calls)] /\ Len(NoReply.calls) = 0
    <3>1. <<>> \in Texts /\ <<>> \in Seq(Calls)
      BY DEF Texts
    <3> QED
      BY <3>1 DEF NoReply
  <2>2. requests' \in 0..MaxRequests
    BY <1>1, LoopAssumption DEF IInv, Typed
  <2> QED
    BY <1>1, <2>1, <2>2 DEF IInv, Typed
<1>5. Asked'
  <2>1. /\ request' \in [family : {"none", "openai", "anthropic"}, choice : ToolChoices]
        /\ request'.family = family /\ request'.choice = request.choice
    BY <1>2
  <2>2. validate_local_content(Normalized', request'.choice)
    BY <1>1, <1>3, <2>1 DEF IInv, Asked
  <2>3. <<dialect', request'.family>> \in Served
    BY <1>1, <2>1
  <2> QED
    BY <2>1, <2>2, <2>3 DEF Asked
<1>6. Assembling'
  BY <1>1 DEF IInv, Assembling
<1>7. Faithful'
  BY <1>1 DEF IInv, Faithful
<1> QED
  BY <1>3, <1>4, <1>5, <1>6, <1>7 DEF IInv

(* What RequestFails does.                                                 *)
LEMMA RequestFailsKeeps ==
  ASSUME IInv, RequestFails
  PROVE  IInv'
<1>1. /\ at = "sent" /\ at' = "ready"
      /\ UNCHANGED <<dialect, messages, said, request, reply, frags, arrived, calls, requests>>
  BY DEF RequestFails
<1>2. Normalized' = Normalized /\ Delivered' /\ Turns'
  BY <1>1, ServerTurn
<1>3. Typed'
  BY <1>1 DEF IInv, Typed
<1>4. Asked'
  BY <1>1, <1>2 DEF IInv, Asked
<1>5. Assembling' /\ Faithful'
  BY <1>1 DEF IInv, Assembling, Faithful
<1> QED
  BY <1>2, <1>3, <1>4, <1>5 DEF IInv
----------------------------------------------------------------------------
(* The replies of a model.                                                 *)
LEMMA RepliesType ==
  ASSUME IInv, at = "sent", NEW r \in Replies
  PROVE  /\ r \in [text : Texts, calls : Seq(Calls)]
         /\ r.text \in Texts /\ r.calls \in Seq(Calls)
         /\ \A i \in 1..Len(r.calls) : r.calls[i].id \in 1..(calls + Len(r.calls))
         /\ calls + Len(r.calls) \in Nat
         /\ r.text # <<>> \/ r.calls # <<>>
         /\ request.family # "openai" => \A i \in 1..Len(r.calls) : r.calls[i].args # Broken
<1>1. calls \in Nat
  BY DEF IInv, Typed
<1>2. PICK n \in 0..MaxCalls :
        r.calls \in [1..n -> [id : (calls + 1)..(calls + n), args : Args \cup {Broken}]]
  BY DEF Replies
<1>3. /\ r = [text |-> r.text, calls |-> r.calls]
      /\ r.text \in {<<>>} \cup {<<w>> : w \in Words}
      /\ r.text # <<>> \/ r.calls # <<>>
      /\ \A i \in DOMAIN r.calls : request.family = "anthropic" => r.calls[i].args # Broken
  BY DEF Replies
<1>4. r.text \in Texts
  <2>1. <<>> \in Seq(Words) /\ \A w \in Words : <<w>> \in Seq(Words)
    OBVIOUS
  <2> QED
    BY <1>3, <2>1 DEF Texts
<1>5. n \in Nat
  BY LoopAssumption
<1> DEFINE c == r.calls
<1>6. /\ c \in [1..n -> Calls] /\ DOMAIN c = 1..n
      /\ \A i \in 1..n : c[i].id \in 1..(calls + n)
  <2>1. \A x \in [id : (calls + 1)..(calls + n), args : Args \cup {Broken}] :
          x \in Calls /\ x.id \in 1..(calls + n)
    BY <1>1, <1>5 DEF Calls
  <2> QED
    BY <1>2, <2>1
<1>7. r.calls = c
  OBVIOUS
<1> HIDE DEF c
<1>8. c \in Seq(Calls) /\ Len(c) = n
  BY <1>5, <1>6
<1>9. request.family # "openai" => request.family = "anthropic"
  BY LoopAssumption DEF IInv, Asked
<1> QED
  BY <1>1, <1>3, <1>4, <1>5, <1>6, <1>7, <1>8, <1>9

(* What is said in a reply.                                                *)
Uttered(t, c) == WordItems("assistant", t) \o CallItems(c)
SaidAfter(s, t, c) == s \o WordItems("assistant", t) \o CallItems(c)

(* With a reply, only the talk has grown, by its text and calls.           *)
LEMMA ReplySaid ==
  ASSUME NEW s \in Seq(Items), NEW t \in Texts, NEW c \in Seq(Calls)
  PROVE  /\ SaidAfter(s, t, c) \in Seq(Items)
         /\ FlatMap(ToPrompt, SaidAfter(s, t, c)) = FlatMap(ToPrompt, s)
         /\ FlatMap(ToTalk, SaidAfter(s, t, c)) = Then(FlatMap(ToTalk, s), Uttered(t, c))
<1> DEFINE x == WordItems("assistant", t)
           y == CallItems(c)
           new == x \o y
           more == SaidAfter(s, t, c)
<1>1. x \in Seq(Talked) /\ y \in Seq(Talked)
  BY WordsTalked, CallsTalked
<1>2. more = (s \o x) \o y
  BY DEF SaidAfter
<1> HIDE DEF x, y, more
<1>3. new \in Seq(Talked)
  BY <1>1, ConcatProperties
<1>4. x \in Seq(Items) /\ y \in Seq(Items)
  BY <1>1, TalkedType
<1>5. more = s \o new
  BY ONLY <1>2, <1>4, ConcatAssociative DEF new
<1> HIDE DEF new
<1>6. /\ new \in Seq(Items)
      /\ FlatMap(ToPrompt, new) = <<>> /\ FlatMap(ToTalk, new) = new
  BY <1>3, TalkedType
<1>7. FlatMap(ToPrompt, Then(s, new)) = Then(FlatMap(ToPrompt, s), FlatMap(ToPrompt, new))
  <2>1. s \in Seq(Items) /\ new \in Seq(Items) /\ Maps(ToPrompt, Items, Seq(Items))
    BY <1>6, PartsSay
  <2> QED
    BY ONLY <2>1, FlatMapThen
<1>8. FlatMap(ToTalk, Then(s, new)) = Then(FlatMap(ToTalk, s), FlatMap(ToTalk, new))
  <2>1. s \in Seq(Items) /\ new \in Seq(Items) /\ Maps(ToTalk, Items, Seq(Items))
    BY <1>6, PartsSay
  <2> QED
    BY ONLY <2>1, FlatMapThen
<1>9. FlatMap(ToPrompt, s) \in Seq(Items)
  BY PartsSay, FlatMapType
<1>10. FlatMap(ToPrompt, s) \o <<>> = FlatMap(ToPrompt, s)
  BY <1>9, ConcatEmptySeq
<1>11. more \in Seq(Items)
  BY <1>5, <1>6, ConcatProperties
<1> QED
  BY <1>5, <1>6, <1>7, <1>8, <1>10, <1>11 DEF new, x, y, more, Then, Uttered

(* The reply joins the conversation.                                       *)
WithReply(m) == Append(messages, m)

(* A kept reply adds to the conversation what was uttered, and ends the
   turn of the assistant.                                                  *)
LEMMA ReplyJoins ==
  ASSUME IInv, at # "client", NEW t \in Texts, NEW c \in Seq(Calls), NEW m, KeptReply(m, t, c),
         NEW all, all = WithReply(m), NEW g, g = Gathered(to_normalized(all))
  PROVE  /\ all \in Seq(Kept(dialect)) /\ all # <<>> /\ Last(all) = m
         /\ FlatMap(OfPrompt, all) = FlatMap(OfPrompt, messages)
         /\ FlatMap(OfTalk, all) =
              Then(FlatMap(OfTalk, messages), Uttered(t, c))
         /\ g.pending = <<>> /\ Alternating(Flushed(g).out)
         /\ g.out # <<>> => Last(g.out).role = "assistant"
<1> DEFINE ms == to_normalized(messages)
           one == <<m>>
<1> USE DEF WithReply
<1>1. /\ messages \in Seq(Kept(dialect)) /\ messages \in Seq(Messages)
      /\ ms \in Seq(Kept(dialect)) /\ ms \in Seq(Receivable) /\ Normalized = ms
      /\ dialect \in {"openai", "anthropic"}
  BY KeptSequences DEF IInv, Typed
<1>2. /\ m \in Kept(dialect) /\ m.role = "assistant"
      /\ Says(m) = WordItems("assistant", t) \o CallItems(c)
  BY DEF KeptReply
<1>3. m \in Receivable /\ m \in Messages
  BY <1>1, <1>2, KeptTaken
<1>4. all \in Seq(Kept(dialect)) /\ all # <<>> /\ Last(all) = m
  <2>1. /\ all \in Seq(Kept(dialect)) /\ Len(all) = Len(messages) + 1
        /\ all[Len(messages) + 1] = m
    BY <1>1, <1>2, AppendProperties
  <2>2. Len(messages) \in Nat
    BY <1>1
  <2>3. Len(all) # 0
    BY <2>1, <2>2
  <2> QED
    BY <2>1, <2>3 DEF Last
<1>5. FlatMap(OfPrompt, all) = FlatMap(OfPrompt, messages)
  <2>1. FlatMap(OfPrompt, all) = FlatMap(OfPrompt, messages) \o OfPrompt[m]
    BY <1>1, <1>3, PartsSay, FlatMapAppend
  <2>2. OfPrompt[m] = <<>>
    BY <1>2, <1>3 DEF OfPrompt
  <2>3. FlatMap(OfPrompt, messages) \in Seq(Items)
    BY <1>1, PartsSay, FlatMapType
  <2> QED
    BY <2>1, <2>2, <2>3, ConcatEmptySeq
<1>6. FlatMap(OfTalk, all) = Then(FlatMap(OfTalk, messages), Uttered(t, c))
  <2>1. FlatMap(OfTalk, all) = FlatMap(OfTalk, messages) \o OfTalk[m]
    BY <1>1, <1>3, PartsSay, FlatMapAppend
  <2>2. OfTalk[m] = Says(m)
    BY <1>2, <1>3 DEF OfTalk
  <2> QED
    BY <1>2, <2>1, <2>2 DEF Then, Uttered
<1>7. to_normalized(all) = Append(ms, m)
  <2>1. one \in Seq(Kept(dialect)) /\ all = messages \o one
    BY <1>1, <1>2, AppendIsConcat
  <2>2. \A i \in 1..Len(one) : one[i].role # "system"
    BY <1>2
  <2>3. Append(ms, m) = ms \o one
    BY <1>1, <1>2, AppendIsConcat
  <2> HIDE DEF one, ms
  <2>4. to_normalized(one) = one
    BY <2>1, <2>2, TalkAll
  <2>5. to_normalized(messages \o one) = to_normalized(messages) \o to_normalized(one)
    BY <1>1, <2>1, TalkConcat
  <2> QED
    BY <2>1, <2>3, <2>4, <2>5 DEF ms
<1> HIDE DEF ms
<1>8. /\ g.pending = <<>>
      /\ \E sent : /\ sent.role = "assistant"
                   /\ g.out = Append(Flushed(Gathered(ms)).out, sent)
  BY <1>1, <1>2, <1>3, <1>7, AssistantTurn
<1>9. PICK sent : sent.role = "assistant" /\ g.out = Append(Flushed(Gathered(ms)).out, sent)
  BY <1>8
<1> DEFINE out == Flushed(Gathered(ms)).out
<1>10. /\ Alternating(out) /\ Last(out).role = "user"
  BY <1>1 DEF IInv, Turns
<1>11. out \in Seq(Sent)
  <2>1. Gathered(ms) \in Gathering
    BY <1>1, GatheredSays
  <2> QED
    BY <2>1, FlushSays DEF Gathering
<1> HIDE DEF out
<1>12. g.out = Append(out, sent) /\ Last(out).role # sent.role
  BY <1>9, <1>10 DEF out
<1> DEFINE after == g.out
<1>13. after = Append(out, sent)
  BY <1>12
<1> HIDE DEF after
<1>14. Alternating(after) /\ Last(after) = sent
  BY <1>10, <1>11, <1>12, <1>13, AlternatingMore
<1>15. Flushed(g) = g
  BY <1>8 DEF Flushed
<1> QED
  BY <1>4, <1>5, <1>6, <1>8, <1>9, <1>14, <1>15 DEF after
----------------------------------------------------------------------------
(* The reply is in the conversation and the turn is the client's.          *)
LEMMA ReplyTaken ==
  ASSUME IInv, at # "client", at' = "client", dialect' = dialect,
         NEW t \in Texts, NEW c \in Seq(Calls), NEW m, KeptReply(m, t, c),
         messages' = Append(messages, m), reply'.calls = c,
         FlatMap(OfPrompt, messages) = FlatMap(ToPrompt, said'),
         Then(FlatMap(OfTalk, messages), Uttered(t, c)) = FlatMap(ToTalk, said')
  PROVE  messages' \in Seq(Kept(dialect')) /\ Asked' /\ Delivered' /\ Faithful' /\ Turns'
<1> DEFINE all == Append(messages, m)
           g == Gathered(to_normalized(all))
<1>1. /\ all \in Seq(Kept(dialect)) /\ all # <<>> /\ Last(all) = m
      /\ FlatMap(OfPrompt, all) = FlatMap(OfPrompt, messages)
      /\ FlatMap(OfTalk, all) = Then(FlatMap(OfTalk, messages), Uttered(t, c))
      /\ g.pending = <<>> /\ Alternating(Flushed(g).out)
      /\ g.out # <<>> => Last(g.out).role = "assistant"
  <2>1. all = WithReply(m) /\ g = Gathered(to_normalized(all))
    BY DEF WithReply
  <2> HIDE DEF all, g
  <2> QED
    BY <2>1, ReplyJoins
<1>2. messages' = all
  OBVIOUS
<1> HIDE DEF all
<1>3. Asked'
  BY DEF Asked
<1>4. Delivered'
  <2>1. Last(messages)' = m
    BY <1>1, <1>2
  <2>2. IdsIn(m) = Ids(c)
    BY DEF KeptReply
  <2>3. IdsIn(Last(messages))' = Ids(c)
    BY <2>1, <2>2 DEF IdsIn
  <2> QED
    BY <1>1, <1>2, <2>3 DEF Delivered
<1>5. Faithful'
  <2>1. FlatMap(OfTalk, all) \in Seq(Items)
    <3>1. Kept(dialect) \subseteq Messages
      BY KeptTaken DEF IInv, Typed
    <3>2. all \in Seq(Messages)
      BY <1>1, <3>1, SeqMonotonic
    <3> QED
      BY <3>2, PartsSay, FlatMapType
  <2>2. FlatMap(OfTalk, all) \o <<>> = FlatMap(OfTalk, all)
    BY <2>1, ConcatEmptySeq
  <2> QED
    BY <1>1, <1>2, <2>2 DEF Faithful
<1>6. Turns'
  <2>1. Gathered(Normalized)' = g
    BY <1>2 DEF Normalized, g
  <2> HIDE DEF g
  <2> QED
    BY <1>1, <2>1 DEF Turns
<1> QED
  BY <1>1, <1>2, <1>3, <1>4, <1>5, <1>6

(* What ReplyWhole does.                                                   *)
LEMMA ReplyWholeKeeps ==
  ASSUME IInv, ReplyWhole
  PROVE  IInv'
<1>1. PICK r \in Replies :
        /\ Utter(r)
        /\ messages' = Append(messages, WholeReply(request.family, r.text, r.calls))
  BY DEF ReplyWhole
<1> DEFINE t == r.text
           c == r.calls
           m == WholeReply(request.family, t, c)
<1>2. /\ at = "sent" /\ at' = "client" /\ reply' = r /\ calls' = calls + Len(c)
      /\ said' = said \o WordItems("assistant", t) \o CallItems(c)
      /\ UNCHANGED <<dialect, requests, frags, arrived>>
  BY <1>1 DEF Utter, ReplyWhole
<1>3. /\ r \in [text : Texts, calls : Seq(Calls)] /\ t \in Texts /\ c \in Seq(Calls)
      /\ \A i \in 1..Len(c) : c[i].id \in 1..(calls + Len(c))
      /\ calls + Len(c) \in Nat
      /\ t # <<>> \/ c # <<>>
      /\ request.family # "openai" => \A i \in 1..Len(c) : c[i].args # Broken
  BY <1>2, RepliesType
<1>4. messages' = Append(messages, m) /\ reply'.calls = c
  BY <1>1, <1>2
<1>5. /\ dialect \in {"openai", "anthropic"} /\ said \in Seq(Items)
      /\ requests \in 0..MaxRequests
  BY DEF IInv, Typed
<1> HIDE DEF t, c
<1>6. KeptReply(m, t, c)
  BY <1>3, <1>5, WholeReplyKept
<1> HIDE DEF m
<1>7. /\ said' \in Seq(Items)
      /\ FlatMap(ToPrompt, said') = FlatMap(ToPrompt, said)
      /\ FlatMap(ToTalk, said') = Then(FlatMap(ToTalk, said), Uttered(t, c))
  <2>1. said' = SaidAfter(said, t, c)
    BY <1>2 DEF SaidAfter
  <2> QED
    BY <1>3, <1>5, <2>1, ReplySaid
<1>8. /\ FlatMap(OfPrompt, messages) = FlatMap(ToPrompt, said)
      /\ FlatMap(OfTalk, messages) = FlatMap(ToTalk, said)
  <2>1. /\ FlatMap(OfPrompt, messages) = FlatMap(ToPrompt, said)
        /\ FlatMap(OfTalk, messages) \o <<>> = FlatMap(ToTalk, said)
    BY <1>2 DEF IInv, Faithful
  <2>2. FlatMap(OfTalk, messages) \in Seq(Items)
    BY KeptSequences, PartsSay, FlatMapType DEF IInv
  <2> QED
    BY <2>1, <2>2, ConcatEmptySeq
<1>9. messages' \in Seq(Kept(dialect')) /\ Asked' /\ Delivered' /\ Faithful' /\ Turns'
  BY <1>2, <1>3, <1>4, <1>6, <1>7, <1>8, ReplyTaken
<1>10. Typed'
  <2>1. reply' \in [text : Texts, calls : Seq(Calls)]
    BY <1>2, <1>3
  <2>2. \A i \in 1..Len(reply'.calls) : reply'.calls[i].id \in 1..calls'
    BY <1>2, <1>3, <1>4
  <2> QED
    BY <1>2, <1>3, <1>5, <1>7, <1>9, <2>1, <2>2 DEF Typed
<1>11. Assembling'
  BY <1>2 DEF IInv, Assembling
<1> QED
  BY <1>9, <1>10, <1>11 DEF IInv

(* What StartStream does.                                                  *)
LEMMA StartStreamKeeps ==
  ASSUME IInv, StartStream
  PROVE  IInv'
<1>1. PICK r \in Replies : Utter(r) /\ arrived' = Each(r.calls, LAMBDA c : 0)
  BY DEF StartStream
<1> DEFINE t == r.text
           c == r.calls
<1>2. /\ at = "sent" /\ at' = "streaming" /\ reply' = r /\ calls' = calls + Len(c)
      /\ said' = said \o WordItems("assistant", t) \o CallItems(c)
      /\ frags' = <<>> /\ UNCHANGED <<dialect, requests, messages>>
  BY <1>1 DEF Utter, StartStream
<1>3. /\ r \in [text : Texts, calls : Seq(Calls)] /\ t \in Texts /\ c \in Seq(Calls)
      /\ \A i \in 1..Len(c) : c[i].id \in 1..(calls + Len(c))
      /\ calls + Len(c) \in Nat
      /\ t # <<>> \/ c # <<>>
  BY <1>2, RepliesType
<1>4. reply'.calls = c /\ reply'.text = t
  BY <1>2
<1>5. arrived' = [i \in 1..Len(c) |-> 0]
  <2>1. DOMAIN c = 1..Len(c)
    BY <1>3
  <2> QED
    BY <1>1, <2>1 DEF Each
<1>6. /\ dialect \in {"openai", "anthropic"} /\ said \in Seq(Items)
      /\ requests \in 0..MaxRequests
  BY DEF IInv, Typed
<1> HIDE DEF t, c
<1>7. /\ said' \in Seq(Items)
      /\ FlatMap(ToPrompt, said') = FlatMap(ToPrompt, said)
      /\ FlatMap(ToTalk, said') = Then(FlatMap(ToTalk, said), Uttered(t, c))
  <2>1. said' = SaidAfter(said, t, c)
    BY <1>2 DEF SaidAfter
  <2> QED
    BY <1>3, <1>6, <2>1, ReplySaid
<1>8. /\ FlatMap(OfPrompt, messages) = FlatMap(ToPrompt, said)
      /\ FlatMap(OfTalk, messages) = FlatMap(ToTalk, said)
  <2>1. /\ FlatMap(OfPrompt, messages) = FlatMap(ToPrompt, said)
        /\ FlatMap(OfTalk, messages) \o <<>> = FlatMap(ToTalk, said)
    BY <1>2 DEF IInv, Faithful
  <2>2. FlatMap(OfTalk, messages) \in Seq(Items)
    BY KeptSequences, PartsSay, FlatMapType DEF IInv
  <2> QED
    BY <2>1, <2>2, ConcatEmptySeq
<1>9. Normalized' = Normalized /\ Delivered' /\ Turns'
  BY <1>2, ServerTurn
<1>10. Typed'
  <2>1. reply' \in [text : Texts, calls : Seq(Calls)]
    BY <1>2, <1>3
  <2>2. \A i \in 1..Len(reply'.calls) : reply'.calls[i].id \in 1..calls'
    BY <1>2, <1>3, <1>4
  <2> QED
    BY <1>2, <1>3, <1>6, <1>7, <2>1, <2>2 DEF IInv, Typed
<1>11. Asked'
  BY <1>2 DEF IInv, Asked
<1>12. Assembling'
  <2>1. /\ arrived' \in [1..Len(c) -> 0..Parts] /\ DOMAIN arrived' = 1..Len(c)
        /\ {i \in DOMAIN arrived' : arrived'[i] > 0} = {}
    BY <1>5 DEF Parts
  <2>2. DOMAIN frags' = {}
    BY <1>2
  <2> QED
    BY <1>2, <1>3, <1>4, <2>1, <2>2 DEF Assembling
<1>13. Faithful'
  BY <1>2, <1>4, <1>7, <1>8 DEF Faithful, Then, Uttered
<1> QED
  BY <1>9, <1>10, <1>11, <1>12, <1>13 DEF IInv

(* What FragmentArrives does.                                              *)
LEMMA FragmentArrivesKeeps ==
  ASSUME IInv, NEW i \in DOMAIN arrived, FragmentArrives(i)
  PROVE  IInv'
<1> DEFINE n == Len(reply.calls)
           part == arrived[i] + 1
           f == IF i \in DOMAIN frags THEN frags[i] ELSE NewFrag
           new == IF part = 1 THEN [f EXCEPT !.id = reply.calls[i].id]
                  ELSE [f EXCEPT !.args = Append(@, part - 1)]
           made == [id |-> reply.calls[i].id, args |-> Pieces(part)]
<1>1. /\ at = "streaming" /\ arrived[i] < Parts
      /\ arrived' = [arrived EXCEPT ![i] = @ + 1]
      /\ UNCHANGED <<dialect, messages, said, at, request, reply, calls, requests>>
  BY DEF FragmentArrives
<1>2. /\ arrived \in [1..n -> 0..Parts]
      /\ DOMAIN frags = {k \in DOMAIN arrived : arrived[k] > 0}
      /\ \A k \in DOMAIN frags :
           frags[k] = [id |-> reply.calls[k].id, args |-> Pieces(arrived[k])]
      /\ reply.text # <<>> \/ reply.calls # <<>>
  BY <1>1 DEF IInv, Assembling
<1>3. /\ DOMAIN arrived' = DOMAIN arrived /\ arrived'[i] = part
      /\ \A k \in DOMAIN arrived : k # i => arrived'[k] = arrived[k]
  BY <1>1, <1>2
<1>4. arrived[i] \in {0, 1, 2}
  BY <1>1, <1>2 DEF Parts
<1>5. arrived' \in [1..n -> 0..Parts]
  BY <1>1, <1>2, <1>4 DEF Parts
<1>6. frags' = [k \in DOMAIN frags \cup {i} |-> IF k # i THEN frags[k] ELSE new]
  <2>1. frags' = Fragment(i, part)
    BY <1>3 DEF FragmentArrives
  <2> QED
    BY <2>1 DEF Fragment
<1>7. new = made
  <2>1. CASE arrived[i] = 0
    <3>1. i \notin DOMAIN frags
      BY <1>2, <2>1
    <3>2. f = [id |-> NoId, args |-> <<>>] /\ part = 1
      BY <2>1, <3>1 DEF NewFrag
    <3>3. new = [id |-> reply.calls[i].id, args |-> <<>>]
      BY <3>2
    <3> QED
      BY <3>2, <3>3 DEF Pieces
  <2>2. CASE arrived[i] = 1
    <3>1. i \in DOMAIN frags
      BY <1>2, <2>2
    <3>2. f = [id |-> reply.calls[i].id, args |-> <<>>] /\ part = 2
      BY <1>2, <2>2, <3>1 DEF Pieces
    <3>3. new = [id |-> reply.calls[i].id, args |-> Append(<<>>, 1)]
      BY <3>2
    <3>4. Append(<<>>, 1) = <<1>>
      OBVIOUS
    <3> QED
      BY <3>2, <3>3, <3>4 DEF Pieces
  <2>3. CASE arrived[i] = 2
    <3>1. i \in DOMAIN frags
      BY <1>2, <2>3
    <3>2. f = [id |-> reply.calls[i].id, args |-> Pieces(2)] /\ part = 3
      BY <1>2, <2>3, <3>1
    <3> HIDE DEF f
    <3>3. new = [id |-> reply.calls[i].id, args |-> Append(Pieces(2), 2)]
      <4>1. part # 1 /\ part - 1 = 2
        BY <3>2
      <4>2. new = [f EXCEPT !.args = Append(f.args, 2)]
        BY ONLY <4>1
      <4> HIDE DEF new
      <4>3. f.args = Pieces(2)
        BY <3>2
      <4> DEFINE more == Append(Pieces(2), 2)
      <4>4. new = [f EXCEPT !.args = more]
        BY <4>2, <4>3
      <4> HIDE DEF more
      <4>5. new = [id |-> reply.calls[i].id, args |-> more]
        BY <3>2, <4>4
      <4> QED
        BY <4>5 DEF more
    <3>5. Pieces(2) = <<1>> /\ Pieces(part) = <<1, 2>>
      BY <3>2 DEF Pieces
    <3>4. Append(<<1>>, 2) = <<1, 2>>
      <4>1. <<1>> \in Seq(Nat) /\ 1 \in Nat /\ 2 \in Nat
        OBVIOUS
      <4>2. Append(<<1>>, 2) = <<1>> \o <<2>>
        BY <4>1, AppendIsConcat
      <4> QED
        BY <4>1, <4>2, PairConcat
    <3> QED
      BY <3>3, <3>4, <3>5
  <2> QED
    BY <1>4, <2>1, <2>2, <2>3
<1> HIDE DEF new
<1>8. DOMAIN frags' = {k \in DOMAIN arrived' : arrived'[k] > 0}
  BY <1>2, <1>3, <1>4, <1>6
<1>9. \A k \in DOMAIN frags' :
        frags'[k] = [id |-> reply.calls[k].id, args |-> Pieces(arrived'[k])]
  BY <1>2, <1>3, <1>6, <1>7
<1>10. Assembling'
  BY <1>1, <1>2, <1>5, <1>8, <1>9 DEF Assembling
<1>11. Normalized' = Normalized /\ Delivered' /\ Turns'
  BY <1>1, ServerTurn
<1>12. Typed' /\ Asked' /\ Faithful'
  BY <1>1, <1>11 DEF IInv, Typed, Asked, Faithful
<1> QED
  BY <1>10, <1>11, <1>12 DEF IInv

(* What StreamDone does.                                                   *)
LEMMA StreamDoneKeeps ==
  ASSUME IInv, StreamDone
  PROVE  IInv'
<1> DEFINE t == reply.text
           c == reply.calls
           n == Len(c)
           Assembled(i) ==
             [id   |-> frags[i].id,
              args |-> IF frags[i].args = <<1, 2>> THEN reply.calls[i].args ELSE Broken]
           tool_calls == Each(Sorted(DOMAIN frags), Assembled)
           m == StreamedReply(t, c)
<1>1. /\ at = "streaming" /\ \A i \in DOMAIN arrived : arrived[i] = Parts
      /\ messages' = Append(messages, StreamedReply(reply.text, tool_calls))
      /\ at' = "client" /\ frags' = <<>> /\ arrived' = <<>>
      /\ UNCHANGED <<dialect, said, request, reply, calls, requests>>
  BY DEF StreamDone
<1>2. /\ arrived \in [1..n -> 0..Parts]
      /\ DOMAIN frags = {k \in DOMAIN arrived : arrived[k] > 0}
      /\ \A k \in DOMAIN frags :
           frags[k] = [id |-> reply.calls[k].id, args |-> Pieces(arrived[k])]
      /\ t # <<>> \/ c # <<>>
  BY <1>1 DEF IInv, Assembling
<1>3. /\ t \in Texts /\ c \in Seq(Calls) /\ n \in Nat
      /\ dialect \in {"openai", "anthropic"}
  BY DEF IInv, Typed
<1>4. tool_calls = c
  <2>1. DOMAIN arrived = 1..n
    BY <1>2
  <2>2. DOMAIN frags = 1..n
    <3> HIDE DEF n
    <3>1. \A k \in DOMAIN arrived : arrived[k] = Parts
      BY <1>1
    <3>2. \A k \in 1..n : arrived[k] > 0
      BY ONLY <2>1, <3>1 DEF Parts
    <3> QED
      BY <1>2, <2>1, <3>2
  <2>3. Sorted(DOMAIN frags) = [i \in 1..n |-> i]
    BY <1>3, <2>2, SortedNumbers
  <2> HIDE DEF n
  <2>4. \A i \in 1..n : Assembled(i) = c[i]
    <3>1. ASSUME NEW i \in 1..n PROVE Assembled(i) = c[i]
      <4>1. frags[i].id = c[i].id /\ frags[i].args = <<1, 2>>
        <5>1. i \in DOMAIN frags /\ arrived[i] = Parts
          BY <1>1, <2>1, <2>2
        <5>2. frags[i] = [id |-> c[i].id, args |-> Pieces(Parts)]
          BY <1>2, <5>1
        <5> QED
          BY <5>2 DEF Pieces, Parts
      <4>2. c[i] \in Calls
        BY <1>3 DEF n
      <4>3. c[i] = [id |-> c[i].id, args |-> c[i].args]
        BY <4>2 DEF Calls
      <4> QED
        BY <4>1, <4>3
    <3> QED
      BY <3>1
  <2> DEFINE counted == [i \in 1..n |-> i]
  <2>5. DOMAIN counted = 1..n /\ \A i \in 1..n : counted[i] = i
    OBVIOUS
  <2>6. tool_calls = [i \in DOMAIN counted |-> Assembled(counted[i])]
    BY <2>3 DEF Each
  <2> HIDE DEF counted, Assembled, tool_calls, c
  <2>7. tool_calls = [i \in 1..n |-> c[i]]
    BY <2>4, <2>5, <2>6
  <2>8. c = [i \in 1..n |-> c[i]]
    BY <1>3 DEF n
  <2> QED
    BY <2>7, <2>8
<1>5. messages' = Append(messages, m) /\ reply'.calls = c
  BY <1>1, <1>4
<1>6. KeptReply(m, t, c)
  BY <1>2, <1>3, StreamedReplyKept
<1>7. /\ FlatMap(OfPrompt, messages) = FlatMap(ToPrompt, said')
      /\ Then(FlatMap(OfTalk, messages), Uttered(t, c)) = FlatMap(ToTalk, said')
  BY <1>1 DEF IInv, Faithful, Then, Uttered
<1> HIDE DEF m, t, c
<1>8. messages' \in Seq(Kept(dialect')) /\ Asked' /\ Delivered' /\ Faithful' /\ Turns'
  BY <1>1, <1>3, <1>5, <1>6, <1>7, ReplyTaken
<1>9. Typed'
  BY <1>1, <1>8 DEF IInv, Typed
<1>10. Assembling'
  BY <1>1 DEF Assembling
<1> QED
  BY <1>8, <1>9, <1>10 DEF IInv
----------------------------------------------------------------------------
(* Every step of ToolLoop preserves its inductive invariant.               *)
LEMMA NextKeeps == IInv /\ [Next]_vars => IInv'
<1> SUFFICES ASSUME IInv, [Next]_vars PROVE IInv'
  OBVIOUS
<1>1. ASSUME NEW w \in Words, SayText(w) PROVE IInv'
  BY <1>1, SayTextKeeps
<1>2. ASSUME NEW w \in Words, AnswerCalls(w) PROVE IInv'
  BY <1>2, AnswerCallsKeeps
<1>3. ASSUME NEW w \in Words, NEW url \in Pictures, ShowPicture(w, url) PROVE IInv'
  BY <1>3, ShowPictureKeeps
<1>4. CASE PlaySound
  BY <1>4, PlaySoundKeeps
<1>5. ASSUME NEW family \in {"openai", "anthropic"}, Send(family) PROVE IInv'
  BY <1>5, SendKeeps
<1>6. CASE ReplyWhole
  BY <1>6, ReplyWholeKeeps
<1>7. CASE StartStream
  BY <1>7, StartStreamKeeps
<1>8. CASE StreamDone
  BY <1>8, StreamDoneKeeps
<1>9. CASE RequestFails
  BY <1>9, RequestFailsKeeps
<1>10. CASE StartOver
  BY <1>10, StartOverKeeps
<1>11. ASSUME NEW i \in DOMAIN arrived, FragmentArrives(i) PROVE IInv'
  BY <1>11, FragmentArrivesKeeps
<1>12. CASE UNCHANGED vars
  BY <1>12, StutterKeeps
<1> QED
  BY <1>1, <1>2, <1>3, <1>4, <1>5, <1>6, <1>7, <1>8, <1>9, <1>10, <1>11, <1>12 DEF Next

(* The inductive invariant holds in every reachable state.                 *)
THEOREM IInvHolds == Spec => []IInv
<1>1. Init => IInv
  BY InitKeeps
<1>2. IInv /\ [Next]_vars => IInv'
  BY NextKeeps
<1> QED
  BY <1>1, <1>2, PTL DEF Spec
----------------------------------------------------------------------------
(* Only pairs of a dialect and a family that are served are asked, the     *)
(* provider's table of fragments holds the calls that have begun to arrive *)
(* and no others, and no message of Anthropic's dialect carries a field of *)
(* OpenAI's: what TypeOK says holds for whatever pairs are served.         *)
THEOREM ToolLoopTypeOK == Spec => []TypeOK
<1>1. IInv => TypeOK
  <2> SUFFICES ASSUME IInv PROVE TypeOK
    OBVIOUS
  <2>1. /\ dialect \in {"openai", "anthropic"} /\ at \in {"client", "ready", "sent", "streaming"}
        /\ at = "sent" => <<dialect, request.family>> \in Served
        /\ at = "streaming" => DOMAIN frags = {i \in DOMAIN arrived : arrived[i] > 0}
        /\ requests \in 0..MaxRequests
    BY DEF IInv, Typed, Asked, Assembling
  <2>2. \A i \in DOMAIN reply.calls : reply.calls[i].id \in 1..calls
    <3>1. /\ reply.calls \in Seq(Calls)
          /\ \A i \in 1..Len(reply.calls) : reply.calls[i].id \in 1..calls
      BY DEF IInv, Typed
    <3>2. DOMAIN reply.calls = 1..Len(reply.calls)
      BY <3>1
    <3> QED
      BY <3>1, <3>2
  <2>3. ASSUME NEW i \in DOMAIN messages
        PROVE  /\ messages[i].form = "list" <=> messages[i].blocks # <<>>
               /\ dialect = "anthropic" => messages[i].calls = <<>> /\ messages[i].id = NoId
    <3>1. messages[i] \in Kept(dialect)
      BY <2>3 DEF IInv, Typed
    <3> DEFINE m == messages[i]
    <3>2. m \in IF dialect = "openai" THEN Receivable ELSE Writable
      BY <3>1 DEF Kept
    <3>3. (m.form = "list" => m.blocks # <<>>) /\ (m.form # "list" => m.blocks = <<>>)
      BY <3>1, <3>2 DEF Kept, Receivable, Writable
    <3>4. dialect = "anthropic" => m.calls = <<>> /\ m.id = NoId
      BY <3>2 DEF Writable
    <3> QED
      BY <3>3, <3>4
  <2> QED
    BY <2>1, <2>2, <2>3 DEF TypeOK
<1> QED
  BY <1>1, IInvHolds, PTL

(* Whole or streamed, in whatever order the fragments come, the client     *)
(* finds the calls that the model made, with their ids, in order.          *)
THEOREM CallsAreDelivered == Spec => []CallsDelivered
<1>1. IInv => CallsDelivered
  BY DEF IInv, Delivered, CallsDelivered
<1> QED
  BY <1>1, IInvHolds, PTL

(* Anthropic never gets two messages of one role in a row, from whichever  *)
(* dialect, with whichever families served.                                *)
THEOREM RolesAlwaysAlternate == Spec => []RolesAlternate
<1>1. IInv => RolesAlternate
  BY DEF IInv, Turns, RolesAlternate, Translated, openai_messages_to_anthropic
<1> QED
  BY <1>1, IInvHolds, PTL

(* A translation never refuses what the gateway has let in, neither its    *)
(* content nor its tool choice.                                            *)
THEOREM TranslationsAccept == Spec => []NeverRefusedLate
<1>1. IInv => NeverRefusedLate
  <2> SUFFICES ASSUME IInv, at = "ready"
               PROVE  ~RaisesToOpenAI(Normalized) /\ ~RaisesToAnthropic(Normalized, request.choice)
    BY DEF NeverRefusedLate
  <2>1. validate_local_content(Normalized, request.choice)
    BY DEF IInv, Asked
  <2>2. DOMAIN StringChoices = _TOOL_CHOICE_STRINGS
    BY DEF StringChoices, _TOOL_CHOICE_STRINGS
  <2> QED
    BY <2>1, <2>2 DEF validate_local_content, RaisesToOpenAI, RaisesToAnthropic
<1> QED
  BY <1>1, IInvHolds, PTL
----------------------------------------------------------------------------
(* What was said, prompts and the rest.                                    *)
LEMMA SaidParts ==
  ASSUME NEW s \in Seq(Items)
  PROVE  /\ Where(s, LAMBDA i : i.kind = "system") = FlatMap(ToPrompt, s)
         /\ Where(s, LAMBDA i : i.kind # "system") = FlatMap(ToTalk, s)
<1>1. DOMAIN s = 1..Len(s) /\ \A i \in 1..Len(s) : s[i] \in Items
  OBVIOUS
<1>2. Where(s, LAMBDA i : i.kind = "system") = FlatMap(ToPrompt, s)
  BY <1>1 DEF Where, Each, FlatMap, MapSeq, ToPrompt
<1>3. Where(s, LAMBDA i : i.kind # "system") = FlatMap(ToTalk, s)
  BY <1>1 DEF Where, Each, FlatMap, MapSeq, ToTalk
<1> QED
  BY <1>2, <1>3

(* HeardBesides follows from the inductive invariant.                      *)
LEMMA HeardThen == IInv => HeardBesides
<1> SUFFICES ASSUME IInv, at = "sent", ~(dialect = "openai" /\ request.family = "openai")
             PROVE  Heard(request.family) =
                      Where(said, LAMBDA i : i.kind = "system") \o
                      Where(said, LAMBDA i : i.kind # "system")
  BY DEF HeardBesides, HeardIsSaid
<1> DEFINE p == FlatMap(ToPrompt, said)
           u == FlatMap(ToTalk, said)
           read == IF request.family = "openai"
                   THEN ReadByOpenAI(Translated(request.family))
                   ELSE ReadByAnthropic(Translated(request.family))
<1>1. /\ messages \in Seq(Messages) /\ Normalized = to_normalized(messages)
      /\ Normalized \in Seq(Receivable) /\ Normalized \in Seq(Kept(dialect))
      /\ said \in Seq(Items) /\ dialect \in {"openai", "anthropic"}
  BY KeptSequences DEF IInv, Typed
<1>2. FlatMap(OfPrompt, messages) = p /\ FlatMap(OfTalk, messages) = u
  <2>1. /\ FlatMap(OfPrompt, messages) = FlatMap(ToPrompt, said)
        /\ FlatMap(OfTalk, messages) \o <<>> = FlatMap(ToTalk, said)
    BY DEF IInv, Faithful
  <2>2. FlatMap(OfTalk, messages) \in Seq(Items)
    BY <1>1, PartsSay, FlatMapType
  <2> QED
    BY <2>1, <2>2, ConcatEmptySeq
<1>3. WordItems("system", SystemPrompt) = p
  <2>1. SystemPrompt = Prompt(messages)
    BY DEF SystemPrompt, Prompt
  <2> QED
    BY <1>1, <1>2, <2>1, PromptSays
<1>4. ConversationSays(Normalized) = u
  BY <1>1, <1>2, TalkSays
<1>5. read = ConversationSays(Normalized)
  <2>1. CASE request.family = "openai"
    <3>1. dialect = "anthropic"
      BY <1>1, <2>1
    <3>2. Normalized \in Seq(Writable)
      <4>1. Kept(dialect) \subseteq Writable
        BY <3>1, KeptTaken
      <4> QED
        BY <1>1, <4>1, SeqMonotonic
    <3>3. ReadByOpenAI(anthropic_messages_to_openai(Normalized)) = ConversationSays(Normalized)
      BY <3>2, OpenAIReadsAll
    <3> QED
      BY <2>1, <3>3 DEF Translated
  <2>2. CASE request.family # "openai"
    <3>1. ReadByAnthropic(openai_messages_to_anthropic(Normalized)) =
            ConversationSays(Normalized)
      BY <1>1, AnthropicReadsAll
    <3> QED
      BY <2>2, <3>1 DEF Translated
  <2> QED
    BY <2>1, <2>2
<1>6. Heard(request.family) = WordItems("system", SystemPrompt) \o read
  BY DEF Heard
<1> HIDE DEF p, u, read
<1>7. Heard(request.family) = p \o u
  BY <1>3, <1>4, <1>5, <1>6
<1>8. /\ Where(said, LAMBDA i : i.kind = "system") = p
      /\ Where(said, LAMBDA i : i.kind # "system") = u
  BY <1>1, SaidParts DEF p, u
<1> QED
  BY <1>7, <1>8

(* Whatever pairs are served, every request but one of OpenAI's dialect to
   OpenAI's family is heard as it was said (ToolLoop, tooltrans.py).       *)
THEOREM OthersHeard == Spec => []HeardBesides
  BY IInvHolds, HeardThen, PTL

(* The pair whose translation does not work is not served.                 *)
NotLooped == <<"openai", "openai">> \notin Served

(* Then every model reads what was said.                                   *)
THEOREM AllHeard ==
  ASSUME NotLooped
  PROVE  Spec => []HeardIsSaid
<1>1. IInv => HeardIsSaid
  <2> SUFFICES ASSUME IInv PROVE HeardIsSaid
    OBVIOUS
  <2>1. at = "sent" => ~(dialect = "openai" /\ request.family = "openai")
    BY NotLooped DEF IInv, Asked, NotLooped
  <2>2. HeardBesides
    BY HeardThen
  <2> QED
    BY <2>1, <2>2 DEF HeardBesides, HeardIsSaid
<1> QED
  BY <1>1, IInvHolds, PTL

(* The choices that the gateway lets in.                                   *)
LEMMA LetIn ==
  ASSUME NEW c \in ToolChoices, NEW ms, validate_local_content(ms, c)
  PROVE  c \in {Choice("str", "auto"), Choice("str", "required"), Choice("str", "none"),
                Choice("openai", "function"), Choice("anthropic", "auto"),
                Choice("anthropic", "any"), Choice("anthropic", "none"),
                Choice("anthropic", "tool")}
<1>1. c # Choice("str", "any")
  BY DEF validate_local_content, Choice, _TOOL_CHOICE_STRINGS
<1> QED
  BY <1>1 DEF ToolChoices

(* What each family is told of them.                                       *)
LEMMA Told ==
  ASSUME NEW c \in {Choice("str", "auto"), Choice("str", "required"), Choice("str", "none"),
                    Choice("openai", "function"), Choice("anthropic", "auto"),
                    Choice("anthropic", "any"), Choice("anthropic", "none"),
                    Choice("anthropic", "tool")}
  PROVE  /\ ChoiceRead(openai_tool_choice_to_anthropic(c)) = ChoiceRead(c)
         /\ \/ ChoiceRead(anthropic_tool_choice_to_openai(c)) = ChoiceRead(c)
            \/ c \in {Choice("anthropic", "none"), Choice("openai", "function")}
<1>1. CASE c = Choice("str", "auto")
  BY <1>1 DEF openai_tool_choice_to_anthropic, anthropic_tool_choice_to_openai,
              StringChoices, Choice, ChoiceRead
<1>2. CASE c = Choice("str", "required")
  BY <1>2 DEF openai_tool_choice_to_anthropic, anthropic_tool_choice_to_openai,
              StringChoices, Choice, ChoiceRead
<1>3. CASE c = Choice("str", "none")
  BY <1>3 DEF openai_tool_choice_to_anthropic, anthropic_tool_choice_to_openai,
              StringChoices, Choice, ChoiceRead
<1>4. CASE c = Choice("openai", "function")
  BY <1>4 DEF openai_tool_choice_to_anthropic, Choice, ChoiceRead
<1>5. CASE c = Choice("anthropic", "auto")
  BY <1>5 DEF openai_tool_choice_to_anthropic, anthropic_tool_choice_to_openai,
              Choice, ChoiceRead
<1>6. CASE c = Choice("anthropic", "any")
  BY <1>6 DEF openai_tool_choice_to_anthropic, anthropic_tool_choice_to_openai,
              Choice, ChoiceRead
<1>7. CASE c = Choice("anthropic", "none")
  BY <1>7 DEF openai_tool_choice_to_anthropic, Choice, ChoiceRead
<1>8. CASE c = Choice("anthropic", "tool")
  BY <1>8 DEF openai_tool_choice_to_anthropic, anthropic_tool_choice_to_openai,
              Choice, ChoiceRead
<1> QED
  BY <1>1, <1>2, <1>3, <1>4, <1>5, <1>6, <1>7, <1>8

(* The model is told the tool choice made, except that OpenAI's family is
   told "auto" for Anthropic's "none" and for a function in OpenAI's form. *)
LEMMA ChoiceGoesAlong == IInv => ChoiceKept
<1> SUFFICES ASSUME IInv, at = "sent"
             PROVE  \/ ChoiceRead(ChoiceTold(request.family, request.choice)) =
                         ChoiceRead(request.choice)
                    \/ /\ request.family = "openai"
                       /\ request.choice \in {Choice("anthropic", "none"),
                                             Choice("openai", "function")}
  BY DEF ChoiceKept
<1>1. request.choice \in ToolChoices /\ validate_local_content(Normalized, request.choice)
  BY DEF IInv, Asked
<1> QED
  BY <1>1, LetIn, Told DEF ChoiceTold

(* Whatever pairs are served, every request that the gateway has let in is
   taken by the provider, alternates for Anthropic, and keeps the tool
   choice but for the two that OpenAI's family is not told (tooltrans.py,
   anthropic_tool_choice_to_openai and openai_tool_choice_to_anthropic).   *)
THEOREM AllUnderstood == Spec => []RequestsUnderstood
<1>1. IInv => ChoiceKept
  BY ChoiceGoesAlong
<1>2. RequestsUnderstood <=> RolesAlternate /\ NeverRefusedLate /\ ChoiceKept
  BY DEF RequestsUnderstood
<1> QED
  BY <1>1, <1>2, IInvHolds, RolesAlwaysAlternate, TranslationsAccept, PTL
==============================================================================
