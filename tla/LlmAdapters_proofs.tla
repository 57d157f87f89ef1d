------------------------- MODULE LlmAdapters_proofs -------------------------
(***************************************************************************)
(* Proofs, for any loads, about what is kept of an answer and what the next*)
(* model reads of it.  Shape has the types.  SoFar says that each adapter  *)
(* holds exactly what was sent up to now, and so hands over the answer as  *)
(* it was meant.  Conversation says that every list of messages and every  *)
(* context OpenAI remembers keeps answers and results together, and Bridge *)
(* that the last request was made of what the prompt has grown from.       *)
(***************************************************************************)
EXTENDS LlmAdapters, Lists_proofs, FiniteSetTheorems

-----------------------------------------------------------------------------
(* Types.                                                                  *)

Args == Seq(Seq(Nat))
Messages(t) ==
    {m \in [role : {"system", "user", "assistant", "tool"}, turn : 0..t, step : 0..load.steps,
            ids : Seq(Id), names : Seq(Nat)] :
        m.role = "assistant" => m.turn # 0 /\ m.step # 0}
Items(t) == [kind : {"system", "user", "assistant", "native", "result"},
             turn : 0..t, step : 0..load.steps, keys : Seq(Id)]
Entries == [at : DOMAIN answer.calls, id : Id, tool : Nat, args : Args]
Calls == [id : Id, tool : Nat, args : Args]
Intents == [calls : Seq(Nat), named : BOOLEAN, sound : BOOLEAN]
Sendings ==
    {s \in [said : Seq(Kind), pieces : Seq(0..load.pieces), reports : 0..load.reports,
            done : SUBSET Nat, whole : SUBSET Nat] : s.whole \subseteq s.done}
Accounts == [text : Seq(Nat), calls : Seq(Entries), current : Args, usage : 0..load.reports]
Hearings == [text : Seq(Nat), reasoning : Seq(Nat), calls : Seq(Calls), usage : 0..load.reports,
             payload : [text : Seq(Nat), calls : Seq(Id)]]

\* The types of the conversation, and those of the answer that is coming in.
TalkType ==
    /\ load \in Loads /\ phase \in Phase
    /\ turn \in 0..load.turns /\ step \in 0..load.steps
    /\ provider \in [1..load.turns -> Provider \cup {"none"}]
    /\ phase # "idle" => turn # 0 /\ step # 0 /\ P \in Provider
    /\ history \in Seq(Messages(turn)) /\ prompt \in Seq(Messages(turn))
    /\ record \in Seq(Messages(turn))
    /\ Len(history) <= load.window
    /\ request \in [items : Seq(Items(turn)), system : BOOLEAN, previous : Id]
    /\ request.previous # Blank =>
          \E t \in 1..turn, s \in 1..load.steps : request.previous = <<t, s>>
    /\ responses \in [1..load.turns -> [1..load.steps -> Seq(Items(turn))]]
AnswerType ==
    /\ answer \in Intents /\ sent \in Sendings /\ acc \in Accounts /\ heard \in Hearings
    /\ phase = "stream" => DOMAIN sent.pieces = DOMAIN answer.calls
Shape == TalkType /\ AnswerType

\* What the assumption says of the load.
LEMMA LoadFields ==
    ASSUME load \in Loads
    PROVE  /\ load.providers \subseteq Provider /\ load.turns \in Nat
           /\ load.steps \in Nat /\ load.steps # 0 /\ load.window \in Nat /\ load.window # 0
           /\ load.summary \subseteq BOOLEAN /\ load.lists \subseteq Seq(Nat)
           /\ load.pieces \in Nat /\ load.pieces # 0 /\ load.reports \in Nat
           /\ load.deltas \in Nat
  BY ConstantsAssumption DEF Load

LEMMA ShapeIsType == Shape => TypeOK
<1> SUFFICES ASSUME Shape PROVE TypeOK
  OBVIOUS
<1> USE DEF Shape, TalkType, AnswerType
<1>1. ASSUME NEW q \in Seq(Messages(turn)), NEW i \in DOMAIN q PROVE MessageType(q[i])
  <2>1. q[i] \in Messages(turn)
    OBVIOUS
  <2> QED BY <2>1 DEF Messages, MessageType
<1>2. ASSUME NEW q \in Seq(Items(turn)), NEW i \in DOMAIN q PROVE ItemType(q[i])
  <2>1. q[i] \in Items(turn)
    OBVIOUS
  <2> QED BY <2>1 DEF Items, ItemType
<1>3. ASSUME NEW i \in DOMAIN acc.calls PROVE EntryType(acc.calls[i])
  <2>1. acc.calls \in Seq(Entries)
    BY DEF Accounts
  <2>2. acc.calls[i] \in Entries
    BY <2>1
  <2> QED BY <2>2 DEF Entries, EntryType, Args
<1>4. ASSUME NEW i \in DOMAIN heard.calls PROVE CallType(heard.calls[i])
  <2>1. heard.calls \in Seq(Calls)
    BY DEF Hearings
  <2>2. heard.calls[i] \in Calls
    BY <2>1
  <2> QED BY <2>2 DEF Calls, CallType, Args
<1>5. \A messages \in {history, prompt, record} :
          \A i \in DOMAIN messages : MessageType(messages[i])
  BY <1>1
<1>6. /\ request.items \in Seq(Items(turn)) /\ request.system \in BOOLEAN
      /\ request.previous \in Id
  OBVIOUS
<1>7. \A t \in 1..load.turns : \A s \in 1..load.steps :
          \A i \in DOMAIN responses[t][s] : ItemType(responses[t][s][i])
  BY <1>2
<1>8. /\ answer.calls \in Seq(Nat) /\ answer.named \in BOOLEAN /\ answer.sound \in BOOLEAN
      /\ sent.said \in Seq(Kind) /\ sent.pieces \in Seq(0..load.pieces)
      /\ sent.reports \in 0..load.reports /\ sent.whole \subseteq sent.done
  BY DEF Intents, Sendings
<1>9. /\ acc.text \in Seq(Nat) /\ acc.current \in Seq(Seq(Nat)) /\ acc.usage \in 0..load.reports
      /\ heard.text \in Seq(Nat) /\ heard.reasoning \in Seq(Nat)
      /\ heard.usage \in 0..load.reports
      /\ heard.payload.text \in Seq(Nat) /\ heard.payload.calls \in Seq(Id)
  BY DEF Accounts, Hearings, Args
<1> HIDE DEF Shape, AnswerType
<1> QED BY <1>2, <1>3, <1>4, <1>5, <1>6, <1>7, <1>8, <1>9 DEF TypeOK, Shape

LEMMA InitShape == Init => Shape
<1> SUFFICES ASSUME Init PROVE Shape
  OBVIOUS
<1>0. load \in Loads
  BY DEF Init
<1>1. TalkType
  BY <1>0, LoadFields DEF Init, TalkType, Phase, NoRequest, Blank, Id
<1>2. AnswerType
  BY <1>0, LoadFields DEF Init, AnswerType, NoAnswer, Unsent, Empty, Nothing, Intents, Sendings,
     Accounts, Hearings, Args
<1> QED BY <1>1, <1>2 DEF Shape

\* A step within a stream touches nothing of the conversation.
LEMMA QuietShape ==
    ASSUME Shape, Quiet, sent' \in Sendings, acc' \in Accounts, heard' \in Hearings,
           DOMAIN sent'.pieces = DOMAIN sent.pieces
    PROVE  Shape'
<1>1. TalkType'
  BY DEF Shape, TalkType, Quiet, talk, stores, Messages, Items, P
<1>2. AnswerType'
  BY DEF Shape, AnswerType, Quiet, Intents, Sendings, Accounts, Hearings, Entries, Calls
<1> QED BY <1>1, <1>2 DEF Shape

\* The fields of what is typed.
LEMMA ShapeFields ==
    ASSUME Shape
    PROVE  /\ sent.said \in Seq(Kind) /\ sent.pieces \in Seq(0..load.pieces)
           /\ sent.reports \in 0..load.reports
           /\ sent.done \subseteq Nat /\ sent.whole \subseteq sent.done
           /\ acc.text \in Seq(Nat) /\ acc.calls \in Seq(Entries) /\ acc.current \in Args
           /\ acc.usage \in 0..load.reports
           /\ answer.calls \in Seq(Nat) /\ answer.named \in BOOLEAN /\ answer.sound \in BOOLEAN
           /\ heard.text \in Seq(Nat) /\ heard.reasoning \in Seq(Nat)
           /\ heard.calls \in Seq(Calls)
           /\ heard.usage \in 0..load.reports
           /\ heard.payload.text \in Seq(Nat) /\ heard.payload.calls \in Seq(Id)
           /\ load.pieces \in Nat /\ load.reports \in Nat /\ load.pieces # 0
           /\ load \in Loads
           /\ load.steps \in Nat /\ load.turns \in Nat
           /\ sent \in Sendings /\ acc \in Accounts /\ heard \in Hearings
           /\ turn \in Nat /\ step \in Nat
<1>1. load \in Loads
  BY DEF Shape, TalkType
<1>2. load.pieces \in Nat /\ load.reports \in Nat /\ load.pieces # 0
      /\ load.steps \in Nat /\ load.turns \in Nat
  BY <1>1, LoadFields
<1>3. turn \in Nat /\ step \in Nat
  BY <1>2 DEF Shape, TalkType
<1>4. answer \in Intents /\ sent \in Sendings /\ acc \in Accounts /\ heard \in Hearings
  BY DEF Shape, AnswerType
<1>5. /\ sent.said \in Seq(Kind) /\ sent.pieces \in Seq(0..load.pieces)
      /\ sent.reports \in 0..load.reports
      /\ sent.done \subseteq Nat /\ sent.whole \subseteq sent.done
      /\ acc.text \in Seq(Nat) /\ acc.calls \in Seq(Entries) /\ acc.current \in Args
      /\ acc.usage \in 0..load.reports
  BY <1>4 DEF Sendings, Accounts
<1>6. /\ answer.calls \in Seq(Nat) /\ answer.named \in BOOLEAN /\ answer.sound \in BOOLEAN
      /\ heard.text \in Seq(Nat) /\ heard.reasoning \in Seq(Nat)
      /\ heard.calls \in Seq(Calls)
      /\ heard.usage \in 0..load.reports
      /\ heard.payload.text \in Seq(Nat) /\ heard.payload.calls \in Seq(Id)
  BY <1>4 DEF Intents, Hearings
<1> QED BY <1>1, <1>2, <1>3, <1>4, <1>5, <1>6

LEMMA AnswerCalls ==
    ASSUME Shape
    PROVE  /\ answer.calls \in Seq(Nat)
           /\ DOMAIN answer.calls = 1..Len(answer.calls) /\ Len(answer.calls) \in Nat
           /\ acc \in Accounts /\ acc.calls \in Seq(Entries) /\ load.pieces # 0
           /\ load.pieces \in Nat
<1>1. answer.calls \in Seq(Nat)
  BY ShapeFields
<1> QED BY <1>1, ShapeFields

LEMMA PlaceIsNat ==
    ASSUME Shape, NEW i \in DOMAIN answer.calls
    PROVE  i \in Nat /\ i # 0
<1>1. answer.calls \in Seq(Nat)
  BY ShapeFields
<1> QED BY <1>1

LEMMA SayType ==
    ASSUME Shape, NEW kind \in Kind, Say(kind)
    PROVE  /\ sent' \in Sendings /\ heard' \in Hearings
           /\ DOMAIN sent'.pieces = DOMAIN sent.pieces
<1>1. /\ sent.said \in Seq(Kind) /\ heard.text \in Seq(Nat) /\ heard.reasoning \in Seq(Nat)
      /\ sent \in Sendings /\ heard \in Hearings
  BY ShapeFields
<1>2. Append(sent.said, kind) \in Seq(Kind) /\ Len(sent.said) + 1 \in Nat
  BY <1>1
<1>3. sent' = [sent EXCEPT !.said = Append(sent.said, kind)]
  BY DEF Say
<1>4. heard' = [heard EXCEPT ![kind] = Append(heard[kind], Len(sent.said) + 1)]
  BY DEF Say
<1>5. sent' \in Sendings /\ DOMAIN sent'.pieces = DOMAIN sent.pieces
  BY <1>1, <1>2, <1>3 DEF Sendings
<1>6. kind \in {"text", "reasoning"}
  BY DEF Kind
<1>7. Append(heard[kind], Len(sent.said) + 1) \in Seq(Nat)
  BY <1>1, <1>2, <1>6
<1>8. heard' \in Hearings
  BY <1>1, <1>4, <1>6, <1>7 DEF Hearings
<1> QED BY <1>5, <1>8

LEMMA CollectType ==
    ASSUME Shape, NEW kind, Collect(kind)
    PROVE  acc' \in Accounts
<1>1. sent.said \in Seq(Kind) /\ acc.text \in Seq(Nat) /\ acc \in Accounts
  BY ShapeFields
<1>2. Append(acc.text, Len(sent.said) + 1) \in Seq(Nat)
  BY <1>1
<1> QED BY <1>1, <1>2 DEF Collect, Accounts

LEMMA ReportType ==
    ASSUME Shape, Report
    PROVE  /\ sent' \in Sendings /\ acc' \in Accounts
           /\ DOMAIN sent'.pieces = DOMAIN sent.pieces
<1>0. /\ sent.reports \in 0..load.reports /\ load.reports \in Nat
      /\ sent \in Sendings /\ acc \in Accounts
  BY ShapeFields
<1>1. sent.reports + 1 \in 0..load.reports /\ sent \in Sendings /\ acc \in Accounts
  BY <1>0 DEF Report
<1> QED BY <1>1 DEF Report, Sendings, Accounts

\* A done event.
LEMMA DoneType ==
    ASSUME Shape, NEW i \in Nat, NEW whole \in BOOLEAN, Done(i, whole)
    PROVE  sent' \in Sendings /\ sent'.pieces = sent.pieces
<1>1. sent \in Sendings /\ sent.done \subseteq Nat /\ sent.whole \subseteq sent.done
  BY ShapeFields
<1>2. /\ sent.done \cup {i} \subseteq Nat
      /\ sent.whole \cup {i} \subseteq sent.done \cup {i}
      /\ sent.whole \subseteq sent.done \cup {i}
  BY <1>1
<1>3. CASE whole
  BY <1>1, <1>2, <1>3 DEF Done, Sendings
<1>4. CASE ~whole
  BY <1>1, <1>2, <1>4 DEF Done, Sendings
<1> QED BY <1>3, <1>4

\* A fragment sent, or the rest of a call.
LEMMA SendType ==
    ASSUME Shape, phase = "stream", NEW i \in DOMAIN answer.calls, ~SentWhole(i),
           SendPiece(i) \/ SendCall(i)
    PROVE  /\ sent' \in Sendings /\ DOMAIN sent'.pieces = DOMAIN sent.pieces
           /\ sent.pieces[i] \in 0..load.pieces
<1>1. /\ sent.pieces \in Seq(0..load.pieces) /\ i \in DOMAIN sent.pieces /\ sent \in Sendings
      /\ load.pieces \in Nat
  BY ShapeFields DEF Shape, AnswerType
<1>2. sent.pieces[i] \in 0..load.pieces /\ sent.pieces[i] # load.pieces
  BY <1>1 DEF SentWhole
<1>3. PICK n \in 0..load.pieces : sent' = [sent EXCEPT !.pieces = [sent.pieces EXCEPT ![i] = n]]
  <2>1. sent.pieces[i] + 1 \in 0..load.pieces /\ load.pieces \in 0..load.pieces
    BY <1>1, <1>2
  <2> QED BY <2>1 DEF SendPiece, SendCall
<1>4. [sent.pieces EXCEPT ![i] = n] \in Seq(0..load.pieces)
  BY <1>1
<1>5. DOMAIN [sent.pieces EXCEPT ![i] = n] = DOMAIN sent.pieces
  OBVIOUS
<1> QED BY <1>1, <1>2, <1>3, <1>4, <1>5 DEF Sendings

\* A call as far as it was sent is typed.
LEMMA EntryIsTyped ==
    ASSUME Shape, NEW i \in DOMAIN answer.calls, NEW args \in Args
    PROVE  Entry(i, args) \in Entries
<1>1. answer.calls \in Seq(Nat) /\ turn \in Nat /\ step \in Nat
  BY ShapeFields
<1>2. i \in Nat /\ answer.calls[i] \in Nat
  BY <1>1
<1>3. Given(i) \in Id
  <2>1. <<turn, step, i>> \in Seq(Nat) /\ <<>> \in Seq(Nat)
    BY <1>1, <1>2
  <2> QED BY <2>1 DEF Given, Id, Blank
<1> QED BY <1>2, <1>3 DEF Entry, Entries

LEMMA PartType ==
    ASSUME NEW i \in Nat, NEW n \in Nat
    PROVE  Part(i, n) \in Seq(Nat)
  BY DEF Part

LEMMA WholeArgsType ==
    ASSUME Shape, NEW i \in Nat
    PROVE  WholeArgs(i) \in Args
<1>1. load.pieces \in Nat
  BY ShapeFields
<1>2. \A n \in 1..load.pieces : Part(i, n) \in Seq(Nat)
  BY PartType
<1> QED BY <1>1, <1>2 DEF WholeArgs, Args

\* A request, and what a model reads, are lists of items.
LEMMA ItemForType ==
    ASSUME Shape, NEW p, NEW m \in Messages(turn)
    PROVE  ItemFor(p, m) \in Items(turn)
<1>1. /\ m.role \in {"system", "user", "assistant", "tool"}
      /\ m.turn \in 0..turn /\ m.step \in 0..load.steps /\ m.ids \in Seq(Id)
      /\ m.names \in Seq(Nat)
  BY DEF Messages
<1>2. KeysFor(p, m) \in Seq(Id)
  <2>1. \A i \in DOMAIN m.names : <<m.names[i]>> \in Id
    BY <1>1 DEF Id
  <2>2. DOMAIN m.names = 1..Len(m.names) /\ Len(m.names) \in Nat
    BY <1>1
  <2>3. [i \in DOMAIN m.names |-> <<m.names[i]>>] \in Seq(Id)
    BY <2>1, <2>2
  <2> QED BY <1>1, <2>3 DEF KeysFor
<1>3. <<>> \in Seq(Id)
  OBVIOUS
<1>4. CASE Own(p, m)
  BY <1>1, <1>2, <1>4 DEF ItemFor, Item, Items
<1>5. CASE ~Own(p, m) /\ m.role = "tool"
  BY <1>1, <1>2, <1>5 DEF ItemFor, Item, Items
<1>6. CASE ~Own(p, m) /\ m.role # "tool"
  BY <1>1, <1>3, <1>6 DEF ItemFor, Item, Items
<1> QED BY <1>4, <1>5, <1>6

LEMMA FormattedType ==
    ASSUME Shape, NEW p, NEW q \in Seq(Messages(turn))
    PROVE  Formatted(p, q) \in Seq(Items(turn))
<1> DEFINE shown == At(q, {i \in DOMAIN q : p \in Asides => q[i].role # "system"})
<1>1. shown \in Seq(Messages(turn))
  BY AtElements
<1>2. Formatted(p, q) = [i \in DOMAIN shown |-> ItemFor(p, shown[i])]
  BY DEF Formatted
<1> HIDE DEF shown
<1>3. DOMAIN shown = 1..Len(shown) /\ Len(shown) \in Nat
  BY <1>1
<1>4. \A i \in 1..Len(shown) : ItemFor(p, shown[i]) \in Items(turn)
  BY <1>1, <1>3, ItemForType
<1> QED BY <1>2, <1>3, <1>4

LEMMA ContextType == Shape => Context \in Seq(Items(turn))
<1> SUFFICES ASSUME Shape PROVE Context \in Seq(Items(turn))
  OBVIOUS
<1>1. request.items \in Seq(Items(turn))
  BY DEF Shape, TalkType
<1>2. Remembered(request.previous) \in Seq(Items(turn))
  <2>1. CASE request.previous = Blank
    BY <2>1 DEF Remembered
  <2>2. CASE request.previous # Blank
    <3>1. PICK t \in 1..turn, s \in 1..load.steps : request.previous = <<t, s>>
      BY <2>2 DEF Shape, TalkType
    <3>2. /\ t \in 1..load.turns
          /\ responses \in [1..load.turns -> [1..load.steps -> Seq(Items(turn))]]
      <4>1. turn \in 0..load.turns /\ load.turns \in Nat
        BY ShapeFields DEF Shape, TalkType
      <4> QED BY <4>1 DEF Shape, TalkType
    <3>3. responses[t][s] \in Seq(Items(turn))
      BY <3>2
    <3>4. request.previous[1] = t /\ request.previous[2] = s
      BY <3>1
    <3>5. Remembered(request.previous) = responses[t][s]
      BY <2>2, <3>4 DEF Remembered
    <3> QED BY <3>3, <3>5
  <2> QED BY <2>1, <2>2
<1> QED BY <1>1, <1>2 DEF Context

LEMMA AssistantType ==
    ASSUME Shape, phase # "idle", NEW ids \in Seq(Id), NEW calls,
           calls \in Seq(Calls) \/ calls \in Seq(Entries)
    PROVE  Assistant(ids, calls) \in Messages(turn)
<1>1. turn \in 0..turn /\ step \in 0..load.steps /\ turn # 0 /\ step # 0
  BY ShapeFields DEF Shape, TalkType
<1>2. [i \in DOMAIN calls |-> calls[i].tool] \in Seq(Nat)
  <2>1. DOMAIN calls = 1..Len(calls) /\ Len(calls) \in Nat
    OBVIOUS
  <2>2. ASSUME NEW i \in DOMAIN calls PROVE calls[i].tool \in Nat
    <3>1. calls[i] \in Calls \/ calls[i] \in Entries
      OBVIOUS
    <3> QED BY <3>1 DEF Calls, Entries
  <2> QED BY <2>1, <2>2
<1> QED BY <1>1, <1>2 DEF Assistant, Message, Messages

\* The events at the end of a stream.
LEMMA HandOverShape ==
    ASSUME Shape, phase = "stream", NEW entries \in Seq(Entries), NEW text \in Seq(Nat),
           NEW usage \in 0..load.reports, HandOver(entries, text, usage),
           sent' \in Sendings,
           responses' \in [1..load.turns -> [1..load.steps -> Seq(Items(turn))]]
    PROVE  Shape'
<1>1. /\ heard \in Hearings /\ answer.calls \in Seq(Nat) /\ turn \in Nat /\ step \in Nat
      /\ load.pieces \in Nat
  BY ShapeFields
<1>2. DOMAIN entries = 1..Len(entries) /\ Len(entries) \in Nat
  OBVIOUS
<1>3. ASSUME NEW i \in DOMAIN entries
      PROVE  ToolCall(entries[i]) \in Calls /\ entries[i].id \in Id
  <2> DEFINE e == entries[i]
  <2>1. e \in Entries
    OBVIOUS
  <2> HIDE DEF e
  <2>2. e.at \in Nat /\ e.id \in Id /\ e.tool \in Nat /\ e.args \in Args
    BY <1>1, <2>1 DEF Entries
  <2>3. JsonObject(e) \in Args
    BY <2>2 DEF JsonObject, Args
  <2>4. <<turn, step, e.at, 0>> \in Id
    BY <1>1, <2>2 DEF Id
  <2>5. ToolCall(e) \in Calls
    BY <2>2, <2>3, <2>4 DEF ToolCall, Calls
  <2> QED BY <2>2, <2>5 DEF e
<1>4. /\ [i \in DOMAIN entries |-> ToolCall(entries[i])] \in Seq(Calls)
      /\ [i \in DOMAIN entries |-> entries[i].id] \in Seq(Id)
  BY <1>2, <1>3
<1>5. heard' \in Hearings
  BY <1>1, <1>4 DEF HandOver, Hearings
<1>6. TalkType'
  BY DEF Shape, TalkType, HandOver, talk, Messages, Items, P, Phase
<1>7. AnswerType'
  BY <1>5 DEF Shape, AnswerType, HandOver, Intents, Sendings, Accounts, Hearings, Entries, Calls
<1> QED BY <1>6, <1>7 DEF Shape

\* The calls by the index of their fragments.
LEMMA ByIndexType ==
    ASSUME Shape, NEW entries \in Seq(Entries)
    PROVE  ByIndex(entries) \in Seq(Entries)
<1> DEFINE I == {e.at : e \in ToSet(entries)}
           places == InOrder(I, Len(answer.calls))
<1>1. Len(answer.calls) \in Nat
  BY ShapeFields
<1>2. places \in Seq(I \cap 1..Len(answer.calls))
  BY <1>1, InOrderLists
<1>3. ASSUME NEW k \in DOMAIN places
      PROVE  (CHOOSE e \in ToSet(entries) : e.at = places[k]) \in Entries
  <2>1. places[k] \in I
    <3> HIDE DEF places, I
    <3> QED BY <1>2
  <2>2. \E e \in ToSet(entries) : e.at = places[k]
    BY <2>1
  <2>3. ToSet(entries) \subseteq Entries
    BY DEF ToSet
  <2> HIDE DEF places, I
  <2> QED BY <2>2, <2>3
<1>4. ByIndex(entries) = [k \in DOMAIN places |-> CHOOSE e \in ToSet(entries) : e.at = places[k]]
  BY DEF ByIndex
<1> HIDE DEF places
<1>5. DOMAIN places = 1..Len(places) /\ Len(places) \in Nat
  BY <1>2
<1> QED BY <1>3, <1>4, <1>5

\* The steps of the five streams.
LEMMA LiteLLMShape == Shape /\ LiteLLM => Shape'
<1> SUFFICES ASSUME Shape, LiteLLM PROVE Shape'
  OBVIOUS
<1>1. CASE \E kind \in Kind : LiteLLMDelta(kind)
  BY <1>1, QuietShape, SayType, CollectType DEF LiteLLMDelta
<1>2. ASSUME NEW i \in DOMAIN answer.calls, LiteLLMFragment(i) PROVE Shape'
  <2> DEFINE part == Part(i, sent.pieces[i] + 1)
  <2>1. phase = "stream" /\ ~SentWhole(i) /\ SendPiece(i) /\ Quiet /\ heard' = heard
    BY <1>2 DEF LiteLLMFragment, Streaming
  <2>2. /\ sent' \in Sendings /\ DOMAIN sent'.pieces = DOMAIN sent.pieces
        /\ sent.pieces[i] \in 0..load.pieces
    BY <2>1, SendType
  <2>3. /\ acc \in Accounts /\ acc.calls \in Seq(Entries) /\ i \in Nat /\ heard \in Hearings
        /\ load.pieces \in Nat
    BY ShapeFields, PlaceIsNat
  <2>4. part \in Seq(Nat)
    <3>1. sent.pieces[i] + 1 \in Nat
      BY <2>2, <2>3
    <3> QED BY <2>3, <3>1, PartType
  <2> HIDE DEF part
  <2>5. <<part>> \in Args
    BY <2>4 DEF Args
  <2>6. Entry(i, <<part>>) \in Entries
    BY <2>5, EntryIsTyped
  <2>7. Append(acc.calls, Entry(i, <<part>>)) \in Seq(Entries)
    BY <2>3, <2>6
  <2> DEFINE longer == [k \in DOMAIN acc.calls |->
                           IF acc.calls[k].at # i THEN acc.calls[k]
                           ELSE Longer(acc.calls[k], part)]
  <2>8. longer \in Seq(Entries)
    <3>1. ASSUME NEW e \in Entries
          PROVE  Longer(e, part) \in Entries
      <4>1. e.args \in Args
        BY DEF Entries
      <4>2. Append(e.args, part) \in Args
        BY <4>1, <2>4 DEF Args
      <4> QED BY <4>2 DEF Entries, Longer
    <3>2. DOMAIN acc.calls = 1..Len(acc.calls) /\ Len(acc.calls) \in Nat
      BY <2>3
    <3>3. \A k \in 1..Len(acc.calls) :
              (IF acc.calls[k].at # i THEN acc.calls[k]
               ELSE Longer(acc.calls[k], part)) \in Entries
      BY <2>3, <3>1, <3>2
    <3> QED BY <3>2, <3>3
  <2>9. acc' = [acc EXCEPT !.calls = IF sent.pieces[i] = 0
                                     THEN Append(acc.calls, Entry(i, <<part>>)) ELSE longer]
    BY <1>2 DEF LiteLLMFragment, part
  <2> HIDE DEF longer
  <2>10. acc' \in Accounts
    BY <2>3, <2>7, <2>8, <2>9 DEF Accounts
  <2> QED BY <2>1, <2>2, <2>3, <2>10, QuietShape
<1>3. CASE LiteLLMReport
  BY <1>3, QuietShape, ReportType, ShapeFields DEF LiteLLMReport
<1>4. CASE LiteLLMEnd
  <2>1. /\ phase = "stream" /\ HandOver(ByIndex(acc.calls), acc.text, acc.usage)
        /\ sent' = sent /\ responses' = responses
    BY <1>4 DEF LiteLLMEnd, Streaming
  <2>2. /\ ByIndex(acc.calls) \in Seq(Entries) /\ acc.text \in Seq(Nat)
        /\ acc.usage \in 0..load.reports /\ sent \in Sendings
    BY ByIndexType, ShapeFields
  <2>3. responses \in [1..load.turns -> [1..load.steps -> Seq(Items(turn))]]
    BY DEF Shape, TalkType
  <2> QED BY <2>1, <2>2, <2>3, HandOverShape
<1> QED BY <1>1, <1>2, <1>3, <1>4 DEF LiteLLM

LEMMA OpenAIShape == Shape /\ OpenAI => Shape'
<1> SUFFICES ASSUME Shape, OpenAI PROVE Shape'
  OBVIOUS
<1>0. /\ sent \in Sendings /\ acc \in Accounts /\ heard \in Hearings
      /\ acc.text \in Seq(Nat) /\ acc.calls \in Seq(Entries) /\ acc.current \in Args
      /\ heard.text \in Seq(Nat) /\ answer.calls \in Seq(Nat) /\ load.reports \in Nat
  BY ShapeFields
<1>1. CASE \E kind \in Kind : OpenAIDelta(kind)
  BY <1>0, <1>1, QuietShape, SayType DEF OpenAIDelta
<1>2. ASSUME NEW whole \in BOOLEAN, OpenAIMessageDone(whole) PROVE Shape'
  <2>1. /\ Quiet /\ Done(0, whole) /\ heard' = heard
        /\ acc' = [acc EXCEPT !.text = IF whole THEN heard.text ELSE <<>>]
    BY <1>2 DEF OpenAIMessageDone
  <2> DEFINE text == IF whole THEN heard.text ELSE <<>>
  <2>2. text \in Seq(Nat)
    BY <1>0
  <2> HIDE DEF text
  <2>3. acc' \in Accounts
    BY <1>0, <2>1, <2>2 DEF Accounts, text
  <2>4. sent' \in Sendings /\ DOMAIN sent'.pieces = DOMAIN sent.pieces
    BY <2>1, DoneType
  <2> QED BY <1>0, <2>1, <2>3, <2>4, QuietShape
<1>3. ASSUME NEW i \in DOMAIN answer.calls, OpenAIArguments(i) PROVE Shape'
  <2>1. /\ phase = "stream" /\ ~SentWhole(i) /\ SendPiece(i) /\ Quiet /\ heard' = heard
        /\ acc' = [acc EXCEPT !.current = Append(acc.current, Part(i, sent.pieces[i] + 1))]
    BY <1>3 DEF OpenAIArguments, NextCall, Streaming
  <2>2. /\ sent' \in Sendings /\ DOMAIN sent'.pieces = DOMAIN sent.pieces
        /\ sent.pieces[i] \in 0..load.pieces
    BY <2>1, SendType
  <2>3. Part(i, sent.pieces[i] + 1) \in Seq(Nat)
    <3>1. load.pieces \in Nat /\ i \in Nat
      BY ShapeFields, PlaceIsNat
    <3>2. sent.pieces[i] + 1 \in Nat
      BY <2>2, <3>1
    <3> QED BY <3>1, <3>2, PartType
  <2>4. Append(acc.current, Part(i, sent.pieces[i] + 1)) \in Args
    BY <1>0, <2>3 DEF Args
  <2>5. acc' \in Accounts
    BY <1>0, <2>1, <2>4 DEF Accounts
  <2> QED BY <1>0, <2>1, <2>2, <2>5, QuietShape
<1>4. ASSUME NEW i \in DOMAIN answer.calls, NEW whole \in BOOLEAN, OpenAICallDone(i, whole)
      PROVE  Shape'
  <2> DEFINE args == IF whole THEN WholeArgs(i) ELSE acc.current
  <2>1. args \in Args
    BY <1>0, WholeArgsType
  <2>2. Quiet /\ Done(i, whole) /\ heard' = heard
        /\ acc' = [acc EXCEPT !.calls = Append(acc.calls, Entry(i, args)), !.current = <<>>]
    BY <1>4 DEF OpenAICallDone
  <2>5. sent' \in Sendings /\ DOMAIN sent'.pieces = DOMAIN sent.pieces
    BY <2>2, DoneType, PlaceIsNat
  <2> HIDE DEF args
  <2>3. Append(acc.calls, Entry(i, args)) \in Seq(Entries) /\ <<>> \in Args
    BY <1>0, <2>1, EntryIsTyped DEF Args
  <2>4. acc' \in Accounts
    BY <1>0, <2>2, <2>3 DEF Accounts
  <2> QED BY <1>0, <2>2, <2>4, <2>5, QuietShape
<1>5. ASSUME NEW reports \in 0..load.reports, OpenAIEnd(reports) PROVE Shape'
  <2> DEFINE ids == [i \in DOMAIN acc.calls |-> acc.calls[i].id]
             said == ItemFor("openai", Assistant(ids, acc.calls))
  <2>1. /\ phase = "stream" /\ HandOver(acc.calls, acc.text, reports)
        /\ sent' = [sent EXCEPT !.reports = reports]
        /\ responses' = [responses EXCEPT ![turn][step] = Append(Context, said)]
    BY <1>5 DEF OpenAIEnd, Streaming
  <2>2. sent' \in Sendings
    BY <1>0, <2>1 DEF Sendings
  <2>3. ids \in Seq(Id)
    <3>1. DOMAIN acc.calls = 1..Len(acc.calls) /\ Len(acc.calls) \in Nat
      BY <1>0
    <3>2. ASSUME NEW i \in DOMAIN acc.calls PROVE acc.calls[i].id \in Id
      <4>1. acc.calls[i] \in Entries
        BY <1>0
      <4> QED BY <4>1 DEF Entries
    <3> QED BY <3>1, <3>2
  <2>4. said \in Items(turn)
    <3> HIDE DEF ids
    <3> QED BY <1>0, <2>1, <2>3, AssistantType, ItemForType
  <2> HIDE DEF said
  <2>5. Append(Context, said) \in Seq(Items(turn))
    BY <2>4, ContextType
  <2>6. responses' \in [1..load.turns -> [1..load.steps -> Seq(Items(turn))]]
    BY <2>1, <2>5 DEF Shape, TalkType
  <2> QED BY <1>0, <2>1, <2>2, <2>6, HandOverShape
<1> QED BY <1>1, <1>2, <1>3, <1>4, <1>5 DEF OpenAI, Either

LEMMA AnthropicShape == Shape /\ Anthropic => Shape'
<1> SUFFICES ASSUME Shape, Anthropic PROVE Shape'
  OBVIOUS
<1>0. /\ sent \in Sendings /\ acc \in Accounts /\ heard \in Hearings
      /\ heard.text \in Seq(Nat) /\ answer.calls \in Seq(Nat) /\ load.reports \in Nat
      /\ sent.pieces \in Seq(0..load.pieces)
  BY ShapeFields
<1>1. CASE \E kind \in Kind : AnthropicDelta(kind)
  BY <1>0, <1>1, QuietShape, SayType DEF AnthropicDelta
<1>2. ASSUME NEW i \in DOMAIN answer.calls, AnthropicBlock(i) PROVE Shape'
  BY <1>0, <1>2, SendType, QuietShape DEF AnthropicBlock, Streaming, NextCall
<1>3. ASSUME NEW reports \in 0..load.reports, AnthropicEnd(reports) PROVE Shape'
  <2> DEFINE whole == {j \in DOMAIN answer.calls : SentWhole(j)}
             entries == [i \in 1..Cardinality(whole) |-> Entry(i, WholeArgs(i))]
  <2>1. /\ phase = "stream" /\ HandOver(entries, heard.text, reports)
        /\ sent' = [sent EXCEPT !.reports = reports] /\ responses' = responses
    BY <1>3 DEF AnthropicEnd, Streaming
  <2>2. sent' \in Sendings
    BY <1>0, <2>1 DEF Sendings
  <2>3. Cardinality(whole) \in Nat /\ Cardinality(whole) <= Len(answer.calls)
    <3>1. /\ DOMAIN answer.calls = 1..Len(answer.calls) /\ Len(answer.calls) \in Nat
          /\ Len(answer.calls) \in Int /\ 1 \in Int
      BY <1>0
    <3>2. IsFiniteSet(1..Len(answer.calls)) /\ Cardinality(1..Len(answer.calls)) = Len(answer.calls)
      BY <3>1, FS_Interval
    <3>3. whole \subseteq 1..Len(answer.calls)
      BY <3>1
    <3>4. IsFiniteSet(whole) /\ Cardinality(whole) <= Len(answer.calls)
      BY <3>2, <3>3, FS_Subset
    <3> QED BY <3>4, FS_CardinalityType
  <2> HIDE DEF whole
  <2>4. \A i \in 1..Cardinality(whole) : i \in DOMAIN answer.calls /\ i \in Nat
    BY <1>0, <2>3
  <2>5. \A i \in 1..Cardinality(whole) : Entry(i, WholeArgs(i)) \in Entries
    BY <2>4, WholeArgsType, EntryIsTyped
  <2>6. entries \in Seq(Entries)
    BY <2>3, <2>5
  <2>7. responses \in [1..load.turns -> [1..load.steps -> Seq(Items(turn))]]
    BY DEF Shape, TalkType
  <2> HIDE DEF entries
  <2> QED BY <1>0, <2>1, <2>2, <2>6, <2>7, HandOverShape
<1> QED BY <1>1, <1>2, <1>3 DEF Anthropic

\* A call sent as a whole.
LEMMA WholeCallShape ==
    ASSUME Shape, phase = "stream", NEW i \in DOMAIN answer.calls, WholeCall(i)
    PROVE  Shape'
<1>1. /\ ~SentWhole(i) /\ SendCall(i) /\ Quiet /\ heard' = heard
      /\ acc' = [acc EXCEPT !.calls = Append(acc.calls, Entry(i, WholeArgs(i)))]
  BY DEF WholeCall, NextCall
<1>2. acc \in Accounts /\ acc.calls \in Seq(Entries) /\ heard \in Hearings /\ i \in Nat
  BY ShapeFields, PlaceIsNat
<1>3. Entry(i, WholeArgs(i)) \in Entries
  BY <1>2, WholeArgsType, EntryIsTyped
<1>4. Append(acc.calls, Entry(i, WholeArgs(i))) \in Seq(Entries)
  BY <1>2, <1>3
<1>5. acc' \in Accounts
  BY <1>1, <1>2, <1>4 DEF Accounts
<1> QED BY <1>1, <1>2, <1>5, SendType, QuietShape

LEMMA WholeEndShape ==
    ASSUME Shape, phase = "stream", HandOver(acc.calls, acc.text, acc.usage),
           sent' = sent, responses' = responses
    PROVE  Shape'
<1>1. /\ acc.calls \in Seq(Entries) /\ acc.text \in Seq(Nat)
      /\ acc.usage \in 0..load.reports /\ sent \in Sendings
  BY ShapeFields
<1>2. responses \in [1..load.turns -> [1..load.steps -> Seq(Items(turn))]]
  BY DEF Shape, TalkType
<1> QED BY <1>1, <1>2, HandOverShape

LEMMA GeminiShape == Shape /\ Gemini => Shape'
<1> SUFFICES ASSUME Shape, Gemini PROVE Shape'
  OBVIOUS
<1>1. CASE \E kind \in Kind : GeminiDelta(kind)
  BY <1>1, QuietShape, SayType, CollectType DEF GeminiDelta
<1>2. CASE \E i \in DOMAIN answer.calls : GeminiCall(i)
  BY <1>2, WholeCallShape DEF GeminiCall, Streaming
<1>3. CASE GeminiReport
  BY <1>3, QuietShape, ReportType, ShapeFields DEF GeminiReport
<1>4. CASE GeminiEnd
  BY <1>4, WholeEndShape DEF GeminiEnd, Streaming
<1> QED BY <1>1, <1>2, <1>3, <1>4 DEF Gemini

LEMMA QwenShape == Shape /\ Qwen => Shape'
<1> SUFFICES ASSUME Shape, Qwen PROVE Shape'
  OBVIOUS
<1>1. CASE \E kind \in Kind : QwenDelta(kind)
  BY <1>1, QuietShape, SayType, CollectType DEF QwenDelta
<1>2. CASE \E i \in DOMAIN answer.calls : QwenCall(i)
  BY <1>2, WholeCallShape DEF QwenCall, Streaming
<1>3. CASE QwenReport
  BY <1>3, QuietShape, ReportType, ShapeFields DEF QwenReport
<1>4. CASE QwenEnd
  BY <1>4, WholeEndShape DEF QwenEnd, Streaming
<1> QED BY <1>1, <1>2, <1>3, <1>4 DEF Qwen

\* Later turns allow what earlier ones did.
LEMMA MessagesGrow ==
    ASSUME turn \in Nat
    PROVE  /\ \A q \in Seq(Messages(turn)) : q \in Seq(Messages(turn + 1))
           /\ \A q \in Seq(Items(turn)) : q \in Seq(Items(turn + 1))
<1>1. Messages(turn) \subseteq Messages(turn + 1)
  BY DEF Messages
<1>2. Items(turn) \subseteq Items(turn + 1)
  BY DEF Items
<1> QED BY <1>1, <1>2

\* LTRIM keeps the last messages.
Dropped(q, n) == IF Len(q) <= n THEN 0 ELSE Len(q) - n
LEMMA NewestIs ==
    ASSUME NEW T, NEW q \in Seq(T), NEW n \in Nat
    PROVE  /\ Dropped(q, n) \in 0..Len(q) /\ Len(q) \in Nat
           /\ Newest(q, n) \in Seq(T)
           /\ Len(Newest(q, n)) = Len(q) - Dropped(q, n) /\ Len(q) - Dropped(q, n) <= n
           /\ \A i \in 1..(Len(q) - Dropped(q, n)) : Newest(q, n)[i] = q[Dropped(q, n) + i]
<1> DEFINE d == Dropped(q, n)
<1>1. CASE Len(q) <= n
  <2>1. Newest(q, n) = q /\ d = 0 /\ Len(q) \in Nat
    BY <1>1 DEF Newest, Dropped
  <2>2. \A i \in 1..(Len(q) - 0) : q[i] = q[0 + i]
    OBVIOUS
  <2> QED BY <1>1, <2>1, <2>2
<1>2. CASE ~(Len(q) <= n)
  <2>1. d \in 0..Len(q) /\ Len(q) - d = n /\ n <= n /\ Len(q) \in Nat /\ d + 1 \in Int
    BY <1>2 DEF Dropped
  <2>2. Newest(q, n) = SubSeq(q, d + 1, Len(q))
    BY <1>2 DEF Newest, Dropped
  <2>3. \A i \in (d + 1)..Len(q) : q[i] \in T
    BY <2>1
  <2> HIDE DEF d
  <2>4. /\ SubSeq(q, d + 1, Len(q)) \in Seq(T)
        /\ Len(SubSeq(q, d + 1, Len(q))) = Len(q) - d
        /\ \A i \in 1..(Len(q) - d) : SubSeq(q, d + 1, Len(q))[i] = q[d + i]
    BY <2>1, <2>3
  <2>5. /\ d \in 0..Len(q) /\ Len(q) \in Nat
        /\ Newest(q, n) \in Seq(T)
        /\ Len(Newest(q, n)) = Len(q) - d /\ Len(q) - d <= n
        /\ \A i \in 1..(Len(q) - d) : Newest(q, n)[i] = q[d + i]
    BY <2>1, <2>2, <2>4
  <2> QED BY <2>5 DEF d
<1> QED BY <1>1, <1>2

\* The last answer of a provider among the messages, or none.
LEMMA LastOwnIs ==
    ASSUME NEW T, NEW q \in Seq(T), NEW p
    PROVE  \/ LastOwn(p, q) = 0 /\ \A i \in 1..Len(q) : ~Own(p, q[i])
           \/ /\ LastOwn(p, q) \in 1..Len(q) /\ Own(p, q[LastOwn(p, q)])
              /\ \A i \in 1..Len(q) : i > LastOwn(p, q) => ~Own(p, q[i])
<1> DEFINE I == {i \in 1..Len(q) : Own(p, q[i])}
<1>1. LastOwn(p, q) = IF I = {} THEN 0 ELSE Max(I)
  BY DEF LastOwn, SelectLastInSeq
<1>2. CASE I = {}
  BY <1>1, <1>2
<1>3. CASE I # {}
  <2>1. \E x \in I : \A y \in I : x >= y
    <3> DEFINE J == {Len(q) - i : i \in I}
    <3>1. J \in SUBSET Nat /\ J # {}
      BY <1>3
    <3>2. PICK z \in J : \A y \in J : z <= y
      BY <3>1, Least
    <3>3. PICK x \in I : z = Len(q) - x
      BY <3>2
    <3>4. ASSUME NEW y \in I PROVE x >= y
      <4>1. Len(q) - y \in J /\ x \in Nat /\ y \in Nat /\ Len(q) \in Nat
        OBVIOUS
      <4>2. Len(q) - x <= Len(q) - y
        BY <3>2, <3>3, <4>1
      <4> QED BY <4>1, <4>2
    <3> QED BY <3>4
  <2>2. Max(I) \in I /\ \A y \in I : Max(I) >= y
    BY <2>1 DEF Max
  <2>3. LastOwn(p, q) \in I /\ \A y \in I : LastOwn(p, q) >= y
    <3> HIDE DEF I
    <3> QED BY <1>1, <1>3, <2>2
  <2>4. ASSUME NEW i \in 1..Len(q), i > LastOwn(p, q) PROVE ~Own(p, q[i])
    <3>1. LastOwn(p, q) \in Nat /\ i \in Nat
      BY <2>3
    <3>2. i \notin I
      BY <2>3, <2>4, <3>1
    <3> QED BY <3>2
  <2> QED BY <2>3, <2>4
<1> QED BY <1>2, <1>3

LEMMA OutputsType ==
    ASSUME Shape, NEW q \in Seq(Messages(turn))
    PROVE  Outputs(q) \in Seq(Messages(turn))
  BY AtElements DEF Outputs

LEMMA RequestType ==
    ASSUME Shape, NEW q \in Seq(Messages(turn)), NEW r,
           r = WholeRequest(P, q) \/ r = OpenAIRequest(q)
    PROVE  /\ r \in [items : Seq(Items(turn)), system : BOOLEAN, previous : Id]
           /\ r.previous # Blank =>
                 \E t \in 1..turn, s \in 1..load.steps : r.previous = <<t, s>>
<1>1. Blank \in Id /\ turn \in Nat /\ load.steps \in Nat
  BY ShapeFields DEF Blank, Id
<1>2. ASSUME NEW p, r = WholeRequest(p, q)
      PROVE  /\ r \in [items : Seq(Items(turn)), system : BOOLEAN, previous : Id]
             /\ r.previous = Blank
  BY <1>1, <1>2, FormattedType DEF WholeRequest
<1>3. CASE r = OpenAIRequest(q) /\ Outputs(q) # <<>>
  <2> DEFINE l == LastOwn("openai", q)
  <2>1. r = [items |-> Formatted("openai", Outputs(q)), system |-> TRUE,
             previous |-> LastResponse(q)]
    BY <1>3 DEF OpenAIRequest
  <2>2. Formatted("openai", Outputs(q)) \in Seq(Items(turn))
    BY OutputsType, FormattedType
  <2>3. l \in 1..Len(q) /\ Own("openai", q[l])
    BY <1>3, LastOwnIs DEF Outputs
  <2> HIDE DEF l
  <2>4. q[l] \in Messages(turn) /\ q[l].role = "assistant"
    BY <2>3 DEF Own
  <2>5. q[l].turn \in 1..turn /\ q[l].step \in 1..load.steps
    BY <1>1, <2>4 DEF Messages
  <2>6. LastResponse(q) = <<q[l].turn, q[l].step>>
    BY DEF LastResponse, l
  <2>7. LastResponse(q) \in Id
    <3>1. q[l].turn \in Nat /\ q[l].step \in Nat
      BY <1>1, <2>5
    <3> QED BY <2>6, <3>1 DEF Id
  <2> QED BY <2>1, <2>2, <2>5, <2>6, <2>7
<1> QED BY <1>2, <1>3 DEF OpenAIRequest

\* The fields of a message.
LEMMA MessageTyped ==
    ASSUME Shape, phase # "idle", NEW ids \in Seq(Id), NEW names \in Seq(Nat)
    PROVE  Message("tool", turn, step, ids, names) \in Messages(turn)
<1>1. turn \in 0..turn /\ step \in 0..load.steps
  BY ShapeFields DEF Shape, TalkType
<1> QED BY <1>1 DEF Message, Messages

LEMMA StepMessagesType ==
    ASSUME Shape, phase # "idle"
    PROVE  Said \in Messages(turn) /\ Results \in Seq(Messages(turn))
           /\ <<Said>> \in Seq(Messages(turn)) /\ StepMessages \in Seq(Messages(turn))
<1>1. heard.calls \in Seq(Calls) /\ heard.payload.calls \in Seq(Id)
  BY ShapeFields
<1>2. Said \in Messages(turn)
  BY <1>1, AssistantType DEF Said
<1>3. DOMAIN heard.calls = 1..Len(heard.calls) /\ Len(heard.calls) \in Nat
  BY <1>1
<1>4. ASSUME NEW i \in DOMAIN heard.calls
      PROVE  Message("tool", turn, step, <<heard.calls[i].id>>, <<heard.calls[i].tool>>)
                 \in Messages(turn)
  <2>1. heard.calls[i] \in Calls
    BY <1>1
  <2>2. heard.calls[i].id \in Id /\ heard.calls[i].tool \in Nat
    BY <2>1 DEF Calls
  <2>3. <<heard.calls[i].id>> \in Seq(Id) /\ <<heard.calls[i].tool>> \in Seq(Nat)
    BY <2>2
  <2> QED BY <2>3, MessageTyped
<1>5. Results \in Seq(Messages(turn))
  BY <1>3, <1>4 DEF Results
<1>6. <<Said>> \in Seq(Messages(turn))
  BY <1>2
<1> QED BY <1>2, <1>5, <1>6 DEF StepMessages

\* The end of a turn leaves nothing but what it keeps.
LEMMA EndTurnShape ==
    ASSUME Shape, EndTurn,
           history' \in Seq(Messages(turn)), Len(history') <= load.window,
           responses' = responses
    PROVE  Shape'
<1>1. load.reports \in Nat /\ load.pieces \in Nat
  BY ShapeFields
<1>2. /\ NoRequest \in [items : Seq(Items(turn)), system : BOOLEAN, previous : Id]
      /\ NoRequest.previous = Blank /\ <<>> \in Seq(Messages(turn))
  BY DEF NoRequest, Blank, Id
<1>3. /\ phase' = "idle" /\ prompt' = <<>> /\ record' = <<>> /\ request' = NoRequest
      /\ UNCHANGED <<load, turn, step, provider>>
  BY DEF EndTurn, talk
<1>4. TalkType'
  BY <1>2, <1>3 DEF Shape, TalkType, Messages, Items, P, Phase, Blank
<1>5. AnswerType'
  BY <1>1 DEF AnswerType, EndTurn, NoAnswer, Unsent, Empty, Nothing, Intents, Sendings,
     Accounts, Hearings, Args, Phase
<1> QED BY <1>4, <1>5 DEF Shape

LEMMA KeepShape ==
    ASSUME Shape, NEW q \in Seq(Messages(turn)), Keep(q), EndTurn, responses' = responses
    PROVE  Shape'
<1>1. history \o record \o q \in Seq(Messages(turn))
  BY DEF Shape, TalkType
<1>2. load.window \in Nat
  BY LoadFields, ShapeFields
<1>3. history' \in Seq(Messages(turn)) /\ Len(history') <= load.window
  BY <1>1, <1>2, NewestIs DEF Keep
<1> QED BY <1>3, EndTurnShape

LEMMA BeginShape ==
    ASSUME Shape, NEW p \in load.providers, NEW summarized \in BOOLEAN, Begin(p, summarized)
    PROVE  Shape'
<1>1. /\ turn \in Nat /\ load.turns \in Nat /\ turn < load.turns /\ turn' = turn + 1
      /\ step' = 1 /\ load.steps \in Nat /\ load.steps # 0 /\ p \in Provider /\ load' = load
  BY ShapeFields, LoadFields DEF Begin
<1>2. Messages(turn)' = Messages(turn + 1) /\ Items(turn)' = Items(turn + 1)
  BY <1>1 DEF Messages, Items
<1>3. /\ history \in Seq(Messages(turn + 1))
      /\ request.items \in Seq(Items(turn + 1))
      /\ \A t \in 1..load.turns : \A s \in 1..load.steps : responses[t][s] \in Seq(Items(turn + 1))
  BY <1>1, MessagesGrow DEF Shape, TalkType
<1>4. /\ <<System>> \in Seq(Messages(turn + 1)) /\ <<Summary>> \in Seq(Messages(turn + 1))
      /\ <<Question(turn + 1)>> \in Seq(Messages(turn + 1))
  <2>1. turn + 1 \in 0..(turn + 1) /\ 0 \in 0..(turn + 1) /\ 0 \in 0..load.steps
    BY <1>1
  <2>2. <<>> \in Seq(Id) /\ <<>> \in Seq(Nat)
    OBVIOUS
  <2>3. /\ System \in Messages(turn + 1) /\ Summary \in Messages(turn + 1)
        /\ Question(turn + 1) \in Messages(turn + 1)
    BY <2>1, <2>2 DEF System, Summary, Question, Message, Messages
  <2> QED BY <2>3
<1>5. prompt' \in Seq(Messages(turn + 1)) /\ record' \in Seq(Messages(turn + 1))
  <2>1. (IF summarized THEN <<Summary>> ELSE <<>>) \in Seq(Messages(turn + 1))
    <3>1. <<>> \in Seq(Messages(turn + 1))
      OBVIOUS
    <3>2. CASE summarized
      BY <1>4, <3>2
    <3>3. CASE ~summarized
      BY <3>1, <3>3
    <3> QED BY <3>2, <3>3
  <2> DEFINE a == IF summarized THEN <<Summary>> ELSE <<>>
             b == <<System>>
             c == <<Question(turn + 1)>>
             M == Messages(turn + 1)
  <2>2. prompt' = b \o a \o history \o c /\ record' = c
    BY DEF Begin
  <2>3. a \in Seq(M) /\ b \in Seq(M) /\ c \in Seq(M) /\ history \in Seq(M)
    BY <1>3, <1>4, <2>1
  <2> HIDE DEF a, b, c, M
  <2>4. prompt' \in Seq(M) /\ record' \in Seq(M)
    BY <2>2, <2>3
  <2> QED BY <2>4 DEF M
<1>6. /\ provider' = [provider EXCEPT ![turn + 1] = p] /\ phase' = "ask" /\ history' = history
      /\ responses' = responses /\ request' = request
  BY DEF Begin, stores
<1>7. provider' \in [1..load.turns -> Provider \cup {"none"}] /\ P' \in Provider
  <2>1. turn + 1 \in 1..load.turns
    BY <1>1
  <2> QED BY <1>1, <1>6, <2>1 DEF Shape, TalkType, P
<1>8. request' \in [items : Seq(Items(turn + 1)), system : BOOLEAN, previous : Id]
  BY <1>3, <1>6 DEF Shape, TalkType
<1>9. request'.previous # Blank =>
          \E t \in 1..(turn + 1), s \in 1..load.steps : request'.previous = <<t, s>>
  BY <1>1, <1>6 DEF Shape, TalkType
<1>10. responses' \in [1..load.turns -> [1..load.steps -> Seq(Items(turn + 1))]]
  <2>1. /\ responses \in [1..load.turns -> [1..load.steps -> Seq(Items(turn))]]
    BY DEF Shape, TalkType
  <2>2. \A t \in 1..load.turns : responses[t] \in [1..load.steps -> Seq(Items(turn + 1))]
    BY <1>3, <2>1
  <2> QED BY <1>6, <2>1, <2>2
<1>11. turn' \in 0..load.turns /\ step' \in 0..load.steps /\ turn' # 0 /\ step' # 0
  BY <1>1
<1>12. load \in Loads /\ Len(history) <= load.window
  BY DEF Shape, TalkType
<1>13. TalkType'
  BY <1>1, <1>2, <1>3, <1>5, <1>6, <1>7, <1>8, <1>9, <1>10, <1>11, <1>12 DEF TalkType, Phase
<1>14. AnswerType'
  BY <1>6, <1>1 DEF Shape, AnswerType, Begin, Intents, Sendings, Accounts, Hearings, Entries, Calls
<1> QED BY <1>13, <1>14 DEF Shape

LEMMA AskShape ==
    ASSUME Shape, NEW calls \in load.lists, NEW named \in BOOLEAN, NEW sound \in BOOLEAN,
           Ask(calls, named, sound)
    PROVE  Shape'
<1>1. /\ load.reports \in Nat /\ load.pieces \in Nat /\ calls \in Seq(Nat)
  BY ShapeFields, LoadFields
<1>2. prompt \in Seq(Messages(turn))
  BY DEF Shape, TalkType
<1>3. /\ request' \in [items : Seq(Items(turn)), system : BOOLEAN, previous : Id]
      /\ request'.previous # Blank =>
             \E t \in 1..turn, s \in 1..load.steps : request'.previous = <<t, s>>
  <2> DEFINE r == IF P = "openai" THEN OpenAIRequest(prompt) ELSE WholeRequest(P, prompt)
  <2>1. request' = r /\ (r = WholeRequest(P, prompt) \/ r = OpenAIRequest(prompt))
    BY DEF Ask
  <2> HIDE DEF r
  <2> QED BY <1>2, <2>1, RequestType
<1>4. TalkType'
  BY <1>3 DEF Shape, TalkType, Ask, talk, stores, Messages, Items, P, Phase
<1>5. Unsent(calls) \in Sendings /\ DOMAIN Unsent(calls).pieces = DOMAIN calls
  <2>1. DOMAIN calls = 1..Len(calls) /\ Len(calls) \in Nat /\ 0 \in 0..load.pieces
    BY <1>1
  <2>2. [i \in DOMAIN calls |-> 0] \in Seq(0..load.pieces)
    BY <2>1
  <2> QED BY <1>1, <2>2 DEF Unsent, Sendings
<1>6. AnswerType'
  BY <1>1, <1>5 DEF AnswerType, Ask, Empty, Nothing, Intents, Sendings, Accounts, Hearings,
     Args, talk
<1> QED BY <1>4, <1>6 DEF Shape

LEMMA NextStepShape == Shape /\ NextStep => Shape'
<1> SUFFICES ASSUME Shape, NextStep PROVE Shape'
  OBVIOUS
<1>1. /\ phase = "heard" /\ step < load.steps /\ phase' = "ask" /\ step' = step + 1
      /\ prompt' = prompt \o StepMessages /\ record' = record \o StepMessages
      /\ UNCHANGED <<load, turn, provider, stores, request>>
  BY DEF NextStep
<1>2. StepMessages \in Seq(Messages(turn))
  BY <1>1, StepMessagesType
<1>3. prompt' \in Seq(Messages(turn)) /\ record' \in Seq(Messages(turn))
  BY <1>1, <1>2 DEF Shape, TalkType
<1>4. step' \in 0..load.steps /\ step' # 0
  <2>1. step \in Nat /\ load.steps \in Nat
    BY ShapeFields
  <2> QED BY <1>1, <2>1
<1>5. TalkType'
  BY <1>1, <1>3, <1>4 DEF Shape, TalkType, stores, Messages, Items, P, Phase
<1>6. load.reports \in Nat /\ load.pieces \in Nat
  BY ShapeFields
<1>7. AnswerType'
  BY <1>1, <1>6 DEF AnswerType, NextStep, NoAnswer, Unsent, Empty, Nothing, Intents, Sendings,
     Accounts, Hearings, Args
<1> QED BY <1>5, <1>7 DEF Shape

LEMMA NextShape == Shape /\ [Next]_vars => Shape'
<1> SUFFICES ASSUME Shape, [Next]_vars PROVE Shape'
  OBVIOUS
<1>0. /\ history \in Seq(Messages(turn)) /\ Len(history) <= load.window
      /\ load \in Loads
  BY DEF Shape, TalkType
<1>1. ASSUME NEW p \in load.providers, NEW summarized \in load.summary, Begin(p, summarized)
      PROVE  Shape'
  <2>1. summarized \in BOOLEAN
    BY <1>0, LoadFields
  <2> QED BY <1>1, <2>1, BeginShape
<1>2. ASSUME NEW calls \in load.lists, NEW named \in Either("blank"),
             NEW sound \in Either("garbled"), Ask(calls, named, sound)
      PROVE  Shape'
  <2>1. named \in BOOLEAN /\ sound \in BOOLEAN
    BY DEF Either
  <2> QED BY <1>2, <2>1, AskShape
<1>3. CASE Unsupported
  BY <1>0, <1>3, EndTurnShape DEF Unsupported, stores
<1>4. CASE StreamFails
  BY <1>0, <1>4, EndTurnShape DEF StreamFails, stores
<1>5. CASE LiteLLM
  BY <1>5, LiteLLMShape
<1>6. CASE OpenAI
  BY <1>6, OpenAIShape
<1>7. CASE Anthropic
  BY <1>7, AnthropicShape
<1>8. CASE Gemini
  BY <1>8, GeminiShape
<1>9. CASE Qwen
  BY <1>9, QwenShape
<1>10. CASE Answered
  <2>1. phase # "idle" /\ Keep(<<Said>>) /\ EndTurn /\ responses' = responses
    BY <1>10 DEF Answered
  <2> QED BY <2>1, StepMessagesType, KeepShape
<1>11. CASE NextStep
  BY <1>11, NextStepShape
<1>12. CASE Exhausted
  <2>1. phase # "idle" /\ Keep(StepMessages) /\ EndTurn /\ responses' = responses
    BY <1>12 DEF Exhausted
  <2> QED BY <2>1, StepMessagesType, KeepShape
<1>13. CASE UNCHANGED vars
  BY <1>13 DEF vars, talk, stores, Shape, TalkType, AnswerType, Messages, Items, P, Intents,
     Sendings, Accounts, Hearings, Entries, Calls
<1> QED BY <1>1, <1>2, <1>3, <1>4, <1>5, <1>6, <1>7, <1>8, <1>9, <1>10, <1>11, <1>12, <1>13
       DEF Next, Step

\* Every variable holds a value of its kind, for any load: however many turns, steps, calls,
\* fragments and faults there are.
THEOREM TypeCorrect == Spec => []TypeOK
<1>1. Spec => []Shape
  BY InitShape, NextShape, PTL DEF Spec
<1> QED BY <1>1, ShapeIsType, PTL

-----------------------------------------------------------------------------
(* The message kept is what the vendor said.                               *)

\* The first n parts of the arguments of a call.
PartsOf(i, n) == [j \in 1..n |-> Part(i, j)]
\* The calls up to the m-th have been sent as wholes, and nothing of the others.
SentUpTo(m) == \A i \in DOMAIN answer.calls : sent.pieces[i] = IF i <= m THEN load.pieces ELSE 0

\* The text and the reasoning so far.
TextSoFar == heard.text = SaidAs("text") /\ heard.reasoning = SaidAs("reasoning")
\* LiteLLM: an entry for each call of which a fragment has come, with those that have.
FragmentsSoFar ==
    /\ \A k \in DOMAIN acc.calls :
          LET i == acc.calls[k].at IN
          acc.calls[k] = Entry(i, PartsOf(i, sent.pieces[i])) /\ sent.pieces[i] # 0
    /\ \A i \in DOMAIN answer.calls :
          sent.pieces[i] # 0 => \E k \in DOMAIN acc.calls : acc.calls[k].at = i
\* OpenAI: the items that are done, and the arguments of the one in progress.
ItemsSoFar ==
    LET n == Len(acc.calls) IN
    /\ n <= Len(answer.calls)
    /\ \A k \in 1..n : acc.calls[k] = Entry(k, WholeArgs(k)) /\ SentWhole(k)
    /\ n < Len(answer.calls) => acc.current = PartsOf(n + 1, sent.pieces[n + 1])
    /\ n = Len(answer.calls) => acc.current = <<>>
    /\ \A i \in DOMAIN answer.calls : i > n + 1 => sent.pieces[i] = 0
\* OpenAI: the calls kept are those it is done with, and so is the text, if it came whole.
DoneSoFar ==
    /\ \A i \in DOMAIN answer.calls : i \in sent.done <=> i <= Len(acc.calls)
    /\ acc.text = IF 0 \in sent.whole THEN heard.text ELSE <<>>
\* Anthropic: the blocks in the SDK.
BlocksSoFar == \E m \in 0..Len(answer.calls) : SentUpTo(m)
\* Gemini and Qwen: a call for each that was sent.
CallsSoFar ==
    /\ Len(acc.calls) <= Len(answer.calls) /\ SentUpTo(Len(acc.calls))
    /\ \A k \in 1..Len(acc.calls) : acc.calls[k] = Entry(k, WholeArgs(k))

SoFar ==
    /\ TextSoFar
    /\ P \in {"litellm", "google", "alibaba"} =>
          acc.text = heard.text /\ acc.usage = sent.reports
    /\ P = "litellm" => FragmentsSoFar
    /\ P = "openai" => ItemsSoFar /\ DoneSoFar
    /\ P = "anthropic" => BlocksSoFar
    /\ P \in {"google", "alibaba"} => CallsSoFar
Streamed == (phase = "stream" => SoFar) /\ AnswerAsSent

LEMMA PartsOfIs ==
    ASSUME NEW i \in Nat, NEW n \in Nat
    PROVE  /\ PartsOf(i, n) \in Seq(Seq(Nat)) /\ Len(PartsOf(i, n)) = n
           /\ Append(PartsOf(i, n), Part(i, n + 1)) = PartsOf(i, n + 1)
           /\ PartsOf(i, 0) = <<>>
<1>1. \A j \in Nat : Part(i, j) \in Seq(Nat)
  BY PartType
<1>2. PartsOf(i, n) \in Seq(Seq(Nat)) /\ Len(PartsOf(i, n)) = n
  BY <1>1 DEF PartsOf
<1>3. PartsOf(i, n + 1) \in Seq(Seq(Nat)) /\ Len(PartsOf(i, n + 1)) = n + 1
  BY <1>1 DEF PartsOf
<1> DEFINE a == Append(PartsOf(i, n), Part(i, n + 1))
<1>4. a \in Seq(Seq(Nat)) /\ Len(a) = n + 1
  BY <1>1, <1>2
<1>5. ASSUME NEW j \in 1..(n + 1) PROVE a[j] = PartsOf(i, n + 1)[j]
  <2>1. PartsOf(i, n + 1)[j] = Part(i, j)
    BY DEF PartsOf
  <2>2. CASE j = n + 1
    BY <1>2, <2>1, <2>2
  <2>3. CASE j # n + 1
    <3>1. j \in 1..n
      BY <2>3
    <3>2. a[j] = PartsOf(i, n)[j]
      BY <1>2, <3>1
    <3>3. PartsOf(i, n)[j] = Part(i, j)
      BY <3>1 DEF PartsOf
    <3> QED BY <2>1, <3>2, <3>3
  <2> QED BY <2>2, <2>3
<1>6. a = PartsOf(i, n + 1)
  <2> HIDE DEF a
  <2> QED BY <1>3, <1>4, <1>5, SeqEqual
<1>7. PartsOf(i, 0) = <<>>
  BY DEF PartsOf
<1> QED BY <1>2, <1>6, <1>7

\* A delta is the next of its kind.
LEMMA SayKeeps ==
    ASSUME Shape, NEW kind \in Kind, Say(kind), TextSoFar
    PROVE  TextSoFar'
<1> DEFINE n == Len(sent.said)
           s == sent.said
           t == Append(s, kind)
<1>1. s \in Seq(Kind) /\ n \in Nat /\ kind \in {"text", "reasoning"}
  BY ShapeFields DEF Kind
<1>2. sent'.said = t
  BY ShapeFields DEF Say, Sendings
<1>3. t \in Seq(Kind) /\ Len(t) = n + 1 /\ t[n + 1] = kind /\ \A i \in 1..n : t[i] = s[i]
  BY <1>1
<1>4. ASSUME NEW k \in Kind
      PROVE  SaidAs(k)' = IF k = kind THEN Append(SaidAs(k), n + 1) ELSE SaidAs(k)
  <2> DEFINE I == {i \in DOMAIN s : s[i] = k}
             J == {i \in DOMAIN t : t[i] = k}
  <2>1. SaidAs(k) = InOrder(I, n) /\ SaidAs(k)' = InOrder(J, Len(t))
    BY <1>2 DEF SaidAs
  <2>2. \A i \in 1..n : i \in J <=> i \in I
    BY <1>1, <1>3
  <2>3. n + 1 \in J <=> k = kind
    BY <1>1, <1>3
  <2> HIDE DEF I, J, n, t
  <2>4. InOrder(J, n + 1) = IF n + 1 \in J THEN Append(InOrder(J, n), n + 1)
                            ELSE InOrder(J, n)
    BY <1>1, InOrderIs
  <2>5. InOrder(J, n) = InOrder(I, n)
    BY <1>1, <2>2, InOrderSame
  <2> QED BY <1>3, <2>1, <2>3, <2>4, <2>5
<1>5. heard' = [heard EXCEPT ![kind] = Append(heard[kind], n + 1)]
  BY DEF Say
<1>6. heard \in Hearings
  BY ShapeFields
<1> HIDE DEF n
<1>7. CASE kind = "text"
  <2>1. heard'.text = Append(heard.text, n + 1) /\ heard'.reasoning = heard.reasoning
    BY <1>5, <1>6, <1>7 DEF Hearings
  <2> QED BY <2>1, <1>4, <1>7 DEF TextSoFar, Kind
<1>8. CASE kind = "reasoning"
  <2>1. heard'.reasoning = Append(heard.reasoning, n + 1) /\ heard'.text = heard.text
    BY <1>5, <1>6, <1>8 DEF Hearings
  <2> QED BY <2>1, <1>4, <1>8 DEF TextSoFar, Kind
<1> QED BY <1>1, <1>7, <1>8

\* Fields that a step leaves alone.
LEMMA SayFields ==
    ASSUME Shape, NEW kind \in Kind, Say(kind)
    PROVE  /\ sent'.pieces = sent.pieces /\ sent'.reports = sent.reports
           /\ sent'.done = sent.done /\ sent'.whole = sent.whole
           /\ heard'.text = IF kind = "text" THEN Append(heard.text, Len(sent.said) + 1)
                            ELSE heard.text
  BY ShapeFields DEF Say, Sendings, Hearings, Kind

\* What is said of the calls changes only with the pieces and the calls.
LEMMA SoFarSame ==
    ASSUME Quiet, sent'.pieces = sent.pieces, acc'.calls = acc.calls, acc'.current = acc.current
    PROVE  /\ FragmentsSoFar => FragmentsSoFar'
           /\ ItemsSoFar => ItemsSoFar'
           /\ BlocksSoFar => BlocksSoFar'
           /\ CallsSoFar => CallsSoFar'
<1>1. /\ answer' = answer /\ load' = load /\ turn' = turn /\ step' = step
  BY DEF Quiet, talk
<1>2. \A i, a : Entry(i, a)' = Entry(i, a)
  BY <1>1 DEF Entry, Given
<1>3. \A i : WholeArgs(i)' = WholeArgs(i) /\ (SentWhole(i)' <=> SentWhole(i))
  BY <1>1 DEF WholeArgs, SentWhole
<1>4. \A m : SentUpTo(m)' <=> SentUpTo(m)
  BY <1>1 DEF SentUpTo
<1>5. FragmentsSoFar => FragmentsSoFar'
  BY <1>1, <1>2 DEF FragmentsSoFar
<1>6. ItemsSoFar => ItemsSoFar'
  BY <1>1, <1>2, <1>3 DEF ItemsSoFar
<1>7. BlocksSoFar => BlocksSoFar'
  BY <1>1, <1>4 DEF BlocksSoFar
<1>8. CallsSoFar => CallsSoFar'
  BY <1>1, <1>2, <1>3, <1>4 DEF CallsSoFar
<1> QED BY <1>5, <1>6, <1>7, <1>8

\* A delta that the code collects, and a report.
LEMMA DeltaSoFar ==
    ASSUME Shape, phase = "stream", SoFar, NEW kind \in Kind, Say(kind), Quiet,
           \/ P \notin {"openai", "anthropic"} /\ Collect(kind)
           \/ P = "openai" /\ acc' = acc /\ 0 \notin sent.done
           \/ P = "anthropic" /\ acc' = acc
    PROVE  SoFar'
<1>1. /\ sent'.pieces = sent.pieces /\ sent'.reports = sent.reports
      /\ sent'.done = sent.done /\ sent'.whole = sent.whole
      /\ heard'.text = IF kind = "text" THEN Append(heard.text, Len(sent.said) + 1)
                       ELSE heard.text
  BY SayFields
<1>2. /\ acc \in Accounts /\ P' = P
  BY ShapeFields DEF Quiet, talk, P
<1>3. acc'.calls = acc.calls /\ acc'.current = acc.current /\ acc'.usage = acc.usage
  BY <1>2 DEF Collect, Accounts
<1>4. P \in {"litellm", "google", "alibaba"} => acc'.text = heard'.text
  <2> SUFFICES ASSUME P \in {"litellm", "google", "alibaba"} PROVE acc'.text = heard'.text
    OBVIOUS
  <2>1. Collect(kind) /\ acc.text = heard.text
    BY DEF SoFar
  <2> QED BY <1>1, <1>2, <2>1 DEF Collect, Accounts
<1>5. TextSoFar'
  BY SayKeeps DEF SoFar
<1>6. P = "openai" => DoneSoFar'
  <2> SUFFICES ASSUME P = "openai" PROVE DoneSoFar'
    OBVIOUS
  <2>1. acc' = acc /\ 0 \notin sent.whole /\ DoneSoFar /\ answer' = answer
    BY ShapeFields DEF SoFar, Quiet
  <2> QED BY <1>1, <2>1 DEF DoneSoFar
<1> QED BY <1>1, <1>2, <1>3, <1>4, <1>5, <1>6, SoFarSame DEF SoFar

LEMMA ReportSoFar ==
    ASSUME Shape, phase = "stream", P # "openai", SoFar, Report, Quiet, heard' = heard
    PROVE  SoFar'
<1>1. sent \in Sendings /\ acc \in Accounts /\ P' = P
  BY ShapeFields DEF Quiet, talk, P
<1>2. /\ sent'.pieces = sent.pieces /\ sent'.said = sent.said
      /\ sent'.reports = sent.reports + 1
      /\ acc'.usage = sent.reports + 1 /\ acc'.calls = acc.calls /\ acc'.current = acc.current
      /\ acc'.text = acc.text
  BY <1>1 DEF Report, Sendings, Accounts
<1>3. TextSoFar'
  BY <1>2 DEF SoFar, TextSoFar, SaidAs
<1> QED BY <1>1, <1>2, <1>3, SoFarSame DEF SoFar

\* What a done event changes of what was sent.
LEMMA DoneFields ==
    ASSUME Shape, NEW i, NEW whole, Done(i, whole)
    PROVE  /\ sent'.pieces = sent.pieces /\ sent'.said = sent.said
           /\ sent'.reports = sent.reports /\ sent'.done = sent.done \cup {i}
           /\ sent'.whole = IF whole THEN sent.whole \cup {i} ELSE sent.whole
  BY ShapeFields DEF Done, Sendings

\* A step that sends no text leaves the text as it is.
LEMMA TextStays ==
    ASSUME TextSoFar, sent'.said = sent.said, heard' = heard
    PROVE  TextSoFar'
  BY DEF TextSoFar, SaidAs

LEMMA SendFields ==
    ASSUME Shape, phase = "stream", NEW i \in DOMAIN answer.calls, ~SentWhole(i),
           SendPiece(i) \/ SendCall(i)
    PROVE  /\ sent'.said = sent.said /\ sent'.reports = sent.reports
           /\ sent'.done = sent.done /\ sent'.whole = sent.whole
           /\ sent.pieces[i] \in Nat
           /\ SendPiece(i) => sent'.pieces[i] = sent.pieces[i] + 1
           /\ SendCall(i) => sent'.pieces[i] = load.pieces
           /\ \A j \in DOMAIN answer.calls : j # i => sent'.pieces[j] = sent.pieces[j]
           /\ DOMAIN sent.pieces = DOMAIN answer.calls
<1>1. sent \in Sendings /\ sent.pieces \in Seq(0..load.pieces) /\ load.pieces \in Nat
  BY ShapeFields
<1>2. DOMAIN sent.pieces = DOMAIN answer.calls
  BY DEF Shape, AnswerType
<1>3. sent.pieces[i] \in Nat
  BY <1>1, <1>2
<1>4. /\ sent'.said = sent.said /\ sent'.reports = sent.reports
      /\ sent'.done = sent.done /\ sent'.whole = sent.whole
  BY <1>1 DEF SendPiece, SendCall, Sendings
<1>5. /\ SendPiece(i) => sent'.pieces = [sent.pieces EXCEPT ![i] = sent.pieces[i] + 1]
      /\ SendCall(i) => sent'.pieces = [sent.pieces EXCEPT ![i] = load.pieces]
  BY <1>1 DEF SendPiece, SendCall, Sendings
<1> QED BY <1>1, <1>2, <1>3, <1>4, <1>5

LEMMA EntryFields ==
    ASSUME NEW i, NEW args
    PROVE  Entry(i, args).at = i /\ Entry(i, args).args = args
  BY DEF Entry

\* Another fragment of a call.
LEMMA FragmentSoFar ==
    ASSUME Shape, SoFar, NEW i \in DOMAIN answer.calls, LiteLLMFragment(i)
    PROVE  SoFar'
<1> DEFINE n == sent.pieces[i]
           part == Part(i, n + 1)
           c == acc.calls
<1>1. /\ phase = "stream" /\ P = "litellm" /\ ~SentWhole(i) /\ SendPiece(i) /\ Quiet
      /\ heard' = heard
      /\ acc' = [acc EXCEPT !.calls =
                    IF n = 0 THEN Append(c, Entry(i, <<part>>))
                    ELSE [k \in DOMAIN c |-> IF c[k].at # i THEN c[k] ELSE Longer(c[k], part)]]
  BY DEF LiteLLMFragment, Streaming
<1>2. /\ sent'.said = sent.said /\ sent'.reports = sent.reports
      /\ n \in Nat /\ sent'.pieces[i] = n + 1
      /\ \A j \in DOMAIN answer.calls : j # i => sent'.pieces[j] = sent.pieces[j]
  BY <1>1, SendFields
<1>3. acc \in Accounts /\ c \in Seq(Entries) /\ i \in Nat
  BY ShapeFields, PlaceIsNat
<1>4. /\ acc'.text = acc.text /\ acc'.usage = acc.usage
      /\ acc'.calls = IF n = 0 THEN Append(c, Entry(i, <<part>>))
                      ELSE [k \in DOMAIN c |-> IF c[k].at # i THEN c[k] ELSE Longer(c[k], part)]
  BY <1>1, <1>3 DEF Accounts
<1>5. /\ P' = P /\ answer' = answer /\ \A j, a : Entry(j, a)' = Entry(j, a)
  BY <1>1 DEF Quiet, talk, P, Entry, Given
<1>6. FragmentsSoFar
  BY <1>1 DEF SoFar
<1>7. ASSUME NEW k \in DOMAIN c PROVE c[k].at \in DOMAIN answer.calls
  <2> HIDE DEF c
  <2>1. c[k] \in Entries
    BY <1>3
  <2> QED BY <2>1 DEF Entries
<1>8. PartsOf(i, n + 1) = Append(PartsOf(i, n), part) /\ PartsOf(i, 0) = <<>>
  BY <1>2, <1>3, PartsOfIs
<1> HIDE DEF n, part, c
<1> DEFINE new == acc'.calls
<1>9. CASE n = 0
  <2>1. new = Append(c, Entry(i, <<part>>))
    BY <1>4, <1>9
  <2>2. <<part>> = PartsOf(i, n + 1)
    <3>1. Append(<<>>, part) = <<part>>
      OBVIOUS
    <3>2. PartsOf(i, n + 1) = Append(<<>>, part)
      BY <1>8, <1>9
    <3> QED BY <3>1, <3>2
  <2>3. /\ DOMAIN new = 1..(Len(c) + 1) /\ new[Len(c) + 1] = Entry(i, PartsOf(i, n + 1))
        /\ \A k \in DOMAIN c : new[k] = c[k]
        /\ DOMAIN c = 1..Len(c) /\ Len(c) \in Nat
    <3>1. DOMAIN c = 1..Len(c) /\ Len(c) \in Nat
      BY <1>3
    <3>2. new = Append(c, Entry(i, PartsOf(i, n + 1)))
      BY <2>1, <2>2
    <3> HIDE DEF new
    <3> QED BY <1>3, <3>1, <3>2
  <2>4. \A k \in DOMAIN c : c[k].at # i
    BY <1>6, <1>9 DEF FragmentsSoFar, n, c
  <2>5. ASSUME NEW k \in DOMAIN new
        PROVE  /\ new[k] = Entry(new[k].at, PartsOf(new[k].at, sent'.pieces[new[k].at]))
               /\ sent'.pieces[new[k].at] # 0
    <3>1. CASE k \in DOMAIN c
      <4>1. new[k] = c[k] /\ c[k].at # i /\ c[k].at \in DOMAIN answer.calls
        BY <2>3, <2>4, <1>7, <3>1
      <4>2. sent'.pieces[c[k].at] = sent.pieces[c[k].at]
        BY <1>2, <4>1
      <4>3. c[k] = Entry(c[k].at, PartsOf(c[k].at, sent.pieces[c[k].at]))
            /\ sent.pieces[c[k].at] # 0
        BY <1>6, <3>1 DEF FragmentsSoFar, c
      <4> HIDE DEF new
      <4> QED BY <4>1, <4>2, <4>3
    <3>2. CASE k \notin DOMAIN c
      <4>1. k = Len(c) + 1
        BY <2>3, <3>2
      <4>2. new[k] = Entry(i, PartsOf(i, n + 1))
        BY <2>3, <4>1
      <4> HIDE DEF new
      <4>3. new[k].at = i
        BY <4>2, EntryFields
      <4> QED BY <4>2, <4>3, <1>2
    <3> QED BY <3>1, <3>2
  <2>6. ASSUME NEW j \in DOMAIN answer.calls, sent'.pieces[j] # 0
        PROVE  \E k \in DOMAIN new : new[k].at = j
    <3>1. CASE j = i
      <4>1. Len(c) + 1 \in DOMAIN new /\ new[Len(c) + 1].at = i
        BY <2>3, EntryFields
      <4> QED BY <3>1, <4>1
    <3>2. CASE j # i
      <4>1. PICK k \in DOMAIN c : c[k].at = j
        BY <1>2, <1>6, <2>6, <3>2 DEF FragmentsSoFar, c
      <4>2. k \in DOMAIN new /\ new[k] = c[k]
        BY <2>3
      <4> QED BY <4>1, <4>2
    <3> QED BY <3>1, <3>2
  <2> QED BY <2>5, <2>6, <1>1, <1>2, <1>4, <1>5, TextStays DEF SoFar, FragmentsSoFar
<1>10. CASE n # 0
  <2>1. new = [k \in DOMAIN c |-> IF c[k].at # i THEN c[k] ELSE Longer(c[k], part)]
    BY <1>4, <1>10
  <2>2. ASSUME NEW k \in DOMAIN c
        PROVE  /\ new[k].at = c[k].at
               /\ new[k] = Entry(new[k].at, PartsOf(new[k].at, sent'.pieces[new[k].at]))
               /\ sent'.pieces[new[k].at] # 0
    <3>0. new[k] = IF c[k].at # i THEN c[k] ELSE Longer(c[k], part)
      BY <2>1
    <3>1. c[k] = Entry(c[k].at, PartsOf(c[k].at, sent.pieces[c[k].at]))
          /\ sent.pieces[c[k].at] # 0
      BY <1>6 DEF FragmentsSoFar, c
    <3> HIDE DEF new
    <3>2. CASE c[k].at # i
      <4>1. sent'.pieces[c[k].at] = sent.pieces[c[k].at]
        BY <1>2, <1>7, <3>2
      <4> QED BY <3>0, <3>1, <3>2, <4>1
    <3>3. CASE c[k].at = i
      <4>1. c[k] = Entry(i, PartsOf(i, n))
        BY <3>1, <3>3 DEF n
      <4>2. new[k] = Longer(c[k], part)
        BY <3>0, <3>3
      <4>3. new[k] = Entry(i, Append(PartsOf(i, n), part))
        BY <4>1, <4>2 DEF Longer, Entry
      <4>4. new[k].at = i
        BY <4>3, EntryFields
      <4>5. sent'.pieces[i] = n + 1 /\ n + 1 # 0
        BY <1>2
      <4>6. new[k] = Entry(i, PartsOf(i, n + 1))
        BY <4>3, <1>8
      <4> QED BY <4>4, <4>5, <4>6, <3>3
    <3> QED BY <3>2, <3>3
  <2>3. DOMAIN new = DOMAIN c
    BY <2>1
  <2>4. ASSUME NEW j \in DOMAIN answer.calls, sent'.pieces[j] # 0
        PROVE  \E k \in DOMAIN new : new[k].at = j
    <3>1. sent.pieces[j] # 0
      BY <1>2, <1>10, <2>4 DEF n
    <3>2. PICK k \in DOMAIN c : c[k].at = j
      BY <1>6, <3>1 DEF FragmentsSoFar, c
    <3> QED BY <2>2, <2>3, <3>2
  <2> QED BY <2>2, <2>3, <2>4, <1>1, <1>2, <1>4, <1>5, TextStays DEF SoFar, FragmentsSoFar
<1> QED BY <1>9, <1>10

\* The event that ends the message item.
LEMMA MessageDoneSoFar ==
    ASSUME Shape, SoFar, NEW whole \in BOOLEAN, OpenAIMessageDone(whole)
    PROVE  SoFar'
<1>1. /\ acc \in Accounts /\ P' = P /\ P = "openai" /\ Quiet /\ heard' = heard
      /\ Done(0, whole) /\ 0 \notin sent.done /\ answer' = answer
      /\ acc' = [acc EXCEPT !.text = IF whole THEN heard.text ELSE <<>>]
  BY ShapeFields DEF OpenAIMessageDone, MessageOver, Quiet, talk, P, Streaming
<1>2. /\ acc'.calls = acc.calls /\ acc'.current = acc.current
      /\ acc'.text = IF whole THEN heard.text ELSE <<>>
  BY <1>1 DEF Accounts
<1>3. /\ sent'.pieces = sent.pieces /\ sent'.said = sent.said
      /\ sent'.done = sent.done \cup {0}
      /\ sent'.whole = IF whole THEN sent.whole \cup {0} ELSE sent.whole
  BY <1>1, DoneFields
<1>4. 0 \in sent'.whole <=> whole
  <2>1. 0 \notin sent.whole
    BY <1>1, ShapeFields
  <2> QED BY <1>3, <2>1
<1>5. DoneSoFar'
  <2>1. \A i \in DOMAIN answer.calls : i \in sent'.done <=> i \in sent.done
    BY <1>3, PlaceIsNat
  <2> QED BY <1>1, <1>2, <1>4, <2>1 DEF SoFar, DoneSoFar
<1> QED BY <1>1, <1>2, <1>3, <1>5, SoFarSame, TextStays DEF SoFar

\* A part of the arguments of the call in progress.
LEMMA ArgumentsSoFar ==
    ASSUME Shape, SoFar, NEW i \in DOMAIN answer.calls, OpenAIArguments(i)
    PROVE  SoFar'
<1> DEFINE n == sent.pieces[i]
<1>1. /\ phase = "stream" /\ P = "openai" /\ ~SentWhole(i) /\ SendPiece(i) /\ Quiet
      /\ heard' = heard /\ Len(acc.calls) = i - 1
      /\ acc' = [acc EXCEPT !.current = Append(acc.current, Part(i, n + 1))]
  BY DEF OpenAIArguments, Streaming, NextCall
<1>2. /\ sent'.said = sent.said /\ n \in Nat /\ sent'.pieces[i] = n + 1
      /\ sent'.done = sent.done /\ sent'.whole = sent.whole
      /\ \A j \in DOMAIN answer.calls : j # i => sent'.pieces[j] = sent.pieces[j]
  BY <1>1, SendFields
<1>3. /\ acc \in Accounts /\ i \in Nat /\ answer.calls \in Seq(Nat)
      /\ DOMAIN answer.calls = 1..Len(answer.calls) /\ Len(answer.calls) \in Nat
  BY AnswerCalls, PlaceIsNat
<1>4. /\ acc'.calls = acc.calls /\ acc'.current = Append(acc.current, Part(i, n + 1))
      /\ acc'.text = acc.text
  BY <1>1, <1>3 DEF Accounts
<1>5. P' = P /\ answer' = answer /\ load' = load /\ (\A j, a : Entry(j, a)' = Entry(j, a))
      /\ (\A j : WholeArgs(j)' = WholeArgs(j))
  BY <1>1 DEF Quiet, talk, P, Entry, Given, WholeArgs
<1>6. ItemsSoFar
  BY <1>1 DEF SoFar
<1>7. acc.current = PartsOf(i, n)
  <2>1. Len(acc.calls) < Len(answer.calls) /\ Len(acc.calls) + 1 = i
    BY <1>1, <1>3
  <2> QED BY <1>6, <2>1 DEF ItemsSoFar
<1>8. acc'.current = PartsOf(i, sent'.pieces[i])
  BY <1>2, <1>3, <1>4, <1>7, PartsOfIs
<1>9. \A k \in 1..(i - 1) : k \in DOMAIN answer.calls /\ k # i
  BY <1>3
<1>10. \A k \in 1..(i - 1) : SentWhole(k)'
  BY <1>1, <1>2, <1>5, <1>6, <1>9 DEF ItemsSoFar, SentWhole
<1>11. \A j \in DOMAIN answer.calls : j > (i - 1) + 1 => sent'.pieces[j] = 0
  BY <1>1, <1>2, <1>3, <1>6 DEF ItemsSoFar
<1>12. Len(acc'.calls) = i - 1 /\ i - 1 < Len(answer.calls) /\ (i - 1) + 1 = i
  BY <1>1, <1>3, <1>4
<1>13. \A k \in 1..(i - 1) : acc'.calls[k] = Entry(k, WholeArgs(k))
  BY <1>1, <1>4, <1>6 DEF ItemsSoFar
<1>14. ItemsSoFar'
  <2> HIDE DEF n
  <2> QED BY <1>5, <1>8, <1>10, <1>11, <1>12, <1>13 DEF ItemsSoFar
<1>15. DoneSoFar'
  BY <1>1, <1>2, <1>4, <1>5 DEF SoFar, DoneSoFar
<1> QED BY <1>1, <1>2, <1>5, <1>14, <1>15, TextStays DEF SoFar

\* A call that is done.
LEMMA CallDoneSoFar ==
    ASSUME Shape, SoFar, NEW i \in DOMAIN answer.calls, NEW whole \in BOOLEAN,
           OpenAICallDone(i, whole)
    PROVE  SoFar'
<1> DEFINE args == IF whole THEN WholeArgs(i) ELSE acc.current
           c == acc.calls
<1>1. /\ phase = "stream" /\ P = "openai" /\ SentWhole(i) /\ Len(c) = i - 1 /\ Quiet
      /\ Done(i, whole) /\ heard' = heard
      /\ acc' = [acc EXCEPT !.calls = Append(c, Entry(i, args)), !.current = <<>>]
  BY DEF OpenAICallDone, Streaming
<1>0. /\ sent'.pieces = sent.pieces /\ sent'.said = sent.said
      /\ sent'.done = sent.done \cup {i}
      /\ sent'.whole = IF whole THEN sent.whole \cup {i} ELSE sent.whole
  BY <1>1, DoneFields
<1>2. /\ acc \in Accounts /\ i \in Nat /\ answer.calls \in Seq(Nat)
      /\ DOMAIN answer.calls = 1..Len(answer.calls) /\ Len(answer.calls) \in Nat
      /\ c \in Seq(Entries) /\ load.pieces # 0
  BY AnswerCalls, PlaceIsNat
<1>3. P' = P /\ answer' = answer /\ load' = load /\ (\A j, a : Entry(j, a)' = Entry(j, a))
      /\ (\A j : WholeArgs(j)' = WholeArgs(j)) /\ (\A j : SentWhole(j)' <=> SentWhole(j))
  BY <1>0, <1>1 DEF Quiet, talk, P, Entry, Given, WholeArgs, SentWhole
<1>4. ItemsSoFar
  BY <1>1 DEF SoFar
<1>5. args = WholeArgs(i)
  <2>1. Len(c) < Len(answer.calls) /\ Len(c) + 1 = i
    BY <1>1, <1>2
  <2>2. acc.current = PartsOf(i, sent.pieces[i])
    BY <1>4, <2>1 DEF ItemsSoFar
  <2>3. sent.pieces[i] = load.pieces
    BY <1>1 DEF SentWhole
  <2> QED BY <2>2, <2>3 DEF PartsOf, WholeArgs
<1> HIDE DEF args
<1>6. /\ acc'.calls = Append(c, Entry(i, WholeArgs(i))) /\ acc'.current = <<>>
      /\ acc'.text = acc.text
  BY <1>1, <1>2, <1>5 DEF Accounts
<1>7. /\ Len(acc'.calls) = i /\ acc'.calls[i] = Entry(i, WholeArgs(i))
      /\ \A k \in 1..(i - 1) : acc'.calls[k] = c[k]
  <2>1. Len(c) + 1 = i /\ DOMAIN c = 1..Len(c)
    BY <1>1, <1>2
  <2> HIDE DEF c
  <2> QED BY <1>2, <1>6, <2>1
<1>8. \A k \in 1..(i - 1) : c[k] = Entry(k, WholeArgs(k)) /\ SentWhole(k)
  BY <1>1, <1>4 DEF ItemsSoFar
<1>9. ASSUME NEW k \in 1..i PROVE acc'.calls[k] = Entry(k, WholeArgs(k)) /\ SentWhole(k)
  <2>1. CASE k = i
    BY <1>1, <1>7, <2>1
  <2>2. CASE k # i
    <3>1. k \in 1..(i - 1)
      BY <1>2, <2>2
    <3> QED BY <1>7, <1>8, <3>1
  <2> QED BY <2>1, <2>2
<1>10. \A j \in DOMAIN answer.calls : j > i => sent'.pieces[j] = 0
  <2>1. i = Len(c) + 1
    BY <1>1, <1>2
  <2> QED BY <1>0, <1>1, <1>4, <2>1 DEF ItemsSoFar
<1>11. i < Len(answer.calls) => acc'.current = PartsOf(i + 1, sent'.pieces[i + 1])
  <2> SUFFICES ASSUME i < Len(answer.calls)
               PROVE  acc'.current = PartsOf(i + 1, sent'.pieces[i + 1])
    OBVIOUS
  <2>1. i + 1 \in DOMAIN answer.calls /\ i + 1 > i /\ i + 1 \in Nat
    BY <1>2
  <2>2. sent'.pieces[i + 1] = 0
    BY <1>10, <2>1
  <2> QED BY <1>6, <2>1, <2>2, PartsOfIs
<1>12. i <= Len(answer.calls) /\ \A j \in DOMAIN answer.calls : j > i + 1 => j > i
  BY <1>2
<1>13. ItemsSoFar'
  BY <1>3, <1>6, <1>7, <1>9, <1>10, <1>11, <1>12 DEF ItemsSoFar
<1>14. DoneSoFar'
  <2>1. DoneSoFar
    BY <1>1 DEF SoFar
  <2>2. ASSUME NEW j \in DOMAIN answer.calls
        PROVE  j \in sent'.done <=> j <= Len(acc'.calls)
    <3>1. /\ j \in Nat /\ Len(acc'.calls) = i /\ Len(acc.calls) = i - 1 /\ i \in Nat
      BY <1>1, <1>2, <1>7
    <3>2. j \in sent.done <=> j <= Len(acc.calls)
      BY <2>1 DEF DoneSoFar
    <3> QED BY <1>0, <3>1, <3>2
  <2>3. 0 \in sent'.whole <=> 0 \in sent.whole
    BY <1>0, PlaceIsNat
  <2> QED BY <1>1, <1>3, <1>6, <2>1, <2>2, <2>3 DEF DoneSoFar
<1> QED BY <1>0, <1>1, <1>3, <1>13, <1>14, TextStays DEF SoFar

\* The next call, sent as a whole.
LEMMA SentUpToNext ==
    ASSUME Shape, phase = "stream", NEW i \in DOMAIN answer.calls, NextCall(i), SendCall(i),
           NEW m \in 0..Len(answer.calls), SentUpTo(m), Quiet
    PROVE  i = m + 1 /\ SentUpTo(i)'
<1>1. /\ answer.calls \in Seq(Nat) /\ DOMAIN answer.calls = 1..Len(answer.calls)
      /\ Len(answer.calls) \in Nat /\ load.pieces # 0 /\ i \in Nat
      /\ answer' = answer /\ load' = load
  BY AnswerCalls, PlaceIsNat DEF Quiet
<1>2. i > m
  BY <1>1 DEF NextCall, SentUpTo, SentWhole
<1>3. i <= m + 1
  <2> SUFFICES ASSUME i > m + 1 PROVE FALSE
    BY <1>1
  <2>1. m + 1 \in 1..(i - 1) /\ m + 1 \in DOMAIN answer.calls
    BY <1>1
  <2>2. SentWhole(m + 1)
    BY <2>1 DEF NextCall
  <2>3. sent.pieces[m + 1] = 0
    <3>1. ~(m + 1 <= m)
      BY <1>1
    <3> QED BY <2>1, <3>1 DEF SentUpTo
  <2> QED BY <1>1, <2>2, <2>3 DEF SentWhole
<1>4. i = m + 1
  BY <1>1, <1>2, <1>3
<1>5. /\ sent'.pieces[i] = load.pieces
      /\ \A j \in DOMAIN answer.calls : j # i => sent'.pieces[j] = sent.pieces[j]
  BY SendFields DEF NextCall
<1>6. \A j \in DOMAIN answer.calls : j # i => (j <= m <=> j <= i)
  BY <1>1, <1>4
<1> QED BY <1>1, <1>4, <1>5, <1>6 DEF SentUpTo

LEMMA BlockSoFar ==
    ASSUME Shape, SoFar, NEW i \in DOMAIN answer.calls, AnthropicBlock(i)
    PROVE  SoFar'
<1>1. /\ phase = "stream" /\ P = "anthropic" /\ NextCall(i) /\ SendCall(i) /\ Quiet
      /\ heard' = heard
  BY DEF AnthropicBlock, Streaming
<1>2. PICK m \in 0..Len(answer.calls) : SentUpTo(m)
  BY <1>1 DEF SoFar, BlocksSoFar
<1>3. i = m + 1 /\ SentUpTo(i)'
  BY <1>1, <1>2, SentUpToNext
<1>4. /\ P' = P /\ answer' = answer /\ sent'.said = sent.said
      /\ answer.calls \in Seq(Nat)
  BY <1>1, SendFields, ShapeFields DEF NextCall, Quiet, talk, P
<1>5. i \in 0..Len(answer'.calls)
  BY <1>4
<1>6. BlocksSoFar'
  BY <1>3, <1>5 DEF BlocksSoFar
<1> QED BY <1>1, <1>4, <1>6, TextStays DEF SoFar

LEMMA WholeCallSoFar ==
    ASSUME Shape, SoFar, phase = "stream", P \in {"google", "alibaba"},
           NEW i \in DOMAIN answer.calls, WholeCall(i)
    PROVE  SoFar'
<1> DEFINE c == acc.calls
<1>1. /\ NextCall(i) /\ SendCall(i) /\ Quiet /\ heard' = heard
      /\ acc' = [acc EXCEPT !.calls = Append(c, Entry(i, WholeArgs(i)))]
  BY DEF WholeCall
<1>2. /\ acc \in Accounts /\ i \in Nat /\ c \in Seq(Entries) /\ answer.calls \in Seq(Nat)
      /\ DOMAIN answer.calls = 1..Len(answer.calls) /\ Len(answer.calls) \in Nat
  BY AnswerCalls, PlaceIsNat
<1>3. /\ Len(c) <= Len(answer.calls) /\ SentUpTo(Len(c))
      /\ \A k \in 1..Len(c) : c[k] = Entry(k, WholeArgs(k))
  BY DEF SoFar, CallsSoFar
<1>4. Len(c) \in 0..Len(answer.calls)
  BY <1>2, <1>3
<1>5. i = Len(c) + 1 /\ SentUpTo(i)'
  BY <1>1, <1>3, <1>4, SentUpToNext
<1>6. /\ acc'.calls = Append(c, Entry(i, WholeArgs(i)))
      /\ acc'.text = acc.text /\ acc'.usage = acc.usage
  BY <1>1, <1>2 DEF Accounts
<1>7. /\ Len(acc'.calls) = i /\ acc'.calls[i] = Entry(i, WholeArgs(i))
      /\ \A k \in 1..Len(c) : acc'.calls[k] = c[k]
  <2>1. DOMAIN c = 1..Len(c)
    BY <1>2
  <2> HIDE DEF c
  <2> QED BY <1>2, <1>5, <1>6, <2>1
<1>8. P' = P /\ answer' = answer /\ (\A j, a : Entry(j, a)' = Entry(j, a))
      /\ (\A j : WholeArgs(j)' = WholeArgs(j))
      /\ sent'.said = sent.said /\ sent'.reports = sent.reports
  BY <1>1, SendFields DEF NextCall, Quiet, talk, P, Entry, Given, WholeArgs
<1>9. ASSUME NEW k \in 1..i PROVE acc'.calls[k] = Entry(k, WholeArgs(k))
  <2> HIDE DEF c
  <2>1. k = i \/ k \in 1..Len(c)
    BY <1>4, <1>5
  <2> QED BY <2>1, <1>3, <1>7
<1>10. CallsSoFar'
  BY <1>2, <1>5, <1>7, <1>8, <1>9 DEF CallsSoFar
<1> QED BY <1>1, <1>6, <1>8, <1>10, TextStays DEF SoFar

\* What is handed over of entries that hold the parts sent of their calls.
LEMMA HandedOver ==
    ASSUME Shape, phase = "stream", NEW entries \in Seq(Entries), NEW text, NEW usage,
           \A k \in DOMAIN entries :
              entries[k] = Entry(entries[k].at,
                                 PartsOf(entries[k].at, sent.pieces[entries[k].at])),
           \A j, k \in DOMAIN entries : j < k => entries[j].at < entries[k].at,
           \A i \in DOMAIN answer.calls :
              Came(i) <=> \E k \in DOMAIN entries : entries[k].at = i,
           HandOver(entries, text, usage), sent'.pieces = sent.pieces, sent'.done = sent.done
    PROVE  CallsWhole' /\ heard'.usage = usage /\ heard'.text = heard.text
           /\ heard'.reasoning = heard.reasoning /\ heard'.payload.text = text
<1>1. /\ answer' = answer /\ load' = load /\ turn' = turn /\ step' = step
      /\ heard' = [heard EXCEPT
           !.usage = usage,
           !.calls = [i \in DOMAIN entries |-> ToolCall(entries[i])],
           !.payload = [text |-> text, calls |-> [i \in DOMAIN entries |-> entries[i].id]]]
  BY DEF HandOver, talk
<1>2. heard \in Hearings
  BY ShapeFields
<1>3. /\ heard'.calls = [i \in DOMAIN entries |-> ToolCall(entries[i])]
      /\ heard'.payload.calls = [i \in DOMAIN entries |-> entries[i].id]
      /\ heard'.usage = usage /\ heard'.text = heard.text
      /\ heard'.reasoning = heard.reasoning /\ heard'.payload.text = text
  BY <1>1, <1>2 DEF Hearings
<1>4. DOMAIN entries = 1..Len(entries) /\ Len(entries) \in Nat
  OBVIOUS
<1>5. ASSUME NEW k \in DOMAIN entries
      PROVE  /\ heard'.calls[k].id[3] = entries[k].at
             /\ heard'.calls[k].tool = answer.calls[entries[k].at]
             /\ heard'.calls[k].args =
                    IF SentWhole(entries[k].at) /\ answer.sound THEN WholeArgs(entries[k].at)
                    ELSE <<>>
  <2> DEFINE e == entries[k]
             i == e.at
             n == sent.pieces[i]
  <2>1. e = Entry(i, PartsOf(i, n))
    OBVIOUS
  <2>2. i \in DOMAIN answer.calls
    <3>1. e \in Entries
      OBVIOUS
    <3> HIDE DEF e
    <3> QED BY <3>1 DEF Entries
  <2>3. i \in Nat /\ n \in Nat /\ load.pieces \in Nat
    <3>1. sent.pieces \in Seq(0..load.pieces) /\ DOMAIN sent.pieces = DOMAIN answer.calls
          /\ load.pieces \in Nat
      BY ShapeFields DEF Shape, AnswerType
    <3>2. n \in 0..load.pieces
      <4> HIDE DEF i
      <4> QED BY <2>2, <3>1
    <3> QED BY <2>2, <3>1, <3>2, PlaceIsNat
  <2>4. heard'.calls[k] = ToolCall(e)
    BY <1>3
  <2> HIDE DEF e, i, n
  <2>5. e.id = Given(i) /\ e.tool = answer.calls[i] /\ e.args = PartsOf(i, n) /\ e.at = i
    BY <2>1 DEF Entry
  <2>6. ToolCall(e).id[3] = i
    <3>1. CASE answer.named
      <4>1. e.id = <<turn, step, i>> /\ e.id # Blank
        BY <2>5, <3>1 DEF Given, Blank
      <4> QED BY <4>1 DEF ToolCall
    <3>2. CASE ~answer.named
      <4>1. e.id = Blank
        BY <2>5, <3>2 DEF Given
      <4>2. ToolCall(e).id = <<turn, step, i, 0>>
        BY <2>5, <4>1 DEF ToolCall
      <4> QED BY <4>2
    <3> QED BY <3>1, <3>2
  <2>7. e.args = WholeArgs(i) <=> SentWhole(i)
    <3>1. WholeArgs(i) = PartsOf(i, load.pieces)
      BY DEF WholeArgs, PartsOf
    <3>2. Len(PartsOf(i, n)) = n /\ Len(PartsOf(i, load.pieces)) = load.pieces
      BY <2>3, PartsOfIs
    <3> QED BY <2>5, <3>1, <3>2 DEF SentWhole, n
  <2>8. ToolCall(e).args = IF answer.sound /\ SentWhole(i) THEN WholeArgs(i) ELSE <<>>
    BY <2>5, <2>7 DEF ToolCall, JsonObject
  <2>9. ToolCall(e).tool = answer.calls[i]
    BY <2>5 DEF ToolCall
  <2> QED BY <2>4, <2>6, <2>8, <2>9 DEF e, i
<1>6. \A i : Came(i)' <=> Came(i)
  BY <1>1 DEF SentWhole, Came, P, HandOver, talk
<1>7. DOMAIN heard'.calls = DOMAIN entries /\ Len(heard'.calls) = Len(entries)
      /\ Len(heard'.payload.calls) = Len(entries)
  BY <1>3, <1>4
<1>8. ASSUME NEW k \in DOMAIN entries, NEW j \in 1..(k - 1)
      PROVE  heard'.calls[j].id[3] < heard'.calls[k].id[3]
  <2>1. j \in DOMAIN entries /\ j < k
    BY <1>4
  <2>2. heard'.calls[j].id[3] = entries[j].at /\ heard'.calls[k].id[3] = entries[k].at
    BY <1>5, <2>1
  <2> QED BY <2>1, <2>2
<1>9. ASSUME NEW k \in DOMAIN heard'.calls
      PROVE  /\ heard'.calls[k].tool = answer'.calls[heard'.calls[k].id[3]]
             /\ heard'.calls[k].args =
                    IF sent'.pieces[heard'.calls[k].id[3]] = load'.pieces /\ answer'.sound
                    THEN [n \in 1..load'.pieces |-> Part(heard'.calls[k].id[3], n)] ELSE <<>>
             /\ \A j \in 1..(k - 1) : heard'.calls[j].id[3] < heard'.calls[k].id[3]
  <2>1. k \in DOMAIN entries
    BY <1>7
  <2>2. /\ heard'.calls[k].id[3] = entries[k].at
        /\ heard'.calls[k].tool = answer.calls[entries[k].at]
        /\ heard'.calls[k].args =
               IF sent.pieces[entries[k].at] = load.pieces /\ answer.sound
               THEN [n \in 1..load.pieces |-> Part(entries[k].at, n)] ELSE <<>>
    BY <1>5, <2>1 DEF SentWhole, WholeArgs
  <2>3. \A j \in 1..(k - 1) : heard'.calls[j].id[3] < heard'.calls[k].id[3]
    BY <1>8, <2>1
  <2> QED BY <1>1, <2>2, <2>3
<1>10. ASSUME NEW i \in DOMAIN answer'.calls
       PROVE  Came(i)' <=> \E k \in DOMAIN heard'.calls : heard'.calls[k].id[3] = i
  BY <1>1, <1>5, <1>6, <1>7
<1>11. CallsWhole'
  BY <1>7, <1>9, <1>10 DEF CallsWhole, SentWhole, WholeArgs
<1> QED BY <1>3, <1>11

\* The end of an answer whose text, calls and usage are as they were sent.
LEMMA EndAsSent ==
    ASSUME Shape, phase = "stream", SoFar, NEW entries \in Seq(Entries), NEW text, NEW usage,
           \A k \in DOMAIN entries :
              entries[k] = Entry(entries[k].at,
                                 PartsOf(entries[k].at, sent.pieces[entries[k].at])),
           \A j, k \in DOMAIN entries : j < k => entries[j].at < entries[k].at,
           \A i \in DOMAIN answer.calls :
              Came(i) <=> \E k \in DOMAIN entries : entries[k].at = i,
           HandOver(entries, text, usage), sent'.pieces = sent.pieces,
           sent'.said = sent.said, sent'.reports = usage,
           sent'.done = sent.done, sent'.whole = sent.whole,
           text = IF P = "openai" /\ 0 \notin sent.whole THEN <<>> ELSE heard.text
    PROVE  Streamed'
<1>1. CallsWhole' /\ heard'.usage = usage /\ heard'.text = heard.text
      /\ heard'.reasoning = heard.reasoning /\ heard'.payload.text = text
  BY HandedOver
<1>2. /\ phase' = "heard" /\ P' = P /\ load' = load
  BY DEF HandOver, talk, P
<1>3. \A kind : SaidAs(kind)' = SaidAs(kind)
  BY DEF SaidAs
<1>4. TextKept'
  BY <1>1, <1>2, <1>3 DEF TextKept, SoFar, TextSoFar
<1> QED BY <1>1, <1>2, <1>4 DEF Streamed, AnswerAsSent

LEMMA EntriesAt ==
    ASSUME Shape, phase = "stream", NEW entries \in Seq(Entries),
           \A k \in 1..Len(entries) : entries[k] = Entry(k, WholeArgs(k)) /\ SentWhole(k)
    PROVE  /\ \A k \in DOMAIN entries :
              entries[k] = Entry(entries[k].at,
                                 PartsOf(entries[k].at, sent.pieces[entries[k].at]))
           /\ \A j, k \in DOMAIN entries : j < k => entries[j].at < entries[k].at
           /\ \A i \in DOMAIN answer.calls :
                 i <= Len(entries) <=> \E k \in DOMAIN entries : entries[k].at = i
<1>1. ASSUME NEW k \in DOMAIN entries
      PROVE  entries[k].at = k /\ entries[k] = Entry(k, PartsOf(k, sent.pieces[k]))
  <2>1. entries[k] = Entry(k, WholeArgs(k)) /\ sent.pieces[k] = load.pieces
    BY DEF SentWhole
  <2>2. WholeArgs(k) = PartsOf(k, sent.pieces[k])
    BY <2>1 DEF WholeArgs, PartsOf
  <2> QED BY <2>1, <2>2, EntryFields
<1>2. \A i \in DOMAIN answer.calls :
          i <= Len(entries) <=> \E k \in DOMAIN entries : entries[k].at = i
  <2>1. DOMAIN entries = 1..Len(entries) /\ Len(entries) \in Nat
    OBVIOUS
  <2>2. \A i \in DOMAIN answer.calls : i \in Nat /\ i # 0
    BY PlaceIsNat
  <2>3. \A i \in DOMAIN answer.calls : i <= Len(entries) <=> i \in DOMAIN entries
    BY <2>1, <2>2
  <2> QED BY <1>1, <2>3
<1> QED BY <1>1, <1>2

LEMMA SentUpToWhole ==
    ASSUME Shape, phase = "stream", NEW m \in 0..Len(answer.calls), SentUpTo(m)
    PROVE  /\ \A i \in 1..m : SentWhole(i)
           /\ \A i \in DOMAIN answer.calls : SentWhole(i) <=> i <= m
           /\ {i \in DOMAIN answer.calls : SentWhole(i)} = 1..m
<1>1. DOMAIN answer.calls = 1..Len(answer.calls) /\ Len(answer.calls) \in Nat /\ load.pieces # 0
  BY AnswerCalls
<1>2. \A i \in DOMAIN answer.calls : SentWhole(i) <=> i <= m
  BY <1>1 DEF SentUpTo, SentWhole
<1>3. \A i \in 1..m : i \in DOMAIN answer.calls /\ i <= m
  BY <1>1
<1>4. {i \in DOMAIN answer.calls : SentWhole(i)} = 1..m
  BY <1>1, <1>2, <1>3
<1> QED BY <1>2, <1>3, <1>4

\* The five ends.
LEMMA OpenAIEndAsSent ==
    ASSUME Shape, SoFar, NEW reports \in 0..load.reports, OpenAIEnd(reports)
    PROVE  Streamed'
<1>1. /\ phase = "stream" /\ P = "openai" /\ HandOver(acc.calls, acc.text, reports)
      /\ sent' = [sent EXCEPT !.reports = reports]
  BY DEF OpenAIEnd, Streaming
<1>2. acc.calls \in Seq(Entries) /\ sent \in Sendings
  BY ShapeFields
<1>3. /\ sent'.pieces = sent.pieces /\ sent'.said = sent.said /\ sent'.reports = reports
      /\ sent'.done = sent.done /\ sent'.whole = sent.whole
  BY <1>1, <1>2 DEF Sendings
<1>4. \A k \in 1..Len(acc.calls) : acc.calls[k] = Entry(k, WholeArgs(k)) /\ SentWhole(k)
  BY <1>1 DEF SoFar, ItemsSoFar
<1>5. \A i \in DOMAIN answer.calls : Came(i) <=> i <= Len(acc.calls)
  BY <1>1 DEF SoFar, DoneSoFar, Came
<1>6. acc.text = IF P = "openai" /\ 0 \notin sent.whole THEN <<>> ELSE heard.text
  BY <1>1 DEF SoFar, DoneSoFar
<1> QED BY <1>1, <1>2, <1>3, <1>4, <1>5, <1>6, EntriesAt, EndAsSent

LEMMA AnthropicEndAsSent ==
    ASSUME Shape, SoFar, NEW reports \in 0..load.reports, AnthropicEnd(reports)
    PROVE  Streamed'
<1> DEFINE whole == {j \in DOMAIN answer.calls : SentWhole(j)}
           entries == [i \in 1..Cardinality(whole) |-> Entry(i, WholeArgs(i))]
<1>1. /\ phase = "stream" /\ P = "anthropic" /\ HandOver(entries, heard.text, reports)
      /\ sent' = [sent EXCEPT !.reports = reports]
  BY DEF AnthropicEnd, Streaming
<1>2. PICK m \in 0..Len(answer.calls) : SentUpTo(m)
  BY <1>1 DEF SoFar, BlocksSoFar
<1>3. /\ \A i \in 1..m : SentWhole(i)
      /\ \A i \in DOMAIN answer.calls : SentWhole(i) <=> i <= m
      /\ whole = 1..m
  BY <1>1, <1>2, SentUpToWhole
<1>4. m \in Nat /\ \A i \in 1..m : i \in DOMAIN answer.calls /\ i \in Nat
  BY AnswerCalls
<1>5. Cardinality(whole) = m
  <2>1. Cardinality(1..m) = IF 1 > m THEN 0 ELSE m - 1 + 1
    BY <1>4, FS_Interval, 1 \in Int, m \in Int
  <2>2. Cardinality(1..m) = m
    BY <1>4, <2>1
  <2> HIDE DEF whole
  <2> QED BY <1>3, <2>2
<1>6. entries = [i \in 1..m |-> Entry(i, WholeArgs(i))]
  BY <1>5
<1> HIDE DEF whole, entries
<1>7. \A i \in 1..m : Entry(i, WholeArgs(i)) \in Entries
  BY <1>4, WholeArgsType, EntryIsTyped
<1>8. entries \in Seq(Entries) /\ Len(entries) = m
      /\ \A k \in 1..m : entries[k] = Entry(k, WholeArgs(k))
  BY <1>4, <1>6, <1>7
<1>9. /\ sent'.pieces = sent.pieces /\ sent'.said = sent.said /\ sent'.reports = reports
      /\ sent'.done = sent.done /\ sent'.whole = sent.whole
  BY <1>1, ShapeFields DEF Sendings
<1>10. \A i \in DOMAIN answer.calls : Came(i) <=> i <= Len(entries)
  BY <1>1, <1>3, <1>8 DEF Came
<1> QED BY <1>1, <1>3, <1>8, <1>9, <1>10, EntriesAt, EndAsSent

LEMMA WholeEndAsSent ==
    ASSUME Shape, SoFar, phase = "stream", P \in {"google", "alibaba"},
           HandOver(acc.calls, acc.text, acc.usage), sent' = sent
    PROVE  Streamed'
<1>1. acc.calls \in Seq(Entries) /\ DOMAIN acc.calls = 1..Len(acc.calls) /\ Len(acc.calls) \in Nat
  BY AnswerCalls
<1>2. /\ Len(acc.calls) <= Len(answer.calls) /\ SentUpTo(Len(acc.calls))
      /\ \A k \in 1..Len(acc.calls) : acc.calls[k] = Entry(k, WholeArgs(k))
      /\ acc.text = heard.text /\ acc.usage = sent.reports
  BY DEF SoFar, CallsSoFar
<1>3. Len(acc.calls) \in 0..Len(answer.calls)
  BY <1>1, <1>2, AnswerCalls
<1>4. /\ \A i \in 1..Len(acc.calls) : SentWhole(i)
      /\ \A i \in DOMAIN answer.calls : SentWhole(i) <=> i <= Len(acc.calls)
  BY <1>2, <1>3, SentUpToWhole
<1>5. \A i \in DOMAIN answer.calls : Came(i) <=> i <= Len(acc.calls)
  BY <1>4 DEF Came
<1> QED BY <1>1, <1>2, <1>4, <1>5, EntriesAt, EndAsSent

LEMMA LiteLLMEndAsSent ==
    ASSUME Shape, SoFar, LiteLLMEnd
    PROVE  Streamed'
<1> DEFINE I == {e.at : e \in ToSet(acc.calls)}
           n == Len(answer.calls)
           places == InOrder(I, n)
           entries == ByIndex(acc.calls)
<1>1. /\ phase = "stream" /\ P = "litellm" /\ HandOver(entries, acc.text, acc.usage)
      /\ sent' = sent
  BY DEF LiteLLMEnd, Streaming
<1>2. /\ FragmentsSoFar /\ acc.text = heard.text /\ acc.usage = sent.reports
  BY <1>1 DEF SoFar
<1>3. /\ n \in Nat /\ DOMAIN answer.calls = 1..n /\ acc.calls \in Seq(Entries)
      /\ load.pieces # 0
  BY AnswerCalls
<1>4. entries \in Seq(Entries)
  BY <1>3, ByIndexType
<1>5. /\ places \in Seq(I \cap 1..n)
      /\ \A j, k \in DOMAIN places : j < k => places[j] < places[k]
      /\ \A i \in I \cap 1..n : \E k \in DOMAIN places : places[k] = i
  BY <1>3, InOrderLists
<1>6. entries = [k \in DOMAIN places |-> CHOOSE e \in ToSet(acc.calls) : e.at = places[k]]
  BY DEF ByIndex
<1>7. ASSUME NEW k \in DOMAIN entries
      PROVE  /\ k \in DOMAIN places /\ entries[k].at = places[k]
             /\ entries[k] = Entry(places[k], PartsOf(places[k], sent.pieces[places[k]]))
  <2>1. k \in DOMAIN places
    BY <1>6
  <2>2. places[k] \in I
    <3> HIDE DEF places, I
    <3> QED BY <1>5, <2>1
  <2>3. \E e \in ToSet(acc.calls) : e.at = places[k]
    BY <2>2
  <2>4. entries[k] \in ToSet(acc.calls) /\ entries[k].at = places[k]
    <3> HIDE DEF places
    <3> QED BY <1>6, <2>1, <2>3
  <2> HIDE DEF places, entries
  <2>5. PICK l \in DOMAIN acc.calls : acc.calls[l] = entries[k]
    BY <2>4 DEF ToSet
  <2>6. acc.calls[l] = Entry(acc.calls[l].at,
                             PartsOf(acc.calls[l].at, sent.pieces[acc.calls[l].at]))
    BY <1>2 DEF FragmentsSoFar
  <2> QED BY <2>1, <2>4, <2>5, <2>6
<1>8. ASSUME NEW i \in DOMAIN answer.calls
      PROVE  Came(i) <=> \E k \in DOMAIN entries : entries[k].at = i
  <2>1. Came(i) <=> i \in I
    <3>1. Came(i) <=> sent.pieces[i] # 0
      BY <1>1 DEF Came
    <3>2. sent.pieces[i] # 0 <=> \E l \in DOMAIN acc.calls : acc.calls[l].at = i
      BY <1>2 DEF FragmentsSoFar
    <3>3. (\E l \in DOMAIN acc.calls : acc.calls[l].at = i) <=> i \in I
      BY DEF ToSet
    <3> QED BY <3>1, <3>2, <3>3
  <2>2. i \in I <=> \E k \in DOMAIN places : places[k] = i
    <3> HIDE DEF I, places
    <3> QED BY <1>3, <1>5
  <2>3. DOMAIN entries = DOMAIN places
    BY <1>6
  <2> HIDE DEF I, places, entries
  <2> QED BY <1>7, <2>1, <2>2, <2>3
<1> HIDE DEF places, entries
<1>9. \A k \in DOMAIN entries :
          entries[k] = Entry(entries[k].at, PartsOf(entries[k].at, sent.pieces[entries[k].at]))
  BY <1>7
<1>10. \A j, k \in DOMAIN entries : j < k => entries[j].at < entries[k].at
  BY <1>5, <1>7
<1> QED BY <1>1, <1>2, <1>4, <1>8, <1>9, <1>10, EndAsSent

\* The start of a stream.
LEMMA AskSoFar ==
    ASSUME Shape, NEW calls \in load.lists, NEW named, NEW sound, Ask(calls, named, sound)
    PROVE  Streamed'
<1>1. /\ phase' = "stream" /\ sent' = Unsent(calls) /\ acc' = Empty /\ heard' = Nothing
      /\ answer'.calls = calls /\ P' = P /\ load' = load /\ phase = "ask"
  BY DEF Ask, talk, P
<1>2. calls \in Seq(Nat) /\ DOMAIN calls = 1..Len(calls) /\ Len(calls) \in Nat
  <2>1. calls \in Seq(Nat)
    BY ShapeFields, LoadFields
  <2> QED BY <2>1
<1>3. /\ sent'.said = <<>> /\ sent'.reports = 0 /\ sent'.pieces = [i \in DOMAIN calls |-> 0]
      /\ acc'.text = <<>> /\ acc'.calls = <<>> /\ acc'.current = <<>> /\ acc'.usage = 0
      /\ heard'.text = <<>> /\ heard'.reasoning = <<>>
      /\ sent'.done = {} /\ sent'.whole = {}
  BY <1>1 DEF Unsent, Empty, Nothing
<1>4. TextSoFar'
  <2>1. \A I : InOrder(I, 0) = <<>>
    BY InOrderIs
  <2>2. \A kind : SaidAs(kind)' = <<>>
    BY <1>3, <2>1 DEF SaidAs
  <2> QED BY <1>3, <2>2 DEF TextSoFar
<1>5. FragmentsSoFar'
  BY <1>1, <1>3 DEF FragmentsSoFar
<1>6. SentUpTo(0)'
  BY <1>1, <1>2, <1>3 DEF SentUpTo
<1>7. BlocksSoFar'
  BY <1>1, <1>2, <1>6 DEF BlocksSoFar
<1>8. CallsSoFar'
  BY <1>1, <1>2, <1>3, <1>6 DEF CallsSoFar
<1>9. ItemsSoFar'
  <2>1. Len(acc'.calls) = 0 /\ 0 <= Len(calls)
    BY <1>2, <1>3
  <2>2. 0 < Len(calls) => acc'.current = PartsOf(0 + 1, sent'.pieces[0 + 1])
    <3> SUFFICES ASSUME 0 < Len(calls) PROVE acc'.current = PartsOf(1, sent'.pieces[1])
      OBVIOUS
    <3>1. 1 \in DOMAIN calls
      BY <1>2
    <3>2. sent'.pieces[1] = 0 /\ acc'.current = <<>>
      BY <1>3, <3>1
    <3>3. PartsOf(1, 0) = <<>>
      BY PartsOfIs
    <3> QED BY <3>2, <3>3
  <2>3. \A i \in DOMAIN calls : sent'.pieces[i] = 0
    BY <1>3
  <2> QED BY <1>1, <1>3, <2>1, <2>2, <2>3 DEF ItemsSoFar
<1>10. DoneSoFar'
  <2>1. \A i \in DOMAIN calls : ~(i <= 0)
    BY <1>2
  <2>2. Len(acc'.calls) = 0
    BY <1>3
  <2> QED BY <1>1, <1>3, <2>1, <2>2 DEF DoneSoFar
<1>11. SoFar'
  BY <1>3, <1>4, <1>5, <1>7, <1>8, <1>9, <1>10 DEF SoFar
<1> QED BY <1>1, <1>11 DEF Streamed, AnswerAsSent

LEMMA NextStreamed == Shape /\ Streamed /\ [Next]_vars => Streamed'
<1> SUFFICES ASSUME Shape, Streamed, [Next]_vars PROVE Streamed'
  OBVIOUS
<1>0. ASSUME phase = "stream" PROVE SoFar
  BY <1>0 DEF Streamed
<1>a. ASSUME phase = "stream", SoFar', phase' = "stream" PROVE Streamed'
  BY <1>a DEF Streamed, AnswerAsSent
<1>b. ASSUME phase' \notin {"stream", "heard"} PROVE Streamed'
  BY <1>b DEF Streamed, AnswerAsSent
<1>c. ASSUME Quiet PROVE phase' = phase
  BY <1>c DEF Quiet
<1>1. ASSUME NEW p \in load.providers, NEW summarized \in load.summary, Begin(p, summarized)
      PROVE  Streamed'
  BY <1>1, <1>b DEF Begin
<1>2. ASSUME NEW calls \in load.lists, NEW named \in Either("blank"),
             NEW sound \in Either("garbled"), Ask(calls, named, sound)
      PROVE  Streamed'
  BY <1>2, AskSoFar
<1>3. CASE Unsupported \/ StreamFails \/ Answered \/ Exhausted
  BY <1>3, <1>b DEF Unsupported, StreamFails, Answered, Exhausted, EndTurn
<1>4. CASE NextStep
  BY <1>4, <1>b DEF NextStep
<1>5. CASE LiteLLM
  <2>1. ASSUME NEW kind \in Kind, LiteLLMDelta(kind) PROVE Streamed'
    <3>1. phase = "stream" /\ Say(kind) /\ Quiet /\ Collect(kind) /\ P = "litellm"
      BY <2>1 DEF LiteLLMDelta, Streaming
    <3> QED BY <3>1, <1>0, <1>a, <1>c, DeltaSoFar
  <2>2. ASSUME NEW i \in DOMAIN answer.calls, LiteLLMFragment(i) PROVE Streamed'
    <3>1. phase = "stream" /\ Quiet
      BY <2>2 DEF LiteLLMFragment, Streaming
    <3> QED BY <2>2, <3>1, <1>0, <1>a, <1>c, FragmentSoFar
  <2>3. CASE LiteLLMReport
    <3>1. phase = "stream" /\ Quiet /\ Report /\ heard' = heard /\ P # "openai"
      BY <2>3 DEF LiteLLMReport, Streaming
    <3> QED BY <3>1, <1>0, <1>a, <1>c, ReportSoFar
  <2>4. CASE LiteLLMEnd
    BY <2>4, <1>0, LiteLLMEndAsSent DEF LiteLLMEnd, Streaming
  <2> QED BY <1>5, <2>1, <2>2, <2>3, <2>4 DEF LiteLLM
<1>6. CASE OpenAI
  <2>1. ASSUME NEW kind \in Kind, OpenAIDelta(kind) PROVE Streamed'
    <3>1. /\ phase = "stream" /\ Say(kind) /\ Quiet /\ acc' = acc /\ P = "openai"
          /\ 0 \notin sent.done
      BY <2>1 DEF OpenAIDelta, Streaming
    <3> QED BY <3>1, <1>0, <1>a, <1>c, DeltaSoFar
  <2>2. ASSUME NEW whole \in Either("bare"), OpenAIMessageDone(whole) PROVE Streamed'
    <3>0. whole \in BOOLEAN
      BY DEF Either
    <3>1. phase = "stream" /\ Quiet
      BY <2>2 DEF OpenAIMessageDone, Streaming
    <3> QED BY <2>2, <3>0, <3>1, <1>0, <1>a, <1>c, MessageDoneSoFar
  <2>3. ASSUME NEW i \in DOMAIN answer.calls, OpenAIArguments(i) PROVE Streamed'
    <3>1. phase = "stream" /\ Quiet
      BY <2>3 DEF OpenAIArguments, Streaming
    <3> QED BY <2>3, <3>1, <1>0, <1>a, <1>c, ArgumentsSoFar
  <2>4. ASSUME NEW i \in DOMAIN answer.calls, NEW whole \in Either("bare"),
               OpenAICallDone(i, whole)
        PROVE  Streamed'
    <3>0. whole \in BOOLEAN
      BY DEF Either
    <3>1. phase = "stream" /\ Quiet
      BY <2>4 DEF OpenAICallDone, Streaming
    <3> QED BY <2>4, <3>0, <3>1, <1>0, <1>a, <1>c, CallDoneSoFar
  <2>5. ASSUME NEW reports \in 0..load.reports, OpenAIEnd(reports) PROVE Streamed'
    <3>1. phase = "stream"
      BY <2>5 DEF OpenAIEnd, Streaming
    <3> QED BY <2>5, <3>1, <1>0, OpenAIEndAsSent
  <2> QED BY <1>6, <2>1, <2>2, <2>3, <2>4, <2>5 DEF OpenAI
<1>7. CASE Anthropic
  <2>1. ASSUME NEW kind \in Kind, AnthropicDelta(kind) PROVE Streamed'
    <3>1. phase = "stream" /\ Say(kind) /\ Quiet /\ acc' = acc /\ P = "anthropic"
      BY <2>1 DEF AnthropicDelta, Streaming
    <3> QED BY <3>1, <1>0, <1>a, <1>c, DeltaSoFar
  <2>2. ASSUME NEW i \in DOMAIN answer.calls, AnthropicBlock(i) PROVE Streamed'
    <3>1. phase = "stream" /\ Quiet
      BY <2>2 DEF AnthropicBlock, Streaming
    <3> QED BY <2>2, <3>1, <1>0, <1>a, <1>c, BlockSoFar
  <2>3. ASSUME NEW reports \in 0..load.reports, AnthropicEnd(reports) PROVE Streamed'
    <3>1. phase = "stream"
      BY <2>3 DEF AnthropicEnd, Streaming
    <3> QED BY <2>3, <3>1, <1>0, AnthropicEndAsSent
  <2> QED BY <1>7, <2>1, <2>2, <2>3 DEF Anthropic
<1>8. CASE Gemini \/ Qwen
  <2>1. ASSUME NEW kind \in Kind, GeminiDelta(kind) \/ QwenDelta(kind) PROVE Streamed'
    <3>1. /\ phase = "stream" /\ Say(kind) /\ Quiet /\ Collect(kind)
          /\ P \in {"google", "alibaba"}
      BY <2>1 DEF GeminiDelta, QwenDelta, Streaming
    <3> QED BY <3>1, <1>0, <1>a, <1>c, DeltaSoFar
  <2>2. ASSUME NEW i \in DOMAIN answer.calls, GeminiCall(i) \/ QwenCall(i) PROVE Streamed'
    <3>1. phase = "stream" /\ WholeCall(i) /\ P \in {"google", "alibaba"}
      BY <2>2 DEF GeminiCall, QwenCall, Streaming
    <3>2. Quiet
      BY <3>1 DEF WholeCall
    <3> QED BY <3>1, <3>2, <1>0, <1>a, <1>c, WholeCallSoFar
  <2>3. CASE GeminiReport \/ QwenReport
    <3>1. phase = "stream" /\ Quiet /\ Report /\ heard' = heard /\ P # "openai"
      BY <2>3 DEF GeminiReport, QwenReport, Streaming
    <3> QED BY <3>1, <1>0, <1>a, <1>c, ReportSoFar
  <2>4. CASE GeminiEnd \/ QwenEnd
    <3>1. /\ phase = "stream" /\ P \in {"google", "alibaba"} /\ sent' = sent
          /\ HandOver(acc.calls, acc.text, acc.usage)
      BY <2>4 DEF GeminiEnd, QwenEnd, Streaming
    <3> QED BY <3>1, <1>0, WholeEndAsSent
  <2> QED BY <1>8, <2>1, <2>2, <2>3, <2>4 DEF Gemini, Qwen
<1>9. CASE UNCHANGED vars
  <2>1. UNCHANGED <<load, provider, turn, step, phase, answer, sent, acc, heard>>
    BY <1>9 DEF vars, talk, stores
  <2>2. Quiet \/ phase # "stream"
    BY <1>9 DEF Quiet, vars, talk, stores
  <2>3. CASE phase = "stream"
    <3>1. SoFar
      BY <1>0, <2>3
    <3>2. TextSoFar'
      BY <3>1, <2>1, TextStays DEF SoFar
    <3>3. SoFar'
      BY <2>1, <2>2, <2>3, <3>1, <3>2, SoFarSame DEF SoFar, DoneSoFar, P
    <3> QED BY <3>3, <2>1, <2>3 DEF Streamed, AnswerAsSent
  <2>4. CASE phase # "stream"
    <3>1. P' = P /\ \A i : (SentWhole(i)' <=> SentWhole(i)) /\ WholeArgs(i)' = WholeArgs(i)
      BY <2>1 DEF SentWhole, WholeArgs, P
    <3>2. \A i : Came(i)' <=> Came(i)
      BY <2>1, <3>1 DEF Came
    <3>3. CallsWhole' <=> CallsWhole
      BY <2>1, <3>1, <3>2 DEF CallsWhole
    <3>4. TextKept' <=> TextKept
      BY <2>1, <3>1 DEF TextKept, SaidAs
    <3> QED BY <2>1, <2>4, <3>3, <3>4 DEF Streamed, AnswerAsSent
  <2> QED BY <2>3, <2>4
<1> QED BY <1>1, <1>2, <1>3, <1>4, <1>5, <1>6, <1>7, <1>8, <1>9 DEF Next, Step

\* Whatever a vendor sends, in pieces of any number and in any order its stream allows, the
\* message kept is what it said: the text, the calls with their own whole arguments, and the
\* last usage reported.
THEOREM AnswerAsSentHolds == Spec => []AnswerAsSent
<1>1. Init => Shape /\ Streamed
  BY InitShape DEF Init, Streamed, AnswerAsSent
<1>2. Shape /\ Streamed /\ [Next]_vars => Shape' /\ Streamed'
  BY NextShape, NextStreamed
<1>3. Shape /\ Streamed => AnswerAsSent
  BY DEF Streamed
<1> QED BY <1>1, <1>2, <1>3, PTL DEF Spec

-----------------------------------------------------------------------------
(* Calls and their results, among the messages and among the items.        *)

\* Messages of any turn.
Notes == [role : {"system", "user", "assistant", "tool"}, turn : Nat, step : Nat,
          ids : Seq(Id), names : Seq(Nat)]
\* A result of the k-th call of an answer.
Fits(a, k, r) ==
    /\ r.role = "tool" /\ r.turn = a.turn /\ r.step = a.step /\ 1 \in DOMAIN r.names
    /\ a.ids[k] \in {Blank, r.ids[1]} /\ a.names[k] = r.names[1]
\* Each call of an answer is followed, at its place, by its result.
Intact(q) ==
    \A i \in DOMAIN q : q[i].role = "assistant" =>
        /\ DOMAIN q[i].names = DOMAIN q[i].ids
        /\ \A k \in DOMAIN q[i].ids : i + k \in DOMAIN q /\ Fits(q[i], k, q[i + k])
\* The message at i stands where an answer before it has its results.
Owned(q, i) == \E j \in 1..(i - 1) : q[j].role = "assistant" /\ i - j \in DOMAIN q[j].ids
AllOwned(q) == \A i \in DOMAIN q : q[i].role = "tool" => Owned(q, i)
\* So does every result but those at the head.
Grouped(q) ==
    \A i \in DOMAIN q : q[i].role = "tool" =>
        Owned(q, i) \/ \A j \in 1..(i - 1) : q[j].turn = 0 \/ q[j].role = "tool"

LEMMA NoteFields ==
    ASSUME NEW q \in Seq(Notes), NEW i \in DOMAIN q
    PROVE  /\ q[i] \in Notes /\ q[i].turn \in Nat /\ q[i].step \in Nat
           /\ q[i].ids \in Seq(Id) /\ q[i].names \in Seq(Nat)
           /\ DOMAIN q[i].ids = 1..Len(q[i].ids) /\ DOMAIN q[i].ids \subseteq Nat \ {0}
           /\ q[i].role \in {"system", "user", "assistant", "tool"}
<1>1. q[i] \in Notes
  OBVIOUS
<1>2. /\ q[i].turn \in Nat /\ q[i].step \in Nat
      /\ q[i].ids \in Seq(Id) /\ q[i].names \in Seq(Nat)
      /\ q[i].role \in {"system", "user", "assistant", "tool"}
  BY <1>1 DEF Notes
<1> QED BY <1>1, <1>2

LEMMA IntactCat ==
    ASSUME NEW a \in Seq(Notes), NEW b \in Seq(Notes), Intact(a), Intact(b)
    PROVE  Intact(a \o b)
<1> DEFINE c == a \o b
<1>1. /\ DOMAIN c = 1..(Len(a) + Len(b)) /\ DOMAIN a = 1..Len(a) /\ DOMAIN b = 1..Len(b)
      /\ Len(a) \in Nat /\ Len(b) \in Nat
      /\ \A i \in 1..Len(a) : c[i] = a[i]
      /\ \A i \in 1..Len(b) : c[Len(a) + i] = b[i]
  BY CatElements
<1>2. \A i \in DOMAIN c : i \in 1..Len(a) \/ \E k \in 1..Len(b) : i = Len(a) + k
  BY CatIndex
<1> HIDE DEF c
<1> SUFFICES ASSUME NEW i \in DOMAIN c, c[i].role = "assistant"
             PROVE  /\ DOMAIN c[i].names = DOMAIN c[i].ids
                    /\ \A k \in DOMAIN c[i].ids : i + k \in DOMAIN c /\ Fits(c[i], k, c[i + k])
  BY DEF Intact, c
<1>3. CASE i \in 1..Len(a)
  <2>1. c[i] = a[i] /\ i \in DOMAIN a
    BY <1>1, <1>3
  <2>2. /\ DOMAIN a[i].names = DOMAIN a[i].ids
        /\ \A k \in DOMAIN a[i].ids : i + k \in DOMAIN a /\ Fits(a[i], k, a[i + k])
    BY <2>1 DEF Intact
  <2>3. \A k \in DOMAIN a[i].ids : i + k \in DOMAIN c /\ c[i + k] = a[i + k]
    BY <1>1, <2>2
  <2> QED BY <2>1, <2>2, <2>3
<1>4. ASSUME NEW l \in 1..Len(b), i = Len(a) + l
      PROVE  /\ DOMAIN c[i].names = DOMAIN c[i].ids
             /\ \A k \in DOMAIN c[i].ids : i + k \in DOMAIN c /\ Fits(c[i], k, c[i + k])
  <2>1. c[i] = b[l] /\ l \in DOMAIN b
    BY <1>1, <1>4
  <2>2. /\ DOMAIN b[l].names = DOMAIN b[l].ids
        /\ \A k \in DOMAIN b[l].ids : l + k \in DOMAIN b /\ Fits(b[l], k, b[l + k])
    BY <2>1 DEF Intact
  <2>3. ASSUME NEW k \in DOMAIN b[l].ids PROVE i + k \in DOMAIN c /\ c[i + k] = b[l + k]
    <3>1. l + k \in 1..Len(b)
      BY <1>1, <2>2
    <3>2. PICK x \in 1..Len(b) : x = l + k
      BY <3>1
    <3>3. c[Len(a) + x] = b[x] /\ Len(a) + x \in DOMAIN c
      BY <1>1
    <3>4. k \in Nat /\ l \in Nat
      BY <2>1, NoteFields
    <3>5. i + k = Len(a) + x
      BY <1>1, <1>4, <3>2, <3>4
    <3> QED BY <3>2, <3>3, <3>5
  <2> QED BY <2>1, <2>2, <2>3
<1> QED BY <1>2, <1>3, <1>4

\* What is owned in one of two lists in a row is owned in both together.
LEMMA OwnedCat ==
    ASSUME NEW a \in Seq(Notes), NEW b \in Seq(Notes)
    PROVE  /\ \A i \in 1..Len(a) : Owned(a, i) => Owned(a \o b, i)
           /\ \A i \in 1..Len(b) : Owned(b, i) => Owned(a \o b, Len(a) + i)
<1> DEFINE c == a \o b
<1>1. /\ DOMAIN a = 1..Len(a) /\ DOMAIN b = 1..Len(b) /\ Len(a) \in Nat /\ Len(b) \in Nat
      /\ \A i \in 1..Len(a) : c[i] = a[i]
      /\ \A i \in 1..Len(b) : c[Len(a) + i] = b[i]
  BY CatElements
<1> HIDE DEF c
<1>2. ASSUME NEW i \in 1..Len(a), Owned(a, i) PROVE Owned(c, i)
  <2>1. PICK j \in 1..(i - 1) : a[j].role = "assistant" /\ i - j \in DOMAIN a[j].ids
    BY <1>2 DEF Owned
  <2>2. c[j] = a[j] /\ c[i] = a[i]
    BY <1>1
  <2> QED BY <2>1, <2>2 DEF Owned
<1>3. ASSUME NEW i \in 1..Len(b), Owned(b, i) PROVE Owned(c, Len(a) + i)
  <2>1. PICK j \in 1..(i - 1) : b[j].role = "assistant" /\ i - j \in DOMAIN b[j].ids
    BY <1>3 DEF Owned
  <2>2. c[Len(a) + j] = b[j] /\ c[Len(a) + i] = b[i]
    BY <1>1
  <2>3. Len(a) + j \in 1..((Len(a) + i) - 1) /\ (Len(a) + i) - (Len(a) + j) = i - j
    BY <1>1
  <2> QED BY <2>1, <2>2, <2>3 DEF Owned
<1> QED BY <1>2, <1>3 DEF c

LEMMA AllOwnedCat ==
    ASSUME NEW a \in Seq(Notes), NEW b \in Seq(Notes), AllOwned(b)
    PROVE  /\ AllOwned(a) => AllOwned(a \o b)
           /\ Grouped(a) => Grouped(a \o b)
<1> DEFINE c == a \o b
<1>1. /\ DOMAIN c = 1..(Len(a) + Len(b)) /\ DOMAIN a = 1..Len(a) /\ DOMAIN b = 1..Len(b)
      /\ Len(a) \in Nat /\ Len(b) \in Nat
      /\ \A i \in 1..Len(a) : c[i] = a[i]
      /\ \A i \in 1..Len(b) : c[Len(a) + i] = b[i]
  BY CatElements
<1>2. \A i \in DOMAIN c : i \in 1..Len(a) \/ \E k \in 1..Len(b) : i = Len(a) + k
  BY CatIndex
<1>3. /\ \A i \in 1..Len(a) : Owned(a, i) => Owned(c, i)
      /\ \A i \in 1..Len(b) : Owned(b, i) => Owned(c, Len(a) + i)
  BY OwnedCat
<1> HIDE DEF c
<1>4. \A k \in 1..Len(b) : c[Len(a) + k].role = "tool" => Owned(c, Len(a) + k)
  BY <1>1, <1>3 DEF AllOwned
<1>5. ASSUME AllOwned(a) PROVE AllOwned(c)
  <2> SUFFICES ASSUME NEW i \in DOMAIN c, c[i].role = "tool" PROVE Owned(c, i)
    BY DEF AllOwned
  <2>1. CASE i \in 1..Len(a)
    BY <1>1, <1>3, <1>5, <2>1 DEF AllOwned
  <2> QED BY <1>2, <1>4, <2>1
<1>6. ASSUME Grouped(a) PROVE Grouped(c)
  <2> SUFFICES ASSUME NEW i \in DOMAIN c, c[i].role = "tool", ~Owned(c, i)
               PROVE  \A j \in 1..(i - 1) : c[j].turn = 0 \/ c[j].role = "tool"
    BY DEF Grouped
  <2>1. i \in 1..Len(a)
    BY <1>2, <1>4
  <2>2. a[i].role = "tool" /\ ~Owned(a, i) /\ i \in DOMAIN a
    BY <1>1, <1>3, <2>1
  <2>3. \A j \in 1..(i - 1) : a[j].turn = 0 \/ a[j].role = "tool"
    BY <1>6, <2>2 DEF Grouped
  <2>4. \A j \in 1..(i - 1) : c[j] = a[j]
    BY <1>1, <2>1
  <2> QED BY <2>3, <2>4
<1> QED BY <1>5, <1>6 DEF c

\* A head of no turn changes nothing.
LEMMA GroupedHead ==
    ASSUME NEW a \in Seq(Notes), NEW b \in Seq(Notes), Grouped(b),
           \A i \in 1..Len(a) : a[i].turn = 0 /\ a[i].role # "tool"
    PROVE  Grouped(a \o b)
<1> DEFINE c == a \o b
<1>1. /\ DOMAIN c = 1..(Len(a) + Len(b)) /\ DOMAIN a = 1..Len(a) /\ DOMAIN b = 1..Len(b)
      /\ Len(a) \in Nat /\ Len(b) \in Nat
      /\ \A i \in 1..Len(a) : c[i] = a[i]
      /\ \A i \in 1..Len(b) : c[Len(a) + i] = b[i]
  BY CatElements
<1>2. \A i \in DOMAIN c : i \in 1..Len(a) \/ \E k \in 1..Len(b) : i = Len(a) + k
  BY CatIndex
<1>3. \A i \in 1..Len(b) : Owned(b, i) => Owned(c, Len(a) + i)
  BY OwnedCat
<1> HIDE DEF c
<1> SUFFICES ASSUME NEW i \in DOMAIN c, c[i].role = "tool", ~Owned(c, i),
                    NEW j \in 1..(i - 1)
             PROVE  c[j].turn = 0 \/ c[j].role = "tool"
  BY DEF Grouped, c
<1>4. PICK k \in 1..Len(b) : i = Len(a) + k
  BY <1>1, <1>2
<1>5. \A l \in 1..(k - 1) : b[l].turn = 0 \/ b[l].role = "tool"
  BY <1>1, <1>3, <1>4 DEF Grouped
<1>6. CASE j \in 1..Len(a)
  BY <1>1, <1>6
<1>7. CASE j \notin 1..Len(a)
  <2>1. j - Len(a) \in 1..(k - 1) /\ j - Len(a) \in 1..Len(b) /\ j = Len(a) + (j - Len(a))
    BY <1>1, <1>4, <1>7
  <2>2. PICK l \in 1..(k - 1) : l \in 1..Len(b) /\ j = Len(a) + l
    BY <2>1
  <2> QED BY <1>1, <1>5, <2>2
<1> QED BY <1>6, <1>7

\* What LTRIM leaves is intact, and grouped as before.
LEMMA NewestIntact ==
    ASSUME NEW q \in Seq(Notes), NEW n \in Nat, Intact(q)
    PROVE  /\ Newest(q, n) \in Seq(Notes) /\ Intact(Newest(q, n))
           /\ Grouped(q) => Grouped(Newest(q, n))
<1> DEFINE d == Dropped(q, n)
<1>1. /\ d \in 0..Len(q) /\ Newest(q, n) \in Seq(Notes) /\ Len(Newest(q, n)) = Len(q) - d
      /\ \A i \in 1..(Len(q) - d) : Newest(q, n)[i] = q[d + i]
  BY NewestIs
<1> DEFINE r == Newest(q, n)
<1> HIDE DEF r, d
<1>2. /\ d \in Nat /\ d <= Len(q) /\ r \in Seq(Notes)
      /\ DOMAIN r = 1..(Len(q) - d) /\ DOMAIN q = 1..Len(q) /\ Len(q) \in Nat
      /\ \A i \in 1..(Len(q) - d) : r[i] = q[d + i]
      /\ \A i \in 1..(Len(q) - d) : d + i \in DOMAIN q
  BY <1>1 DEF r
<1>3. Intact(r)
  <2> SUFFICES ASSUME NEW i \in DOMAIN r, r[i].role = "assistant"
               PROVE  /\ DOMAIN r[i].names = DOMAIN r[i].ids
                      /\ \A k \in DOMAIN r[i].ids : i + k \in DOMAIN r /\ Fits(r[i], k, r[i + k])
    BY DEF Intact
  <2>1. r[i] = q[d + i] /\ d + i \in DOMAIN q
    BY <1>2
  <2>2. PICK x \in DOMAIN q : x = d + i
    BY <2>1
  <2>3. /\ DOMAIN q[x].names = DOMAIN q[x].ids
        /\ \A k \in DOMAIN q[x].ids : x + k \in DOMAIN q /\ Fits(q[x], k, q[x + k])
    BY <2>1, <2>2 DEF Intact
  <2>4. ASSUME NEW k \in DOMAIN q[x].ids PROVE i + k \in DOMAIN r /\ r[i + k] = q[x + k]
    <3>1. k \in Nat /\ k # 0 /\ x + k \in 1..Len(q)
      BY <1>2, <2>3, NoteFields
    <3>2. i + k \in 1..(Len(q) - d) /\ d + (i + k) = x + k
      BY <1>2, <2>2, <3>1
    <3> QED BY <1>2, <3>2
  <2> QED BY <2>1, <2>2, <2>3, <2>4
<1>4. ASSUME Grouped(q) PROVE Grouped(r)
  <2> SUFFICES ASSUME NEW i \in DOMAIN r, r[i].role = "tool"
               PROVE  Owned(r, i) \/ \A j \in 1..(i - 1) : r[j].turn = 0 \/ r[j].role = "tool"
    BY DEF Grouped
  <2>1. r[i] = q[d + i] /\ d + i \in DOMAIN q
    BY <1>2
  <2>2. PICK x \in DOMAIN q : x = d + i
    BY <2>1
  <2>3. \A j \in 1..(i - 1) : r[j] = q[d + j] /\ d + j \in 1..(x - 1)
    BY <1>2, <2>2
  <2>4. CASE \A j \in 1..(x - 1) : q[j].turn = 0 \/ q[j].role = "tool"
    BY <2>3, <2>4
  <2>5. CASE Owned(q, x)
    <3>1. PICK j \in 1..(x - 1) : q[j].role = "assistant" /\ x - j \in DOMAIN q[j].ids
      BY <2>5 DEF Owned
    <3>2. CASE j > d
      <4>1. j - d \in 1..(i - 1) /\ d + (j - d) = j /\ i - (j - d) = x - j
        BY <1>2, <2>2, <3>2
      <4>2. PICK l \in 1..(i - 1) : d + l = j /\ i - l = x - j
        BY <4>1
      <4>3. r[l] = q[j] /\ r[i] = q[x]
        BY <2>1, <2>2, <2>3, <4>2
      <4> QED BY <3>1, <4>2, <4>3 DEF Owned
    <3>3. CASE ~(j > d)
      <4> SUFFICES ASSUME NEW l \in 1..(i - 1) PROVE r[l].role = "tool"
        OBVIOUS
      <4>1. j \in DOMAIN q
        BY <1>2
      <4>2. DOMAIN q[j].ids = 1..Len(q[j].ids) /\ Len(q[j].ids) \in Nat
        BY <4>1, NoteFields
      <4>3. (d + l) - j \in 1..Len(q[j].ids) /\ j + ((d + l) - j) = d + l
        BY <1>2, <2>2, <3>1, <3>3, <4>2
      <4>4. PICK k \in DOMAIN q[j].ids : j + k = d + l
        BY <4>2, <4>3
      <4>5. q[j + k].role = "tool"
        BY <3>1, <4>1 DEF Intact, Fits
      <4> QED BY <2>3, <4>4, <4>5
    <3> QED BY <3>2, <3>3
  <2> QED BY <2>1, <2>2, <2>4, <2>5, <1>4 DEF Grouped
<1> QED BY <1>1, <1>3, <1>4 DEF r

-----------------------------------------------------------------------------
(* The items a vendor is sent.                                             *)

\* The first n items: the calls of a native answer are followed by their results.
AnsweredUpTo(c, n) ==
    \A i \in 1..n : c[i].kind = "native" =>
        \A k \in DOMAIN c[i].keys :
            /\ i + k \in DOMAIN c /\ c[i + k].kind = "result"
            /\ c[i].keys[k] \in {Blank, c[i + k].keys[1]}
\* Each result answers a call before it, heads the items, or is of another provider's turn.
ResultOf(c, i) ==
    \E j \in 1..(i - 1) :
        /\ c[j].kind = "native" /\ i - j \in DOMAIN c[j].keys
        /\ c[j].turn = c[i].turn /\ c[j].step = c[i].step
Explained(c, p, who) ==
    \A i \in DOMAIN c : c[i].kind = "result" =>
        \/ ResultOf(c, i)
        \/ \A j \in 1..(i - 1) : c[j].turn = 0 \/ c[j].kind = "result"
        \/ c[i].turn # 0 /\ who[c[i].turn] # p

LEMMA MessagesAreNotes ==
    ASSUME Shape
    PROVE  /\ Messages(turn) \subseteq Notes /\ turn \in Nat /\ load.steps \in Nat
           /\ \A q \in Seq(Messages(turn)) : q \in Seq(Notes)
           /\ \A m \in Messages(turn) : m.role = "assistant" => m.turn # 0 /\ m.step # 0
<1>1. turn \in Nat /\ load.steps \in Nat
  BY ShapeFields
<1>2. Messages(turn) \subseteq Notes
  BY <1>1 DEF Messages, Notes
<1>3. \A m \in Messages(turn) : m.role = "assistant" => m.turn # 0 /\ m.step # 0
  BY DEF Messages
<1> QED BY <1>1, <1>2, <1>3

\* What a formatter makes of a message.
LEMMA ItemForFields ==
    ASSUME NEW p, NEW m \in Notes
    PROVE  /\ ItemFor(p, m).turn = m.turn /\ ItemFor(p, m).step = m.step
           /\ ItemFor(p, m).kind = "native" <=> Own(p, m)
           /\ ItemFor(p, m).kind = "result" <=> m.role = "tool"
           /\ Own(p, m) \/ m.role = "tool" => ItemFor(p, m).keys = KeysFor(p, m)
           /\ ~Own(p, m) /\ m.role # "tool" => ItemFor(p, m).keys = <<>>
<1>1. m.role \in {"system", "user", "assistant", "tool"}
  BY DEF Notes
<1>2. Own(p, m) => m.role = "assistant"
  BY DEF Own
<1> QED BY <1>1, <1>2 DEF ItemFor, Item

LEMMA KeysFit ==
    ASSUME NEW p, NEW a \in Notes, NEW r \in Notes, NEW k \in DOMAIN a.ids,
           DOMAIN a.names = DOMAIN a.ids, Fits(a, k, r)
    PROVE  KeysFor(p, a)[k] \in {Blank, KeysFor(p, r)[1]}
<1>1. CASE p = "google"
  BY <1>1 DEF KeysFor, Fits
<1>2. CASE p # "google"
  BY <1>2 DEF KeysFor, Fits
<1> QED BY <1>1, <1>2

\* A list of messages that is intact and grouped is read as such.
LEMMA ListRead ==
    ASSUME Shape, NEW p, NEW q \in Seq(Messages(turn)), Intact(q), Grouped(q), NEW c,
           c = [i \in DOMAIN q |-> ItemFor(p, q[i])]
    PROVE  AnsweredUpTo(c, Len(c)) /\ Explained(c, p, provider)
<1>1. q \in Seq(Notes) /\ DOMAIN q = 1..Len(q) /\ Len(q) \in Nat
  BY MessagesAreNotes
<1>2. /\ DOMAIN c = 1..Len(q) /\ Len(c) = Len(q)
      /\ \A i \in 1..Len(q) : c[i] = ItemFor(p, q[i]) /\ q[i] \in Notes
  BY <1>1
<1>3. ASSUME NEW i \in 1..Len(q)
      PROVE  /\ c[i].turn = q[i].turn /\ c[i].step = q[i].step
             /\ c[i].kind = "native" <=> Own(p, q[i])
             /\ c[i].kind = "result" <=> q[i].role = "tool"
             /\ Own(p, q[i]) \/ q[i].role = "tool" => c[i].keys = KeysFor(p, q[i])
  BY <1>2, ItemForFields
<1>4. ASSUME NEW i \in 1..Len(q), q[i].role = "assistant"
      PROVE  /\ DOMAIN KeysFor(p, q[i]) = DOMAIN q[i].ids
             /\ DOMAIN q[i].names = DOMAIN q[i].ids
             /\ \A k \in DOMAIN q[i].ids : i + k \in 1..Len(q) /\ Fits(q[i], k, q[i + k])
  BY <1>1, <1>4 DEF Intact, KeysFor
<1>5. AnsweredUpTo(c, Len(c))
  <2> SUFFICES ASSUME NEW i \in 1..Len(q), c[i].kind = "native", NEW k \in DOMAIN c[i].keys
               PROVE  /\ i + k \in DOMAIN c /\ c[i + k].kind = "result"
                      /\ c[i].keys[k] \in {Blank, c[i + k].keys[1]}
    BY <1>2 DEF AnsweredUpTo
  <2>1. Own(p, q[i]) /\ c[i].keys = KeysFor(p, q[i]) /\ q[i].role = "assistant"
    BY <1>3 DEF Own
  <2>2. k \in DOMAIN q[i].ids /\ i + k \in 1..Len(q) /\ Fits(q[i], k, q[i + k])
        /\ DOMAIN q[i].names = DOMAIN q[i].ids
    BY <1>4, <2>1
  <2>3. PICK x \in 1..Len(q) : x = i + k
    BY <2>2
  <2>4. q[x].role = "tool" /\ Fits(q[i], k, q[x])
    BY <2>2, <2>3 DEF Fits
  <2>5. c[x].kind = "result" /\ c[x].keys = KeysFor(p, q[x]) /\ x \in DOMAIN c
    BY <1>2, <1>3, <2>4
  <2>6. q[i] \in Notes /\ q[x] \in Notes
    BY <1>2
  <2>7. KeysFor(p, q[i])[k] \in {Blank, KeysFor(p, q[x])[1]}
    BY <2>2, <2>4, <2>6, KeysFit
  <2> QED BY <2>1, <2>3, <2>5, <2>7
<1>6. Explained(c, p, provider)
  <2> SUFFICES ASSUME NEW i \in 1..Len(q), c[i].kind = "result"
               PROVE  \/ ResultOf(c, i)
                      \/ \A j \in 1..(i - 1) : c[j].turn = 0 \/ c[j].kind = "result"
                      \/ c[i].turn # 0 /\ provider[c[i].turn] # p
    BY <1>2 DEF Explained
  <2>1. q[i].role = "tool" /\ \A j \in 1..(i - 1) : j \in 1..Len(q)
    BY <1>1, <1>3
  <2>2. CASE \A j \in 1..(i - 1) : q[j].turn = 0 \/ q[j].role = "tool"
    BY <1>3, <2>1, <2>2
  <2>3. CASE Owned(q, i)
    <3>1. PICK j \in 1..(i - 1) : q[j].role = "assistant" /\ i - j \in DOMAIN q[j].ids
      BY <2>3 DEF Owned
    <3>2. j \in 1..Len(q) /\ j + (i - j) = i
      BY <1>1, <2>1
    <3>3. Fits(q[j], i - j, q[i]) /\ i - j \in DOMAIN KeysFor(p, q[j])
      BY <1>4, <3>1, <3>2
    <3>4. q[j].turn = q[i].turn /\ q[j].step = q[i].step
      BY <3>3 DEF Fits
    <3>5. CASE Own(p, q[j])
      <4>1. /\ c[j].kind = "native" /\ i - j \in DOMAIN c[j].keys
            /\ c[j].turn = c[i].turn /\ c[j].step = c[i].step
        BY <1>3, <3>2, <3>3, <3>4, <3>5
      <4> QED BY <4>1 DEF ResultOf
    <3>6. CASE ~Own(p, q[j])
      <4>1. q[j] \in Messages(turn)
        BY <1>1, <3>2
      <4>2. q[j].turn # 0
        BY <3>1, <4>1, MessagesAreNotes
      <4>3. provider[q[j].turn] # p
        BY <3>1, <3>6, <4>2 DEF Own, Made
      <4>4. c[i].turn = q[j].turn
        BY <1>3, <3>4
      <4> QED BY <4>2, <4>3, <4>4
    <3> QED BY <3>5, <3>6
  <2> QED BY <1>1, <2>1, <2>2, <2>3 DEF Grouped
<1> QED BY <1>5, <1>6

\* The messages a formatter looks at.
ShownTo(p, q) == At(q, {i \in DOMAIN q : p \in Asides => q[i].role # "system"})

LEMMA FormattedIs ==
    ASSUME NEW p, NEW q
    PROVE  Formatted(p, q) = [i \in DOMAIN ShownTo(p, q) |-> ItemFor(p, ShownTo(p, q)[i])]
  BY DEF Formatted, ShownTo

\* It looks at all of them where there is no message of the system.
LEMMA ShownAll ==
    ASSUME NEW p, NEW q \in Seq(Notes),
           p \in Asides => \A i \in 1..Len(q) : q[i].role # "system"
    PROVE  ShownTo(p, q) = q
<1> DEFINE I == {i \in DOMAIN q : p \in Asides => q[i].role # "system"}
<1>1. 1..Len(q) \subseteq I
  OBVIOUS
<1>2. At(q, I) = q
  <2> HIDE DEF I
  <2> QED BY <1>1, AtAll
<1> QED BY <1>2 DEF ShownTo

\* Neither history nor record hold a message of the system or of no turn.
Told(q) == \A i \in DOMAIN q : q[i].role # "system" /\ q[i].turn # 0
\* The prompt of a conversation.
Prompt(q, body) == q = <<System>> \o body \/ q = <<System>> \o (<<Summary>> \o body)

LEMMA HeadNotes ==
    ASSUME Shape
    PROVE  /\ <<System>> \in Seq(Messages(turn)) /\ <<Summary>> \in Seq(Messages(turn))
           /\ <<System>> \in Seq(Notes) /\ <<Summary>> \in Seq(Notes)
           /\ System.turn = 0 /\ System.role = "system"
           /\ Summary.turn = 0 /\ Summary.role = "user"
<1>1. turn \in Nat /\ load.steps \in Nat
  BY ShapeFields
<1>2. 0 \in 0..turn /\ 0 \in 0..load.steps
  BY <1>1
<1>3. System \in Messages(turn) /\ Summary \in Messages(turn)
  BY <1>2 DEF Messages, System, Summary, Message, Id
<1>4. System \in Notes /\ Summary \in Notes
  BY <1>3, MessagesAreNotes
<1> QED BY <1>3, <1>4 DEF System, Summary, Message

\* After one message that is no answer and no result a list stays as it was.
LEMMA HeadIntact ==
    ASSUME NEW m \in Notes, m.turn = 0, m.role = "system" \/ m.role = "user",
           NEW q \in Seq(Notes), Intact(q), Grouped(q)
    PROVE  Intact(<<m>> \o q) /\ Grouped(<<m>> \o q)
<1>1. <<m>> \in Seq(Notes) /\ Len(<<m>>) = 1 /\ DOMAIN <<m>> = 1..1
      /\ \A i \in 1..Len(<<m>>) : <<m>>[i] = m
  OBVIOUS
<1>2. \A i \in DOMAIN <<m>> : <<m>>[i] = m
  BY <1>1
<1>3. Intact(<<m>>)
  BY <1>2 DEF Intact
<1>4. Intact(<<m>> \o q)
  BY <1>1, <1>3, IntactCat
<1>5. Grouped(<<m>> \o q)
  BY <1>1, GroupedHead
<1> QED BY <1>4, <1>5

\* The messages looked at, of the prompt of an intact conversation.
LEMMA PromptShown ==
    ASSUME Shape, NEW p, NEW body \in Seq(Messages(turn)), Intact(body), Grouped(body),
           Told(body), NEW q, Prompt(q, body)
    PROVE  /\ q \in Seq(Messages(turn)) /\ Intact(q) /\ Grouped(q)
           /\ ShownTo(p, q) \in Seq(Messages(turn))
           /\ Intact(ShownTo(p, q)) /\ Grouped(ShownTo(p, q))
           /\ q # <<>> /\ q[1] = System
<1>1. body \in Seq(Notes)
  BY MessagesAreNotes
<1>2. PICK rest : rest \in {body, <<Summary>> \o body} /\ q = <<System>> \o rest
  BY DEF Prompt
<1>3. System \in Notes /\ Summary \in Notes
  BY HeadNotes
<1>4. /\ <<Summary>> \o body \in Seq(Messages(turn)) /\ Intact(<<Summary>> \o body)
      /\ Grouped(<<Summary>> \o body)
  <2>1. <<Summary>> \o body \in Seq(Messages(turn))
    BY HeadNotes
  <2> QED BY <2>1, <1>1, <1>3, HeadNotes, HeadIntact
<1>5. \A i \in 1..Len(<<Summary>> \o body) : (<<Summary>> \o body)[i].role # "system"
  <2> SUFFICES ASSUME NEW i \in 1..Len(<<Summary>> \o body)
               PROVE  (<<Summary>> \o body)[i].role # "system"
    OBVIOUS
  <2>1. <<Summary>> \in Seq(Notes) /\ Len(<<Summary>>) = 1 /\ <<Summary>>[1] = Summary
    BY HeadNotes
  <2>2. i = 1 \/ \E k \in 1..Len(body) : i = 1 + k
    <3>1. i \in DOMAIN (<<Summary>> \o body)
      BY <1>1, <2>1
    <3>2. i \in 1..1 \/ \E k \in 1..Len(body) : i = Len(<<Summary>>) + k
      BY <1>1, <2>1, <3>1, CatIndex
    <3> QED BY <2>1, <3>2
  <2>3. /\ (<<Summary>> \o body)[1] = Summary
        /\ \A k \in 1..Len(body) : (<<Summary>> \o body)[1 + k] = body[k] /\ k \in DOMAIN body
    BY <1>1, <2>1
  <2> QED BY <2>2, <2>3, HeadNotes DEF Told
<1>6. /\ rest \in Seq(Messages(turn)) /\ rest \in Seq(Notes) /\ Intact(rest) /\ Grouped(rest)
      /\ \A i \in 1..Len(rest) : rest[i].role # "system"
  <2>1. CASE rest = body
    <3>1. \A i \in 1..Len(body) : i \in DOMAIN body
      OBVIOUS
    <3> QED BY <2>1, <3>1, <1>1 DEF Told
  <2>2. CASE rest = <<Summary>> \o body
    BY <2>2, <1>4, <1>5, MessagesAreNotes
  <2> QED BY <1>2, <2>1, <2>2
<1>7. q \in Seq(Messages(turn)) /\ q \in Seq(Notes) /\ Intact(q) /\ Grouped(q)
  BY <1>2, <1>3, <1>6, HeadNotes, HeadIntact, MessagesAreNotes
<1>8. CASE p \in Asides
  <2> DEFINE I == {i \in DOMAIN q : p \in Asides => q[i].role # "system"}
  <2>1. DOMAIN q = 1..Len(q) /\ Len(q) = 1 + Len(rest) /\ Len(rest) \in Nat
        /\ q[1] = System /\ \A i \in 1..Len(rest) : q[1 + i] = rest[i]
    BY <1>2, <1>6, HeadNotes
  <2>2. \A i \in 1..Len(<<System>>) : i \notin I
    BY <1>8, <2>1, HeadNotes
  <2>3. \A i \in 1..Len(rest) : Len(<<System>>) + i \in I <=> i \in Nat
    BY <1>6, <2>1
  <2>4. At(<<System>> \o rest, I) = At(rest, Nat)
    <3> HIDE DEF I
    <3>1. <<System>> \in Seq(Notes) /\ rest \in Seq(Notes)
      BY <1>6, HeadNotes
    <3> DEFINE f == <<System>>
    <3> HIDE DEF f
    <3>2. f \in Seq(Notes) /\ \A i \in 1..Len(f) : i \notin I
      BY <3>1, <2>2 DEF f
    <3>3. \A i \in 1..Len(rest) : Len(f) + i \in I <=> i \in Nat
      BY <2>3 DEF f
    <3>4. At(f \o rest, I) = At(rest, Nat)
      BY <3>1, <3>2, <3>3, AtSkip
    <3> QED BY <3>4 DEF f
  <2>5. At(rest, Nat) = rest
    <3>1. 1..Len(rest) \subseteq Nat
      OBVIOUS
    <3> QED BY <1>6, <3>1, AtAll
  <2>6. ShownTo(p, q) = rest
    BY <1>2, <2>4, <2>5 DEF ShownTo
  <2> QED BY <1>6, <1>7, <2>1, <2>6
<1>9. CASE p \notin Asides
  <2>1. ShownTo(p, q) = q
    BY <1>7, <1>9, ShownAll
  <2>2. q # <<>> /\ q[1] = System
    BY <1>2, <1>6, HeadNotes
  <2> QED BY <1>7, <2>1, <2>2
<1> QED BY <1>8, <1>9

\* A conversation replayed as a whole.
LEMMA PromptRead ==
    ASSUME Shape, NEW p, NEW body \in Seq(Messages(turn)), Intact(body), Grouped(body),
           Told(body), NEW q, Prompt(q, body)
    PROVE  /\ AnsweredUpTo(Formatted(p, q), Len(Formatted(p, q)))
           /\ Explained(Formatted(p, q), p, provider)
<1>1. /\ ShownTo(p, q) \in Seq(Messages(turn))
      /\ Intact(ShownTo(p, q)) /\ Grouped(ShownTo(p, q))
  BY PromptShown
<1>2. Formatted(p, q) = [i \in DOMAIN ShownTo(p, q) |-> ItemFor(p, ShownTo(p, q)[i])]
  BY FormattedIs
<1> QED BY <1>1, <1>2, ListRead

-----------------------------------------------------------------------------
(* What OpenAI is sent after a response it remembers.                      *)

\* The results sent are those of the last response, at their places, and later ones.
LEMMA OutputsAre ==
    ASSUME Shape, NEW q \in Seq(Messages(turn)), Intact(q), NEW l \in 1..Len(q),
           l = LastOwn("openai", q), q[l].role = "assistant"
    PROVE  /\ Outputs(q) \in Seq(Messages(turn))
           /\ \A k \in DOMAIN q[l].ids :
                 k \in DOMAIN Outputs(q) /\ Outputs(q)[k] = q[l + k] /\ l + k \in 1..Len(q)
           /\ \A k \in DOMAIN Outputs(q) :
                 /\ Outputs(q)[k].role = "tool"
                 /\ \/ k \in DOMAIN q[l].ids
                    \/ \E x \in 1..Len(q) : /\ x > l + Len(q[l].ids) /\ x \in Nat
                                            /\ q[x].role = "tool" /\ Outputs(q)[k] = q[x]
<1> DEFINE I == {i \in (l + 1)..Len(q) : q[i].role = "tool"}
           n == Len(q[l].ids)
           a == FirstOf(q, l)
           r == RestOf(q, l)
           b == FirstOf(r, n)
           c == RestOf(r, n)
           K == {k \in Nat : l + k \in I}
           J == {k \in Nat : n + k \in K}
<1>1. q \in Seq(Notes) /\ l \in DOMAIN q /\ l \in Nat /\ Len(q) \in Nat /\ l <= Len(q) /\ l # 0
  BY MessagesAreNotes
<1>2. n \in Nat /\ DOMAIN q[l].ids = 1..n
  BY <1>1, NoteFields
<1>3. \A k \in 1..n : l + k \in 1..Len(q) /\ q[l + k].role = "tool"
  BY <1>1, <1>2 DEF Intact, Fits
<1>4. l + n <= Len(q)
  <2>1. CASE n = 0
    BY <1>1, <2>1
  <2>2. CASE n # 0
    <3>1. n \in 1..n
      BY <1>2, <2>2
    <3> HIDE DEF n
    <3> QED BY <1>3, <3>1
  <2> QED BY <2>1, <2>2
<1>5. Outputs(q) = At(q, I)
  BY <1>1 DEF Outputs
<1> HIDE DEF n
<1>6. /\ a \in Seq(Notes) /\ r \in Seq(Notes) /\ Len(a) = l /\ Len(r) = Len(q) - l
      /\ \A i \in 1..(Len(q) - l) : r[i] = q[l + i]
      /\ q = a \o r
  <2>1. l \in 0..Len(q)
    BY <1>1
  <2>2. /\ FirstOf(q, l) \in Seq(Notes) /\ RestOf(q, l) \in Seq(Notes)
        /\ Len(FirstOf(q, l)) = l /\ Len(RestOf(q, l)) = Len(q) - l
        /\ \A i \in 1..(Len(q) - l) : RestOf(q, l)[i] = q[l + i]
        /\ q = FirstOf(q, l) \o RestOf(q, l)
    BY ONLY <1>1, <2>1, CutInTwo
  <2> QED BY <2>2
<1> HIDE DEF a, r
<1>7. /\ b \in Seq(Notes) /\ c \in Seq(Notes) /\ Len(b) = n /\ Len(c) = Len(r) - n
      /\ \A i \in 1..n : b[i] = r[i]
      /\ \A i \in 1..(Len(r) - n) : c[i] = r[n + i]
      /\ r = b \o c
  <2>1. n \in 0..Len(r)
    BY <1>1, <1>2, <1>4, <1>6
  <2> QED BY <1>6, <2>1, CutInTwo
<1> HIDE DEF b, c
<1>8. At(q, I) = At(r, K)
  <2>1. /\ \A i \in 1..Len(a) : i \notin I
        /\ \A i \in 1..Len(r) : l + i \in I <=> i \in K
    BY <1>1, <1>6
  <2>2. At(a \o r, I) = At(r, K)
    <3> HIDE DEF I, K
    <3>1. a \in Seq(Notes) /\ r \in Seq(Notes)
      BY <1>6
    <3>2. \A i \in 1..Len(a) : i \notin I
      BY <2>1
    <3>3. \A i \in 1..Len(r) : Len(a) + i \in I <=> i \in K
      BY <1>6, <2>1
    <3> QED BY ONLY <3>1, <3>2, <3>3, AtSkip
  <2> QED BY <1>6, <2>2
<1>9. At(r, K) = b \o At(c, J)
  <2>1. /\ \A i \in 1..Len(b) : i \in K
        /\ \A i \in 1..Len(c) : Len(b) + i \in K <=> i \in J
    <3>1. \A i \in 1..n : i \in Nat /\ l + i \in (l + 1)..Len(q)
      BY <1>1, <1>2, <1>4
    <3>2. \A i \in 1..n : i \in K
      BY <1>3, <3>1
    <3>3. \A i \in 1..Len(c) : i \in Nat
      BY <1>7
    <3> HIDE DEF K
    <3> QED BY <1>7, <3>2, <3>3
  <2>2. At(b \o c, K) = b \o At(c, J)
    <3> HIDE DEF K, J
    <3>1. b \in Seq(Notes) /\ c \in Seq(Notes)
      BY <1>7
    <3>2. \A i \in 1..Len(b) : i \in K
      BY <2>1
    <3>3. \A i \in 1..Len(c) : Len(b) + i \in K <=> i \in J
      BY <2>1
    <3> QED BY ONLY <3>1, <3>2, <3>3, AtTake
  <2> QED BY <1>7, <2>2
<1> DEFINE o == Outputs(q)
           e == At(c, J)
<1>10. o = b \o e /\ o \in Seq(Messages(turn))
  BY <1>5, <1>8, <1>9, OutputsType
<1>11. /\ e \in Seq(Notes)
       /\ \A k \in DOMAIN e : \E i \in DOMAIN c : i \in J /\ e[k] = c[i]
  <2> HIDE DEF J
  <2>1. At(c, J) \in Seq(Notes)
    BY ONLY <1>7, AtElements
  <2>2. \A k \in DOMAIN At(c, J) : \E i \in DOMAIN c : i \in J /\ At(c, J)[k] = c[i]
    BY ONLY <1>7, AtSource
  <2> QED BY <2>1, <2>2
<1>12. ASSUME NEW k \in DOMAIN e
       PROVE  \E x \in 1..Len(q) : /\ x > l + n /\ x \in Nat
                                   /\ q[x].role = "tool" /\ e[k] = q[x]
  <2>1. PICK i \in DOMAIN c : i \in J /\ e[k] = c[i]
    BY <1>11
  <2>2. i \in 1..(Len(r) - n) /\ l + (n + i) \in I
    BY <1>7, <2>1
  <2>3. n + i \in 1..(Len(q) - l) /\ l + (n + i) \in 1..Len(q) /\ l + (n + i) > l + n
        /\ l + (n + i) \in Nat
    BY <1>1, <1>2, <1>6, <2>2
  <2>4. c[i] = q[l + (n + i)]
    BY <1>6, <1>7, <2>2, <2>3
  <2>5. q[l + (n + i)].role = "tool"
    BY <2>2
  <2> QED BY <2>1, <2>3, <2>4, <2>5
<1> HIDE DEF e, o, I, J, K
<1>13. /\ DOMAIN o = 1..(n + Len(e)) /\ Len(e) \in Nat
       /\ \A k \in 1..n : o[k] = b[k]
       /\ \A k \in 1..Len(e) : o[n + k] = e[k] /\ k \in DOMAIN e
  <2>1. /\ DOMAIN (b \o e) = 1..(Len(b) + Len(e)) /\ Len(e) \in Nat /\ DOMAIN e = 1..Len(e)
        /\ \A k \in 1..Len(b) : (b \o e)[k] = b[k]
        /\ \A k \in 1..Len(e) : (b \o e)[Len(b) + k] = e[k]
    <3>1. b \in Seq(Notes) /\ e \in Seq(Notes)
      BY <1>7, <1>11
    <3> QED BY ONLY <3>1, CatElements
  <2> QED BY <1>7, <1>10, <2>1
<1>14. \A k \in 1..n : k \in DOMAIN o /\ o[k] = q[l + k] /\ l + k \in 1..Len(q)
                       /\ q[l + k].role = "tool"
  <2>1. \A k \in 1..n : k \in 1..(Len(q) - l) /\ k \in 1..(n + Len(e))
    BY <1>1, <1>2, <1>4, <1>13
  <2> QED BY <2>1, <1>3, <1>6, <1>7, <1>13
<1>15. ASSUME NEW k \in DOMAIN o, k \notin 1..n
       PROVE  \E x \in 1..Len(q) : /\ x > l + n /\ x \in Nat
                                   /\ q[x].role = "tool" /\ o[k] = q[x]
  <2>1. k - n \in 1..Len(e) /\ n + (k - n) = k
    BY <1>2, <1>13, <1>15
  <2>2. PICK j \in 1..Len(e) : n + j = k
    BY <2>1
  <2>3. o[k] = e[j] /\ j \in DOMAIN e
    BY <1>13, <2>2
  <2> QED BY <1>12, <2>3
<1>16. \A k \in DOMAIN o : o[k].role = "tool"
  BY <1>14, <1>15
<1> QED BY <1>2, <1>10, <1>14, <1>15, <1>16 DEF o, n

\* What is remembered, continued with the results after it.
LEMMA ContinuedRead ==
    ASSUME Shape, NEW q \in Seq(Messages(turn)), Intact(q), Grouped(q),
           NEW l \in 1..Len(q), l = LastOwn("openai", q), Own("openai", q[l]),
           \A i \in 1..Len(q) : i > l => ~Own("openai", q[i]),
           NEW R \in Seq(Items(turn)), R # <<>>, R[Len(R)] = Item("native", q[l], q[l].ids),
           AnsweredUpTo(R, Len(R) - 1), Explained(R, "openai", provider),
           NEW c, c = R \o Formatted("openai", Outputs(q))
    PROVE  AnsweredUpTo(c, Len(c)) /\ Explained(c, "openai", provider)
<1> DEFINE o == Outputs(q)
           f == Formatted("openai", o)
           m == Len(R)
<1>1. q \in Seq(Notes) /\ l \in DOMAIN q /\ l \in Nat /\ Len(q) \in Nat /\ l # 0
      /\ DOMAIN q = 1..Len(q) /\ q[l].role = "assistant" /\ q[l] \in Messages(turn)
  BY MessagesAreNotes DEF Own
<1>2. /\ o \in Seq(Messages(turn))
      /\ \A k \in DOMAIN q[l].ids : k \in DOMAIN o /\ o[k] = q[l + k] /\ l + k \in 1..Len(q)
      /\ \A k \in DOMAIN o :
            /\ o[k].role = "tool"
            /\ \/ k \in DOMAIN q[l].ids
               \/ \E x \in 1..Len(q) : /\ x > l + Len(q[l].ids) /\ x \in Nat
                                       /\ q[x].role = "tool" /\ o[k] = q[x]
  BY <1>1, OutputsAre
<1> HIDE DEF o
<1>3. /\ o \in Seq(Notes) /\ DOMAIN o = 1..Len(o) /\ Len(o) \in Nat
      /\ \A k \in 1..Len(o) : o[k] \in Notes /\ o[k].role = "tool" /\ ~Own("openai", o[k])
  BY <1>2, MessagesAreNotes DEF Own
<1>4. f = [k \in DOMAIN o |-> ItemFor("openai", o[k])]
  <2>1. \A k \in 1..Len(o) : o[k].role # "system"
    BY <1>3
  <2>2. ShownTo("openai", o) = o
    BY <1>3, <2>1, ShownAll
  <2> QED BY <2>2, FormattedIs
<1>5. /\ DOMAIN f = 1..Len(o) /\ Len(f) = Len(o)
      /\ \A k \in 1..Len(o) : /\ f[k].kind = "result" /\ f[k].keys = o[k].ids
                              /\ f[k].turn = o[k].turn /\ f[k].step = o[k].step
  <2>1. DOMAIN f = 1..Len(o) /\ Len(f) = Len(o) /\ \A k \in 1..Len(o) : f[k] = ItemFor("openai", o[k])
    BY <1>3, <1>4
  <2>2. ASSUME NEW k \in 1..Len(o)
        PROVE  /\ f[k].kind = "result" /\ f[k].keys = o[k].ids
               /\ f[k].turn = o[k].turn /\ f[k].step = o[k].step
    <3>1. KeysFor("openai", o[k]) = o[k].ids
      BY DEF KeysFor
    <3> QED BY <1>3, <2>1, <3>1, ItemForFields
  <2> QED BY <2>1, <2>2
<1>6. f \in Seq(Items(turn))
  BY <1>2, FormattedType
<1> HIDE DEF f
<1>7. /\ DOMAIN c = 1..(m + Len(o)) /\ Len(c) = m + Len(o) /\ m \in Nat /\ m # 0 /\ DOMAIN R = 1..m
      /\ \A i \in 1..m : c[i] = R[i]
      /\ \A k \in 1..Len(o) : c[m + k] = f[k]
  <2>1. c = R \o f
    BY DEF f, o
  <2>2. /\ DOMAIN (R \o f) = 1..(Len(R) + Len(f)) /\ Len(R \o f) = Len(R) + Len(f)
        /\ Len(R) \in Nat /\ DOMAIN R = 1..Len(R)
        /\ \A i \in 1..Len(R) : (R \o f)[i] = R[i]
        /\ \A k \in 1..Len(f) : (R \o f)[Len(R) + k] = f[k]
    BY <1>6, CatElements
  <2>3. Len(R) # 0
    OBVIOUS
  <2> QED BY <1>5, <2>1, <2>2, <2>3
<1>8. \A i \in 1..(m + Len(o)) : i \in 1..m \/ \E k \in 1..Len(o) : i = m + k
  <2> SUFFICES ASSUME NEW i \in 1..(m + Len(o)), i \notin 1..m
               PROVE  \E k \in 1..Len(o) : i = m + k
    OBVIOUS
  <2>1. i - m \in 1..Len(o) /\ i = m + (i - m)
    BY <1>3, <1>7
  <2> QED BY <2>1
<1> HIDE DEF m
<1>9. /\ c[m].kind = "native" /\ c[m].keys = q[l].ids
      /\ c[m].turn = q[l].turn /\ c[m].step = q[l].step
  <2>1. m \in 1..m
    BY <1>7
  <2> QED BY <1>7, <2>1 DEF m, Item
<1>10. \A k \in DOMAIN q[l].ids :
          /\ k \in 1..Len(o) /\ Fits(q[l], k, o[k]) /\ k \in Nat
  <2>1. \A k \in DOMAIN q[l].ids : Fits(q[l], k, q[l + k])
    BY <1>1 DEF Intact
  <2> QED BY <1>1, <1>2, <1>3, <2>1, NoteFields
<1>11. AnsweredUpTo(c, Len(c))
  <2> SUFFICES ASSUME NEW i \in 1..(m + Len(o)), c[i].kind = "native",
                      NEW k \in DOMAIN c[i].keys
               PROVE  /\ i + k \in DOMAIN c /\ c[i + k].kind = "result"
                      /\ c[i].keys[k] \in {Blank, c[i + k].keys[1]}
    BY <1>7 DEF AnsweredUpTo
  <2>1. i \in 1..m
    BY <1>5, <1>7, <1>8
  <2>2. CASE i = m
    <3>1. k \in 1..Len(o) /\ Fits(q[l], k, o[k]) /\ k \in DOMAIN q[l].ids
      BY <1>9, <1>10, <2>2
    <3>2. m + k \in DOMAIN c /\ c[m + k] = f[k]
      BY <1>3, <1>7, <3>1
    <3>3. c[m + k].kind = "result" /\ c[m + k].keys = o[k].ids
      BY <1>5, <3>1, <3>2
    <3> QED BY <1>9, <2>2, <3>1, <3>2, <3>3 DEF Fits
  <2>3. CASE i # m
    <3>1. i \in 1..(Len(R) - 1) /\ c[i] = R[i]
      BY <1>7, <2>1, <2>3 DEF m
    <3>2. /\ i + k \in DOMAIN R /\ R[i + k].kind = "result"
          /\ R[i].keys[k] \in {Blank, R[i + k].keys[1]}
      BY <3>1 DEF AnsweredUpTo
    <3>3. i + k \in 1..m
      BY <1>7, <3>2
    <3>4. i + k \in DOMAIN c
      BY <1>3, <1>7, <3>3
    <3> QED BY <1>7, <3>1, <3>2, <3>3, <3>4
  <2> QED BY <2>2, <2>3
<1>12. Explained(c, "openai", provider)
  <2> SUFFICES ASSUME NEW i \in 1..(m + Len(o)), c[i].kind = "result"
               PROVE  \/ ResultOf(c, i)
                      \/ \A j \in 1..(i - 1) : c[j].turn = 0 \/ c[j].kind = "result"
                      \/ c[i].turn # 0 /\ provider[c[i].turn] # "openai"
    BY <1>7 DEF Explained
  <2>1. CASE i \in 1..m
    <3>1. \A j \in 1..(i - 1) : c[j] = R[j]
      BY <1>7, <2>1
    <3>2. c[i] = R[i] /\ i \in DOMAIN R
      BY <1>7, <2>1
    <3>3. \/ ResultOf(R, i)
          \/ \A j \in 1..(i - 1) : R[j].turn = 0 \/ R[j].kind = "result"
          \/ R[i].turn # 0 /\ provider[R[i].turn] # "openai"
      BY <3>2 DEF Explained
    <3>4. ResultOf(R, i) => ResultOf(c, i)
      BY <3>1, <3>2 DEF ResultOf
    <3> QED BY <3>1, <3>2, <3>3, <3>4
  <2>2. ASSUME NEW k \in 1..Len(o), i = m + k, k \in DOMAIN q[l].ids
        PROVE  ResultOf(c, i)
    <3>1. Fits(q[l], k, o[k])
      BY <1>10, <2>2
    <3>2. c[i].turn = o[k].turn /\ c[i].step = o[k].step
      BY <1>5, <1>7, <2>2
    <3>3. m \in 1..(i - 1) /\ i - m = k
      BY <1>7, <2>2
    <3>4. c[m].turn = c[i].turn /\ c[m].step = c[i].step
      BY <1>9, <3>1, <3>2 DEF Fits
    <3> QED BY <1>9, <2>2, <3>3, <3>4 DEF ResultOf
  <2>3. ASSUME NEW k \in 1..Len(o), i = m + k, k \notin DOMAIN q[l].ids
        PROVE  c[i].turn # 0 /\ provider[c[i].turn] # "openai"
    <3>1. PICK x \in 1..Len(q) : /\ x > l + Len(q[l].ids) /\ x \in Nat
                                 /\ q[x].role = "tool" /\ o[k] = q[x]
      BY <1>2, <1>3, <2>3
    <3>2. Len(q[l].ids) \in Nat /\ DOMAIN q[l].ids = 1..Len(q[l].ids)
      BY <1>1, NoteFields
    <3>3. l \in 1..(x - 1)
      BY <1>1, <3>1, <3>2
    <3>4. q[l].turn # 0
      BY <1>1, MessagesAreNotes
    <3>5. Owned(q, x)
      BY <1>1, <3>1, <3>3, <3>4 DEF Grouped
    <3>6. PICK j \in 1..(x - 1) : q[j].role = "assistant" /\ x - j \in DOMAIN q[j].ids
      BY <3>5 DEF Owned
    <3>7. j \in 1..Len(q) /\ j \in DOMAIN q /\ j + (x - j) = x
      BY <1>1, <3>1
    <3>8. Fits(q[j], x - j, q[x])
      BY <3>6, <3>7 DEF Intact
    <3>9. j > l
      <4>1. j # l
        <5>1. x - l \notin 1..Len(q[l].ids)
          BY <1>1, <3>1, <3>2
        <5> QED BY <3>2, <3>6, <5>1
      <4>2. ~(j < l)
        <5> SUFFICES ASSUME j < l PROVE FALSE
          OBVIOUS
        <5>1. DOMAIN q[j].ids = 1..Len(q[j].ids) /\ Len(q[j].ids) \in Nat
          BY <1>1, <3>7, NoteFields
        <5>2. l - j \in 1..Len(q[j].ids) /\ j + (l - j) = l
          <6>1. x - j <= Len(q[j].ids) /\ l < x /\ l \in Nat /\ x \in Nat /\ j \in Nat
            BY <1>1, <3>1, <3>3, <3>6, <5>1
          <6>2. j < l
            OBVIOUS
          <6>3. \A n, b, d, e \in Nat : d - b <= n /\ e < d /\ b < e => e - b \in 1..n /\ b + (e - b) = e
            OBVIOUS
          <6> QED BY ONLY <5>1, <6>1, <6>2, <6>3
        <5>3. q[j + (l - j)].role = "tool"
          BY <3>6, <3>7, <5>1, <5>2 DEF Intact, Fits
        <5> QED BY <1>1, <5>2, <5>3
      <4> QED BY <1>1, <3>7, <4>1, <4>2
    <3>10. ~Own("openai", q[j])
      BY <3>7, <3>9
    <3>11. q[j].turn # 0
      <4>1. q[j] \in Messages(turn)
        BY <3>7
      <4> QED BY <3>6, <4>1, MessagesAreNotes
    <3>12. provider[q[j].turn] # "openai"
      BY <3>6, <3>10, <3>11 DEF Own, Made
    <3>13. c[i].turn = q[j].turn
      <4>1. c[i].turn = o[k].turn
        BY <1>5, <1>7, <2>3
      <4> QED BY <3>1, <3>8, <4>1 DEF Fits
    <3> QED BY <3>11, <3>12, <3>13
  <2> QED BY <1>8, <2>1, <2>2, <2>3
<1> QED BY <1>11, <1>12

-----------------------------------------------------------------------------
(* The invariant of the conversation.                                      *)

\* OpenAI remembers each answer it gave, at the end of its response.
Recalled(q, who, kept) ==
    \A i \in DOMAIN q : q[i].role = "assistant" /\ who[q[i].turn] = "openai" =>
        LET R == kept[q[i].turn][q[i].step]
        IN R # <<>> /\ R[Len(R)] = Item("native", q[i], q[i].ids)
\* What is remembered of a response is answered but for its own calls.
Remembering(R, who) == AnsweredUpTo(R, Len(R) - 1) /\ Explained(R, "openai", who)

Kept ==
    /\ Intact(history) /\ Grouped(history) /\ Told(history)
    /\ Recalled(history, provider, responses)
    /\ Intact(record) /\ AllOwned(record) /\ Told(record)
    /\ Recalled(record, provider, responses)
Memory ==
    \A t \in 1..load.turns : \A s \in 1..load.steps : Remembering(responses[t][s], provider)
\* The prompt is the history and the record; they are of other turns, and of earlier steps.
Placed ==
    phase # "idle" =>
        /\ \A i \in DOMAIN history : history[i].turn # turn
        /\ \A i \in DOMAIN record : record[i].turn = turn /\ record[i].step < step
        /\ Prompt(prompt, history \o record)
\* The payload has the calls that are carried out; an id it has is the call's.
Paired ==
    phase = "heard" =>
        /\ DOMAIN heard.payload.calls = DOMAIN heard.calls
        /\ \A k \in DOMAIN heard.calls : heard.payload.calls[k] \in {Blank, heard.calls[k].id}
Read == phase = "stream" => AnsweredUpTo(Context, Len(Context)) /\ Explained(Context, P, provider)
\* What the model reads is the prompt; OpenAI remembers it with the answer.
Shown ==
    phase \in {"stream", "heard"} =>
        /\ P # "openai" => Context = Formatted(P, prompt)
        /\ request.previous # <<turn, step>>
        /\ phase = "heard" /\ P = "openai" =>
              responses[turn][step] = Append(Context, Item("native", Said, Said.ids))
Conversation == Kept /\ Memory /\ Placed /\ Paired /\ Read /\ Shown

LEMMA ToldCat ==
    ASSUME NEW a \in Seq(Notes), NEW b \in Seq(Notes), Told(a), Told(b)
    PROVE  Told(a \o b)
<1>1. /\ DOMAIN a = 1..Len(a) /\ DOMAIN b = 1..Len(b)
      /\ \A i \in 1..Len(a) : (a \o b)[i] = a[i]
      /\ \A i \in 1..Len(b) : (a \o b)[Len(a) + i] = b[i]
  BY CatElements
<1>2. \A i \in DOMAIN (a \o b) : i \in 1..Len(a) \/ \E k \in 1..Len(b) : i = Len(a) + k
  BY CatIndex
<1> DEFINE c == a \o b
<1> HIDE DEF c
<1>3. Told(c)
  BY <1>1, <1>2 DEF Told, c
<1> QED BY <1>3 DEF c

LEMMA RecalledCat ==
    ASSUME NEW a \in Seq(Notes), NEW b \in Seq(Notes), NEW w, NEW r,
           Recalled(a, w, r), Recalled(b, w, r)
    PROVE  Recalled(a \o b, w, r)
<1> DEFINE c == a \o b
<1>1. /\ DOMAIN a = 1..Len(a) /\ DOMAIN b = 1..Len(b)
      /\ \A i \in 1..Len(a) : c[i] = a[i]
      /\ \A i \in 1..Len(b) : c[Len(a) + i] = b[i]
  BY CatElements
<1>2. \A i \in DOMAIN c : i \in 1..Len(a) \/ \E k \in 1..Len(b) : i = Len(a) + k
  BY CatIndex
<1> HIDE DEF c
<1> SUFFICES ASSUME NEW i \in DOMAIN c
             PROVE  c[i].role = "assistant" /\ w[c[i].turn] = "openai" =>
                        LET R == r[c[i].turn][c[i].step]
                        IN R # <<>> /\ R[Len(R)] = Item("native", c[i], c[i].ids)
  BY DEF Recalled, c
<1>3. (\E j \in DOMAIN a : c[i] = a[j]) \/ (\E j \in DOMAIN b : c[i] = b[j])
  BY <1>1, <1>2
<1> QED BY <1>3 DEF Recalled

LEMMA NewestKept ==
    ASSUME NEW q \in Seq(Notes), NEW n \in Nat, NEW w, NEW r, Told(q), Recalled(q, w, r)
    PROVE  Told(Newest(q, n)) /\ Recalled(Newest(q, n), w, r)
<1> DEFINE d == Dropped(q, n)
           c == Newest(q, n)
<1>1. /\ d \in 0..Len(q) /\ Len(q) \in Nat /\ c \in Seq(Notes) /\ Len(c) = Len(q) - d
      /\ \A i \in 1..(Len(q) - d) : c[i] = q[d + i]
  BY NewestIs
<1> HIDE DEF c, d
<1>2. \A i \in DOMAIN c : \E j \in DOMAIN q : c[i] = q[j]
  <2>1. DOMAIN c = 1..(Len(q) - d) /\ DOMAIN q = 1..Len(q)
    BY <1>1
  <2>2. \A i \in 1..(Len(q) - d) : d + i \in 1..Len(q)
    BY <1>1
  <2> QED BY <1>1, <2>1, <2>2
<1>3. Told(c)
  BY <1>2 DEF Told
<1>4. Recalled(c, w, r)
  <2> SUFFICES ASSUME NEW i \in DOMAIN c
               PROVE  c[i].role = "assistant" /\ w[c[i].turn] = "openai" =>
                          LET R == r[c[i].turn][c[i].step]
                          IN R # <<>> /\ R[Len(R)] = Item("native", c[i], c[i].ids)
    BY DEF Recalled
  <2> QED BY <1>2 DEF Recalled
<1> QED BY <1>3, <1>4 DEF c

\* Another provider in a later turn, or another response, changes nothing of what is recalled.
LEMMA RecalledStays ==
    ASSUME NEW q, NEW w, NEW r, NEW v, NEW x, Recalled(q, w, r),
           \A i \in DOMAIN q : q[i].role = "assistant" =>
               v[q[i].turn] = w[q[i].turn] /\ x[q[i].turn][q[i].step] = r[q[i].turn][q[i].step]
    PROVE  Recalled(q, v, x)
  BY DEF Recalled

LEMMA ExplainedStays ==
    ASSUME Shape, NEW c \in Seq(Items(turn)), NEW p, NEW w, NEW v, Explained(c, p, w),
           \A t \in 1..turn : v[t] = w[t]
    PROVE  Explained(c, p, v)
<1>1. \A i \in DOMAIN c : c[i].turn \in 0..turn
  <2>1. \A i \in DOMAIN c : c[i] \in Items(turn)
    OBVIOUS
  <2> QED BY <2>1 DEF Items
<1>2. \A t \in 0..turn : t # 0 => v[t] = w[t]
  BY ShapeFields
<1> QED BY <1>1, <1>2 DEF Explained

\* The messages of a step: an answer, and the results of its calls.
LEMMA StepMessagesAre ==
    ASSUME Shape, Paired, phase = "heard"
    PROVE  /\ StepMessages \in Seq(Messages(turn)) /\ Said \in Messages(turn)
           /\ Results \in Seq(Messages(turn))
           /\ DOMAIN Results = DOMAIN heard.calls /\ Len(Results) = Len(heard.calls)
           /\ Said.role = "assistant" /\ Said.turn = turn /\ Said.step = step
           /\ \A i \in DOMAIN Results :
                 Results[i].role = "tool" /\ Results[i].turn = turn /\ Results[i].step = step
           /\ \A i \in DOMAIN StepMessages :
                 /\ StepMessages[i].role \in {"assistant", "tool"}
                 /\ StepMessages[i].turn = turn /\ StepMessages[i].step = step
           /\ \A i \in DOMAIN StepMessages :
                 StepMessages[i].role = "assistant" => StepMessages[i] = Said
           /\ Intact(StepMessages) /\ AllOwned(StepMessages) /\ Told(StepMessages)
<1> DEFINE m == StepMessages
           n == Len(heard.calls)
<1>1. /\ Said \in Messages(turn) /\ Results \in Seq(Messages(turn))
      /\ <<Said>> \in Seq(Messages(turn)) /\ m \in Seq(Messages(turn))
  BY StepMessagesType
<1>2. DOMAIN heard.calls = 1..n /\ n \in Nat
  BY ShapeFields
<1>3. /\ DOMAIN Results = 1..n /\ Len(Results) = n
      /\ \A i \in 1..n : Results[i] =
             Message("tool", turn, step, <<heard.calls[i].id>>, <<heard.calls[i].tool>>)
  BY <1>2 DEF Results
<1>4. /\ Said.role = "assistant" /\ Said.turn = turn /\ Said.step = step
      /\ Said.ids = heard.payload.calls
      /\ Said.names = [i \in DOMAIN heard.calls |-> heard.calls[i].tool]
  BY DEF Said, Assistant, Message
<1>5. /\ DOMAIN m = 1..(1 + n) /\ m[1] = Said /\ \A i \in 1..n : m[1 + i] = Results[i]
  <2>1. m = <<Said>> \o Results
    BY DEF StepMessages
  <2> QED BY <1>1, <1>2, <1>3, <2>1
<1> HIDE DEF m, n
<1>6. \A i \in 1..n : Fits(Said, i, Results[i]) /\ Results[i].role = "tool"
                      /\ Results[i].turn = turn /\ Results[i].step = step
  <2> SUFFICES ASSUME NEW i \in 1..n
               PROVE  Fits(Said, i, Results[i]) /\ Results[i].role = "tool"
                      /\ Results[i].turn = turn /\ Results[i].step = step
    OBVIOUS
  <2>1. /\ Results[i].role = "tool" /\ Results[i].turn = turn /\ Results[i].step = step
        /\ Results[i].ids = <<heard.calls[i].id>> /\ Results[i].names = <<heard.calls[i].tool>>
    BY <1>3 DEF Message
  <2>2. Said.ids[i] \in {Blank, heard.calls[i].id} /\ Said.names[i] = heard.calls[i].tool
    BY <1>2, <1>4 DEF Paired
  <2> QED BY <1>4, <2>1, <2>2 DEF Fits
<1>7. \A i \in DOMAIN m : i = 1 \/ \E k \in 1..n : i = 1 + k
  <2> SUFFICES ASSUME NEW i \in 1..(1 + n), i # 1 PROVE \E k \in 1..n : i = 1 + k
    BY <1>5
  <2>1. i - 1 \in 1..n /\ i = 1 + (i - 1)
    BY <1>2
  <2> QED BY <2>1
<1>8. DOMAIN Said.ids = 1..n /\ DOMAIN Said.names = 1..n
  BY <1>2, <1>4 DEF Paired
<1>9. Intact(m)
  <2> SUFFICES ASSUME NEW i \in DOMAIN m, m[i].role = "assistant"
               PROVE  /\ DOMAIN m[i].names = DOMAIN m[i].ids
                      /\ \A k \in DOMAIN m[i].ids : i + k \in DOMAIN m /\ Fits(m[i], k, m[i + k])
    BY DEF Intact
  <2>1. i = 1
    BY <1>5, <1>6, <1>7
  <2>2. \A k \in 1..n : 1 + k \in DOMAIN m
    BY <1>2, <1>5
  <2> QED BY <1>5, <1>6, <1>8, <2>1, <2>2
<1>10. AllOwned(m)
  <2> SUFFICES ASSUME NEW i \in DOMAIN m, m[i].role = "tool" PROVE Owned(m, i)
    BY DEF AllOwned
  <2>1. PICK k \in 1..n : i = 1 + k
    BY <1>4, <1>5, <1>7
  <2>2. 1 \in 1..(i - 1) /\ i - 1 = k
    BY <1>2, <2>1
  <2> QED BY <1>4, <1>5, <1>8, <2>1, <2>2 DEF Owned
<1>11. /\ \A i \in DOMAIN m : /\ m[i].role \in {"assistant", "tool"}
                              /\ m[i].turn = turn /\ m[i].step = step
       /\ \A i \in DOMAIN m : m[i].role = "assistant" => m[i] = Said
  BY <1>4, <1>5, <1>6, <1>7
<1>12. Told(m)
  <2>1. turn # 0
    BY DEF Shape, TalkType
  <2> QED BY <1>11, <2>1 DEF Told
<1> QED BY <1>1, <1>2, <1>3, <1>4, <1>6, <1>9, <1>10, <1>11, <1>12 DEF m, n

\* History and record together.
LEMMA BodyIs ==
    ASSUME Shape, Kept
    PROVE  /\ history \o record \in Seq(Messages(turn)) /\ history \in Seq(Notes)
           /\ record \in Seq(Notes) /\ history \o record \in Seq(Notes)
           /\ Intact(history \o record) /\ Grouped(history \o record) /\ Told(history \o record)
           /\ Recalled(history \o record, provider, responses)
<1>1. /\ history \in Seq(Messages(turn)) /\ record \in Seq(Messages(turn))
      /\ history \in Seq(Notes) /\ record \in Seq(Notes)
  BY MessagesAreNotes DEF Shape, TalkType
<1>2. history \o record \in Seq(Messages(turn)) /\ history \o record \in Seq(Notes)
  BY <1>1
<1>3. Intact(history \o record)
  BY <1>1, IntactCat DEF Kept
<1>4. Grouped(history \o record)
  BY <1>1, AllOwnedCat DEF Kept
<1>5. Told(history \o record)
  BY <1>1, ToldCat DEF Kept
<1>6. Recalled(history \o record, provider, responses)
  BY <1>1, RecalledCat DEF Kept
<1> QED BY <1>1, <1>2, <1>3, <1>4, <1>5, <1>6

\* Behind its head a prompt has the messages of its conversation.
LEMMA PromptBody ==
    ASSUME Shape, NEW body \in Seq(Notes), NEW q, Prompt(q, body), NEW i \in DOMAIN q
    PROVE  q[i] = System \/ q[i] = Summary \/ \E j \in DOMAIN body : q[i] = body[j]
<1>0. /\ <<System>> \in Seq(Notes) /\ <<Summary>> \in Seq(Notes)
      /\ Len(<<System>>) = 1 /\ Len(<<Summary>>) = 1
      /\ <<System>>[1] = System /\ <<Summary>>[1] = Summary
  BY HeadNotes
<1>1. ASSUME NEW s \in Seq(Notes), NEW h \in Seq(Notes), Len(h) = 1, NEW k \in DOMAIN (h \o s)
      PROVE  (h \o s)[k] = h[1] \/ \E j \in DOMAIN s : (h \o s)[k] = s[j]
  <2>1. /\ DOMAIN s = 1..Len(s) /\ \A l \in 1..Len(h) : (h \o s)[l] = h[l]
        /\ \A l \in 1..Len(s) : (h \o s)[Len(h) + l] = s[l]
    BY CatElements
  <2>2. k \in 1..Len(h) \/ \E l \in 1..Len(s) : k = Len(h) + l
    BY CatIndex
  <2>3. k \in 1..Len(h) => k = 1
    BY <1>1
  <2> QED BY <1>1, <2>1, <2>2, <2>3
<1> DEFINE r == <<Summary>> \o body
           a == <<System>>
           b == <<Summary>>
<1> HIDE DEF a, b
<1>2. a \in Seq(Notes) /\ b \in Seq(Notes) /\ Len(a) = 1 /\ Len(b) = 1 /\ a[1] = System
      /\ b[1] = Summary /\ (q = a \o body \/ q = a \o (b \o body)) /\ b \o body \in Seq(Notes)
  BY <1>0 DEF a, b, Prompt
<1>3. CASE q = a \o body
  BY <1>1, <1>2, <1>3
<1>4. CASE q = a \o (b \o body)
  <2>1. q[i] = System \/ \E j \in DOMAIN (b \o body) : q[i] = (b \o body)[j]
    BY <1>1, <1>2, <1>4
  <2>2. \A j \in DOMAIN (b \o body) :
            (b \o body)[j] = Summary \/ \E k \in DOMAIN body : (b \o body)[j] = body[k]
    BY <1>1, <1>2
  <2> QED BY <2>1, <2>2
<1> QED BY <1>2, <1>3, <1>4

\* An answer in the prompt is recalled, and not of this step.
LEMMA PromptAnswers ==
    ASSUME Shape, Kept, Placed, phase # "idle", NEW i \in DOMAIN prompt,
           prompt[i].role = "assistant"
    PROVE  /\ prompt[i].turn # turn \/ prompt[i].step < step
           /\ prompt[i].turn \in 1..turn /\ prompt[i].step \in 1..load.steps
           /\ turn <= load.turns
           /\ provider[prompt[i].turn] = "openai" =>
                  LET R == responses[prompt[i].turn][prompt[i].step]
                  IN R # <<>> /\ R[Len(R)] = Item("native", prompt[i], prompt[i].ids)
<1> DEFINE b == history \o record
<1>1. b \in Seq(Notes) /\ Recalled(b, provider, responses) /\ Prompt(prompt, b)
  BY BodyIs DEF Placed
<1>2. \A j \in DOMAIN b : (\E k \in DOMAIN history : b[j] = history[k])
                          \/ \E k \in DOMAIN record : b[j] = record[k]
  <2>1. /\ DOMAIN history = 1..Len(history) /\ DOMAIN record = 1..Len(record)
        /\ \A k \in 1..Len(history) : b[k] = history[k]
        /\ \A k \in 1..Len(record) : b[Len(history) + k] = record[k]
    BY BodyIs, CatElements
  <2>2. \A j \in DOMAIN b : j \in 1..Len(history) \/ \E k \in 1..Len(record) : j = Len(history) + k
    BY BodyIs, CatIndex
  <2> HIDE DEF b
  <2> QED BY <2>1, <2>2
<1> HIDE DEF b
<1>3. prompt[i] = System \/ prompt[i] = Summary \/ \E j \in DOMAIN b : prompt[i] = b[j]
  BY <1>1, PromptBody
<1>4. PICK j \in DOMAIN b : prompt[i] = b[j]
  BY <1>3 DEF System, Summary, Message
<1>5. prompt[i].turn # turn \/ prompt[i].step < step
  BY <1>2, <1>4 DEF Placed
<1>6. prompt[i] \in Messages(turn) /\ turn \in 0..load.turns /\ load.steps \in Nat
      /\ load.turns \in Nat
  BY ShapeFields DEF Shape, TalkType
<1>7. /\ prompt[i].turn \in 1..turn /\ prompt[i].step \in 1..load.steps /\ turn <= load.turns
  BY <1>6 DEF Messages
<1>8. provider[prompt[i].turn] = "openai" =>
          LET R == responses[prompt[i].turn][prompt[i].step]
          IN R # <<>> /\ R[Len(R)] = Item("native", prompt[i], prompt[i].ids)
  BY <1>1, <1>4 DEF Recalled
<1> QED BY <1>5, <1>7, <1>8

\* What a model reads when it is asked.
LEMMA AskReads ==
    ASSUME Shape, Kept, Memory, Placed, phase # "idle", NEW r, NEW c,
           r = IF P = "openai" THEN OpenAIRequest(prompt) ELSE WholeRequest(P, prompt),
           c = Remembered(r.previous) \o r.items
    PROVE  /\ AnsweredUpTo(c, Len(c)) /\ Explained(c, P, provider)
           /\ P # "openai" => c = Formatted(P, prompt)
           /\ r.previous # <<turn, step>> /\ r.system
<1> DEFINE b == history \o record
           f == Formatted(P, prompt)
<1>1. /\ b \in Seq(Messages(turn)) /\ Intact(b) /\ Grouped(b) /\ Told(b) /\ Prompt(prompt, b)
  BY BodyIs DEF Placed
<1> HIDE DEF b
<1>2. prompt \in Seq(Messages(turn)) /\ Intact(prompt) /\ Grouped(prompt)
  BY <1>1, PromptShown
<1>3. AnsweredUpTo(f, Len(f)) /\ Explained(f, P, provider)
  BY <1>1, PromptRead
<1>4. f \in Seq(Items(turn))
  BY <1>2, FormattedType
<1> HIDE DEF f
<1>5. ASSUME r = WholeRequest(P, prompt)
      PROVE  c = f /\ r.previous # <<turn, step>> /\ r.system
  <2>1. r.items = f /\ r.previous = Blank /\ r.system
    BY <1>5 DEF WholeRequest, f
  <2>2. Remembered(r.previous) = <<>>
    BY <2>1 DEF Remembered
  <2>3. c = f
    <3>1. <<>> \o f = f
      BY <1>4, ConcatEmptySeq
    <3> QED BY <2>1, <2>2, <3>1
  <2>4. Blank # <<turn, step>>
    BY DEF Blank
  <2> QED BY <2>1, <2>3, <2>4
<1>6. CASE r = WholeRequest(P, prompt)
  BY <1>3, <1>5, <1>6 DEF f
<1>7. CASE r # WholeRequest(P, prompt)
  <2> DEFINE o == Outputs(prompt)
             l == LastOwn("openai", prompt)
             m == prompt[l]
             R == responses[m.turn][m.step]
  <2>1. /\ P = "openai" /\ o # <<>>
        /\ r.items = Formatted("openai", o) /\ r.previous = LastResponse(prompt) /\ r.system
    BY <1>7 DEF OpenAIRequest
  <2>2. l # 0
    BY <2>1 DEF Outputs
  <2>3. /\ l \in 1..Len(prompt) /\ Own("openai", m)
        /\ \A i \in 1..Len(prompt) : i > l => ~Own("openai", prompt[i])
    BY <1>2, <2>2, LastOwnIs
  <2>4. r.previous = <<m.turn, m.step>>
    BY <2>1 DEF LastResponse
  <2> HIDE DEF l
  <2>5. l \in DOMAIN prompt /\ m.role = "assistant"
    BY <1>2, <2>3 DEF Own
  <2>6. /\ m.turn # turn \/ m.step < step
        /\ m.turn \in 1..turn /\ m.step \in 1..load.steps /\ turn <= load.turns
        /\ provider[m.turn] = "openai" =>
               LET S == responses[m.turn][m.step]
               IN S # <<>> /\ S[Len(S)] = Item("native", m, m.ids)
    BY <2>5, PromptAnswers
  <2> HIDE DEF m
  <2>7. m.turn \in 1..load.turns /\ load.turns \in Nat /\ step \in Nat /\ turn \in Nat
    BY <2>6, ShapeFields
  <2>8. provider[m.turn] = "openai"
    BY <2>3, <2>6 DEF Own, Made
  <2>9. R # <<>> /\ R[Len(R)] = Item("native", m, m.ids)
    BY <2>6, <2>8
  <2>10. Remembering(R, provider)
    BY <2>6, <2>7 DEF Memory
  <2>11. R \in Seq(Items(turn))
    BY <2>6, <2>7 DEF Shape, TalkType
  <2>12. c = R \o Formatted("openai", o)
    <3>1. r.previous # Blank /\ r.previous[1] = m.turn /\ r.previous[2] = m.step
      BY <2>4 DEF Blank
    <3> HIDE DEF o
    <3> QED BY <2>1, <3>1 DEF Remembered
  <2>13. r.previous # <<turn, step>>
    BY <2>4, <2>6, <2>7
  <2> HIDE DEF R
  <2>14. AnsweredUpTo(R, Len(R) - 1) /\ Explained(R, "openai", provider)
    BY <2>10 DEF Remembering
  <2>15. /\ l = LastOwn("openai", prompt) /\ Own("openai", prompt[l])
         /\ R[Len(R)] = Item("native", prompt[l], prompt[l].ids)
    BY <2>3, <2>9 DEF l, m
  <2>16. AnsweredUpTo(c, Len(c)) /\ Explained(c, "openai", provider)
    BY <1>2, <2>3, <2>9, <2>11, <2>12, <2>14, <2>15, ContinuedRead
  <2> QED BY <2>1, <2>13, <2>16
<1> QED BY <1>6, <1>7

-----------------------------------------------------------------------------
(* Each step keeps it.                                                     *)

\* Between the turns there is only the history.
LEMMA IdleTalks ==
    ASSUME Shape, Memory, EndTurn, responses' = responses,
           Intact(history'), Grouped(history'), Told(history'),
           Recalled(history', provider, responses)
    PROVE  Conversation'
<1>1. phase' = "idle" /\ record' = <<>> /\ UNCHANGED <<load, turn, step, provider>>
  BY DEF EndTurn, talk
<1>2. Intact(<<>>) /\ AllOwned(<<>>) /\ Told(<<>>) /\ Recalled(<<>>, provider, responses)
  BY DEF Intact, AllOwned, Told, Recalled
<1>3. Kept'
  BY <1>1, <1>2 DEF Kept
<1>4. Memory'
  BY <1>1 DEF Memory
<1>5. Placed' /\ Paired' /\ Read' /\ Shown'
  BY <1>1 DEF Placed, Paired, Read, Shown
<1> QED BY <1>3, <1>4, <1>5 DEF Conversation

\* A turn that fails keeps nothing, one that ends well what was recorded.
LEMMA FailTalks ==
    ASSUME Shape, Conversation, EndTurn, UNCHANGED stores
    PROVE  Conversation'
  BY IdleTalks DEF Conversation, Kept, stores

LEMMA KeepTalks ==
    ASSUME Shape, Conversation, EndTurn, responses' = responses,
           NEW q \in Seq(Messages(turn)), Keep(q),
           Intact(q), AllOwned(q), Told(q), Recalled(q, provider, responses)
    PROVE  Conversation'
<1> DEFINE b == history \o record
           a == b \o q
<1>1. /\ b \in Seq(Notes) /\ q \in Seq(Notes)
      /\ Intact(b) /\ Grouped(b) /\ Told(b) /\ Recalled(b, provider, responses)
  BY BodyIs, MessagesAreNotes DEF Conversation
<1>2. load.window \in Nat
  BY ShapeFields, LoadFields
<1>3. history' = Newest(a, load.window)
  BY DEF Keep
<1> HIDE DEF b
<1>4. /\ a \in Seq(Notes) /\ Intact(a) /\ Grouped(a) /\ Told(a)
      /\ Recalled(a, provider, responses)
  BY <1>1, CatElements, IntactCat, AllOwnedCat, ToldCat, RecalledCat
<1> HIDE DEF a
<1>5. /\ Intact(history') /\ Grouped(history') /\ Told(history')
      /\ Recalled(history', provider, responses)
  <2>1. Intact(Newest(a, load.window)) /\ Grouped(Newest(a, load.window))
    BY <1>2, <1>4, NewestIntact
  <2>2. Told(Newest(a, load.window)) /\ Recalled(Newest(a, load.window), provider, responses)
    BY <1>2, <1>4, NewestKept
  <2> QED BY <1>3, <2>1, <2>2
<1> QED BY <1>5, IdleTalks DEF Conversation

\* A step within a stream.
LEMMA QuietTalks ==
    ASSUME Shape, Conversation, phase = "stream", Quiet
    PROVE  Conversation'
<1>1. /\ phase' = "stream"
      /\ UNCHANGED <<load, turn, step, provider, history, responses, prompt, record, request>>
  BY DEF Quiet, talk, stores
<1>2. P' = P /\ Context' = Context /\ Formatted(P, prompt)' = Formatted(P, prompt)
  BY <1>1 DEF P, Context, Remembered, Formatted, ItemFor, Own, Made
<1>3. Kept' /\ Memory' /\ Placed' /\ Paired'
  BY <1>1 DEF Conversation, Kept, Memory, Placed, Paired
<1>4. Read'
  BY <1>1, <1>2 DEF Conversation, Read
<1>5. Shown'
  BY <1>1, <1>2 DEF Conversation, Shown
<1> QED BY <1>3, <1>4, <1>5 DEF Conversation

\* The hand-over pairs the calls of the payload with those that are carried out.
LEMMA HandOverPairs ==
    ASSUME Shape, NEW entries, NEW text, NEW usage,
           HandOver(entries, text, usage)
    PROVE  Paired'
<1>1. /\ heard'.calls = [i \in DOMAIN entries |-> ToolCall(entries[i])]
      /\ heard'.payload.calls = [i \in DOMAIN entries |-> entries[i].id]
  BY ShapeFields DEF HandOver, Hearings
<1>2. \A i \in DOMAIN entries : entries[i].id \in {Blank, ToolCall(entries[i]).id}
  BY DEF ToolCall
<1> QED BY <1>1, <1>2 DEF Paired

\* The end of a stream of a provider that remembers nothing.
LEMMA HandOverTalks ==
    ASSUME Shape, Conversation, phase = "stream", P # "openai", responses' = responses,
           NEW entries, NEW text, NEW usage, HandOver(entries, text, usage)
    PROVE  Conversation'
<1>1. /\ phase' = "heard"
      /\ UNCHANGED <<load, turn, step, provider, history, prompt, record, request>>
  BY DEF HandOver, talk
<1>2. P' = P /\ Context' = Context /\ Formatted(P, prompt)' = Formatted(P, prompt)
  BY <1>1 DEF P, Context, Remembered, Formatted, ItemFor, Own, Made
<1>3. Kept' /\ Memory' /\ Placed' /\ Read'
  BY <1>1 DEF Conversation, Kept, Memory, Placed, Read
<1>4. Paired'
  BY HandOverPairs
<1>5. Shown'
  BY <1>1, <1>2 DEF Conversation, Shown
<1> QED BY <1>3, <1>4, <1>5 DEF Conversation

\* The strategy assembles a prompt.
LEMMA BeginTalks ==
    ASSUME Shape, Conversation, NEW p \in load.providers, NEW summarized \in BOOLEAN,
           Begin(p, summarized)
    PROVE  Conversation'
<1> DEFINE question == <<Question(turn + 1)>>
<1>1. /\ phase = "idle" /\ phase' = "ask" /\ turn' = turn + 1 /\ step' = 1
      /\ provider' = [provider EXCEPT ![turn + 1] = p] /\ record' = question
      /\ prompt' = <<System>> \o (IF summarized THEN <<Summary>> ELSE <<>>)
                   \o history \o question
      /\ UNCHANGED <<load, history, responses>>
      /\ turn \in Nat /\ load.turns \in Nat /\ turn < load.turns
  BY ShapeFields DEF Begin, stores
<1>2. question \in Seq(Notes) /\ DOMAIN question = 1..1
      /\ question[1].role = "user" /\ question[1].turn = turn + 1 /\ question[1].step = 0
  <2>1. Question(turn + 1) \in Notes
    BY <1>1 DEF Question, Message, Notes
  <2> QED BY <2>1 DEF Question, Message
<1> HIDE DEF question
<1>3. \A t \in 1..turn : provider'[t] = provider[t]
  BY <1>1 DEF Shape, TalkType
<1>4. history \in Seq(Messages(turn)) /\ history \in Seq(Notes)
      /\ \A i \in DOMAIN history : history[i].turn \in 0..turn
  <2>1. history \in Seq(Messages(turn))
    BY DEF Shape, TalkType
  <2>2. \A i \in DOMAIN history : history[i] \in Messages(turn)
    BY <2>1
  <2> QED BY <2>1, <2>2, MessagesAreNotes DEF Messages
<1>5. Kept'
  <2>1. /\ Intact(question) /\ AllOwned(question) /\ Told(question)
        /\ Recalled(question, provider', responses)
    BY <1>1, <1>2 DEF Intact, AllOwned, Told, Recalled
  <2>2. \A i \in DOMAIN history : history[i].turn \in 1..turn
    BY <1>4 DEF Conversation, Kept, Told
  <2>3. Recalled(history, provider', responses)
    BY <1>3, <2>2, RecalledStays DEF Conversation, Kept
  <2> QED BY <1>1, <2>1, <2>3 DEF Conversation, Kept
<1>6. Memory'
  <2> SUFFICES ASSUME NEW t \in 1..load.turns, NEW s \in 1..load.steps
               PROVE  Remembering(responses[t][s], provider')
    BY <1>1 DEF Memory
  <2>1. responses[t][s] \in Seq(Items(turn)) /\ Remembering(responses[t][s], provider)
    BY DEF Conversation, Memory, Shape, TalkType
  <2>2. Explained(responses[t][s], "openai", provider')
    BY <1>3, <2>1, ExplainedStays DEF Remembering
  <2> QED BY <2>1, <2>2 DEF Remembering
<1>7. Prompt(prompt', history \o question)
  <2> DEFINE b == <<Summary>>
             a == <<System>>
             c == history \o question
  <2>1. a \in Seq(Notes) /\ b \in Seq(Notes) /\ c \in Seq(Notes)
    BY <1>2, <1>4, HeadNotes
  <2>2. prompt' = ((a \o (IF summarized THEN b ELSE <<>>)) \o history) \o question
    BY <1>1
  <2> HIDE DEF a, b
  <2>3. CASE summarized
    <3>1. prompt' = ((a \o b) \o history) \o question /\ a \o b \in Seq(Notes)
      BY <2>1, <2>2, <2>3
    <3>2. ((a \o b) \o history) \o question = (a \o b) \o c
      BY <1>2, <1>4, <3>1, ConcatAssociative
    <3>3. (a \o b) \o c = a \o (b \o c)
      BY <2>1, ConcatAssociative
    <3> QED BY <3>1, <3>2, <3>3 DEF Prompt, a, b
  <2>4. CASE ~summarized
    <3>1. prompt' = ((a \o <<>>) \o history) \o question /\ a \o <<>> = a
      BY <2>1, <2>2, <2>4, ConcatEmptySeq
    <3>2. (a \o history) \o question = a \o c
      BY <1>2, <1>4, <2>1, ConcatAssociative
    <3> QED BY <3>1, <3>2 DEF Prompt, a
  <2> QED BY <2>3, <2>4
<1>8. Placed'
  <2>1. \A i \in DOMAIN history : history[i].turn # turn + 1
    BY <1>1, <1>4
  <2>2. \A i \in DOMAIN question : question[i].turn = turn + 1 /\ question[i].step < 1
    BY <1>2
  <2>3. Prompt(prompt', history' \o record')
    BY <1>1, <1>7
  <2> QED BY <1>1, <2>1, <2>2, <2>3 DEF Placed
<1>9. Paired' /\ Read' /\ Shown'
  BY <1>1 DEF Paired, Read, Shown
<1> QED BY <1>5, <1>6, <1>8, <1>9 DEF Conversation

\* The model is asked.
LEMMA AskTalks ==
    ASSUME Shape, Conversation, NEW calls, NEW named, NEW sound, Ask(calls, named, sound)
    PROVE  Conversation'
<1> DEFINE r == IF P = "openai" THEN OpenAIRequest(prompt) ELSE WholeRequest(P, prompt)
           c == Remembered(r.previous) \o r.items
<1>1. /\ phase = "ask" /\ phase' = "stream" /\ request' = r
      /\ UNCHANGED <<load, turn, step, provider, history, responses, prompt, record>>
  BY DEF Ask, talk, stores
<1>2. /\ AnsweredUpTo(c, Len(c)) /\ Explained(c, P, provider)
      /\ P # "openai" => c = Formatted(P, prompt)
      /\ r.previous # <<turn, step>>
  <2>1. /\ r = IF P = "openai" THEN OpenAIRequest(prompt) ELSE WholeRequest(P, prompt)
        /\ c = Remembered(r.previous) \o r.items
    OBVIOUS
  <2> HIDE DEF r, c
  <2>2. Kept /\ Memory /\ Placed /\ phase # "idle"
    BY <1>1 DEF Conversation
  <2> QED BY <2>1, <2>2, AskReads
<1>3. Context' = c
  <2>1. \A id : Remembered(id)' = Remembered(id)
    BY <1>1 DEF Remembered
  <2>2. Context' = (Remembered(request.previous))' \o r.items
    BY <1>1 DEF Context
  <2>3. (Remembered(request.previous))' = Remembered(r.previous)
    <3> HIDE DEF r
    <3> QED BY <1>1 DEF Remembered
  <2> QED BY <2>2, <2>3
<1> HIDE DEF c, r
<1>4. P' = P /\ Formatted(P, prompt)' = Formatted(P, prompt)
  BY <1>1 DEF P, Formatted, ItemFor, Own, Made
<1>5. Kept' /\ Memory' /\ Placed' /\ Paired'
  BY <1>1 DEF Conversation, Kept, Memory, Placed, Paired
<1>6. Read'
  BY <1>1, <1>2, <1>3, <1>4 DEF Read
<1>7. Shown'
  BY <1>1, <1>2, <1>3, <1>4 DEF Shown
<1> QED BY <1>5, <1>6, <1>7 DEF Conversation

\* OpenAI remembers the response, with the answer at its end.
LEMMA OpenAIEndTalks ==
    ASSUME Shape, Conversation, NEW reports, OpenAIEnd(reports)
    PROVE  Conversation'
<1> DEFINE ids == [i \in DOMAIN acc.calls |-> acc.calls[i].id]
           m == Assistant(ids, acc.calls)
           x == ItemFor("openai", m)
           R == Append(Context, x)
<1>1. /\ phase = "stream" /\ P = "openai" /\ HandOver(acc.calls, acc.text, reports)
      /\ responses' = [responses EXCEPT ![turn][step] = R]
  BY DEF OpenAIEnd, Streaming
<1>2. /\ phase' = "heard"
      /\ UNCHANGED <<load, turn, step, provider, history, prompt, record, request>>
  BY <1>1 DEF HandOver, talk
<1>3. /\ turn \in 1..load.turns /\ step \in 1..load.steps
      /\ responses \in [1..load.turns -> [1..load.steps -> Seq(Items(turn))]]
      /\ load.turns \in Nat /\ load.steps \in Nat
  <2>1. load.turns \in Nat /\ load.steps \in Nat
    BY ShapeFields
  <2>2. /\ turn \in 0..load.turns /\ step \in 0..load.steps /\ turn # 0 /\ step # 0
        /\ responses \in [1..load.turns -> [1..load.steps -> Seq(Items(turn))]]
    BY <1>1 DEF Shape, TalkType
  <2> QED BY <2>1, <2>2
<1>4. m.role = "assistant" /\ m.turn = turn /\ m.step = step /\ m.ids = ids
  BY DEF Assistant, Message
<1>5. x = Item("native", m, ids)
  <2>1. Own("openai", m)
    BY <1>1, <1>3, <1>4 DEF Own, Made, P
  <2>2. KeysFor("openai", m) = ids
    BY <1>4 DEF KeysFor
  <2> HIDE DEF m, ids
  <2> QED BY <1>4, <2>1, <2>2 DEF ItemFor
<1>6. /\ heard'.calls = [i \in DOMAIN acc.calls |-> ToolCall(acc.calls[i])]
      /\ heard'.payload.calls = ids
  BY <1>1, ShapeFields DEF HandOver, Hearings
<1>7. Said' = m
  <2>1. [i \in DOMAIN heard'.calls |-> heard'.calls[i].tool] = [i \in DOMAIN acc.calls |-> acc.calls[i].tool]
    BY <1>6 DEF ToolCall
  <2> HIDE DEF ids
  <2>2. Said' = Message("assistant", turn, step, heard'.payload.calls,
                        [i \in DOMAIN heard'.calls |-> heard'.calls[i].tool])
    BY <1>2 DEF Said, Assistant
  <2> QED BY <1>6, <2>1, <2>2 DEF Assistant
<1>8. x = (Item("native", Said, Said.ids))'
  <2>1. (Item("native", Said, Said.ids))' = Item("native", Said', Said'.ids)
    BY DEF Item
  <2> HIDE DEF m, x
  <2> QED BY <1>4, <1>5, <1>7, <2>1
<1>9. Context \in Seq(Items(turn)) /\ x.kind = "native"
  <2>1. x.kind = "native"
    BY <1>5 DEF Item
  <2> HIDE DEF x
  <2> QED BY <2>1, ContextType
<1>10. /\ DOMAIN Context = 1..Len(Context) /\ Len(Context) \in Nat
       /\ DOMAIN R = 1..(Len(Context) + 1) /\ Len(R) = Len(Context) + 1
       /\ R[Len(Context) + 1] = x
       /\ \A i \in 1..Len(Context) : R[i] = Context[i]
  <2> HIDE DEF x
  <2> QED BY <1>9
<1> HIDE DEF x, R, m, ids
<1>11. AnsweredUpTo(Context, Len(Context)) /\ Explained(Context, "openai", provider)
  BY <1>1 DEF Conversation, Read
<1>12. Remembering(R, provider)
  <2>1. AnsweredUpTo(R, Len(R) - 1)
    <3> SUFFICES ASSUME NEW i \in 1..Len(Context), R[i].kind = "native",
                        NEW k \in DOMAIN R[i].keys
                 PROVE  /\ i + k \in DOMAIN R /\ R[i + k].kind = "result"
                        /\ R[i].keys[k] \in {Blank, R[i + k].keys[1]}
      BY <1>10 DEF AnsweredUpTo
    <3>1. R[i] = Context[i]
      BY <1>10
    <3>2. /\ i + k \in DOMAIN Context /\ Context[i + k].kind = "result"
          /\ Context[i].keys[k] \in {Blank, Context[i + k].keys[1]}
      BY <1>11, <3>1 DEF AnsweredUpTo
    <3>3. i + k \in DOMAIN R /\ R[i + k] = Context[i + k]
      BY <1>10, <3>2
    <3> QED BY <3>1, <3>2, <3>3
  <2>2. Explained(R, "openai", provider)
    <3> SUFFICES ASSUME NEW i \in DOMAIN R, R[i].kind = "result"
                 PROVE  \/ ResultOf(R, i)
                        \/ \A j \in 1..(i - 1) : R[j].turn = 0 \/ R[j].kind = "result"
                        \/ R[i].turn # 0 /\ provider[R[i].turn] # "openai"
      BY DEF Explained
    <3>1. i \in DOMAIN Context /\ R[i] = Context[i] /\ \A j \in 1..(i - 1) : R[j] = Context[j]
      BY <1>9, <1>10
    <3>2. ResultOf(Context, i) => ResultOf(R, i)
      BY <3>1 DEF ResultOf
    <3> QED BY <1>11, <3>1, <3>2 DEF Explained
  <2> QED BY <2>1, <2>2 DEF Remembering
<1>13. /\ responses'[turn][step] = R
       /\ \A t \in 1..load.turns, s \in 1..load.steps :
             t # turn \/ s # step => responses'[t][s] = responses[t][s]
  BY <1>1, <1>3
<1>14. Memory'
  <2> SUFFICES ASSUME NEW t \in 1..load.turns, NEW s \in 1..load.steps
               PROVE  Remembering(responses'[t][s], provider)
    BY <1>2 DEF Memory
  <2>1. Remembering(responses[t][s], provider)
    BY DEF Conversation, Memory
  <2> QED BY <1>12, <1>13, <2>1
<1>15. Recalled(history, provider, responses')
  <2>1. ASSUME NEW i \in DOMAIN history, history[i].role = "assistant"
        PROVE  responses'[history[i].turn][history[i].step] = responses[history[i].turn][history[i].step]
    <3>1. history[i] \in Messages(turn)
      BY DEF Shape, TalkType
    <3>2. history[i].turn \in 1..load.turns /\ history[i].step \in 1..load.steps
      BY <1>3, <2>1, <3>1 DEF Messages
    <3>3. history[i].turn # turn
      BY <1>1 DEF Conversation, Placed
    <3> QED BY <1>13, <3>2, <3>3
  <2> QED BY <2>1, RecalledStays DEF Conversation, Kept
<1>16. Recalled(record, provider, responses')
  <2>1. ASSUME NEW i \in DOMAIN record, record[i].role = "assistant"
        PROVE  responses'[record[i].turn][record[i].step] = responses[record[i].turn][record[i].step]
    <3>1. record[i] \in Messages(turn)
      BY DEF Shape, TalkType
    <3>2. record[i].turn \in 1..load.turns /\ record[i].step \in 1..load.steps
      BY <1>3, <2>1, <3>1 DEF Messages
    <3>3. record[i].step # step
      BY <1>1, <1>3, <3>2 DEF Conversation, Placed
    <3> QED BY <1>13, <3>2, <3>3
  <2> QED BY <2>1, RecalledStays DEF Conversation, Kept
<1>17. Kept'
  BY <1>2, <1>15, <1>16 DEF Conversation, Kept
<1>18. Placed' /\ Read'
  BY <1>1, <1>2 DEF Conversation, Placed, Read
<1>19. Paired'
  BY <1>1, HandOverPairs
<1>20. request.previous # <<turn, step>>
  BY <1>1 DEF Conversation, Shown
<1>21. Context' = Context
  <2>1. Context' = (IF request.previous = Blank THEN <<>>
                    ELSE responses'[request.previous[1]][request.previous[2]]) \o request.items
    BY <1>2 DEF Context, Remembered
  <2>2. CASE request.previous = Blank
    BY <2>1, <2>2 DEF Context, Remembered
  <2>3. CASE request.previous # Blank
    <3>1. PICK t \in 1..turn, s \in 1..load.steps : request.previous = <<t, s>>
      BY <2>3 DEF Shape, TalkType
    <3>2. responses'[t][s] = responses[t][s]
      BY <1>3, <1>13, <1>20, <3>1
    <3>3. request.previous[1] = t /\ request.previous[2] = s
      BY <3>1
    <3>4. Context' = responses'[t][s] \o request.items
      BY <2>1, <2>3, <3>3
    <3>5. Context = responses[t][s] \o request.items
      BY <2>3, <3>3 DEF Context, Remembered
    <3> QED BY <3>2, <3>4, <3>5
  <2> QED BY <2>2, <2>3
<1>22. Shown'
  <2>1. P' = "openai"
    BY <1>1, <1>2 DEF P
  <2>2. (request.previous # <<turn, step>>)'
    BY <1>2, <1>20
  <2>3. (responses[turn][step] = Append(Context, Item("native", Said, Said.ids)))'
    BY <1>2, <1>8, <1>13, <1>21 DEF R
  <2> QED BY <2>1, <2>2, <2>3 DEF Shown
<1> QED BY <1>14, <1>17, <1>18, <1>19, <1>22 DEF Conversation

\* What OpenAI answered it remembers.
LEMMA StepRecalled ==
    ASSUME Shape, Conversation, phase = "heard"
    PROVE  Recalled(StepMessages, provider, responses)
<1>1. /\ Said.turn = turn /\ Said.step = step
      /\ \A i \in DOMAIN StepMessages :
            StepMessages[i].role = "assistant" => StepMessages[i] = Said
  BY StepMessagesAre DEF Conversation
<1>2. ASSUME provider[turn] = "openai"
      PROVE  LET R == responses[turn][step]
             IN R # <<>> /\ R[Len(R)] = Item("native", Said, Said.ids)
  <2>1. responses[turn][step] = Append(Context, Item("native", Said, Said.ids))
    BY <1>2 DEF Conversation, Shown, P
  <2>2. Context \in Seq(Items(turn))
    BY ContextType
  <2> DEFINE x == Item("native", Said, Said.ids)
  <2> HIDE DEF x
  <2>3. Append(Context, x) # <<>> /\ Append(Context, x)[Len(Append(Context, x))] = x
    BY <2>2
  <2> QED BY <2>1, <2>3 DEF x
<1> QED BY <1>1, <1>2 DEF Recalled

\* The next step of the turn.
LEMMA NextStepTalks ==
    ASSUME Shape, Conversation, NextStep
    PROVE  Conversation'
<1> DEFINE m == StepMessages
           b == history \o record
<1>1. /\ phase = "heard" /\ phase' = "ask" /\ step' = step + 1 /\ step \in Nat
      /\ prompt' = prompt \o m /\ record' = record \o m
      /\ UNCHANGED <<load, turn, provider, history, responses, request>>
  BY ShapeFields DEF NextStep, stores
<1>2. /\ m \in Seq(Messages(turn)) /\ Intact(m) /\ AllOwned(m) /\ Told(m)
      /\ Recalled(m, provider, responses)
      /\ \A i \in DOMAIN m : m[i].turn = turn /\ m[i].step = step
  BY <1>1, StepMessagesAre, StepRecalled DEF Conversation
<1> HIDE DEF m
<1>3. /\ m \in Seq(Notes) /\ record \in Seq(Notes) /\ history \in Seq(Notes)
      /\ b \in Seq(Notes)
  BY <1>2, BodyIs, MessagesAreNotes DEF Conversation
<1>4. Kept'
  <2>1. /\ Intact(record) /\ AllOwned(record) /\ Told(record)
        /\ Recalled(record, provider, responses)
    BY DEF Conversation, Kept
  <2>2. Intact(record \o m) /\ AllOwned(record \o m)
    BY <1>2, <1>3, <2>1, IntactCat, AllOwnedCat
  <2>3. Told(record \o m) /\ Recalled(record \o m, provider, responses)
    BY <1>2, <1>3, <2>1, ToldCat, RecalledCat
  <2> QED BY <1>1, <2>2, <2>3 DEF Conversation, Kept
<1>5. Memory'
  BY <1>1 DEF Conversation, Memory
<1>6. Prompt(prompt', history \o (record \o m))
  <2>1. prompt = <<System>> \o b \/ prompt = <<System>> \o (<<Summary>> \o b)
    BY <1>1 DEF Conversation, Placed, Prompt
  <2>2. history \o (record \o m) = b \o m
    BY <1>3, ConcatAssociative
  <2> DEFINE h == <<System>>
             k == <<Summary>>
  <2> HIDE DEF b
  <2>3. h \in Seq(Notes) /\ k \in Seq(Notes) /\ k \o b \in Seq(Notes)
    BY <1>3, HeadNotes
  <2> HIDE DEF h, k
  <2>4. /\ (h \o b) \o m = h \o (b \o m)
        /\ (h \o (k \o b)) \o m = h \o ((k \o b) \o m)
        /\ (k \o b) \o m = k \o (b \o m)
    <3>1. h \in Seq(Notes) /\ k \in Seq(Notes) /\ b \in Seq(Notes) /\ m \in Seq(Notes)
      BY <1>3, <2>3
    <3>2. \A x, y, z \in Seq(Notes) : (x \o y) \o z = x \o (y \o z)
      BY ConcatAssociative
    <3>3. (h \o b) \o m = h \o (b \o m) /\ (k \o b) \o m = k \o (b \o m)
      BY ONLY <3>1, <3>2
    <3>4. (h \o (k \o b)) \o m = h \o ((k \o b) \o m)
      BY ONLY <2>3, <3>1, <3>2
    <3> QED BY <3>3, <3>4
  <2>5. prompt' = h \o (b \o m) \/ prompt' = h \o (k \o (b \o m))
    BY <1>1, <2>1, <2>4 DEF h, k
  <2> QED BY <2>2, <2>5 DEF Prompt, h, k
<1>7. \A i \in DOMAIN (record \o m) : (record \o m)[i].turn = turn /\ (record \o m)[i].step < step + 1
  <2>1. /\ DOMAIN record = 1..Len(record) /\ DOMAIN m = 1..Len(m)
        /\ \A i \in 1..Len(record) : (record \o m)[i] = record[i]
        /\ \A i \in 1..Len(m) : (record \o m)[Len(record) + i] = m[i]
    BY <1>3, CatElements
  <2>2. \A i \in DOMAIN (record \o m) :
            i \in 1..Len(record) \/ \E k \in 1..Len(m) : i = Len(record) + k
    BY <1>3, CatIndex
  <2>3. \A i \in DOMAIN record : record[i].turn = turn /\ record[i].step < step + 1
    <3>1. \A i \in DOMAIN record : record[i].step \in Nat
      BY <1>3, NoteFields
    <3> QED BY <1>1, <3>1 DEF Conversation, Placed
  <2>4. \A i \in DOMAIN m : m[i].turn = turn /\ m[i].step < step + 1
    BY <1>1, <1>2
  <2> QED BY <2>1, <2>2, <2>3, <2>4
<1>8. Placed'
  <2>1. \A i \in DOMAIN history : history[i].turn # turn
    BY <1>1 DEF Conversation, Placed
  <2> QED BY <1>1, <1>6, <1>7, <2>1 DEF Placed
<1>9. Paired' /\ Read' /\ Shown'
  BY <1>1 DEF Paired, Read, Shown
<1> QED BY <1>4, <1>5, <1>8, <1>9 DEF Conversation

LEMMA NextTalks == Shape /\ Conversation /\ [Next]_vars => Conversation'
<1> SUFFICES ASSUME Shape, Conversation, [Next]_vars PROVE Conversation'
  OBVIOUS
<1>1. ASSUME NEW p \in load.providers, NEW summarized \in load.summary, Begin(p, summarized)
      PROVE  Conversation'
  <2>1. summarized \in BOOLEAN
    BY LoadFields DEF Shape, TalkType
  <2> QED BY <1>1, <2>1, BeginTalks
<1>2. ASSUME NEW calls, NEW named, NEW sound, Ask(calls, named, sound) PROVE Conversation'
  BY <1>2, AskTalks
<1>3. CASE Unsupported \/ StreamFails
  BY <1>3, FailTalks DEF Unsupported, StreamFails
<1>4. ASSUME phase = "stream", Quiet PROVE Conversation'
  BY <1>4, QuietTalks
<1>5. ASSUME NEW entries, NEW text, NEW usage, HandOver(entries, text, usage),
             phase = "stream", P # "openai", responses' = responses
      PROVE  Conversation'
  BY <1>5, HandOverTalks
<1>6. CASE LiteLLM
  <2>1. ASSUME NEW kind \in Kind, LiteLLMDelta(kind) PROVE Conversation'
    BY <1>4, <2>1 DEF LiteLLMDelta, Streaming
  <2>2. ASSUME NEW i \in DOMAIN answer.calls, LiteLLMFragment(i) PROVE Conversation'
    BY <1>4, <2>2 DEF LiteLLMFragment, Streaming
  <2>3. CASE LiteLLMReport
    BY <1>4, <2>3 DEF LiteLLMReport, Streaming
  <2>4. CASE LiteLLMEnd
    BY <1>5, <2>4 DEF LiteLLMEnd, Streaming
  <2> QED BY <1>6, <2>1, <2>2, <2>3, <2>4 DEF LiteLLM
<1>7. CASE OpenAI
  <2>1. ASSUME NEW kind \in Kind, OpenAIDelta(kind) PROVE Conversation'
    BY <1>4, <2>1 DEF OpenAIDelta, Streaming
  <2>2. ASSUME NEW whole, OpenAIMessageDone(whole) PROVE Conversation'
    BY <1>4, <2>2 DEF OpenAIMessageDone, Streaming
  <2>3. ASSUME NEW i \in DOMAIN answer.calls, OpenAIArguments(i) PROVE Conversation'
    BY <1>4, <2>3 DEF OpenAIArguments, Streaming
  <2>4. ASSUME NEW i \in DOMAIN answer.calls, NEW whole, OpenAICallDone(i, whole)
        PROVE  Conversation'
    BY <1>4, <2>4 DEF OpenAICallDone, Streaming
  <2>5. ASSUME NEW reports, OpenAIEnd(reports) PROVE Conversation'
    BY <2>5, OpenAIEndTalks
  <2> QED BY <1>7, <2>1, <2>2, <2>3, <2>4, <2>5 DEF OpenAI
<1>8. CASE Anthropic
  <2>1. ASSUME NEW kind \in Kind, AnthropicDelta(kind) PROVE Conversation'
    BY <1>4, <2>1 DEF AnthropicDelta, Streaming
  <2>2. ASSUME NEW i \in DOMAIN answer.calls, AnthropicBlock(i) PROVE Conversation'
    BY <1>4, <2>2 DEF AnthropicBlock, Streaming
  <2>3. ASSUME NEW reports, AnthropicEnd(reports) PROVE Conversation'
    BY <1>5, <2>3 DEF AnthropicEnd, Streaming
  <2> QED BY <1>8, <2>1, <2>2, <2>3 DEF Anthropic
<1>9. CASE Gemini
  <2>1. ASSUME NEW kind \in Kind, GeminiDelta(kind) PROVE Conversation'
    BY <1>4, <2>1 DEF GeminiDelta, Streaming
  <2>2. ASSUME NEW i \in DOMAIN answer.calls, GeminiCall(i) PROVE Conversation'
    BY <1>4, <2>2 DEF GeminiCall, WholeCall, Streaming
  <2>3. CASE GeminiReport
    BY <1>4, <2>3 DEF GeminiReport, Streaming
  <2>4. CASE GeminiEnd
    BY <1>5, <2>4 DEF GeminiEnd, Streaming
  <2> QED BY <1>9, <2>1, <2>2, <2>3, <2>4 DEF Gemini
<1>10. CASE Qwen
  <2>1. ASSUME NEW kind \in Kind, QwenDelta(kind) PROVE Conversation'
    BY <1>4, <2>1 DEF QwenDelta, Streaming
  <2>2. ASSUME NEW i \in DOMAIN answer.calls, QwenCall(i) PROVE Conversation'
    BY <1>4, <2>2 DEF QwenCall, WholeCall, Streaming
  <2>3. CASE QwenReport
    BY <1>4, <2>3 DEF QwenReport, Streaming
  <2>4. CASE QwenEnd
    BY <1>5, <2>4 DEF QwenEnd, Streaming
  <2> QED BY <1>10, <2>1, <2>2, <2>3, <2>4 DEF Qwen
<1>11. ASSUME phase = "heard", EndTurn, responses' = responses, Keep(StepMessages)
       PROVE  Conversation'
  BY <1>11, StepMessagesAre, StepRecalled, KeepTalks DEF Conversation
<1>12. CASE Answered
  <2>1. Results = <<>>
    BY <1>12 DEF Answered, Results
  <2>2. StepMessages = <<Said>>
    BY <2>1 DEF StepMessages
  <2> QED BY <1>11, <1>12, <2>2 DEF Answered
<1>13. CASE NextStep
  BY <1>13, NextStepTalks
<1>14. CASE Exhausted
  BY <1>11, <1>14 DEF Exhausted
<1>15. CASE UNCHANGED vars
  <2>1. UNCHANGED <<load, turn, step, provider, history, responses, prompt, record, request,
                    phase, heard>>
    BY <1>15 DEF vars, talk, stores
  <2>2. P' = P /\ Context' = Context /\ Formatted(P, prompt)' = Formatted(P, prompt)
    BY <2>1 DEF P, Context, Remembered, Formatted, ItemFor, Own, Made
  <2>3. Said' = Said
    BY <2>1 DEF Said, Assistant
  <2>4. (Item("native", Said, Said.ids))' = Item("native", Said, Said.ids)
    BY <2>3 DEF Item
  <2>5. Kept' /\ Memory' /\ Placed' /\ Paired'
    BY <2>1 DEF Conversation, Kept, Memory, Placed, Paired
  <2>6. Read' /\ Shown'
    BY <2>1, <2>2, <2>4 DEF Conversation, Read, Shown
  <2> QED BY <2>5, <2>6 DEF Conversation
<1> QED BY <1>1, <1>2, <1>3, <1>6, <1>7, <1>8, <1>9, <1>10, <1>12, <1>13, <1>14, <1>15
       DEF Next, Step

LEMMA InitTalks == Init => Conversation
<1> SUFFICES ASSUME Init PROVE Conversation
  OBVIOUS
<1>1. phase = "idle" /\ history = <<>> /\ record = <<>> /\ load \in Loads
      /\ responses = [t \in 1..load.turns |-> [s \in 1..load.steps |-> <<>>]]
  BY DEF Init
<1>2. Kept
  BY <1>1 DEF Kept, Intact, Grouped, AllOwned, Told, Recalled
<1>3. Memory
  <2>1. Remembering(<<>>, provider)
    BY DEF Remembering, AnsweredUpTo, Explained
  <2> QED BY <1>1, <2>1 DEF Memory
<1>4. Placed /\ Paired /\ Read /\ Shown
  BY <1>1 DEF Placed, Paired, Read, Shown
<1> QED BY <1>2, <1>3, <1>4 DEF Conversation

\* Whatever provider answered before, and wherever the hot context is cut: in what a model
\* reads, each native answer that calls tools is followed at once by the results of its calls,
\* in their order.
THEOREM CallsAnsweredInPlaceHolds == Spec => []CallsAnsweredInPlace
<1>1. Shape /\ Conversation /\ [Next]_vars => Shape' /\ Conversation'
  BY NextShape, NextTalks
<1>2. Init => Shape /\ Conversation
  BY InitShape, InitTalks
<1>3. Shape /\ Conversation => CallsAnsweredInPlace
  <2> SUFFICES ASSUME Shape, Conversation, phase = "stream",
                      NEW i \in DOMAIN Context, NEW k \in DOMAIN Context[i].keys,
                      Context[i].kind = "native"
               PROVE  /\ i + k \in DOMAIN Context
                      /\ Context[i + k].kind = "result"
                      /\ Context[i].keys[k] \in {Blank, Context[i + k].keys[1]}
    BY DEF CallsAnsweredInPlace
  <2>1. i \in 1..Len(Context)
    BY ContextType
  <2> QED BY <2>1 DEF Conversation, Read, AnsweredUpTo
<1> QED BY <1>1, <1>2, <1>3, PTL DEF Spec

\* A result whose call the model does not read is of another provider's turn, or it heads
\* what the trimmed hot context still holds: no later message is separated from its call.
THEOREM OrphansExplainedHolds == Spec => []OrphansExplained
<1>1. Shape /\ Conversation /\ [Next]_vars => Shape' /\ Conversation'
  BY NextShape, NextTalks
<1>2. Init => Shape /\ Conversation
  BY InitShape, InitTalks
<1>3. Conversation => OrphansExplained
  <2> SUFFICES ASSUME Conversation, phase = "stream",
                      NEW i \in DOMAIN Context, Context[i].kind = "result"
               PROVE  Answers(i) \/ AtHead(i) \/ provider[Context[i].turn] # P
    BY DEF OrphansExplained
  <2>1. \/ ResultOf(Context, i)
        \/ \A j \in 1..(i - 1) : Context[j].turn = 0 \/ Context[j].kind = "result"
        \/ Context[i].turn # 0 /\ provider[Context[i].turn] # P
    BY DEF Conversation, Read, Explained
  <2>2. ResultOf(Context, i) => Answers(i)
    BY DEF ResultOf, Answers
  <2> QED BY <2>1, <2>2 DEF AtHead
<1> QED BY <1>1, <1>2, <1>3, PTL DEF Spec

-----------------------------------------------------------------------------
(* Each further request of a turn builds on the one before.                *)

\* A vendor is sent two lists in a row as it is sent each of them.
LEMMA FormattedCat ==
    ASSUME Shape, NEW p, NEW a \in Seq(Messages(turn)), NEW b \in Seq(Messages(turn))
    PROVE  Formatted(p, a \o b) = Formatted(p, a) \o Formatted(p, b)
<1> DEFINE c == a \o b
           I == {i \in DOMAIN c : p \in Asides => c[i].role # "system"}
           J == {i \in DOMAIN a : p \in Asides => a[i].role # "system"}
           K == {i \in DOMAIN b : p \in Asides => b[i].role # "system"}
           x == ShownTo(p, a)
           y == ShownTo(p, b)
           f == Formatted(p, a)
           g == Formatted(p, b)
           h == Formatted(p, c)
<1>1. /\ DOMAIN c = 1..(Len(a) + Len(b)) /\ DOMAIN a = 1..Len(a) /\ DOMAIN b = 1..Len(b)
      /\ Len(a) \in Nat /\ Len(b) \in Nat /\ c \in Seq(Messages(turn))
      /\ \A i \in 1..Len(a) : c[i] = a[i]
      /\ \A i \in 1..Len(b) : c[Len(a) + i] = b[i]
  BY CatElements
<1> HIDE DEF c
<1>2. \A i \in 1..Len(a) : i \in I <=> i \in J
  BY <1>1
<1>3. \A i \in 1..Len(b) : Len(a) + i \in I <=> i \in K
  BY <1>1
<1>4. ShownTo(p, c) = x \o y
  <2>1. At(a \o b, I) = At(a, J) \o At(b, K)
    <3> HIDE DEF I, J, K
    <3>1. a \in Seq(Messages(turn)) /\ b \in Seq(Messages(turn))
      OBVIOUS
    <3> QED BY ONLY <3>1, <1>2, <1>3, AtCat
  <2> QED BY <2>1 DEF ShownTo, c
<1>5. x \in Seq(Messages(turn)) /\ y \in Seq(Messages(turn))
  BY AtElements DEF ShownTo
<1>6. /\ f = [i \in DOMAIN x |-> ItemFor(p, x[i])]
      /\ g = [i \in DOMAIN y |-> ItemFor(p, y[i])]
      /\ h = [i \in DOMAIN (x \o y) |-> ItemFor(p, (x \o y)[i])]
  <2>1. h = [i \in DOMAIN ShownTo(p, c) |-> ItemFor(p, ShownTo(p, c)[i])]
    BY FormattedIs
  <2> HIDE DEF h
  <2>2. h = [i \in DOMAIN (x \o y) |-> ItemFor(p, (x \o y)[i])]
    BY <1>4, <2>1
  <2> QED BY <2>2, FormattedIs
<1>7. f \in Seq(Items(turn)) /\ g \in Seq(Items(turn)) /\ h \in Seq(Items(turn))
  BY <1>1, FormattedType
<1> HIDE DEF x, y, f, g, h
<1>8. /\ DOMAIN (x \o y) = 1..(Len(x) + Len(y)) /\ DOMAIN x = 1..Len(x) /\ DOMAIN y = 1..Len(y)
      /\ Len(x) \in Nat /\ Len(y) \in Nat
      /\ \A i \in 1..Len(x) : (x \o y)[i] = x[i]
      /\ \A i \in 1..Len(y) : (x \o y)[Len(x) + i] = y[i]
  BY <1>5, CatElements
<1>9. /\ Len(f) = Len(x) /\ Len(g) = Len(y) /\ Len(h) = Len(x) + Len(y)
      /\ \A i \in 1..Len(x) : f[i] = ItemFor(p, x[i]) /\ h[i] = ItemFor(p, x[i])
      /\ \A i \in 1..Len(y) : g[i] = ItemFor(p, y[i]) /\ h[Len(x) + i] = ItemFor(p, y[i])
  <2>1. \A i \in 1..Len(y) : Len(x) + i \in 1..(Len(x) + Len(y))
    BY <1>8
  <2>2. \A i \in 1..Len(x) : i \in 1..(Len(x) + Len(y))
    BY <1>8
  <2> QED BY <1>6, <1>7, <1>8, <2>1, <2>2
<1>10. /\ f \o g \in Seq(Items(turn)) /\ Len(f \o g) = Len(f) + Len(g)
       /\ \A i \in 1..Len(f) : (f \o g)[i] = f[i]
       /\ \A i \in 1..Len(g) : (f \o g)[Len(f) + i] = g[i]
  BY <1>7, CatElements
<1> DEFINE u == f \o g
<1> HIDE DEF u
<1>11. ASSUME NEW i \in 1..(Len(x) + Len(y)) PROVE u[i] = h[i]
  <2>1. CASE i <= Len(x)
    BY <1>8, <1>9, <1>10, <2>1 DEF u
  <2>2. CASE i > Len(x)
    <3>1. i - Len(x) \in 1..Len(y) /\ i = Len(x) + (i - Len(x))
      BY <1>8, <2>2
    <3>2. PICK k \in 1..Len(y) : i = Len(x) + k
      BY <3>1
    <3> QED BY <1>9, <1>10, <3>2 DEF u
  <2> QED BY <1>8, <2>1, <2>2
<1>12. u = h
  <2>1. u \in Seq(Items(turn)) /\ h \in Seq(Items(turn)) /\ Len(u) = Len(h)
    BY <1>7, <1>9, <1>10 DEF u
  <2>2. \A i \in 1..Len(u) : u[i] = h[i]
    BY <1>9, <1>10, <1>11 DEF u
  <2> QED BY <2>1, <2>2, SeqEqual
<1> QED BY <1>12 DEF u, f, g, h, c

\* A prompt that ends in the messages of one step.
EndsIn(q, old, m, rest, t, s) ==
    /\ q = old \o (<<m>> \o rest)
    /\ m.role = "assistant" /\ m.turn = t /\ m.step = s
    /\ rest # <<>>
    /\ \A i \in DOMAIN rest : rest[i].role = "tool" /\ rest[i].turn = t /\ rest[i].step = s
    /\ \A i \in DOMAIN old : ~(old[i].turn = t /\ old[i].step = s)
\* Before a further request, the last one was made of what the prompt has added to since.
Bridge ==
    phase = "ask" /\ step > 1 =>
        \E old \in Seq(Messages(turn)), m \in Messages(turn), rest \in Seq(Messages(turn)) :
            /\ EndsIn(prompt, old, m, rest, turn, step - 1)
            /\ P # "openai" => Context = Formatted(P, old)
            /\ P = "openai" =>
                  responses[turn][step - 1] = Append(Context, Item("native", m, m.ids))

LEMMA NextStepBridge ==
    ASSUME Shape, Conversation, NextStep
    PROVE  Bridge'
<1>1. /\ phase = "heard" /\ heard.calls # <<>> /\ step' = step + 1 /\ step \in Nat
      /\ prompt' = prompt \o (<<Said>> \o Results)
      /\ UNCHANGED <<load, turn, provider, responses, request>>
  BY ShapeFields DEF NextStep, stores, StepMessages
<1>2. /\ Said \in Messages(turn) /\ Results \in Seq(Messages(turn))
      /\ Len(Results) = Len(heard.calls)
      /\ Said.role = "assistant" /\ Said.turn = turn /\ Said.step = step
      /\ \A i \in DOMAIN Results :
            Results[i].role = "tool" /\ Results[i].turn = turn /\ Results[i].step = step
  BY <1>1, StepMessagesAre DEF Conversation
<1>3. prompt \in Seq(Messages(turn)) /\ turn # 0
  BY <1>1 DEF Shape, TalkType
<1>4. Results # <<>>
  <2>1. heard.calls \in Seq(Calls)
    BY ShapeFields
  <2>2. Len(heard.calls) # 0
    BY <1>1, <2>1
  <2> QED BY <1>2, <2>2
<1>5. \A i \in DOMAIN prompt : ~(prompt[i].turn = turn /\ prompt[i].step = step)
  <2> SUFFICES ASSUME NEW i \in DOMAIN prompt, prompt[i].turn = turn, prompt[i].step = step
               PROVE  FALSE
    OBVIOUS
  <2> DEFINE b == history \o record
  <2>1. b \in Seq(Notes) /\ Prompt(prompt, b)
    BY <1>1, BodyIs DEF Conversation, Placed
  <2>2. \A j \in DOMAIN b : (\E k \in DOMAIN history : b[j] = history[k])
                            \/ \E k \in DOMAIN record : b[j] = record[k]
    <3>1. /\ DOMAIN history = 1..Len(history) /\ DOMAIN record = 1..Len(record)
          /\ \A k \in 1..Len(history) : b[k] = history[k]
          /\ \A k \in 1..Len(record) : b[Len(history) + k] = record[k]
      BY BodyIs, CatElements DEF Conversation
    <3>2. \A j \in DOMAIN b :
              j \in 1..Len(history) \/ \E k \in 1..Len(record) : j = Len(history) + k
      BY BodyIs, CatIndex DEF Conversation
    <3> HIDE DEF b
    <3> QED BY <3>1, <3>2
  <2> HIDE DEF b
  <2>3. PICK j \in DOMAIN b : prompt[i] = b[j]
    BY <1>3, <2>1, PromptBody, HeadNotes
  <2>4. (\E k \in DOMAIN history : b[j] = history[k]) \/ \E k \in DOMAIN record : b[j] = record[k]
    BY <2>2
  <2>5. CASE \E k \in DOMAIN history : b[j] = history[k]
    BY <1>1, <2>3, <2>5 DEF Conversation, Placed
  <2>6. CASE \E k \in DOMAIN record : b[j] = record[k]
    <3>1. \A k \in DOMAIN record : record[k].step < step
      BY <1>1 DEF Conversation, Placed
    <3> QED BY <1>1, <2>3, <2>6, <3>1
  <2> QED BY <2>4, <2>5, <2>6
<1>6. EndsIn(prompt', prompt, Said, Results, turn, step)
  BY <1>1, <1>2, <1>4, <1>5 DEF EndsIn
<1>7. /\ P # "openai" => Context = Formatted(P, prompt)
      /\ P = "openai" => responses[turn][step] = Append(Context, Item("native", Said, Said.ids))
  BY <1>1 DEF Conversation, Shown
<1>8. P' = P /\ Context' = Context /\ (step - 1)' = step /\ step' - 1 = step
  BY <1>1 DEF P, Context, Remembered
<1>9. \A q : Formatted(P, q)' = Formatted(P, q)
  BY <1>1 DEF P, Formatted, ItemFor, Own, Made
<1>10. Messages(turn)' = Messages(turn)
  BY <1>1 DEF Messages
<1> SUFFICES \E old \in Seq(Messages(turn)), m \in Messages(turn), rest \in Seq(Messages(turn)) :
                 /\ EndsIn(prompt', old, m, rest, turn, step)
                 /\ P # "openai" => Context = Formatted(P, old)
                 /\ P = "openai" =>
                       responses[turn][step] = Append(Context, Item("native", m, m.ids))
  BY <1>1, <1>8, <1>9, <1>10 DEF Bridge
<1> QED BY <1>2, <1>3, <1>6, <1>7

\* Only another step makes the turn ask again.
LEMMA OnlyNextStepAsks ==
    ASSUME Shape, Next, phase' = "ask", step' > 1
    PROVE  NextStep
<1>1. ASSUME NEW p \in load.providers, NEW summarized \in load.summary, Begin(p, summarized)
      PROVE  FALSE
  BY <1>1 DEF Begin
<1>2. ASSUME NEW calls, NEW named, NEW sound, Ask(calls, named, sound) PROVE FALSE
  BY <1>2 DEF Ask
<1>3. ~Unsupported /\ ~StreamFails /\ ~Answered /\ ~Exhausted
  BY DEF Unsupported, StreamFails, Answered, Exhausted, EndTurn
<1>4. ~LiteLLM
  BY DEF LiteLLM, LiteLLMDelta, LiteLLMFragment, LiteLLMReport, LiteLLMEnd, Streaming, Quiet,
     HandOver
<1>5. ~OpenAI
  BY DEF OpenAI, OpenAIDelta, OpenAIMessageDone, OpenAIArguments, OpenAICallDone, OpenAIEnd,
     Streaming, Quiet, HandOver
<1>6. ~Anthropic
  BY DEF Anthropic, AnthropicDelta, AnthropicBlock, AnthropicEnd, Streaming, Quiet, HandOver
<1>7. ~Gemini
  BY DEF Gemini, GeminiDelta, GeminiCall, WholeCall, GeminiReport, GeminiEnd, Streaming, Quiet,
     HandOver
<1>8. ~Qwen
  BY DEF Qwen, QwenDelta, QwenCall, WholeCall, QwenReport, QwenEnd, Streaming, Quiet, HandOver
<1> QED BY <1>1, <1>2, <1>3, <1>4, <1>5, <1>6, <1>7, <1>8 DEF Next, Step

LEMMA NextBridge ==
    ASSUME Shape, Conversation, Bridge, [Next]_vars
    PROVE  Bridge'
<1>1. CASE UNCHANGED vars
  <2>1. UNCHANGED <<load, turn, step, provider, responses, prompt, request, phase>>
    BY <1>1 DEF vars, talk, stores
  <2>2. P' = P /\ Context' = Context
    BY <2>1 DEF P, Context, Remembered
  <2>3. \A q : Formatted(P, q)' = Formatted(P, q)
    BY <2>1 DEF P, Formatted, ItemFor, Own, Made
  <2>4. Messages(turn)' = Messages(turn)
    BY <2>1 DEF Messages
  <2> QED BY <2>1, <2>2, <2>3, <2>4 DEF Bridge
<1>2. CASE Next
  <2>1. CASE phase' = "ask" /\ step' > 1
    BY <1>2, <2>1, OnlyNextStepAsks, NextStepBridge
  <2>2. CASE ~(phase' = "ask" /\ step' > 1)
    BY <2>2 DEF Bridge
  <2> QED BY <2>1, <2>2
<1> QED BY <1>1, <1>2

\* What is taken of a prompt that ends in the messages of a step: those messages, since the
\* step; and the results, by the formatter for OpenAI.
LEMMA EndTaken ==
    ASSUME Shape, NEW old \in Seq(Messages(turn)), NEW m \in Messages(turn),
           NEW rest \in Seq(Messages(turn)), NEW q, NEW s, EndsIn(q, old, m, rest, turn, s)
    PROVE  /\ At(q, {i \in DOMAIN q : q[i].turn = turn /\ q[i].step = s}) = <<m>> \o rest
           /\ q \in Seq(Messages(turn)) /\ <<m>> \o rest \in Seq(Messages(turn))
           /\ Own("openai", m) => Outputs(q) = rest /\ LastResponse(q) = <<turn, s>>
<1> DEFINE h == <<m>>
           new == h \o rest
           T == Messages(turn)
<1>1. /\ q = old \o new /\ m.role = "assistant" /\ m.turn = turn /\ m.step = s
      /\ \A i \in DOMAIN rest : rest[i].role = "tool" /\ rest[i].turn = turn /\ rest[i].step = s
      /\ \A i \in DOMAIN old : ~(old[i].turn = turn /\ old[i].step = s)
  BY DEF EndsIn
<1>2. h \in Seq(T) /\ Len(h) = 1 /\ DOMAIN h = 1..1 /\ h[1] = m
  OBVIOUS
<1> HIDE DEF h, T
<1>3. /\ DOMAIN new = 1..(1 + Len(rest)) /\ Len(new) = 1 + Len(rest) /\ new \in Seq(T)
      /\ DOMAIN rest = 1..Len(rest) /\ Len(rest) \in Nat /\ new[1] = m
      /\ \A i \in 1..Len(rest) : new[1 + i] = rest[i]
  <2>1. rest \in Seq(T)
    BY DEF T
  <2>2. /\ h \o rest \in Seq(T) /\ Len(h \o rest) = Len(h) + Len(rest)
        /\ DOMAIN (h \o rest) = 1..(Len(h) + Len(rest)) /\ DOMAIN rest = 1..Len(rest)
        /\ Len(rest) \in Nat
        /\ \A i \in 1..Len(h) : (h \o rest)[i] = h[i]
        /\ \A i \in 1..Len(rest) : (h \o rest)[Len(h) + i] = rest[i]
    <3>1. h \in Seq(T) /\ rest \in Seq(T)
      BY <1>2, <2>1
    <3> QED BY ONLY <3>1, CatElements
  <2> QED BY <1>2, <2>2
<1> HIDE DEF new
<1>4. /\ q \in Seq(T) /\ DOMAIN q = 1..(Len(old) + Len(new)) /\ DOMAIN old = 1..Len(old)
      /\ Len(old) \in Nat /\ Len(q) = Len(old) + Len(new)
      /\ \A i \in 1..Len(old) : q[i] = old[i]
      /\ \A i \in 1..Len(new) : q[Len(old) + i] = new[i]
  <2>1. old \in Seq(T)
    BY DEF T
  <2>2. /\ old \o new \in Seq(T) /\ DOMAIN (old \o new) = 1..(Len(old) + Len(new))
        /\ DOMAIN old = 1..Len(old) /\ Len(old) \in Nat
        /\ Len(old \o new) = Len(old) + Len(new)
        /\ \A i \in 1..Len(old) : (old \o new)[i] = old[i]
        /\ \A i \in 1..Len(new) : (old \o new)[Len(old) + i] = new[i]
    <3>1. old \in Seq(T) /\ new \in Seq(T)
      BY <1>3, <2>1
    <3> QED BY ONLY <3>1, CatElements
  <2> QED BY <1>1, <2>2
<1>5. \A i \in DOMAIN new : i = 1 \/ \E k \in 1..Len(rest) : i = 1 + k
  <2> SUFFICES ASSUME NEW i \in 1..(1 + Len(rest)), i # 1
               PROVE  \E k \in 1..Len(rest) : i = 1 + k
    BY <1>3
  <2>1. i - 1 \in 1..Len(rest) /\ i = 1 + (i - 1)
    BY <1>3
  <2> QED BY <2>1
<1>6. At(q, {i \in DOMAIN q : q[i].turn = turn /\ q[i].step = s}) = new
  <2> DEFINE I == {i \in DOMAIN q : q[i].turn = turn /\ q[i].step = s}
  <2>1. \A i \in 1..Len(old) : i \notin I
    BY <1>1, <1>4
  <2>2. \A i \in 1..Len(new) : new[i].turn = turn /\ new[i].step = s
    <3> SUFFICES ASSUME NEW i \in 1..Len(new) PROVE new[i].turn = turn /\ new[i].step = s
      OBVIOUS
    <3>1. CASE i = 1
      BY <1>1, <1>3, <3>1
    <3>2. CASE i # 1
      <4>1. PICK k \in 1..Len(rest) : i = 1 + k
        BY <1>3, <1>5, <3>2
      <4>2. new[i] = rest[k] /\ k \in DOMAIN rest
        BY <1>3, <4>1
      <4> QED BY <1>1, <4>2
    <3> QED BY <3>1, <3>2
  <2>3. \A i \in 1..Len(new) : Len(old) + i \in I <=> i \in Nat
    BY <1>3, <1>4, <2>2
  <2> HIDE DEF I
  <2>4. old \in Seq(T) /\ new \in Seq(T)
    BY <1>3 DEF T
  <2>5. At(old \o new, I) = At(new, Nat)
    BY ONLY <2>1, <2>3, <2>4, AtSkip
  <2>6. At(new, Nat) = new
    <3>1. 1..Len(new) \subseteq Nat
      OBVIOUS
    <3> QED BY ONLY <3>1, <2>4, AtAll
  <2> QED BY <1>1, <2>5, <2>6 DEF I
<1>7. ASSUME Own("openai", m) PROVE Outputs(q) = rest /\ LastResponse(q) = <<turn, s>>
  <2> DEFINE l == Len(old) + 1
             I == {i \in (l + 1)..Len(q) : q[i].role = "tool"}
  <2>1. l \in 1..Len(q) /\ q[l] = m
    BY <1>3, <1>4
  <2>2. \A i \in 1..Len(q) : i > l => q[i].role = "tool"
    <3> SUFFICES ASSUME NEW i \in 1..Len(q), i > l PROVE q[i].role = "tool"
      OBVIOUS
    <3>1. i - l \in 1..Len(rest) /\ 1 + (i - l) \in 1..Len(new)
          /\ i = Len(old) + (1 + (i - l))
      BY <1>3, <1>4
    <3>2. PICK k \in 1..Len(rest) : 1 + k \in 1..Len(new) /\ i = Len(old) + (1 + k)
      BY <3>1
    <3>3. q[i] = rest[k]
      BY <1>3, <1>4, <3>2
    <3> QED BY <1>1, <1>3, <3>3
  <2>3. LastOwn("openai", q) = l
    <3> DEFINE z == LastOwn("openai", q)
    <3>1. \/ z = 0 /\ \A i \in 1..Len(q) : ~Own("openai", q[i])
          \/ /\ z \in 1..Len(q) /\ Own("openai", q[z])
             /\ \A i \in 1..Len(q) : i > z => ~Own("openai", q[i])
      BY <1>4, LastOwnIs
    <3> HIDE DEF z
    <3>2. z \in 1..Len(q) /\ Own("openai", q[z]) /\ ~(l > z)
      BY <1>7, <2>1, <3>1
    <3>3. ~(z > l)
      BY <2>2, <3>2 DEF Own
    <3> QED BY <1>4, <2>1, <3>2, <3>3 DEF z
  <2>4. Outputs(q) = At(q, I)
    <3>1. l # 0
      BY <1>4
    <3> HIDE DEF l
    <3> QED BY <2>3, <3>1 DEF Outputs
  <2>5. \A i \in 1..Len(old) : i \notin I
    BY <1>4
  <2> DEFINE K == {k \in Nat : Len(old) + k \in I}
  <2>6. \A i \in 1..Len(new) : Len(old) + i \in I <=> i \in K
    OBVIOUS
  <2>7. \A i \in 1..Len(h) : i \notin K
    BY <1>2, <1>4
  <2>8. \A i \in 1..Len(rest) : Len(h) + i \in K <=> i \in Nat
    <3> SUFFICES ASSUME NEW i \in 1..Len(rest) PROVE 1 + i \in K
      BY <1>2
    <3>1. Len(old) + (1 + i) \in (l + 1)..Len(q) /\ Len(old) + (1 + i) \in 1..Len(q)
          /\ Len(old) + (1 + i) > l /\ 1 + i \in Nat
      BY <1>3, <1>4
    <3> QED BY <2>2, <3>1
  <2> HIDE DEF I, K, l
  <2>9. old \in Seq(T) /\ new \in Seq(T) /\ rest \in Seq(T) /\ h \in Seq(T)
    BY <1>2, <1>3 DEF T
  <2>10. At(old \o new, I) = At(new, K)
    BY ONLY <2>5, <2>6, <2>9, AtSkip
  <2>11. At(h \o rest, K) = At(rest, Nat)
    BY ONLY <2>7, <2>8, <2>9, AtSkip
  <2>12. At(rest, Nat) = rest
    <3>1. 1..Len(rest) \subseteq Nat
      OBVIOUS
    <3> QED BY ONLY <3>1, <2>9, AtAll
  <2>13. Outputs(q) = rest
    BY <1>1, <2>4, <2>10, <2>11, <2>12 DEF new
  <2>14. LastResponse(q) = <<turn, s>>
    BY <1>1, <2>1, <2>3 DEF LastResponse
  <2> QED BY <2>13, <2>14
<1> QED BY <1>3, <1>4, <1>6, <1>7 DEF new, h, T

\* Only a request starts a stream.
LEMMA OnlyAskStreams ==
    ASSUME Next, phase = "ask", phase' = "stream"
    PROVE  \E calls \in load.lists, named \in Either("blank"), sound \in Either("garbled") :
               Ask(calls, named, sound)
<1>1. ASSUME NEW p \in load.providers, NEW summarized \in load.summary, Begin(p, summarized)
      PROVE  FALSE
  BY <1>1 DEF Begin
<1>2. ~Unsupported /\ ~StreamFails /\ ~Answered /\ ~NextStep /\ ~Exhausted
  BY DEF Unsupported, StreamFails, Answered, NextStep, Exhausted, EndTurn
<1>3. ~LiteLLM
  BY DEF LiteLLM, LiteLLMDelta, LiteLLMFragment, LiteLLMReport, LiteLLMEnd, Streaming
<1>4. ~OpenAI
  BY DEF OpenAI, OpenAIDelta, OpenAIMessageDone, OpenAIArguments, OpenAICallDone, OpenAIEnd,
     Streaming
<1>5. ~Anthropic
  BY DEF Anthropic, AnthropicDelta, AnthropicBlock, AnthropicEnd, Streaming
<1>6. ~Gemini
  BY DEF Gemini, GeminiDelta, GeminiCall, GeminiReport, GeminiEnd, Streaming
<1>7. ~Qwen
  BY DEF Qwen, QwenDelta, QwenCall, QwenReport, QwenEnd, Streaming
<1> QED BY <1>1, <1>2, <1>3, <1>4, <1>5, <1>6, <1>7 DEF Next, Step

\* A request for OpenAI that continues its last response.
LEMMA ContinuedBuilds ==
    ASSUME Shape, NEW m \in Messages(turn), NEW rest \in Seq(Messages(turn)),
           NEW now \in Seq(Items(turn)), Own("openai", m)
    PROVE  Append(now, Item("native", m, m.ids)) \o Formatted("openai", rest)
               = now \o Formatted("openai", <<m>> \o rest)
<1> DEFINE h == <<m>>
           x == Item("native", m, m.ids)
           f == Formatted("openai", h)
           g == Formatted("openai", rest)
<1>1. h \in Seq(Messages(turn)) /\ Len(h) = 1 /\ h[1] = m /\ DOMAIN h = 1..1
  OBVIOUS
<1>2. ItemFor("openai", m) = x
  <2>1. KeysFor("openai", m) = m.ids
    BY DEF KeysFor
  <2>2. m.role = "assistant"
    BY DEF Own
  <2> QED BY <2>1, <2>2 DEF ItemFor, Own
<1>3. h[1].role # "system"
  BY <1>1 DEF Own
<1> HIDE DEF h, x
<1>4. f = <<x>>
  <2>1. ShownTo("openai", h) = h
    <3>1. \A i \in 1..Len(h) : h[i].role # "system"
      BY <1>1, <1>3
    <3>2. h \in Seq(Notes)
      BY <1>1, MessagesAreNotes
    <3> QED BY <3>1, <3>2, ShownAll
  <2>2. f = [i \in DOMAIN h |-> ItemFor("openai", h[i])]
    BY <2>1, FormattedIs
  <2> QED BY <1>1, <1>2, <2>2
<1>5. f \in Seq(Items(turn)) /\ g \in Seq(Items(turn))
  BY <1>1, FormattedType
<1>6. Formatted("openai", h \o rest) = f \o g
  BY <1>1, FormattedCat
<1> HIDE DEF f, g
<1>7. x \in Items(turn)
  <2>1. f[1] = x /\ 1 \in DOMAIN f
    BY <1>4
  <2> QED BY <1>5, <2>1
<1>8. Append(now, x) = now \o f
  BY <1>4, <1>7, AppendIsConcat
<1>9. (now \o f) \o g = now \o (f \o g)
  <2>1. now \in Seq(Items(turn))
    OBVIOUS
  <2> QED BY <1>5, <2>1, ConcatAssociative
<1> QED BY <1>6, <1>8, <1>9 DEF x, h, g

LEMMA AskBuilds ==
    ASSUME Shape, Conversation, Bridge, step > 1,
           NEW calls, NEW named, NEW sound, Ask(calls, named, sound)
    PROVE  Context' = Context \o Formatted(P, Since) /\ request'.system
<1> DEFINE r == IF P = "openai" THEN OpenAIRequest(prompt) ELSE WholeRequest(P, prompt)
           c == Remembered(r.previous) \o r.items
           T == Messages(turn)
<1>1. /\ phase = "ask" /\ request' = r
      /\ UNCHANGED <<load, turn, step, provider, responses>>
  BY DEF Ask, talk, stores
<1>2. r.system /\ (P # "openai" => c = Formatted(P, prompt))
  <2>1. /\ r = IF P = "openai" THEN OpenAIRequest(prompt) ELSE WholeRequest(P, prompt)
        /\ c = Remembered(r.previous) \o r.items
    OBVIOUS
  <2> HIDE DEF r, c
  <2>2. Kept /\ Memory /\ Placed /\ phase # "idle"
    BY <1>1 DEF Conversation
  <2> QED BY <2>1, <2>2, AskReads
<1>3. Context' = c
  <2>1. Context' = (Remembered(request.previous))' \o r.items
    BY <1>1 DEF Context
  <2>2. (Remembered(request.previous))' = Remembered(r.previous)
    <3> HIDE DEF r
    <3> QED BY <1>1 DEF Remembered
  <2> QED BY <2>1, <2>2
<1>4. PICK old \in Seq(T), m \in T, rest \in Seq(T) :
          /\ EndsIn(prompt, old, m, rest, turn, step - 1)
          /\ P # "openai" => Context = Formatted(P, old)
          /\ P = "openai" =>
                responses[turn][step - 1] = Append(Context, Item("native", m, m.ids))
  BY <1>1 DEF Bridge
<1> DEFINE new == <<m>> \o rest
<1>5. /\ Since = new /\ new \in Seq(T)
      /\ Own("openai", m) => Outputs(prompt) = rest /\ LastResponse(prompt) = <<turn, step - 1>>
  <2> DEFINE s == step - 1
  <2>1. /\ Shape /\ old \in Seq(Messages(turn)) /\ m \in Messages(turn)
        /\ rest \in Seq(Messages(turn)) /\ EndsIn(prompt, old, m, rest, turn, s)
    BY <1>4
  <2> HIDE DEF s
  <2>2. /\ At(prompt, {i \in DOMAIN prompt : prompt[i].turn = turn /\ prompt[i].step = s}) = new
        /\ new \in Seq(Messages(turn))
        /\ Own("openai", m) => Outputs(prompt) = rest /\ LastResponse(prompt) = <<turn, s>>
    BY ONLY <2>1, EndTaken
  <2> QED BY <2>2 DEF Since, s
<1>6. /\ prompt = old \o new /\ rest # <<>>
      /\ m.role = "assistant" /\ m.turn = turn
  BY <1>4 DEF EndsIn
<1> HIDE DEF r, c, new
<1>7. CASE P # "openai"
  <2>1. Formatted(P, old \o new) = Formatted(P, old) \o Formatted(P, new)
    BY <1>5, FormattedCat
  <2> QED BY <1>1, <1>2, <1>3, <1>4, <1>5, <1>6, <1>7, <2>1
<1>8. CASE P = "openai"
  <2>1. turn # 0
    BY <1>1 DEF Shape, TalkType
  <2>2. Own("openai", m)
    BY <1>6, <1>8, <2>1 DEF Own, Made, P
  <2>3. r = [items |-> Formatted("openai", rest), system |-> TRUE, previous |-> <<turn, step - 1>>]
    BY <1>5, <1>6, <1>8, <2>2 DEF r, OpenAIRequest
  <2>4. c = responses[turn][step - 1] \o Formatted("openai", rest)
    BY <2>3 DEF c, Remembered, Blank
  <2>5. Context \in Seq(Items(turn))
    BY ContextType
  <2>6. Append(Context, Item("native", m, m.ids)) \o Formatted("openai", rest)
            = Context \o Formatted("openai", new)
    BY <2>2, <2>5, ContinuedBuilds DEF new
  <2> QED BY <1>1, <1>2, <1>3, <1>4, <1>5, <1>8, <2>4, <2>6
<1> QED BY <1>7, <1>8

\* Each further request of a turn shows the model exactly what the one before did, then its own
\* answer and the results of its calls, replayed or remembered by the vendor.
THEOREM StepsBuildOnHolds == Spec => StepsBuildOn
<1>1. Shape /\ Conversation /\ Bridge /\ [Next]_vars => (Shape /\ Conversation /\ Bridge)'
  BY NextShape, NextTalks, NextBridge
<1>2. Init => Shape /\ Conversation /\ Bridge
  BY InitShape, InitTalks DEF Init, Bridge
<1>3. Shape /\ Conversation /\ Bridge /\ [Next]_vars =>
          [phase = "ask" /\ step > 1 /\ phase' = "stream" =>
              /\ Context' = Context \o Formatted(P, Since)
              /\ request'.system]_vars
  <2> SUFFICES ASSUME Shape, Conversation, Bridge, [Next]_vars,
                      phase = "ask", step > 1, phase' = "stream"
               PROVE  Context' = Context \o Formatted(P, Since) /\ request'.system
    OBVIOUS
  <2>1. Next
    BY DEF vars
  <2>2. PICK calls \in load.lists, named \in Either("blank"), sound \in Either("garbled") :
            Ask(calls, named, sound)
    BY <2>1, OnlyAskStreams
  <2> QED BY <2>2, AskBuilds
<1> QED BY <1>1, <1>2, <1>3, PTL DEF Spec, StepsBuildOn
=============================================================================
