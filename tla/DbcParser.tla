------------------------------ MODULE DbcParser ------------------------------
(***************************************************************************)
(* The recursive descent parser of DBC files, statement by statement.      *)
(*                                                                         *)
(* Its state p is a record: the tokens, the position in them, the database *)
(* built so far, the diagnostics in the order they were reported, what the *)
(* statement has read (got), and whether it goes on (go) or was abandoned. *)
(***************************************************************************)
EXTENDS DbcText

LOCAL Bits == INSTANCE BitField

FreshParser(tokens) ==
  [tokens |-> tokens, pos |-> 1, db |-> EmptyDatabase, found |-> <<>>, got |-> <<>>, go |-> TRUE]

Current(p) == p.tokens[p.pos]
Following(p) == IF p.pos = Len(p.tokens) THEN Current(p) ELSE p.tokens[p.pos + 1]
AtEnd(p) == Current(p).kind = "End"
IsWord(token, w) == token.kind = "Identifier" /\ token.word = w
Advance(p) == IF p.pos < Len(p.tokens) THEN [p EXCEPT !.pos = @ + 1] ELSE p
Match(p, kind) == IF Current(p).kind = kind THEN Advance(p) ELSE p

Report(p, severity, at) == [p EXCEPT !.found = Append(@, [severity |-> severity, at |-> at])]
Error(p) == Report(p, "error", p.pos)
Warn(p, at) == Report(p, "warning", at)
ErrorIf(p, wrong, at) == IF wrong THEN Report(p, "error", at) ELSE p

TopLevelKeywords ==
  {"VERSION", "NS_", "BS_", "BU_", "BO_", "CM_", "BA_DEF_", "BA_DEF_DEF_", "BA_", "VAL_",
   "VAL_TABLE_", "SIG_VALTYPE_", "SG_MUL_VAL_", "BO_TX_BU_", "EV_", "BA_DEF_REL_", "BA_REL_",
   "BA_DEF_DEF_REL_", "SIG_GROUP_", "SGTYPE_", "ENVVAR_DATA_", "BU_SG_REL_", "BU_BO_REL_",
   "BU_EV_REL_", "CAT_DEF_", "CAT_", "FILTER", "SIG_TYPE_REF_"}

ResynchroniseSlip(p) ==   \* at a semicolon only
  LET stop == SelectInSubSeq(p.tokens, p.pos, Len(p.tokens), LAMBDA t : t.kind \in {"End", "Semicolon"})
  IN  Match([p EXCEPT !.pos = stop], "Semicolon")

(* Just past the next semicolon, or at a keyword that begins a line.       *)
Resynchronise(p) ==
  LET stops(t) == \/ t.kind \in {"End", "Semicolon"}
                  \/ t.first /\ t.kind = "Identifier" /\ t.word \in TopLevelKeywords
      stop == SelectInSubSeq(p.tokens, p.pos, Len(p.tokens), stops)
      there == [p EXCEPT !.pos = stop]
  IN  Match(there, "Semicolon")
Abandon(p) == [Resynchronise(p) EXCEPT !.go = FALSE]

-----------------------------------------------------------------------------
(* Reading a statement item by item: one that it needs and keeps, one that *)
(* is missed but not waited for, one that may be left out, a signed number, *)
(* an integer that is reported where it stands if it is out of range, and   *)
(* the sign of a signal, kept whatever it is.                               *)
Need(kind) == [how |-> "need", kind |-> kind]
Expect(kind) == [how |-> "expect", kind |-> kind]
Optional(kind) == [how |-> "optional", kind |-> kind]
Signed == [how |-> "number", kind |-> "Real"]
Within(allowed) == [how |-> "within", kind |-> "Integer", allowed |-> allowed]
Sign == [how |-> "sign", kind |-> "Plus"]

Keep(p, value) == [p EXCEPT !.got = Append(@, value)]

(* parse_number().                                                         *)
SignedNumber(p) ==
  LET negative == Current(p).kind = "Minus"
      q == IF negative THEN Advance(p) ELSE Match(p, "Plus")
  IN  IF Current(q).kind \in {"Integer", "Real"}
      THEN Advance(Keep(q, IF negative THEN -Current(q).number ELSE Current(q).number))
      ELSE [Error(q) EXCEPT !.go = FALSE]

Take(p, item) ==
  LET there == Current(p).kind = item.kind
  IN  CASE ~p.go -> p
        [] item.how = "number" -> LET q == SignedNumber(p) IN IF q.go THEN q ELSE Abandon(q)
        [] item.how = "need" -> IF there THEN Advance(Keep(p, Current(p))) ELSE Abandon(Error(p))
        [] item.how = "expect" -> IF there THEN Advance(p) ELSE Error(p)
        [] item.how = "optional" -> Match(p, item.kind)
        [] item.how = "within" ->
             IF there THEN Advance(Keep(ErrorIf(p, Current(p).number \div 2 \notin item.allowed, p.pos), Current(p)))
             ELSE Abandon(Error(p))
        [] item.how = "sign" ->
             IF Current(p).kind \in {"Plus", "Minus"} THEN Advance(Keep(p, Current(p)))
             ELSE Keep(Error(p), Current(p))

Parse(p, items) ==
  LET after[n \in 0..Len(items)] == IF n = 0 THEN p ELSE Take(after[n - 1], items[n])
  IN  after[Len(items)]

Integral(token) == token.number \div 2
TowardsZero(v) == IF v < 0 THEN -((-v) \div 2) ELSE v \div 2

(* parse_name_list(), kept as one value.                                   *)
RECURSIVE NamesFrom(_, _)
NamesFrom(p, names) ==
  IF Current(p).kind # "Identifier" THEN Keep(p, names)
  ELSE LET more == IF Current(p).word = NoNode THEN names ELSE Append(names, Current(p).word)
           q == Advance(p)
       IN  IF Current(q).kind = "Comma" THEN NamesFrom(Advance(q), more) ELSE Keep(q, more)
NameList(p) == IF p.go THEN NamesFrom(p, <<>>) ELSE p

(* Pairs of a number and a text; the first that is broken ends the list.   *)
RECURSIVE DescriptionsFrom(_, _)
DescriptionsFrom(p, list) ==
  LET q == SignedNumber(p)
      value == TowardsZero(q.got[Len(q.got)])
  IN  CASE Current(p).kind \notin {"Integer", "Minus"} -> Keep(p, list)
        [] OTHER -> CASE ~q.go -> [Keep(q, list) EXCEPT !.go = TRUE]
                      [] Current(q).kind # "String" -> [Error(q) EXCEPT !.got = Append(p.got, list)]
                      [] OTHER -> DescriptionsFrom([Advance(q) EXCEPT !.got = p.got],
                                    Append(list, [value |-> value, text |-> Current(q).word]))
Descriptions(p) == IF p.go THEN DescriptionsFrom(p, <<>>) ELSE p

(* parse_message_id(): 32 bits, the top one for an extended identifier.    *)
IdOf(token) ==
  LET packed == Integral(token) % 2^(EffBit + 1)
      n == packed % 2^EffBit
      asked == Identifier(packed >= 2^EffBit, n)
  IN  CASE asked.ok -> [id |-> asked.value, verdict |-> "ok"]
        [] packed < 2^EffBit /\ Identifier(TRUE, n).ok ->
             [id |-> Identifier(TRUE, n).value, verdict |-> "warning"]
        [] OTHER -> [id |-> [extended |-> FALSE, value |-> 0], verdict |-> "error"]
CheckId(p, token, at) ==
  IF p.go /\ IdOf(token).verdict # "ok" THEN Report(p, IdOf(token).verdict, at) ELSE p

-----------------------------------------------------------------------------
(* The sections.  Each begins past its keyword.                            *)
Integer == Need("Integer")
Name == Need("Identifier")
Text == Need("String")
Colon == Expect("Colon")
Finished(p) == Match(p, "Semicolon")

ParseVersion(p) ==
  LET q == Parse(p, <<Text>>) IN IF q.go THEN [q EXCEPT !.db.version = q.got[1].word] ELSE q

(* An entry stands alone on its line; BS_ ends the list.                   *)
RECURSIVE SymbolsFrom(_, _)
SymbolsFrom(p, symbols) ==
  IF /\ Current(p).kind = "Identifier" /\ ~IsWord(Current(p), "BS_")
     /\ Following(p).first \/ Following(p).kind = "End"
  THEN SymbolsFrom(Advance(p), Append(symbols, Current(p).word))
  ELSE [p EXCEPT !.db.symbols = symbols]
ParseNewSymbols(p) == SymbolsFrom(Match(p, "Colon"), <<>>)

(* A register that cannot be read keeps its last value, and goes on.       *)
ParseBitTiming(p) ==
  LET unsigned(q) == IF Current(q).kind = "Integer" THEN Advance(Keep(q, Integral(Current(q))))
                                                    ELSE Error(q)
      a == Take(p, Colon)
      b == unsigned(a)
      c == unsigned(Advance(b))
      comma == Take(c, Expect("Comma"))
      d == unsigned(comma)
      btr1 == IF Len(c.got) = 2 THEN c.got[2] ELSE 0
      btr2 == IF Len(d.got) > Len(c.got) THEN d.got[Len(d.got)] ELSE 0
  IN  IF Current(a).kind # "Integer" THEN a
      ELSE IF Current(b).kind # "Colon" THEN [b EXCEPT !.db.timing = <<b.got[1], 0, 0>>]
      ELSE [d EXCEPT !.db.timing = <<b.got[1], btr1, btr2>>]

(* To the end of the line, with or without commas.                         *)
RECURSIVE NodesFrom(_)
NodesFrom(p) ==
  LET name == Current(p).word
      q == Match(Advance(p), "Comma")
  IN  IF Current(p).kind # "Identifier" \/ Current(p).first THEN p
      ELSE NodesFrom(IF name = NoNode \/ NodeNamed(p.db, name) # 0 THEN q
                     ELSE [q EXCEPT !.db.nodes = Append(@, Node(name))])
ParseNodes(p) == NodesFrom(Take(p, Colon))

ParseValueTable(p) ==
  LET added(q) == IF q.go THEN Finished([q EXCEPT !.db.tables =
                            Append(@, [name |-> q.got[1].word, values |-> q.got[2]])])
                  ELSE q
  IN  added(Descriptions(Parse(p, <<Name>>)))

(* The multiplexer indicator, if there is one.                             *)
Indicated(signal, token) ==
  CASE IsWord(token, "M") -> [signal EXCEPT !.role = "Multiplexor"]
    [] IsWord(token, "m") -> [signal EXCEPT !.role = "Multiplexed", !.mux = token.number]
    [] IsWord(token, "mM") -> [signal EXCEPT !.role = "Both", !.mux = token.number]
    [] OTHER -> signal
IsIndicator(token) == IsWord(token, "M") \/ IsWord(token, "m") \/ IsWord(token, "mM")

(* What is wrong with a number was reported where it stands; here it is    *)
(* mended.                                                                 *)
SignalItems ==
  <<Within(0..511), Expect("Pipe"), Within(1..64), Expect("At"), Within(0..1), Sign,
    Expect("LParen"), Signed, Expect("Comma"), Signed, Expect("RParen"),
    Expect("LBracket"), Signed, Expect("Pipe"), Signed, Expect("RBracket"), Text>>
SignalRead(got) ==
  LET start == Integral(got[2])
      length == Integral(got[3])
  IN  [FreshSignal EXCEPT
         !.name = got[1].word, !.unit = got[10].word, !.receivers = got[11],
         !.layout = [start |-> IF start > 511 THEN 0 ELSE start,
                     length |-> IF length < 1 THEN 1 ELSE IF length > 64 THEN 64 ELSE length,
                     order |-> IF Integral(got[4]) = 0 THEN "Motorola" ELSE "Intel",
                     signed |-> got[5].kind = "Minus", type |-> "Integer",
                     factor |-> IF got[6] = 0 THEN 2 ELSE got[6],
                     offset |-> got[7], min |-> got[8], max |-> got[9]]]

(* The signal joins its message, unless its statement was abandoned.       *)
SignalAdded(p, m, indicator, start) ==
  LET signal == Indicated(SignalRead(p.got), indicator)
      warned == IF p.got[6] = 0 THEN Warn(p, start) ELSE p
  IN  IF ~p.go THEN [p |-> p, m |-> m]
      ELSE [p |-> ErrorIf(warned, ~Bits!Fits(signal.layout, m.dlc), start),
            m |-> [m EXCEPT !.signals = Append(@, signal)]]

ParseSignal(p, m) ==
  LET named == Parse([p EXCEPT !.got = <<>>, !.go = TRUE], <<Name>>)
      begun == Take(IF named.go /\ IsIndicator(Current(named)) THEN Advance(named) ELSE named, Colon)
  IN  SignalAdded(NameList(Parse(begun, SignalItems)), m, Current(named), begun.pos)

(* A message has the signals that follow it up to the first other token.   *)
RECURSIVE SignalsFrom(_)
SignalsFrom(at) ==
  IF ~IsWord(Current(at.p), "SG_") THEN [at.p EXCEPT !.db.messages = Append(@, at.m)]
  ELSE SignalsFrom(ParseSignal(Advance(at.p), at.m))

MessageRead(got, sender) ==
  LET dlc == Integral(got[3])
  IN  [FreshMessage EXCEPT
         !.id = IdOf(got[1]).id, !.name = got[2].word,
         !.dlc = IF dlc > 64 THEN 64 ELSE dlc, !.fd = dlc > 8,
         !.transmitter = IF sender.kind = "Identifier" /\ sender.word # NoNode THEN sender.word ELSE ""]

ParseMessage(p) ==
  LET id == Parse(p, <<Integer>>)
      begun(q) ==
        LET sent == Current(q).kind = "Identifier"
        IN  IF q.go THEN SignalsFrom([p |-> IF sent THEN Advance(q) ELSE Warn(q, q.pos),
                                      m |-> MessageRead(q.got, Current(q))])
            ELSE q
  IN  begun(Parse(CheckId(id, id.got[1], p.pos), <<Name, Colon, Within(0..64)>>))

ParseMessageTransmitters(p) ==
  LET a == Parse(p, <<Integer, Colon>>)
      told(q) == LET m == MessageWithId(q.db, IdOf(q.got[1]).id)
                 IN  IF m = 0 THEN Warn(q, p.pos) ELSE [q EXCEPT !.db.messages[m].more = q.got[2]]
  IN  IF ~a.go THEN a ELSE told(Finished(NameList(CheckId(a, a.got[1], p.pos))))

(* The last text that was read, if one was, and the optional semicolon.    *)
Finish(p) ==
  IF Current(p).kind = "String" THEN Finished(Advance(Keep(p, Current(p).word))) ELSE Finished(Error(p))
HasText(p, old) == Len(p.got) > Len(old.got)

ParseComment(p) ==
  LET q == Advance(p)
      byNode == Parse(q, <<Name>>)
      n == NodeNamed(p.db, byNode.got[1].word)
      byMessage == Parse(q, <<Integer>>)
      bySignal == Parse(q, <<Integer, Name>>)
      message(r) == MessageWithId(p.db, IdOf(r.got[1]).id)
      checked(r) == CheckId(r, r.got[1], q.pos)
      m == message(byMessage)
      s == SignalNamed(p.db, message(bySignal), bySignal.got[2].word)
      (* the text of what was found, or of nothing *)
      to(r, there, at, Put(_, _)) ==
        LET ready == IF there THEN r ELSE Warn(r, at)
            done == Finish(ready)
        IN  IF there /\ HasText(done, ready) THEN Put(done, done.got[Len(done.got)]) ELSE done
  IN  CASE IsWord(Current(p), "BU_") ->
             IF ~byNode.go THEN byNode
             ELSE to(byNode, n # 0, p.pos, LAMBDA r, t : [r EXCEPT !.db.nodes[n].comment = t])
        [] IsWord(Current(p), "BO_") ->
             IF ~byMessage.go THEN byMessage
             ELSE to(checked(byMessage), m # 0, q.pos, LAMBDA r, t : [r EXCEPT !.db.messages[m].comment = t])
        [] IsWord(Current(p), "SG_") ->
             IF ~bySignal.go THEN bySignal
             ELSE to(checked(bySignal), s # 0, q.pos,
                     LAMBDA r, t : [r EXCEPT !.db.messages[message(bySignal)].signals[s].comment = t])
        [] IsWord(Current(p), "EV_") ->
             Finish(IF Current(q).kind = "Identifier" THEN Advance(q) ELSE Error(q))
        [] OTHER -> to(p, TRUE, p.pos, LAMBDA r, t : [r EXCEPT !.db.comment = t])

(* Warned about at its keyword, and passed over.                           *)
SkipUnsupportedSection(p) == Resynchronise(Warn(p, p.pos - 1))

-----------------------------------------------------------------------------
(* Attributes.                                                             *)
ObjectOf == [BU_ |-> "Node", BO_ |-> "Message", SG_ |-> "Signal", EV_ |-> "EnvVar"]

(* The quoted names of an enumeration, kept as one value.                  *)
RECURSIVE EnumValuesFrom(_, _)
EnumValuesFrom(p, values) ==
  LET more == Append(values, Current(p).word)
      q == Advance(p)
  IN  IF Current(p).kind # "String" THEN Keep(p, values)
      ELSE IF Current(q).kind = "Comma" THEN EnumValuesFrom(Advance(q), more) ELSE Keep(q, more)

DefinitionRead(got, object) ==
  LET type == got[2].word
      ranged == type \in {"INT", "HEX", "FLOAT"}
  IN  [name |-> got[1].word, object |-> object,
       type |-> CHOOSE t \in DOMAIN TypeWord : TypeWord[t] = type,
       min |-> IF ranged THEN got[3] ELSE 0, max |-> IF ranged THEN got[4] ELSE 0,
       values |-> IF type = "ENUM" THEN got[3] ELSE <<>>,
       default |-> Untyped, hasDefault |-> FALSE]

(* A second definition of a name is warned about and left out.             *)
Defined(p, object, at) ==
  CASE ~p.go -> p
    [] OTHER -> IF DefinitionNamed(p.db, p.got[1].word) # 0 THEN Warn(Finished(p), at)
                ELSE [Finished(p) EXCEPT !.db.definitions = Append(@, DefinitionRead(p.got, object))]

ParseAttributeDefinition(p, relation) ==
  LET word == Current(p).word
      known == Current(p).kind = "Identifier" /\ word \in DOMAIN ObjectOf
      other == Current(p).kind = "Identifier" /\ relation
      object == IF known THEN ObjectOf[word] ELSE IF other THEN "Node" ELSE "Database"
      a == Parse(IF known \/ other THEN Advance(p) ELSE p, <<Text, Name>>)
      ranged(q) == CASE q.got[2].word \in {"INT", "HEX", "FLOAT"} -> Parse(q, <<Signed, Signed>>)
                     [] q.got[2].word = "STRING" -> q
                     [] q.got[2].word = "ENUM" -> EnumValuesFrom(q, <<>>)
                     [] OTHER -> Abandon(Report(q, "error", p.pos - 1))
  IN  IF ~a.go THEN a ELSE Defined(ranged(a), object, p.pos - 1)

(* parse_attribute_literal() under a definition, or 0 for none: the value  *)
(* is kept.                                                                *)
ParseAttributeLiteral(p, d) ==
  LET definition == p.db.definitions[d]
      text == Current(p).word
      known == SelectInSeq(definition.values, LAMBDA v : v = text)
      q == SignedNumber(p)
      v == q.got[Len(q.got)]
      index == TowardsZero(v)
      value == CASE d = 0 -> AttributeInteger("Float", v)
                 [] OTHER -> CASE definition.type \in {"Int", "Hex"} -> AttributeInteger(definition.type, 2 * index)
                               [] definition.type = "Float" -> AttributeInteger("Float", v)
                               [] definition.type = "Enum" -> Enumeration(index,
                                    IF index + 1 \in DOMAIN definition.values
                                    THEN definition.values[index + 1] ELSE "")
                               [] definition.type = "String" -> AttributeText(ToString(v))
  IN  IF Current(p).kind = "String"
      THEN Advance(Keep(p, IF d # 0 /\ definition.type = "Enum" THEN Enumeration(known - 1, text)
                           ELSE AttributeText(text)))
      ELSE IF q.go THEN [q EXCEPT !.got = Append(p.got, value)]
           ELSE [q EXCEPT !.got = Append(p.got, Untyped), !.go = TRUE]
Literal(p) == p.got[Len(p.got)]

DefaultGiven(a, d) ==
  LET q == Finished(ParseAttributeLiteral(IF d = 0 THEN Warn(a, a.pos) ELSE a, d))
  IN  IF d = 0 THEN q
      ELSE [q EXCEPT !.db.definitions[d].default = Literal(q), !.db.definitions[d].hasDefault = TRUE]

ParseAttributeDefault(p) ==
  LET a == Parse(p, <<Text>>)
  IN  IF ~a.go THEN a ELSE DefaultGiven(a, DefinitionNamed(p.db, a.got[1].word))

(* What a value is for, and the parser past its address.                   *)
Addressed(p) ==
  LET word == Current(p).word
      addressed == Current(p).kind = "Identifier" /\ word \in DOMAIN ObjectOf
      object == IF addressed THEN ObjectOf[word] ELSE "Database"
      q == Advance(p)
      checked(r) == CheckId(r, r.got[2], q.pos)
  IN  [object |-> object,
       p |-> CASE object = "Node" -> Parse(q, <<Name>>)
               [] object = "Message" -> checked(Parse(q, <<Integer>>))
               [] object = "Signal" -> checked(Parse(q, <<Integer, Name>>))
               [] object = "EnvVar" -> IF Current(q).kind = "Identifier" THEN Advance(q) ELSE Error(q)
               [] OTHER -> p]

(* The literal goes to what was addressed, if it is there.                 *)
AssignedTo(object, q, at) ==
  LET name == q.got[1].word
      n == NodeNamed(q.db, q.got[2].word)
      m == MessageWithId(q.db, IdOf(q.got[2]).id)
      s == SignalNamed(q.db, m, q.got[3].word)
      missing == Warn(q, at)
  IN  CASE object = "Database" -> [q EXCEPT !.db.attributes = Assigned(@, name, Literal(q))]
        [] object = "Node" -> IF n = 0 THEN missing
             ELSE [q EXCEPT !.db.nodes[n].attributes = Assigned(@, name, Literal(q))]
        [] object = "Message" -> IF m = 0 THEN missing
             ELSE [q EXCEPT !.db.messages[m].attributes = Assigned(@, name, Literal(q))]
        [] object = "Signal" -> IF s = 0 THEN missing
             ELSE [q EXCEPT !.db.messages[m].signals[s].attributes = Assigned(@, name, Literal(q))]
        [] object = "EnvVar" -> q

ParseAttributeValue(p) ==
  LET a == Parse(p, <<Text>>)
      given(to) ==
        IF ~to.p.go THEN to.p
        ELSE AssignedTo(to.object,
               Finished(ParseAttributeLiteral(to.p, DefinitionNamed(p.db, to.p.got[1].word))), p.pos - 1)
  IN  IF ~a.go THEN a ELSE given(Addressed(a))

-----------------------------------------------------------------------------
(* What is said later of a signal.                                         *)
ForSignal(q, at, Put(_, _, _)) ==
  LET m == MessageWithId(q.db, IdOf(q.got[1]).id)
      s == SignalNamed(q.db, m, q.got[2].word)
      checked == CheckId(q, q.got[1], at)
  IN  IF s = 0 THEN Warn(checked, at) ELSE Put(checked, m, s)

ParseValueDescriptions(p) ==
  LET q == Descriptions(Parse(p, <<Integer, Name>>))
  IN  IF ~q.go THEN q
      ELSE ForSignal(Finished(q), p.pos,
             LAMBDA r, m, s : [r EXCEPT !.db.messages[m].signals[s].table = r.got[3]])

ValueTypes == <<"Integer", "Float32", "Float64">>
Widths == [Integer |-> 1..64, Float32 |-> {32}, Float64 |-> {64}]

ParseSignalValueType(p) ==
  LET q == Parse(p, <<Integer, Name, Optional("Colon"), Integer>>)
      kind == Integral(q.got[3])
  IN  IF ~q.go THEN q
      ELSE ForSignal(Finished(q), p.pos, LAMBDA r, m, s :
             IF kind \notin 0..2 \/ r.db.messages[m].signals[s].layout.length \notin Widths[ValueTypes[kind + 1]]
             THEN Report(r, "error", q.pos - 1)
             ELSE [r EXCEPT !.db.messages[m].signals[s].layout.type = ValueTypes[kind + 1]])

(* Ranges up to the first that is broken; one written backwards is turned. *)
RECURSIVE RangesFrom(_, _, _)
RangesFrom(p, at, list) ==
  LET low == Integral(Current(p))
      a == Advance(p)
      upTo == Current(a).kind = "Minus"
      b == Advance(a)
      high == IF upTo THEN Integral(Current(b)) ELSE low
      c == IF high < low THEN Warn(IF upTo THEN Advance(b) ELSE a, at) ELSE IF upTo THEN Advance(b) ELSE a
      more == Append(list, IF high < low THEN [low |-> high, high |-> low] ELSE [low |-> low, high |-> high])
  IN  IF Current(p).kind # "Integer" THEN Keep(p, list)
      ELSE IF upTo /\ Current(b).kind # "Integer" THEN Keep(Error(b), list)
      ELSE IF Current(c).kind = "Comma" THEN RangesFrom(Advance(c), at, more) ELSE Keep(c, more)

ParseExtendedMultiplexing(p) ==
  LET a == Parse(p, <<Integer, Name, Name>>)
      q == Finished(RangesFrom(a, p.pos, <<>>))
      switched(r, m, s) ==
        [r EXCEPT !.db.messages[m].signals[s].role = IF @ \in {"Multiplexor", "Both"} THEN "Both" ELSE "Multiplexed",
                  !.db.messages[m].signals[s].switch = r.got[3].word,
                  !.db.messages[m].signals[s].ranges = r.got[4]]
  IN  IF ~a.go THEN a
      ELSE ForSignal(q, p.pos, LAMBDA r, m, s :
             switched(IF SignalNamed(r.db, m, r.got[3].word) = 0 THEN Warn(r, p.pos) ELSE r, m, s))

-----------------------------------------------------------------------------
UnsupportedSlip ==   \* without FILTER
  {"EV_", "SIG_GROUP_", "SGTYPE_", "ENVVAR_DATA_", "BU_SG_REL_", "BU_BO_REL_", "BU_EV_REL_",
   "CAT_DEF_", "CAT_", "SIG_TYPE_REF_"}
Unsupported ==
  {"EV_", "SIG_GROUP_", "SGTYPE_", "ENVVAR_DATA_", "BU_SG_REL_", "BU_BO_REL_", "BU_EV_REL_",
   "CAT_DEF_", "CAT_", "FILTER", "SIG_TYPE_REF_"}

(* One turn of the loop of run().                                          *)
ParseStatement(from) ==
  LET here == [from EXCEPT !.got = <<>>, !.go = TRUE]
      word == Current(here).word
      p == Advance(here)
  IN  IF Current(here).kind # "Identifier" THEN Resynchronise(Error(here))
      ELSE CASE word = "VERSION" -> ParseVersion(p)
             [] word = "NS_" -> ParseNewSymbols(p)
             [] word = "BS_" -> ParseBitTiming(p)
             [] word = "BU_" -> ParseNodes(p)
             [] word = "VAL_TABLE_" -> ParseValueTable(p)
             [] word = "BO_" -> ParseMessage(p)
             [] word = "BO_TX_BU_" -> ParseMessageTransmitters(p)
             [] word = "CM_" -> ParseComment(p)
             [] word = "BA_DEF_" -> ParseAttributeDefinition(p, FALSE)
             [] word = "BA_DEF_REL_" -> ParseAttributeDefinition(p, TRUE)
             [] word \in {"BA_DEF_DEF_", "BA_DEF_DEF_REL_"} -> ParseAttributeDefault(p)
             [] word \in {"BA_", "BA_REL_"} -> ParseAttributeValue(p)
             [] word = "VAL_" -> ParseValueDescriptions(p)
             [] word = "SIG_VALTYPE_" -> ParseSignalValueType(p)
             [] word = "SG_MUL_VAL_" -> ParseExtendedMultiplexing(p)
             [] word \in Unsupported -> SkipUnsupportedSection(p)
             [] OTHER -> Resynchronise(Error(here))

-----------------------------------------------------------------------------
(* A DBC file is parsed, and a database that was read without an error is  *)
(* written out and parsed again.                                           *)
(*                                                                         *)
(* A file is given by its lines, the database they mean, and what is odd   *)
(* in it: a token replaced by one no statement has (junk), a token lost,   *)
(* or a line that write_string() would not have written there (foreign).   *)
CONSTANT Files   \* [lines, meant, damage, at]

Damage == {"none", "junk", "lost", "foreign"}
ASSUME FilesAreDamagedOnce ==
  \A f \in Files : f.damage \in Damage /\ f.at \in 0..Len(Tokenised(f.lines))

VARIABLES file,    \* the file
          parse,   \* the parser, the state of its run
          round,   \* which text is being parsed
          before   \* what the first round read

dbcVars == <<file, parse, round, before>>

(* The token after a lost one is the first of its line in its stead.       *)
Damaged(tokens, damage, at) ==
  CASE damage \in {"none", "foreign"} -> tokens
    [] damage = "junk" -> [tokens EXCEPT ![at] = [Mark("Equals") EXCEPT !.first = tokens[at].first]]
    [] damage = "lost" ->
         [i \in 1..(Len(tokens) - 1) |->
            IF i < at THEN tokens[i]
            ELSE IF i = at THEN [tokens[i + 1] EXCEPT !.first = @ \/ tokens[at].first] ELSE tokens[i + 1]]
TokensOf(f) == Damaged(Tokenised(f.lines), f.damage, f.at)

DbcInit ==
  /\ file \in Files
  /\ parse = FreshParser(TokensOf(file))
  /\ round = 1
  /\ before = EmptyDatabase

HasErrors(p) == \E i \in DOMAIN p.found : p.found[i].severity = "error"

ReadStatement ==
  /\ ~AtEnd(parse)
  /\ parse' = ParseStatement(parse)
  /\ UNCHANGED <<file, round, before>>

Rewrite ==
  /\ AtEnd(parse) /\ round = 1 /\ ~HasErrors(parse)
  /\ before' = parse.db
  /\ parse' = FreshParser(Tokenised(Write(parse.db)))
  /\ round' = 2
  /\ UNCHANGED file

DbcNext == ReadStatement \/ Rewrite

DbcSpec == DbcInit /\ [][DbcNext]_dbcVars

-----------------------------------------------------------------------------
Done(n) == AtEnd(parse) /\ round = n
Elements(seq) == {seq[i] : i \in DOMAIN seq}

(* Whatever the file, the database is one the rest of the program can take *)
(* as built: lengths in range, CAN FD exactly from nine bytes on, a float  *)
(* of its width, ranges the right way round, no second node or attribute   *)
(* of a name; and diagnostics point at tokens of the file.                 *)
DatabaseIsWellFormed ==
  /\ parse.pos \in DOMAIN parse.tokens
  /\ \A i \in DOMAIN parse.found : parse.found[i].at \in DOMAIN parse.tokens
  /\ \A m \in Elements(parse.db.messages) :
       /\ m.id \in CanId /\ m.dlc \in 0..64 /\ (m.fd <=> m.dlc > 8)
       /\ \A s \in Elements(m.signals) :
            /\ s.layout.start \in 0..511 /\ s.layout.length \in 1..64
            /\ (s.layout.type = "Float32" => s.layout.length = 32)
            /\ (s.layout.type = "Float64" => s.layout.length = 64)
            /\ s.layout.factor # 0
            /\ \A r \in Elements(s.ranges) : r.low <= r.high
  /\ IsInjective([i \in DOMAIN parse.db.nodes |-> parse.db.nodes[i].name])
  /\ IsInjective([i \in DOMAIN parse.db.definitions |-> parse.db.definitions[i].name])

(* A database written by write_string() is read back as it was, without a  *)
(* word of complaint: writer and parser agree on every statement (the NS_  *)
(* list the writer makes up for one that has none apart).                  *)
WrittenIsRead ==
  Done(1) /\ file.damage = "none" /\ file.lines = Write(file.meant) =>
    /\ parse.found = <<>>
    /\ parse.db = [file.meant EXCEPT !.symbols = IF @ = <<>> THEN DefaultNewSymbols ELSE @]

(* "parse -> write -> parse comparing equal" (Writer.hpp:7), for a file    *)
(* that was accepted, damaged or not.  It is not so for every file: an     *)
(* attribute assigned before it is defined, a name that is not of its      *)
(* enumeration and a fraction as the bound of an integer come back         *)
(* different (MCLooseFiles, which the run dbc_loose reads).                *)
RoundTripIsIdentical ==
  Done(2) => ~HasErrors(parse) /\ parse.db = before

(* Writer and parser are each other's inverse on what they accept          *)
(* (write_string(), parse()).                                              *)
RoundTripHolds == WrittenIsRead /\ RoundTripIsIdentical

(* The line a token is on, and its place there.                            *)
LineOf(f, at) ==
  LET upTo[n \in 0..Len(f.lines)] == IF n = 0 THEN 0 ELSE upTo[n - 1] + Len(f.lines[n])
  IN  CHOOSE n \in DOMAIN f.lines : upTo[n - 1] < at /\ at <= upTo[n]
PlaceOf(f, at) == at - Len(FlattenSeq(SubSeq(f.lines, 1, LineOf(f, at) - 1)))
IsSignalLine(line) == IsWord(line[1], "SG_")

(* What the odd statement speaks of: the names and numbers in it; that of  *)
(* a message, and of its transmitters, of the message only.                *)
SpokenOf(f) ==
  LET line == f.lines[LineOf(f, f.at)]
  IN  IF line[1].word \in {"BO_", "BO_TX_BU_"} THEN {line[2]} ELSE Elements(line)

(* What a database says, fact by fact: the names of what each is about, as *)
(* they stand in a statement, a member, and its value.                     *)
Says(names, r, parts) ==
  {<<names, f, r[f]>> : f \in DOMAIN r \ parts}
AttributesOf(names, map) ==
  {<<names \cup {Quoted(a)}, "attribute", map[a]>> : a \in DOMAIN map}
SaysOf(names, r, parts) == Says(names, r, parts \cup {"attributes"}) \cup AttributesOf(names, r.attributes)
SaysOfSignal(m, s) ==
  LET names == {WireId(m.id), Ident(s.name)}
  IN  SaysOf(names, s, {"layout"}) \cup Says(names, s.layout, {})
FileWide == [version |-> "VERSION", symbols |-> "NS_", timing |-> "BS_", comment |-> "CM_"]
Facts(db) ==
  {<<{Ident(FileWide[f])}, f, db[f]>> : f \in DOMAIN FileWide}
    \cup AttributesOf({}, db.attributes)
    \cup UNION {SaysOf({Ident(n.name)}, n, {}) : n \in Elements(db.nodes)}
    \cup UNION {Says({Ident(t.name)}, t, {}) : t \in Elements(db.tables)}
    \cup UNION {Says({Quoted(d.name)}, d, {}) : d \in Elements(db.definitions)}
    \cup UNION {SaysOf({WireId(m.id)}, m, {"signals"}) : m \in Elements(db.messages)}
    \cup UNION {UNION {SaysOfSignal(m, s) : s \in Elements(m.signals)} : m \in Elements(db.messages)}

RECURSIVE ReadFrom(_)
ReadFrom(p) == IF AtEnd(p) THEN p.db ELSE ReadFrom(ParseStatement(p))

(* The last receiver of a signal is lost: the list of names goes on with   *)
(* the first word of the next line, which was a keyword.                   *)
ListRunsOn(f) ==
  LET line == f.lines[LineOf(f, f.at)]
  IN  f.damage = "lost" /\ IsSignalLine(line) /\ PlaceOf(f, f.at) = Len(line)

(* The file without its damaged statement.  With a message go its signals, *)
(* and with a signal those that follow it: SG_ is no keyword to recover at.*)
(* A list of nodes is read up to the damage; one of receivers that runs on *)
(* takes the next statement with it.                                       *)
WithoutStatement(f) ==
  LET n == LineOf(f, f.at)
      k == PlaceOf(f, f.at)
      signalsTo(from) == CHOOSE l \in from..Len(f.lines) :
                           /\ \A j \in (from + 1)..l : IsSignalLine(f.lines[j])
                           /\ l < Len(f.lines) => ~IsSignalLine(f.lines[l + 1])
      last == IF ListRunsOn(f) /\ signalsTo(n) = n THEN signalsTo(n + 1) ELSE signalsTo(n)
      kept == IF IsWord(f.lines[n][1], "BU_") /\ k > 2 THEN <<SubSeq(f.lines[n], 1, k - 1)>> ELSE <<>>
  IN  SubSeq(f.lines, 1, n - 1) \o kept \o SubSeq(f.lines, last + 1, Len(f.lines))

(* What the file still says: all that a foreign statement does not speak   *)
(* of, and all that can be read without a damaged one.                     *)
StillSaid(f) ==
  IF f.damage = "foreign" THEN {fact \in Facts(f.meant) : ~(fact[1] \subseteq SpokenOf(f))}
  ELSE Facts(f.meant) \cap Facts(ReadFrom(FreshParser(Tokenised(WithoutStatement(f)))))

(* Whatever one token does to its statement, everything the file says      *)
(* apart from it is read as it was meant (resynchronise()).                *)
DamageStaysInItsStatement ==
  Done(1) /\ file.damage # "none" => StillSaid(file) \subseteq Facts(parse.db)

(* A token that its statement can do without: a semicolon, a minus sign, a *)
(* colon that is not waited for, a multiplexer indicator, what a definition*)
(* is for, the last name of a list.                                        *)
CanBeSpared(f) ==
  LET line == f.lines[LineOf(f, f.at)]
      k == PlaceOf(f, f.at)
      listed == line[k].kind \in {"Identifier", "String"}
  IN  \/ line[k].kind \in {"Semicolon", "Minus"} \/ IsIndicator(line[k])
      \/ line[k].kind = "Colon" /\ line[1].word \in {"NS_", "SIG_VALTYPE_"}
      \/ k = 2 /\ IsWord(line[1], "BA_DEF_") /\ line[k].kind = "Identifier"
      \/ listed /\ \/ Len(line) = 1
                   \/ k > 2 /\ (IsWord(line[1], "BU_") \/ line[k - 1].kind = "Comma")

(* A token that cannot stand where it does is the first thing reported;    *)
(* one that is missed, and was needed, is reported there or further on.    *)
DamageIsReported ==
  Done(1) /\ (file.damage = "junk" \/ (file.damage = "lost" /\ ~CanBeSpared(file))) =>
    \E i \in DOMAIN parse.found :
      /\ IF file.damage = "junk" THEN parse.found[i].at = file.at ELSE parse.found[i].at >= file.at
      /\ \A k \in 1..(i - 1) : parse.found[k].at >= file.at

(* A statement that is damaged, or foreign, is told of if it needs to be,  *)
(* and takes nothing with it but what WithoutStatement() says: the signals *)
(* after a damaged one of the same message, and the statement after a list *)
(* of receivers that runs on.  That is less than "a single typo does not   *)
(* hide the other nine" (Parser.hpp:12), which these two do not keep.  And *)
(* what is read is well formed all the same (resynchronise()).             *)
RecoversFromDamage == DatabaseIsWellFormed /\ DamageIsReported /\ DamageStaysInItsStatement

(* Every turn of the loop of run() takes the parser forward, however the   *)
(* statement is damaged: the loop ends.                                    *)
EveryStatementMovesOn == [][round' = round => parse'.pos > parse.pos]_dbcVars
==============================================================================
