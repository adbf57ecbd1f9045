------------------------------- MODULE DbcText ------------------------------
(***************************************************************************)
(* The tokens of a DBC file, the database that a file describes, and the   *)
(* file that is written for a database.                                    *)
(*                                                                         *)
(* A number stands in halves, so that some are written with a point and    *)
(* some without.  A multiplexer indicator m<n> is the word "m" with the    *)
(* number n, and m<n>M the word "mM".                                      *)
(***************************************************************************)
EXTENDS CanFrame, SequencesExt

NoNode == "Vector__XXX"

Token(kind, word, number) == [kind |-> kind, word |-> word, number |-> number, first |-> FALSE]
Ident(w) == Token("Identifier", w, 0)
Quoted(s) == Token("String", s, 0)
Mark(kind) == Token(kind, "", 0)
Whole(n) == Token("Integer", "", 2 * n)
End == [Mark("End") EXCEPT !.first = TRUE]

(* A sign is a token of its own; a whole number has no point.              *)
FormatNumber(v) ==
  IF v < 0 THEN <<Mark("Minus"), Token(IF v % 2 = 0 THEN "Integer" ELSE "Real", "", -v)>>
           ELSE <<Token(IF v % 2 = 0 THEN "Integer" ELSE "Real", "", v)>>

(* A file is its lines one after another; the lexer marks the token that   *)
(* begins a line.                                                          *)
Tokenised(lines) ==
  LET line(i) == [k \in DOMAIN lines[i] |-> [lines[i][k] EXCEPT !.first = k = 1]]
      upTo[n \in 0..Len(lines)] == IF n = 0 THEN <<>> ELSE upTo[n - 1] \o line(n)
  IN  Append(upTo[Len(lines)], End)

-----------------------------------------------------------------------------
NoAttributes == <<>>
NoTiming == <<>>

Untyped == [type |-> "Int", number |-> 0, text |-> ""]
AttributeInteger(type, v) == [type |-> type, number |-> v, text |-> ""]
AttributeText(s) == [type |-> "String", number |-> 0, text |-> s]
Enumeration(index, name) == [type |-> "Enum", number |-> 2 * index, text |-> name]

(* to_string() of an attribute's type.                                     *)
TypeWord == [Int |-> "INT", Hex |-> "HEX", Float |-> "FLOAT", String |-> "STRING", Enum |-> "ENUM"]

Node(name) == [name |-> name, comment |-> "", attributes |-> NoAttributes]

EmptyDatabase ==
  [version |-> "", comment |-> "", symbols |-> <<>>, timing |-> NoTiming, nodes |-> <<>>,
   messages |-> <<>>, tables |-> <<>>, definitions |-> <<>>, attributes |-> NoAttributes]

DefaultLayout ==
  [start |-> 0, length |-> 1, order |-> "Intel", signed |-> FALSE, type |-> "Integer",
   factor |-> 2, offset |-> 0, min |-> 0, max |-> 0]

FreshSignal ==
  [name |-> "", layout |-> DefaultLayout, unit |-> "", comment |-> "", receivers |-> <<>>,
   role |-> "None", mux |-> 0, switch |-> "", ranges |-> <<>>, table |-> <<>>,
   attributes |-> NoAttributes]

FreshMessage ==
  [id |-> [extended |-> FALSE, value |-> 0], name |-> "", dlc |-> 0, fd |-> FALSE,
   transmitter |-> "", more |-> <<>>, comment |-> "", signals |-> <<>>,
   attributes |-> NoAttributes]

Assigned(map, name, value) ==
  [n \in DOMAIN map \cup {name} |-> IF n = name THEN value ELSE map[n]]

(* Where the first of them is, 0 if there is none.                         *)
NodeNamed(db, name) == SelectInSeq(db.nodes, LAMBDA n : n.name = name)
DefinitionNamed(db, name) == SelectInSeq(db.definitions, LAMBDA d : d.name = name)
MessageWithId(db, id) == SelectInSeq(db.messages, LAMBDA m : m.id = id)
SignalNamed(db, m, name) ==
  IF m = 0 THEN 0 ELSE SelectInSeq(db.messages[m].signals, LAMBDA s : s.name = name)

-----------------------------------------------------------------------------
(* write_string(): the lines of the file a database is written as.         *)
CONSTANT DefaultNewSymbols   \* kDefaultNewSymbols

WireId(id) == Whole(id.value + (IF id.extended THEN 2^EffBit ELSE 0))

Joined(items, separator) ==
  [k \in 1..(IF items = <<>> THEN 0 ELSE 2 * Len(items) - 1) |->
     IF k % 2 = 1 THEN items[(k + 1) \div 2] ELSE separator]
Words(names) == [i \in DOMAIN names |-> Ident(names[i])]

(* An enumeration is a name in a default and an index elsewhere.           *)
AttributeLiteral(value, asDefault) ==
  CASE value.type = "String" -> <<Quoted(value.text)>>
    [] value.type = "Enum" -> IF asDefault THEN <<Quoted(value.text)>> ELSE FormatNumber(value.number)
    [] value.type \in {"Int", "Hex"} -> FormatNumber(2 * (value.number \div 2))
    [] OTHER -> FormatNumber(value.number)

MultiplexIndicatorSlip(s) ==   \* the second role is forgotten
  CASE s.role = "None" -> <<>>
    [] s.role = "Multiplexor" -> <<Ident("M")>>
    [] s.role \in {"Multiplexed", "Both"} -> <<Token("Identifier", "m", s.mux)>>
MultiplexIndicator(s) ==
  CASE s.role = "None" -> <<>>
    [] s.role = "Multiplexor" -> <<Ident("M")>>
    [] s.role = "Multiplexed" -> <<Token("Identifier", "m", s.mux)>>
    [] s.role = "Both" -> <<Token("Identifier", "mM", s.mux)>>

SignalLine(s) ==
  LET l == s.layout
  IN  <<Ident("SG_"), Ident(s.name)>> \o MultiplexIndicator(s)
        \o <<Mark("Colon"), Whole(l.start), Mark("Pipe"), Whole(l.length), Mark("At"),
             Whole(IF l.order = "Intel" THEN 1 ELSE 0), Mark(IF l.signed THEN "Minus" ELSE "Plus"),
             Mark("LParen")>>
        \o FormatNumber(l.factor) \o <<Mark("Comma")>> \o FormatNumber(l.offset)
        \o <<Mark("RParen"), Mark("LBracket")>>
        \o FormatNumber(l.min) \o <<Mark("Pipe")>> \o FormatNumber(l.max)
        \o <<Mark("RBracket"), Quoted(s.unit)>>
        \o (IF s.receivers = <<>> THEN <<Ident(NoNode)>> ELSE Joined(Words(s.receivers), Mark("Comma")))

MessageLines(m) ==
  <<<<Ident("BO_"), WireId(m.id), Ident(m.name), Mark("Colon"), Whole(m.dlc),
      Ident(IF m.transmitter = "" THEN NoNode ELSE m.transmitter)>>>>
    \o [i \in DOMAIN m.signals |-> SignalLine(m.signals[i])]

Described(values) ==
  FlattenSeq([i \in DOMAIN values |-> Append(FormatNumber(2 * values[i].value), Quoted(values[i].text))])

Statement(tokens) == <<Append(tokens, Mark("Semicolon"))>>
Unless(empty, lines) == IF empty THEN <<>> ELSE lines

ObjectWord == [Database |-> <<>>, Node |-> <<Ident("BU_")>>, Message |-> <<Ident("BO_")>>,
               Signal |-> <<Ident("SG_")>>, EnvVar |-> <<Ident("EV_")>>]

DefinitionLine(d) ==
  Statement(<<Ident("BA_DEF_")>> \o ObjectWord[d.object] \o <<Quoted(d.name), Ident(TypeWord[d.type])>>
    \o (CASE d.type \in {"Int", "Hex"} ->
               FormatNumber(2 * (d.min \div 2)) \o FormatNumber(2 * (d.max \div 2))
          [] d.type = "Float" -> FormatNumber(d.min) \o FormatNumber(d.max)
          [] d.type = "Enum" -> Joined([i \in DOMAIN d.values |-> Quoted(d.values[i])], Mark("Comma"))
          [] OTHER -> <<>>))

AttributeLines(map, target) ==
  LET names == SetToSeq(DOMAIN map)
  IN  [i \in DOMAIN names |->
         Statement(<<Ident("BA_"), Quoted(names[i])>> \o target \o AttributeLiteral(map[names[i]], FALSE))[1]]

(* What is written for every signal of every message, in order.            *)
ForSignals(db, Lines(_, _)) ==
  FlattenSeq([i \in DOMAIN db.messages |->
    FlattenSeq([j \in DOMAIN db.messages[i].signals |-> Lines(db.messages[i], db.messages[i].signals[j])])])
ForMessages(db, Lines(_)) == FlattenSeq([i \in DOMAIN db.messages |-> Lines(db.messages[i])])
ForNodes(db, Lines(_)) == FlattenSeq([i \in DOMAIN db.nodes |-> Lines(db.nodes[i])])

Comment(target, text) == Unless(text = "", Statement(<<Ident("CM_")>> \o target \o <<Quoted(text)>>))
OfMessage(m) == <<Ident("BO_"), WireId(m.id)>>
OfSignal(m, s) == <<Ident("SG_"), WireId(m.id), Ident(s.name)>>

Write(db) ==
  LET header == <<<<Ident("VERSION"), Quoted(db.version)>>, <<Ident("NS_"), Mark("Colon")>>>>
      symbols == IF db.symbols = <<>> THEN DefaultNewSymbols ELSE db.symbols
      timing == <<<<Ident("BS_"), Mark("Colon")>>
                    \o (IF db.timing = NoTiming THEN <<>>
                        ELSE <<Whole(db.timing[1]), Mark("Colon"), Whole(db.timing[2]), Mark("Comma"),
                               Whole(db.timing[3])>>)>>
      nodes == <<<<Ident("BU_"), Mark("Colon")>> \o [i \in DOMAIN db.nodes |-> Ident(db.nodes[i].name)]>>
      tables == FlattenSeq([i \in DOMAIN db.tables |->
                  Statement(<<Ident("VAL_TABLE_"), Ident(db.tables[i].name)>> \o Described(db.tables[i].values))])
      transmitters(m) == Unless(m.more = <<>>,
        Statement(<<Ident("BO_TX_BU_"), WireId(m.id), Mark("Colon")>> \o Joined(Words(m.more), Mark("Comma"))))
      comments(m) == Comment(OfMessage(m), m.comment)
        \o FlattenSeq([j \in DOMAIN m.signals |-> Comment(OfSignal(m, m.signals[j]), m.signals[j].comment)])
      defaults == SelectSeq(db.definitions, LAMBDA d : d.hasDefault)
      attributes(m) == AttributeLines(m.attributes, OfMessage(m))
        \o FlattenSeq([j \in DOMAIN m.signals |->
             AttributeLines(m.signals[j].attributes, OfSignal(m, m.signals[j]))])
      at(m, s) == <<WireId(m.id), Ident(s.name)>>
  IN  header \o [i \in DOMAIN symbols |-> <<Ident(symbols[i])>>] \o timing \o nodes \o tables
        \o ForMessages(db, MessageLines) \o ForMessages(db, transmitters)
        \o Comment(<<>>, db.comment)
        \o ForNodes(db, LAMBDA n : Comment(<<Ident("BU_"), Ident(n.name)>>, n.comment))
        \o ForMessages(db, comments)
        \o FlattenSeq([i \in DOMAIN db.definitions |-> DefinitionLine(db.definitions[i])])
        \o FlattenSeq([i \in DOMAIN defaults |->
             Statement(<<Ident("BA_DEF_DEF_"), Quoted(defaults[i].name)>>
                         \o AttributeLiteral(defaults[i].default, TRUE))])
        \o AttributeLines(db.attributes, <<>>)
        \o ForNodes(db, LAMBDA n : AttributeLines(n.attributes, <<Ident("BU_"), Ident(n.name)>>))
        \o ForMessages(db, attributes)
        \o ForSignals(db, LAMBDA m, s :
             Unless(s.table = <<>>, Statement(<<Ident("VAL_")>> \o at(m, s) \o Described(s.table))))
        \o ForSignals(db, LAMBDA m, s : Unless(s.layout.type = "Integer",
             Statement(<<Ident("SIG_VALTYPE_")>> \o at(m, s)
                         \o <<Mark("Colon"), Whole(IF s.layout.type = "Float32" THEN 1 ELSE 2)>>)))
        \o ForSignals(db, LAMBDA m, s : Unless(s.ranges = <<>>,
             Statement(<<Ident("SG_MUL_VAL_")>> \o at(m, s) \o <<Ident(s.switch)>>
               \o FlattenSeq(Joined([i \in DOMAIN s.ranges |->
                    <<Whole(s.ranges[i].low), Mark("Minus"), Whole(s.ranges[i].high)>>], <<Mark("Comma")>>)))))
=============================================================================
