----------------------------- MODULE MCDatabase -----------------------------
(***************************************************************************)
(* The parts of the database library each on its own, at model checking    *)
(* size: the signal codec, the DBC parser and writer, and the lexer.  A    *)
(* behaviour is about one of them; the others rest.                        *)
(*                                                                         *)
(* For the codec: bit fields of every width class at every bit offset of a *)
(* payload of ten bytes, a message of scaled signals, multiplexed messages, *)
(* one with a cycle of switches.                                           *)
(***************************************************************************)
EXTENDS Codec, DbcParser, Lexer

LayoutAt(order, start, length) ==
  [start |-> start, length |-> length, order |-> order, signed |-> FALSE, type |-> "Integer",
   factor |-> 1, offset |-> 0, min |-> 0, max |-> 0]
SignalAt(name, layout) ==
  [name |-> name, layout |-> layout, role |-> "None", mux |-> 0, ranges |-> <<>>, switch |-> NoName,
   start |-> NaN, table |-> <<>>, attributes |-> {}]
MessageOf(name, dlc, signals) ==
  [id |-> name, name |-> name, dlc |-> dlc, fd |-> dlc > 8, signals |-> signals, reserved |-> FALSE,
   transmitter |-> "ecu", attributes |-> {}]

Field == {MessageOf("Field", 10, <<SignalAt("F", LayoutAt(order, start, length))>>) :
            order \in ByteOrder, start \in 7..15, length \in {1, 7, 8, 9, 33, 56, 57, 58, 64}}

(* A signed signal with a negative factor beside a ranged one of the other *)
(* byte order, and a float on top of both.                                 *)
Scaled ==
  MessageOf("Scaled", 5,
    <<[SignalAt("A", [LayoutAt("Intel", 3, 4) EXCEPT !.signed = TRUE, !.factor = -2, !.offset = 3])
         EXCEPT !.start = 7, !.table = <<[value |-> 7, text |-> "seven"], [value |-> -8, text |-> "least"]>>],
      SignalAt("B", [LayoutAt("Motorola", 7, 3) EXCEPT !.factor = 4, !.offset = -4, !.min = 10, !.max = 4]),
      [SignalAt("T", LayoutAt("Motorola", 1, 3)) EXCEPT !.table = <<[value |-> 7, text |-> "all"]>>],
      SignalAt("F", [LayoutAt("Intel", 8, 32) EXCEPT !.type = "Float32"])>>)

Group(name, mux, layout) == [SignalAt(name, layout) EXCEPT !.role = "Multiplexed", !.mux = mux]
Switch(name, layout) == [SignalAt(name, layout) EXCEPT !.role = "Multiplexor"]
Nibble(k) == LayoutAt("Intel", 4 * k, 4)
Multiplexed ==
  MessageOf("Multiplexed", 2, <<Switch("M", Nibble(3)), Group("G1", 1, Nibble(1)),
                                Group("G2", 2, LayoutAt("Intel", 4, 8))>>)
(* M selects B in 1..2 or 4, and B, where it is there, selects C and D.    *)
Nested ==
  MessageOf("Nested", 2,
    <<Switch("M", Nibble(0)),
      [Switch("B", Nibble(1)) EXCEPT !.role = "Both", !.switch = "M",
                                     !.ranges = <<[low |-> 1, high |-> 2], [low |-> 4, high |-> 4]>>],
      [Group("C", 1, Nibble(2)) EXCEPT !.switch = "B"],
      [Group("D", 5, Nibble(3)) EXCEPT !.switch = "B", !.ranges = <<[low |-> 1, high |-> 3]>>]>>)
Cyclic ==
  MessageOf("Cyclic", 1,
    <<[Switch("A", Nibble(0)) EXCEPT !.role = "Both", !.switch = "B"],
      [Switch("B", Nibble(1)) EXCEPT !.role = "Both", !.switch = "A"],
      Group("C", 0, Nibble(1))>>)
(* 3 selects both, and neither is selected by the other's first value.     *)
Ranged ==
  MessageOf("Ranged", 1,
    <<Switch("M", Nibble(0)),
      [Group("L", 1, Nibble(1)) EXCEPT !.switch = "M", !.ranges = <<[low |-> 1, high |-> 3]>>],
      [Group("H", 4, Nibble(1)) EXCEPT !.switch = "M", !.ranges = <<[low |-> 3, high |-> 5]>>]>>)

MCMessages == Field \cup {Scaled, Multiplexed, Nested, Cyclic, Ranged}
ASSUME ShortChains == \A m \in Messages : ChainsAreShort(m)
ASSUME ExactValues == \A m \in Messages : ValuesAreExact(m)

MCValues(l) == IF l.length > 8 /\ l.type = "Integer" THEN {}
               ELSE IF l.length = 4 /\ l.factor = 1 THEN {0, 1, 2, 3, 4, 5}
               ELSE IF IsFloat(l) THEN {-7, -Infinity, NaN}
               ELSE {-20, 4, 6, 18, 30, Infinity}
MCRawWords(l) == IF l.factor # 1 \/ l.length = 3 THEN {0..63}
                 ELSE {{}, 0..63, {k \in 0..63 : k % 3 = 0}}
Named(name, value) == [name |-> name, value |-> value]
MCCompositions(m) ==
  {<<>>, <<Named("M", 1), Named("B", 2)>>, <<Named("Z", 0)>>, <<Named("A", 100), Named("B", -100)>>,
   <<Named("A", Infinity)>>}
MCBackgrounds(m) ==
  {[k \in 0..(m.dlc - 1) |-> b] : b \in {{}, {0, 2, 5}}}

(* A float format: a sign, NaN, and the magnitude.                         *)
MCFloatBits(v, width) ==
  IF v = NaN THEN {width - 2}
  ELSE BitsOf(Abs(v), 30) \cup (IF v < 0 THEN {width - 1} ELSE {})
MCFloatOf(w, width) ==
  IF width - 2 \in w THEN NaN
  ELSE LET n == NumberOf(w \cap BitMask(30)) IN IF width - 1 \in w THEN -n ELSE n


-----------------------------------------------------------------------------
(* DBC files at model checking size: one database with every kind of       *)
(* statement, each of its tokens damaged in turn; its parts in every       *)
(* combination; and single statements as other tools write them.  And all  *)
(* short texts, for the lexer.                                             *)
MCNewSymbols == <<"NS_DESC_", "CM_", "BA_DEF_", "VAL_TABLE_", "SIG_GROUP_", "SG_MUL_VAL_">>

IdNumbered(extended, n) == [extended |-> extended, value |-> n]
Layout(order, start, length) == [DefaultLayout EXCEPT !.order = order, !.start = start, !.length = length]
Described1 == <<[value |-> -1, text |-> "none"], [value |-> 2, text |-> "some"]>>

Features == {"comments", "attributes", "tables", "timing", "multiplexing", "floats"}

SignalOf(name, layout) == [FreshSignal EXCEPT !.name = name, !.layout = layout, !.unit = "u"]
If(on, x, y) == IF on THEN x ELSE y

DatabaseWith(on) ==
  LET has(f) == f \in on
      attribute(v) == If(has("attributes"), v, NoAttributes)
      comment(s) == If(has("comments"), s, "")
      switch == [SignalOf("S", Layout("Intel", 0, 4)) EXCEPT
                   !.role = If(has("multiplexing"), "Multiplexor", "None"),
                   !.comment = comment("a switch"),
                   !.attributes = attribute([E |-> Enumeration(1, "hi")])]
      group == [SignalOf("G", [Layout("Motorola", 7, 3) EXCEPT !.signed = TRUE, !.factor = 1, !.offset = -7])
                  EXCEPT !.role = If(has("multiplexing"), "Multiplexed", "None"),
                         !.mux = If(has("multiplexing"), 1, 0), !.receivers = <<"A", "B">>,
                         !.table = If(has("tables"), Described1, <<>>)]
      inner == [SignalOf("N", Layout("Intel", 8, 2)) EXCEPT
                  !.role = If(has("multiplexing"), "Both", "None"),
                  !.mux = If(has("multiplexing"), 2, 0),
                  !.switch = If(has("multiplexing"), "S", ""),
                  !.ranges = If(has("multiplexing"), <<[low |-> 2, high |-> 3], [low |-> 5, high |-> 5]>>, <<>>)]
      float == [SignalOf("F", Layout("Intel", 0, 32)) EXCEPT
                  !.layout.type = If(has("floats"), "Float32", "Integer"), !.layout.min = -10]
      double == [SignalOf("D", Layout("Intel", 32, 64)) EXCEPT
                  !.layout.type = If(has("floats"), "Float64", "Integer"), !.receivers = <<"B">>]
      define(name, object, type, min, max, values, default) ==
        [name |-> name, object |-> object, type |-> type, min |-> min, max |-> max, values |-> values,
         default |-> default, hasDefault |-> default # Untyped]
  IN  [EmptyDatabase EXCEPT
         !.version = "1",
         !.symbols = If(has("timing"), <<"NS_DESC_", "CM_">>, <<>>),
         !.timing = If(has("timing"), <<50, 1, 2>>, NoTiming),
         !.comment = comment("all of it"),
         !.nodes = <<[Node("A") EXCEPT !.comment = comment("a node"),
                                       !.attributes = attribute([H |-> AttributeInteger("Hex", 8)])], Node("B")>>,
         !.tables = If(has("tables"), <<[name |-> "T", values |-> Described1]>>, <<>>),
         !.messages = <<
           [FreshMessage EXCEPT !.id = IdNumbered(FALSE, 29), !.name = "M1", !.dlc = 2, !.transmitter = "A",
              !.comment = comment("first"), !.signals = <<switch, group, inner>>,
              !.attributes = attribute([I |-> AttributeInteger("Int", -6)])],
           [FreshMessage EXCEPT !.id = IdNumbered(TRUE, 100), !.name = "M2", !.dlc = 12, !.fd = TRUE,
              !.more = <<"A", "B">>, !.signals = <<float, double>>]>>,
         !.definitions = attribute(<<
           define("I", "Message", "Int", -20, 20, <<>>, AttributeInteger("Int", 10)),
           define("H", "Node", "Hex", 0, 20, <<>>, Untyped),
           define("E", "Signal", "Enum", 0, 0, <<"lo", "hi">>, Enumeration(1, "hi")),
           define("R", "Database", "Float", 1, 3, <<>>, AttributeInteger("Float", 1)),
           define("Z", "Database", "String", 0, 0, <<>>, AttributeText("none")),
           define("V", "EnvVar", "String", 0, 0, <<>>, Untyped)>>),
         !.attributes = attribute([R |-> AttributeInteger("Float", 3), Z |-> AttributeText("z")])]

Whole1 == DatabaseWith(Features)
FileOf(lines, db, damage, at) == [lines |-> lines, meant |-> db, damage |-> damage, at |-> at]

SoundFiles == {FileOf(Write(DatabaseWith(on)), DatabaseWith(on), "none", 0) : on \in SUBSET Features}
DamagedFiles ==
  LET lines == Write(Whole1)
  IN  {FileOf(lines, Whole1, damage, at) : damage \in {"junk", "lost"}, at \in 1..(Len(Tokenised(lines)) - 1)}


(* Statements as other tools, or people, write them.                       *)
SignalWith(name, start, length, order, sign, factor) ==
  <<Ident("SG_"), Ident(name), Mark("Colon"), Whole(start), Mark("Pipe"), Whole(length), Mark("At"),
    Whole(order)>> \o sign \o <<Mark("LParen"), Whole(factor), Mark("Comma"), Whole(0), Mark("RParen"),
    Mark("LBracket"), Whole(0), Mark("Pipe"), Whole(0), Mark("RBracket"), Quoted("u"), Ident("A")>>
Beginning(id, dlc, sender) == <<Ident("BO_"), id, Ident("M3"), Mark("Colon"), Whole(dlc)>> \o sender
Flagged(n) == Whole(n + 2^EffBit)
Semi == <<Mark("Semicolon")>>
ForeignLines ==
  {<<Ident("EV_"), Ident("Env"), Mark("Colon"), Whole(0)>> \o Semi,
   <<Ident("SIG_GROUP_"), Whole(7), Ident("X"), Mark("Colon"), Ident("Y")>> \o Semi,
   <<Ident("FILTER"), Whole(7)>>,
   <<Ident("FOO_"), Ident("X")>> \o Semi,
   <<Whole(7)>> \o Semi,
   <<Ident("BS_"), Mark("Colon"), Whole(9), Mark("Colon"), Whole(8), Whole(7)>>,
   <<Ident("BS_"), Mark("Colon"), Whole(9), Mark("Colon"), Mark("Comma"), Whole(7)>>,
   <<Ident("BU_"), Mark("Colon"), Ident("C"), Mark("Comma"), Ident(NoNode), Ident("C")>>,
   <<Ident("VAL_TABLE_"), Ident("U"), Mark("Minus"), Quoted("x")>> \o Semi,
   <<Ident("VAL_TABLE_"), Ident("U"), Whole(4), Whole(5)>> \o Semi,
   <<Ident("CM_"), Ident("BU_"), Ident("C"), Quoted("x")>>,
   <<Ident("CM_"), Ident("BO_"), Whole(7), Quoted("x")>> \o Semi,
   <<Ident("CM_"), Ident("SG_"), Whole(7), Ident("X"), Quoted("x")>> \o Semi,
   <<Ident("CM_"), Ident("EV_"), Ident("Env"), Quoted("x")>> \o Semi,
   <<Ident("CM_"), Ident("EV_"), Quoted("x")>> \o Semi,
   <<Ident("VAL_"), Ident("Env"), Whole(4), Quoted("x")>> \o Semi,
   <<Ident("VAL_"), Whole(300), Ident("X"), Mark("Minus"), Token("Real", "", 7), Quoted("x")>> \o Semi,
   <<Ident("BO_TX_BU_"), Whole(7), Mark("Colon"), Ident("A"), Mark("Comma")>> \o Semi,
   <<Ident("SIG_VALTYPE_"), Whole(7), Ident("X"), Whole(1)>> \o Semi,
   <<Ident("SIG_VALTYPE_"), Whole(29), Ident("S"), Whole(1)>> \o Semi,
   <<Ident("SIG_VALTYPE_"), Whole(29), Ident("S"), Whole(3)>> \o Semi,
   <<Ident("SIG_VALTYPE_"), Whole(29), Ident("S"), Whole(0)>> \o Semi,
   <<Ident("SG_MUL_VAL_"), Whole(7), Ident("X"), Ident("Y"), Whole(1)>> \o Semi,
   <<Ident("SG_MUL_VAL_"), Whole(29), Ident("S"), Ident("Y"), Whole(4), Mark("Minus"), Whole(2), Mark("Comma"),
     Whole(6)>> \o Semi,
   <<Ident("SG_MUL_VAL_"), Whole(29), Ident("G"), Ident("S"), Whole(4), Mark("Minus")>> \o Semi,
   <<Ident("BA_DEF_"), Quoted("J"), Ident("INT"), Mark("Minus"), Whole(3), Whole(2)>> \o Semi,
   <<Ident("BA_DEF_"), Quoted("J"), Ident("BOOL")>> \o Semi,
   <<Ident("BA_DEF_"), Quoted("J"), Ident("ENUM"), Quoted("x"), Mark("Comma")>> \o Semi,
   <<Ident("BA_DEF_"), Ident("BO_"), Quoted("I"), Ident("INT"), Whole(0), Whole(1)>> \o Semi,
   <<Ident("BA_DEF_REL_"), Ident("BU_SG_REL_"), Quoted("J"), Ident("STRING")>> \o Semi,
   <<Ident("BA_DEF_DEF_REL_"), Quoted("J"), Quoted("x")>> \o Semi,
   <<Ident("BA_DEF_DEF_"), Quoted("I"), Mark("Minus"), Token("Real", "", 5)>> \o Semi,
   <<Ident("BA_DEF_DEF_"), Quoted("E"), Whole(0)>> \o Semi,
   <<Ident("BA_DEF_DEF_"), Quoted("Z"), Whole(4)>> \o Semi,
   <<Ident("BA_DEF_DEF_"), Quoted("I"), Mark("Comma")>> \o Semi,
   <<Ident("BA_REL_"), Quoted("J"), Ident("BU_SG_REL_"), Ident("A"), Whole(1)>> \o Semi,
   <<Ident("BA_"), Quoted("J"), Whole(4)>> \o Semi,
   <<Ident("BA_"), Quoted("J"), Mark("Plus"), Token("Real", "", 5)>> \o Semi,
   <<Ident("BA_"), Quoted("H"), Ident("BU_"), Ident("C"), Whole(1)>> \o Semi,
   <<Ident("BA_"), Quoted("I"), Ident("BO_"), Whole(7), Whole(1)>> \o Semi,
   <<Ident("BA_"), Quoted("I"), Ident("BO_"), Whole(29), Token("Real", "", 5)>> \o Semi,
   <<Ident("BA_"), Quoted("E"), Ident("SG_"), Whole(29), Ident("X"), Whole(1)>> \o Semi,
   <<Ident("BA_"), Quoted("E"), Ident("SG_"), Whole(29), Ident("G"), Quoted("lo")>> \o Semi,
   <<Ident("BA_"), Quoted("V"), Ident("EV_"), Ident("Env"), Quoted("x")>> \o Semi,
   <<Ident("BA_"), Quoted("V"), Ident("EV_"), Quoted("x")>> \o Semi}

(* A message with a signal, wrong in one respect or in none.               *)
Sound == [id |-> Whole(7), dlc |-> 8, sender |-> <<Ident("A")>>, start |-> 4, length |-> 8, order |-> 1,
          sign |-> <<Mark("Plus")>>, factor |-> 2]
ForeignMessages ==
  {<<Beginning(w.id, w.dlc, w.sender), SignalWith("X", w.start, w.length, w.order, w.sign, w.factor)>> :
     w \in {Sound} \cup {[Sound EXCEPT !.id = id] : id \in {Whole(90), Whole(300), Flagged(8), Flagged(300),
                                                           Whole(9 + 2^(EffBit + 1))}}
              \cup {[Sound EXCEPT !.dlc = 70], [Sound EXCEPT !.sender = <<>>], [Sound EXCEPT !.start = 600],
                    [Sound EXCEPT !.start = 60], [Sound EXCEPT !.length = 0], [Sound EXCEPT !.length = 65],
                    [Sound EXCEPT !.order = 2], [Sound EXCEPT !.sign = <<>>], [Sound EXCEPT !.factor = 0]}}

(* The line, or lines, go where the messages are complete and nothing is   *)
(* said of them yet, or to the end.                                        *)
Inserted(lines, k, new) == SubSeq(lines, 1, k - 1) \o new \o SubSeq(lines, k, Len(lines))
ForeignFiles ==
  LET lines == Write(Whole1)
      comments == CHOOSE k \in DOMAIN lines : IsWord(lines[k][1], "CM_") /\ Len(lines[k]) > 1
      foreign(k, new) == FileOf(Inserted(lines, k, new), Whole1, "foreign",
                                1 + Len(FlattenSeq(SubSeq(lines, 1, k - 1))))
  IN  {foreign(1 + Len(lines), <<line>>) : line \in ForeignLines}
        \cup {foreign(comments, group) : group \in ForeignMessages}

MCFiles == SoundFiles \cup DamagedFiles \cup ForeignFiles
(* Statements the parser takes without a word, and the writer does not     *)
(* give back: an attribute assigned before it is defined, a name that is   *)
(* not of the enumeration, a fraction as the bound of an integer.          *)
MCLooseFiles ==
  LET lines == Write(Whole1)
      definitions == CHOOSE k \in DOMAIN lines : /\ IsWord(lines[k][1], "BA_DEF_") /\ Len(lines[k]) > 1
                                                /\ \A j \in 1..(k - 1) : ~IsWord(lines[j][1], "BA_DEF_") \/ Len(lines[j]) = 1
  IN  {FileOf(Inserted(lines, k, <<line>>), Whole1, "foreign", 1) :
         k \in {definitions, 1 + Len(lines)},
         line \in {<<Ident("BA_"), Quoted("I"), Ident("BO_"), Flagged(100), Whole(1)>> \o Semi,
                   <<Ident("BA_"), Quoted("E"), Ident("SG_"), Whole(29), Ident("G"), Quoted("other")>> \o Semi,
                   <<Ident("BA_DEF_"), Quoted("J"), Ident("INT"), Token("Real", "", 3), Whole(2)>> \o Semi}}

-----------------------------------------------------------------------------
Texts(bytes, n) == UNION {[1..k -> bytes] : k \in 0..n}
MCInputs ==
  Texts({97, 101, 48, Dot, Minus, Quote, Backslash, Newline, Space, Slash, Hash, 59, 63}, 3)
    \cup Texts({48, 101, Dot, Plus, 97}, 5)
    \cup Texts({Quote, Backslash, 97, Newline}, 5)
    \cup Texts({97, Slash, Newline, Hash}, 4)
    \cup {mark \o t : mark \in {<<>>, ByteOrderMark},
                      t \in Texts({97, Newline, Return, 239, 187, 191, 195, Quote}, 4)}

LexIdle ==
  /\ source = Normalise(<<>>)
  /\ lexer = FreshLexer
  /\ tokens = <<[kind |-> "End", from |-> 1, next |-> 1, line |-> 1, column |-> 1, first |-> TRUE]>>
  /\ wrong = {}
DbcIdle ==
  /\ file = FileOf(Write(EmptyDatabase), EmptyDatabase, "none", 0)
  /\ parse = FreshParser(<<End>>)
  /\ round = 2
  /\ before = EmptyDatabase

MCInit == (DbcInit /\ LexIdle) \/ (LexInit /\ DbcIdle)
MCNext == \/ DbcNext /\ UNCHANGED lexVars
          \/ Tokenise /\ UNCHANGED dbcVars
MCSpec == MCInit /\ [][MCNext]_<<dbcVars, lexVars>>

-----------------------------------------------------------------------------
(* The parts of the database library each on its own: the signal codec,    *)
(* the DBC parser and writer, and the lexer.  A behaviour is about one of  *)
(* them; the others rest.                                                  *)
NoMessage == MessageOf("", 0, <<>>)
CodecIdle == message = NoMessage /\ frame = [k \in {} |-> {}] /\ meant = [i \in {} |-> 0]

Init == (CodecInit /\ DbcIdle /\ LexIdle) \/ (CodecIdle /\ MCInit)
Next == \/ message # NoMessage /\ CodecNext /\ UNCHANGED <<dbcVars, lexVars>>
        \/ MCNext /\ UNCHANGED codecVars
Spec == Init /\ [][Next]_<<codecVars, dbcVars, lexVars>>
=============================================================================
