-------------------------------- MODULE Lexer -------------------------------
(***************************************************************************)
(* From the bytes of a file to tokens: Source::normalise(), and the lexer  *)
(* that DBC files and simulator configurations share.                      *)
(*                                                                         *)
(* Text is a sequence of bytes; a token is where it begins and ends, what  *)
(* it is, where it is said to be, and, for a string, its contents.         *)
(***************************************************************************)
EXTENDS Integers, Sequences, FiniteSets

Tab == 9
Newline == 10
Return == 13
Space == 32
Quote == 34
Hash == 35
Plus == 43
Minus == 45
Dot == 46
Slash == 47
Backslash == 92
Blank == {Tab, Newline, 11, 12, Space}
Digit == 48..57
Exponent == {69, 101}
IdentStart == (65..90) \cup (97..122) \cup {95} \cup (128..255)
IdentContinue == IdentStart \cup Digit

Punctuation(c) ==
  CASE c = 58 -> "Colon"    [] c = 59 -> "Semicolon" [] c = 44 -> "Comma"    [] c = 124 -> "Pipe"
    [] c = 64 -> "At"       [] c = Plus -> "Plus"    [] c = Minus -> "Minus" [] c = 40 -> "LParen"
    [] c = 41 -> "RParen"   [] c = 91 -> "LBracket"  [] c = 93 -> "RBracket" [] c = 61 -> "Equals"
    [] c = Dot -> "Dot"     [] c = Slash -> "Slash"  [] OTHER -> "Unknown"

-----------------------------------------------------------------------------
(* Normalisation.                                                          *)
ByteOrderMark == <<239, 187, 191>>
Continuation == 128..191
Bytes(seq, from, to) == SubSeq(seq, from, IF to < Len(seq) THEN to ELSE Len(seq))

SequenceLength(lead) ==
  CASE lead < 128 -> 1 [] lead \in 192..223 -> 2 [] lead \in 224..239 -> 3 [] lead \in 240..247 -> 4
    [] OTHER -> 0
IsValidUtf8(bytes) ==
  LET valid[i \in 1..(Len(bytes) + 1)] ==
        i > Len(bytes) \/ LET n == SequenceLength(bytes[i])
                          IN  /\ n > 0 /\ i + n <= Len(bytes) + 1
                              /\ \A k \in 1..(n - 1) : bytes[i + k] \in Continuation
                              /\ valid[i + n]
  IN  valid[1]

(* What each byte becomes, one after another.                              *)
Rewritten(bytes, By(_)) ==
  LET upTo[n \in 0..Len(bytes)] == IF n = 0 THEN <<>> ELSE upTo[n - 1] \o By(n)
  IN  upTo[Len(bytes)]

Latin1ToUtf8(bytes) ==
  Rewritten(bytes, LAMBDA i : IF bytes[i] < 128 THEN <<bytes[i]>>
                              ELSE <<192 + (bytes[i] \div 64), 128 + (bytes[i] % 64)>>)

(* CR LF and a lone CR both become one newline.                            *)
UnixLines(bytes) ==
  Rewritten(bytes, LAMBDA i : CASE bytes[i] = Return -> <<Newline>>
                                [] bytes[i] = Newline /\ i > 1 /\ bytes[i - 1] = Return -> <<>>
                                [] OTHER -> <<bytes[i]>>)

Normalise(bytes) ==
  LET bom == Bytes(bytes, 1, 3) = ByteOrderMark
      bare == IF bom THEN SubSeq(bytes, 4, Len(bytes)) ELSE bytes
      utf8 == IF IsValidUtf8(bare) THEN bare ELSE Latin1ToUtf8(bare)
      lines == UnixLines(utf8)
      open == lines # <<>> /\ lines[Len(lines)] # Newline
  IN  [text |-> IF open THEN Append(lines, Newline) ELSE lines,
       hadBom |-> bom, hadLatin1 |-> ~IsValidUtf8(bare),
       hadCrlf |-> \E i \in DOMAIN utf8 : utf8[i] = Return, hadNoFinalNewline |-> open]

LineStarts(text) == {1} \cup {i + 1 : i \in {k \in 1..(Len(text) - 1) : text[k] = Newline}}

(* line(): up to its newline; empty for a number that there is not.        *)
LineText(text, number) ==
  IF number \notin 1..Cardinality(LineStarts(text)) THEN <<>>
  ELSE LET start == CHOOSE s \in LineStarts(text) : Cardinality({r \in LineStarts(text) : r < s}) = number - 1
           ends == {k \in start..Len(text) : text[k] = Newline}
       IN  SubSeq(text, start, IF ends = {} THEN Len(text) ELSE (CHOOSE k \in ends : \A j \in ends : k <= j) - 1)

-----------------------------------------------------------------------------
(* The extents of tokens.  A position past the end has the byte 0.         *)
Peek(text, i) == IF i <= Len(text) THEN text[i] ELSE 0

(* The first position from i on that has no byte of the set.               *)
Past(text, i, set) ==
  LET others == {k \in i..Len(text) : text[k] \notin set}
  IN  IF others = {} THEN (IF i <= Len(text) THEN Len(text) + 1 ELSE i)
                     ELSE CHOOSE k \in others : \A j \in others : k <= j

SkipTriviaSlip(text, from) ==   \* one slash begins a comment
  LET skip[i \in from..(Len(text) + 1)] ==
        IF i > Len(text) THEN i
        ELSE IF text[i] \in Blank THEN skip[i + 1]
        ELSE IF text[i] \in {Hash, Slash} THEN skip[Past(text, i, (0..255) \ {Newline})]
        ELSE i
  IN  skip[from]

(* Blanks, and comments to the end of their line.                          *)
SkipTrivia(text, from) ==
  LET comment(i) == text[i] = Hash \/ (text[i] = Slash /\ Peek(text, i + 1) = Slash)
      skip[i \in from..(Len(text) + 1)] ==
        IF i > Len(text) THEN i
        ELSE IF text[i] \in Blank THEN skip[i + 1]
        ELSE IF comment(i) THEN skip[Past(text, i, (0..255) \ {Newline})]
        ELSE i
  IN  skip[from]

(* Digits, a point, an exponent; what goes on as a name is a name.         *)
PastFraction(text, whole) ==
  CASE Peek(text, whole) = Dot /\ Peek(text, whole + 1) \in Digit -> Past(text, whole + 1, Digit)
    [] Peek(text, whole) = Dot /\ Peek(text, whole + 1) \notin IdentStart \cup Digit -> whole + 1
    [] OTHER -> whole
PastExponent(text, i) ==
  LET digits == IF Peek(text, i + 1) \in {Plus, Minus} THEN i + 2 ELSE i + 1
  IN  IF Peek(text, i) \in Exponent /\ Peek(text, digits) \in Digit THEN Past(text, digits, Digit) ELSE i

LexNumber(text, i) ==
  LET whole == Past(text, i, Digit)
      number(end) ==
        CASE end > whole -> [kind |-> "Real", next |-> end]
          [] end = whole /\ Peek(text, end) \in IdentContinue ->
               [kind |-> "Identifier", next |-> Past(text, end, IdentContinue)]
          [] OTHER -> [kind |-> "Integer", next |-> end]
  IN  number(PastExponent(text, PastFraction(text, whole)))

(* Up to the closing quote: \" and "" are a quote, \\ a backslash, and any *)
(* other backslash is itself.                                              *)
LexString(text, i) ==
  LET escape(k) == \/ text[k] = Backslash /\ Peek(text, k + 1) \in {Quote, Backslash}
                   \/ text[k] = Quote /\ Peek(text, k + 1) = Quote
      from[k \in (i + 1)..(Len(text) + 1)] ==
        CASE k > Len(text) -> [next |-> k, value |-> <<>>, closed |-> FALSE]
          [] k <= Len(text) ->
               CASE escape(k) -> [from[k + 2] EXCEPT !.value = <<text[k + 1]>> \o @]
                 [] text[k] = Quote /\ ~escape(k) -> [next |-> k + 1, value |-> <<>>, closed |-> TRUE]
                 [] OTHER -> [from[k + 1] EXCEPT !.value = <<text[k]>> \o @]
  IN  from[i + 1]

(* Writer.cpp: what quoted() makes of a string.                            *)
Escaped(s) ==
  <<Quote>> \o Rewritten(s, LAMBDA i : IF s[i] \in {Quote, Backslash} THEN <<Backslash, s[i]>> ELSE <<s[i]>>)
            \o <<Quote>>

-----------------------------------------------------------------------------
FreshLexer == [pos |-> 1, line |-> 1, column |-> 1, atLineStart |-> TRUE]

(* advance(), up to position to.                                           *)
AdvanceTo(text, lexer, to) ==
  LET breaks == {k \in lexer.pos..(to - 1) : text[k] = Newline}
      last == CHOOSE k \in breaks : \A j \in breaks : j <= k
  IN  [pos |-> to,
       line |-> lexer.line + Cardinality(breaks),
       column |-> IF breaks = {} THEN lexer.column + (to - lexer.pos) ELSE to - last,
       atLineStart |-> lexer.atLineStart \/ breaks # {}]

(* The token at position i.                                                *)
LexToken(text, i) ==
  LET c == text[i]
  IN  CASE c \in Digit \/ (c = Dot /\ Peek(text, i + 1) \in Digit) -> LexNumber(text, i)
        [] c \in IdentStart -> [kind |-> "Identifier", next |-> Past(text, i, IdentContinue)]
        [] c = Quote -> [kind |-> "String", next |-> LexString(text, i).next]
        [] OTHER -> [kind |-> Punctuation(c), next |-> i + 1]

-----------------------------------------------------------------------------
(* tokenise(): one step of its loop for each token of a file.              *)
CONSTANT Inputs   \* the files, byte by byte

VARIABLES source,   \* the normalised file
          lexer,    \* where the lexer is in it
          tokens,   \* what it has found
          wrong     \* where: strings that never end, bytes that are no token

lexVars == <<source, lexer, tokens, wrong>>

LexInit ==
  /\ \E bytes \in Inputs : source = Normalise(bytes)
  /\ lexer = FreshLexer
  /\ tokens = <<>>
  /\ wrong = {}

Ended == tokens # <<>> /\ tokens[Len(tokens)].kind = "End"

Tokenise ==
  /\ ~Ended
  /\ \E there \in {AdvanceTo(source.text, lexer, SkipTrivia(source.text, lexer.pos))} :
       LET atEnd == there.pos > Len(source.text)
           token == IF atEnd THEN [kind |-> "End", next |-> there.pos] ELSE LexToken(source.text, there.pos)
           bad == \/ token.kind = "Unknown"
                  \/ token.kind = "String" /\ ~LexString(source.text, there.pos).closed
       IN  /\ tokens' = Append(tokens, [kind |-> token.kind, from |-> there.pos, next |-> token.next,
                                        line |-> there.line, column |-> there.column,
                                        first |-> there.atLineStart])
           /\ wrong' = wrong \cup (IF bad THEN {there.pos} ELSE {})
           /\ lexer' = AdvanceTo(source.text, [there EXCEPT !.atLineStart = FALSE], token.next)
           /\ UNCHANGED source

LexSpec == LexInit /\ [][Tokenise]_lexVars

-----------------------------------------------------------------------------
(* What every later step relies on: no CR, a newline at the end, valid     *)
(* UTF-8, and text that normalising again would leave alone; tokens that   *)
(* follow one another.                                                     *)
TextIsNormal ==
  /\ Return \notin {source.text[i] : i \in DOMAIN source.text}
  /\ source.text = <<>> \/ source.text[Len(source.text)] = Newline
  /\ IsValidUtf8(source.text)
  /\ Normalise(source.text).text = source.text \/ Bytes(source.text, 1, 3) = ByteOrderMark
  /\ \A i \in DOMAIN tokens :
       /\ tokens[i].next > tokens[i].from \/ tokens[i].kind = "End"
       /\ i > 1 => tokens[i].from >= tokens[i - 1].next

(* Nothing of the file is swallowed between two tokens but blanks and      *)
(* comments, and no name is cut in two: 3PMS is one token.                 *)
NothingIsSwallowed ==
  \A i \in DOMAIN tokens :
    LET begin == IF i = 1 THEN 1 ELSE tokens[i - 1].next
        opens(k) == source.text[k] = Hash \/ (source.text[k] = Slash /\ Peek(source.text, k + 1) = Slash)
        commented(k) == \E b \in begin..k : opens(b) /\ \A j \in b..k : source.text[j] # Newline
    IN  /\ \A k \in begin..(tokens[i].from - 1) : source.text[k] \in Blank \/ commented(k)
        /\ i > 1 /\ begin = tokens[i].from /\ tokens[i - 1].kind \notin {"Real", "String"} =>
             ~(Peek(source.text, begin) \in IdentContinue /\ source.text[begin - 1] \in IdentContinue)

(* The caret of a diagnostic stands under the token: the line and column   *)
(* of a token lead back to its first byte, in the line that is quoted.     *)
CaretPointsAtToken ==
  \A i \in DOMAIN tokens : tokens[i].kind # "End" =>
    LET line == LineText(source.text, tokens[i].line)
    IN  /\ tokens[i].column \in 1..Len(line)
        /\ line[tokens[i].column] = source.text[tokens[i].from]

(* first_on_line, on which resynchronisation rests: no other token begins  *)
(* on that line before it.                                                 *)
FirstOnItsLine ==
  \A i \in DOMAIN tokens : tokens[i].first <=> \A k \in 1..(i - 1) : tokens[k].line # tokens[i].line

(* A string that is closed is read back from what the writer makes of it,  *)
(* and one that is not is reported.                                        *)
StringsSurvive ==
  \A i \in DOMAIN tokens : tokens[i].kind = "String" =>
    LET read == LexString(source.text, tokens[i].from)
        written == Escaped(read.value)
    IN  /\ LexString(written, 1) = [next |-> Len(written) + 1, value |-> read.value, closed |-> TRUE]
        /\ tokens[i].from \in wrong <=> ~read.closed

(* The tokens cover the text: nothing is skipped, each knows where it      *)
(* stands, and what it holds can be written and read again (tokenise()).   *)
TokensCoverTheText ==
  TextIsNormal /\ NothingIsSwallowed /\ CaretPointsAtToken /\ FirstOnItsLine /\ StringsSurvive
=============================================================================
