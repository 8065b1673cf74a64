-------------------------------- MODULE JsLex --------------------------------
(* The scrubbing of JavaScript sources before the detectors match patterns:   *)
(* stripComments and stripStringContents, over sources that are sequences of  *)
(* the characters their loops tell apart.                                     *)
EXTENDS Integers, Sequences, FiniteSetsExt

CONSTANT MaxLength      \* bound of the model: characters of a source

Space == "space"
Newline == "newline"
Escape == "backslash"
Quotes == {"quote", "dquote"}
Backtick == "backtick"
Chars == Quotes \union {Backtick, Escape, Newline, "slash", "star"}    \* star: any other, too

VARIABLE src    \* the content of a file

LexInit == src = << >>

\* Every source of up to MaxLength characters, one character at a time.
LexNext ==
    /\ Len(src) < MaxLength
    /\ \E c \in Chars : src' = Append(src, c)

LexSpec == LexInit /\ [][LexNext]_src

--------------------------------------------------------------------------------
\* The inner loops.  An end is the first position behind what has been consumed.

\* A line comment leaves its newline.
LineEnd(s, i) == Min({j \in i..Len(s) : s[j] = Newline} \union {Len(s) + 1})

Pair(s, i, c, d) == i < Len(s) /\ s[i] = c /\ s[i + 1] = d

BlockEnd(s, i) ==
    LET closes == {j \in i..Len(s) : Pair(s, j, "star", "slash")}
    IN  IF closes = {} THEN Len(s) + 1 ELSE Min(closes) + 2

\* Slip: the character behind a backslash is looked at like any other.
QuotedEndNoEscape(s, quote) ==
    [i \in 1..(Len(s) + 1) |->
       LET ends == {j \in i..Len(s) : s[j] = quote}
       IN  IF ends = {} THEN Len(s) + 1 ELSE Min(ends) + 1]

\* A literal in single or double quotes is given up at a newline, left to the
\* outer loop; a template literal is not.
QuotedEnd(s, quote) ==
    LET end[i \in 1..(Len(s) + 1)] ==
          IF i > Len(s) THEN i
          ELSE IF s[i] = Escape /\ i < Len(s) THEN end[i + 2]
          ELSE IF s[i] = quote THEN i + 1
          ELSE IF s[i] = Newline /\ quote # Backtick THEN i
          ELSE end[i + 1]
    IN  end

IsQuote(c) == c \in Quotes \union {Backtick}

Spaces(n) == [k \in 1..n |-> Space]

BlankBlock(s, i, end) ==
    [k \in 1..(end - i) |-> IF s[i + k - 1] = Newline THEN Newline ELSE Space]

\* The second pass has a loop of its own for a literal: from i on everything
\* becomes blank but the closing quote and the newlines of a template.
BlankBody(s, quote) ==
    LET body[i \in 1..(Len(s) + 1)] ==
          IF i > Len(s) THEN << >>
          ELSE IF s[i] = quote THEN <<quote>>
          ELSE IF s[i] = Escape /\ i < Len(s) THEN Spaces(2) \o body[i + 2]
          ELSE IF s[i] # Newline THEN Spaces(1) \o body[i + 1]
          ELSE IF quote = Backtick THEN <<Newline>> \o body[i + 1] ELSE << >>
    IN  body

\* The outer loops: what is written for the comment, the literal or the character
\* of code at i, and the next turn from behind it on.
CommentTurn(s, i) ==
    IF Pair(s, i, "slash", "slash") THEN Spaces(LineEnd(s, i + 2) - i)
    ELSE IF Pair(s, i, "slash", "star") THEN BlankBlock(s, i, BlockEnd(s, i + 2))
    ELSE IF IsQuote(s[i]) THEN SubSeq(s, i, QuotedEnd(s, s[i])[i + 1] - 1)
    ELSE <<s[i]>>

StringTurn(s, i) ==
    IF IsQuote(s[i]) THEN <<s[i]>> \o BlankBody(s, s[i])[i + 1] ELSE <<s[i]>>

Written(s, turn) ==
    LET from[i \in 1..(Len(s) + 1)] ==
          IF i > Len(s) THEN << >>
          ELSE LET piece == turn[i] IN piece \o from[i + Len(piece)]
    IN  from[1]

stripComments(s) == Written(s, [i \in DOMAIN s |-> CommentTurn(s, i)])

stripStringContents(s) == Written(s, [i \in DOMAIN s |-> StringTurn(s, i)])

--------------------------------------------------------------------------------
\* The reference: what each character is, read off a source in one pass.

\* The mode behind position i: code, a comment, or a literal named by its quote.
\* "skip" marks a character that the one before it has settled.
After(m, i) ==
    CASE m.kind = "code" ->
           (CASE Pair(src, i, "slash", "slash") -> [kind |-> "line", skip |-> TRUE]
              [] Pair(src, i, "slash", "star") -> [kind |-> "block", skip |-> TRUE]
              [] IsQuote(src[i]) -> [kind |-> src[i], skip |-> FALSE]
              [] OTHER -> [kind |-> "code", skip |-> FALSE])
      [] m.kind = "line" ->
           [kind |-> IF src[i] = Newline THEN "code" ELSE "line", skip |-> FALSE]
      [] m.kind = "block" ->
           [kind |-> IF Pair(src, i, "star", "slash") THEN "closing" ELSE "block", skip |-> FALSE]
      [] m.kind = "closing" -> [kind |-> "code", skip |-> FALSE]
      [] OTHER ->
           IF src[i] = Escape /\ i < Len(src) THEN [kind |-> m.kind, skip |-> TRUE]
           ELSE IF src[i] = m.kind \/ (src[i] = Newline /\ m.kind # Backtick)
           THEN [kind |-> "code", skip |-> FALSE]
           ELSE m

Mode ==
    LET mode[i \in 0..Len(src)] ==
          IF i = 0 THEN [kind |-> "code", skip |-> FALSE]
          ELSE IF mode[i - 1].skip THEN [kind |-> mode[i - 1].kind, skip |-> FALSE]
          ELSE After(mode[i - 1], i)
    IN  mode

InComment(mode, i) ==
    mode[i].kind \in {"line", "block", "closing"} \/ mode[i - 1].kind = "closing"

\* Inside a literal: neither its quotes nor the newline that gives it up.
InLiteral(mode, i) == IsQuote(mode[i].kind) /\ IsQuote(mode[i - 1].kind)

\* stripComments blanks the comments and nothing else.
CommentsScrubbed ==
    LET clean == stripComments(src)
        mode  == Mode
    IN
    /\ Len(clean) = Len(src)
    /\ \A i \in DOMAIN src :
          clean[i] = IF InComment(mode, i) /\ src[i] # Newline THEN Space ELSE src[i]

\* stripStringContents after it blanks the literals and nothing else.
OnlyCodeLeft ==
    LET clean == stripStringContents(stripComments(src))
        mode  == Mode
    IN
    /\ Len(clean) = Len(src)
    /\ \A i \in DOMAIN src :
          IF InComment(mode, i) \/ InLiteral(mode, i)
          THEN clean[i] \in {Space} \union ({src[i]} \intersect {Newline})
          ELSE clean[i] = src[i]

\* Import patterns see every literal, with the module names in it, and nothing of
\* a comment; the two passes, each with a lexer of its own, agree on what is a
\* literal, so that call patterns see all the code and nothing else; and every
\* character keeps its place (jslex.go, capabilities.go detectCapabilities).
SourceScrubbed == CommentsScrubbed /\ OnlyCodeLeft
=============================================================================
