----------------------------- MODULE Tokenizer -----------------------------
(***************************************************************************)
(* From characters to tokens: tokenizer.cc, and what parser.cc does with   *)
(* characters (ParseDirective, ParseComment).  A routine is a function of  *)
(* what it starts from, s, and returns what it leaves behind:              *)
(*   pos      cursorPos_, counted from 1; the line is LineAt(pos)          *)
(*   comment  comment_, by the position it starts at (0: its text is       *)
(*            empty) and the line it ends in; last is lastComment_         *)
(*   error    hasError_                                                    *)
(*   hung     the routine is in a loop that has no end                     *)
(* Of the values of constants, only the text is kept.                      *)
(***************************************************************************)
EXTENDS Integers, Sequences, FiniteSets, FiniteSetsExt

VARIABLE input_       \* the text of the file being parsed, a string

EndOfFile == "<eof>"

-----------------------------------------------------------------------------
(* Characters. *)

CharsOf(string) == {SubSeq(string, i, i) : i \in 1 .. Len(string)}
Digits    == CharsOf("0123456789")
HexDigits == CharsOf("0123456789abcdefABCDEF")
Letters   == CharsOf("abcdefghijklmnopqrstuvwxyzABCDEFGHIJKLMNOPQRSTUVWXYZ_")
Space     == CharsOf(" \t\n\f")                       \* isspace

\* peek
Peek(p) == IF p <= Len(input_) THEN SubSeq(input_, p, p) ELSE EndOfFile

\* GetChar passes over carriage returns: the character it returns, and where it leaves
\* the cursor.  UngetChar takes the cursor back to p.
RECURSIVE BehindReturns(_)
BehindReturns(p) == IF Peek(p) = "\r" THEN BehindReturns(p + 1) ELSE p
Char(p)   == Peek(BehindReturns(p))
Behind(p) == BehindReturns(p) + 1

LineAt(p) == 1 + Cardinality({i \in 1 .. Len(input_) : i < p /\ Peek(i) = "\n"})

\* GetChar until the character is not in S, or is in S; the last one is put back
RECURSIVE Past(_, _), Until(_, _)
Past(p, S)  == IF Char(p) \in S THEN Past(Behind(p), S) ELSE p
Until(p, S) == IF Char(p) \in S \cup {EndOfFile} THEN p ELSE Until(Behind(p), S)

-----------------------------------------------------------------------------
(* GetLeadingChar: the next character that is not blank and in no comment. *)

\* Behind a comment blanks are passed over.  A character that is the last of the file
\* is not put back: the test for it is is_eof().
LoseLast(q) == IF Char(q) # EndOfFile /\ Behind(q) > Len(input_) THEN Behind(q) ELSE q
AfterComment(p) == LoseLast(Past(p, Space))

\* From behind the first "/" on, the lines that begin with "//", which are one comment.
\* Its text is empty if it is a single line of slashes and blanks.
LineHasText(p) == Char(Past(Past(p, {"/"}), {" ", "\t"})) \notin {"\n", EndOfFile}
RECURSIVE LineComments(_)
MoreLines(q) == IF Char(q) = "/" /\ Peek(Behind(q)) = "/" THEN LineComments(Behind(q)) ELSE q
LineComments(p) == MoreLines(AfterComment(Behind(Until(p, {"\n"}))))
LineCommentText(p) ==
    IF LineHasText(p) \/ LineComments(p) # AfterComment(Behind(Until(p, {"\n"}))) THEN p ELSE 0

\* From behind the "/" on.  The text is made of the lines that end in the comment, so the
\* line of the "*/" is not part of it.
RECURSIVE BlockEnd(_)
BlockEnd(p) ==
    IF Char(p) = EndOfFile \/ (Char(p) = "*" /\ Peek(Behind(p)) = "/") THEN p
    ELSE BlockEnd(Behind(p))
BlockComment(p) == AfterComment(Behind(Behind(BlockEnd(p))))
BlockCommentText(p) ==
    IF \E i, j \in p .. BlockEnd(p) - 1 :
          i < j /\ Peek(i) \notin Space \cup {"*", "\r"} /\ Peek(j) = "\n"
    THEN p ELSE 0

\* Wrong: the comment ends where it is closed and not where the next token is
EndsInOwnLine(text, p, q) == [text |-> text, endLine |-> LineAt(p)]
CommentRead(text, p, q) == [text |-> text, endLine |-> LineAt(q)]

RECURSIVE LeadingFrom(_, _)
LeadingFrom(p, s) ==
    IF Char(p) \in Space THEN LeadingFrom(Behind(p), s)
    ELSE IF Char(p) = "/" /\ Peek(Behind(p)) = "/"
    THEN LeadingFrom(LineComments(Behind(p)),
             [s EXCEPT !.comment = CommentRead(LineCommentText(Behind(p)), p, LineComments(Behind(p)))])
    ELSE IF Char(p) = "/" /\ Peek(Behind(p)) = "*"
    THEN LeadingFrom(BlockComment(Behind(p)),
             [s EXCEPT !.comment = CommentRead(BlockCommentText(Behind(p)), p, BlockComment(Behind(p)))])
    ELSE [s EXCEPT !.pos = p]

GetLeadingChar(s) ==
    LeadingFrom(s.pos, [s EXCEPT !.last = IF s.comment.text # 0 THEN s.comment ELSE @,
                                 !.comment = [text |-> 0, endLine |-> LineAt(s.pos)]])

-----------------------------------------------------------------------------
(* GetToken.  It returns TRUE or FALSE, ok, and the token. *)

NoToken == [type |-> "none", text |-> "", from |-> 0]
Got(ok, s, token) == [ok |-> ok, s |-> s, token |-> token]

\* The token of this type from s.pos up to q
TokenTo(q, type, s) ==
    Got(TRUE, [s EXCEPT !.pos = q],
        [type |-> type, text |-> SubSeq(input_, s.pos, q - 1), from |-> s.pos])

\* A number: at most one "." and one "x", and hexadecimal digits behind that
RECURSIVE NumberEnd(_, _, _)
NumberFrom(n, isFloat, isHex) ==
    IF \/ Char(n) \in Digits
       \/ ~isFloat /\ Char(n) = "."
       \/ ~isHex /\ Char(n) \in {"x", "X"}
       \/ isHex /\ Char(n) \in HexDigits
    THEN NumberEnd(n, isFloat, isHex)
    ELSE IF isFloat /\ Char(n) \in {"f", "F"} THEN Behind(n) ELSE n
NumberEnd(p, isFloat, isHex) ==
    NumberFrom(Behind(p), isFloat \/ Char(p) = ".", isHex \/ Char(p) \in {"x", "X"})

\* Behind the closing character, or 0: at the end of the file GetChar returns a character
\* that is not closing and for which not_eof holds, and goes on returning it.
RECURSIVE StringEnd(_, _)
StringEnd(p, closing) ==
    IF Char(p) = closing THEN Behind(p)
    ELSE IF Char(p) = EndOfFile THEN 0
    ELSE IF Char(p) = "\\" THEN StringEnd(Behind(Behind(p)), closing)
    ELSE StringEnd(Behind(p), closing)
StringTo(q, s) ==
    IF q = 0 THEN Got(FALSE, [s EXCEPT !.hung = TRUE], NoToken)
    ELSE Got(TRUE, [s EXCEPT !.pos = q],
             [type |-> "const", text |-> SubSeq(input_, s.pos + 1, q - 2), from |-> s.pos])

Pairs == {"<<", "->", "!=", "<=", ">=", "++", "--", "+=", "-=", "*=", "/=", "^=", "|=",
          "&=", "~=", "%=", "&&", "||", "==", "::", ".."}
\* A "." behind any pair is taken with it
SymbolEnd(p, q, seperateBraces) ==
    IF Char(p) \o Char(q) \in Pairs \cup (IF seperateBraces THEN {} ELSE {">>"})
    THEN IF Char(Behind(q)) = "." THEN Behind(Behind(q)) ELSE Behind(q)
    ELSE q

\* A character put back is read again.  Wrong: it is not put back.
WordEndTaken(p) == Behind(Past(p, Letters \cup Digits))
WordEnd(p) == Past(p, Letters \cup Digits)

(* known: the names m_macros.find finds, none while macros are disabled.   *)
RECURSIVE GetToken(_, _, _, _)

UngetToken(s, token) == [s EXCEPT !.pos = token.from]

\* r, but a token that is not of the type asked for is put back
OrPutBack(r, wanted) ==
    IF r.ok /\ ~wanted THEN Got(FALSE, UngetToken(r.s, r.token), r.token) ELSE r

MatchedSymbol(r, symbol) ==
    OrPutBack(r, r.token.type = "symbol" /\ r.token.text = symbol)
MatchSymbol(s, symbol, known) == MatchedSymbol(GetToken(s, known, FALSE, symbol = ">"), symbol)
OfType(r, type) == OrPutBack(r, r.token.type = type)
GetIdentifier(s, known) == OfType(GetToken(s, known, FALSE, FALSE), "identifier")
GetConst(s, known)      == OfType(GetToken(s, known, FALSE, FALSE), "const")

Error(s) == Got(FALSE, [s EXCEPT !.error = TRUE], NoToken)

\* What may follow a macro: "(", identifiers separated by commas, ")"
RECURSIVE MacroArguments(_, _)
Closed(r) == IF r.ok THEN r ELSE Error(r.s)
BehindArgument(r, known) ==
    IF r.ok THEN MacroArguments(r.s, known) ELSE Closed(MatchSymbol(r.s, ")", known))
MacroArgument(r, known) ==
    IF r.ok THEN BehindArgument(MatchSymbol(r.s, ",", known), known) ELSE Error(r.s)
MacroArguments(s, known) == MacroArgument(GetIdentifier(s, known), known)
\* Wrong: there has to be an argument
MacroOpenedFull(r, known) == IF r.ok THEN Error(r.s) ELSE MacroArguments(r.s, known)
MacroOpened(r, known) ==
    IF r.ok THEN r ELSE MacroArguments(r.s, known)
ParseMacroFrom(r, known) ==
    IF r.ok THEN MacroOpened(MatchSymbol(r.s, ")", known), known) ELSE Got(TRUE, r.s, NoToken)
ParseMacro(s, known) == ParseMacroFrom(MatchSymbol(s, "(", known), known)

\* The token behind a macro is returned in its place.  What this second GetToken
\* returns is ignored: at the end of the file the token is the macro.
Instead(r, macro) == Got(TRUE, r.s, IF r.token = NoToken THEN macro ELSE r.token)
BehindMacro(r, macro, known) ==
    IF r.ok THEN Instead(GetToken(r.s, known, FALSE, FALSE), macro)
            ELSE Got(FALSE, [r.s EXCEPT !.error = TRUE], macro)

Word(r, known) ==
    IF r.token.text \in {"true", "false"} THEN [r EXCEPT !.token.type = "const"]
    ELSE IF r.token.text \in known
    THEN BehindMacro(ParseMacro(r.s, known), [r.token EXCEPT !.type = "macro"], known)
    ELSE r

\* The token that starts at s.pos
TokenAt(s, known, angleBracketsForStrings, seperateBraces) ==
    LET c == Char(s.pos)
        p == Peek(Behind(s.pos))
    IN  IF c = EndOfFile THEN Got(FALSE, s, NoToken)
        ELSE IF c \in Letters THEN Word(TokenTo(WordEnd(s.pos), "identifier", s), known)
        ELSE IF c \in Digits \/ (c \in {"-", "+"} /\ p \in Digits)
        THEN TokenTo(NumberEnd(s.pos, FALSE, FALSE), "const", s)
        ELSE IF c = "\"" THEN StringTo(StringEnd(Behind(s.pos), "\""), s)
        ELSE IF c = "<" /\ angleBracketsForStrings THEN StringTo(StringEnd(Behind(s.pos), ">"), s)
        ELSE TokenTo(SymbolEnd(s.pos, Behind(s.pos), seperateBraces), "symbol", s)

GetToken(s, known, angleBracketsForStrings, seperateBraces) ==
    TokenAt(GetLeadingChar(s), known, angleBracketsForStrings, seperateBraces)

-----------------------------------------------------------------------------
(* ParseComment and ParseDirective.  A directive also leaves behind the     *)
(* name it defines and the name it includes, or "".                         *)

\* The comment ParseComment writes, by its position, or 0
ParseComment(s) == IF s.last.endLine = LineAt(s.pos) THEN s.last.text ELSE 0

\* To the end of the line, and of the next one if the last character read was a
\* backslash; lastChar keeps its value over an empty line and at the end of the file.
\* Wrong: a backslash is remembered over the lines behind it
LastCharStays(p, q, lastChar) ==
    IF lastChar = "\\" \/ Peek(q - 1) = "\\" THEN "\\" ELSE Peek(q - 1)
LastChar(p, q, lastChar) ==
    LET read == {i \in p .. q - 1 : Peek(i) # "\r"} IN IF read = {} THEN lastChar ELSE Peek(Max(read))
RECURSIVE SkipLines(_, _, _, _)
SkipToEnd(q, lastChar, multiLineEnabled, s) ==
    IF ~multiLineEnabled \/ lastChar # "\\"
    THEN [s EXCEPT !.pos = IF Char(q) = EndOfFile THEN q ELSE Behind(q)]
    ELSE IF Char(q) = EndOfFile THEN [s EXCEPT !.hung = TRUE]
    ELSE SkipLines(Behind(q), lastChar, multiLineEnabled, s)
SkipLines(p, lastChar, multiLineEnabled, s) ==
    SkipToEnd(Until(p, {"\n"}), LastChar(p, Until(p, {"\n"}), lastChar), multiLineEnabled, s)
SkipDirective(s, multiLineEnabled) == SkipLines(s.pos, "\n", multiLineEnabled, s)

Directive(ok, s, defined, included) ==
    [ok |-> ok, s |-> s, defined |-> defined, included |-> included]

Define(r) ==
    IF r.ok THEN Directive(TRUE, SkipDirective(r.s, TRUE), r.token.text, "")
            ELSE Directive(FALSE, Error(r.s).s, "", "")
\* Wrong: the name is read like any other token
IncludeToken(s) == GetToken(s, {}, FALSE, FALSE)
IncludeName(s) == GetToken(s, {}, TRUE, FALSE)
Include(r) == Directive(TRUE, IF r.s.hung THEN r.s ELSE SkipDirective(r.s, FALSE), "", r.token.text)

\* From behind the "#" on; r is the name of the directive
DirectiveNamed(r) ==
    IF ~r.ok THEN Directive(FALSE, Error(r.s).s, "", "")
    ELSE IF r.token.text = "define" THEN Define(GetIdentifier(r.s, {}))
    ELSE IF r.token.text = "include" THEN Include(IncludeName(r.s))
    ELSE Directive(TRUE, SkipDirective(r.s, FALSE), "", "")
ParseDirective(s) == DirectiveNamed(GetIdentifier(s, {}))
=============================================================================
