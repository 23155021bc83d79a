------------------------------ MODULE Grammar ------------------------------
(***************************************************************************)
(* The routines of parser.cc that read a part of a declaration from the   *)
(* cursor on: types, lists, functions, properties, enumerations.  A        *)
(* routine is a function of the cursor and returns what it leaves behind:  *)
(*   ok   what the C++ routine returns (for a type: node /= nullptr),      *)
(*   p    the cursor, which a failing routine leaves where it stopped,     *)
(*   err  whether it called Error,                                         *)
(*   ev   the backend calls it made, in order,                             *)
(* and for a type node also its kind and, for a function type, its name.   *)
(* What the code does by a loop or by recursion is a function of the       *)
(* number of rounds or of the depth; there are no more of them than tokens *)
(* that lead to the next.                                                  *)
(* A file is a sequence of tokens, each its text; a string constant, whose *)
(* text may be that of a symbol, is told by the quote it begins with.      *)
(* Blanks, comments, directives and macros are the tokenizer's and are     *)
(* left out, and so are specifiers and line numbers, which are only copied *)
(* to the output.                                                          *)
(***************************************************************************)
EXTENDS Integers, Sequences, FiniteSets, FiniteSetsExt, SequencesExt

VARIABLE input        \* the tokens of the file being parsed

Symbols == {";", ":", "::", ",", "{", "}", "(", ")", "<", ">", "[", "]",
            "=", "~", "*", "&", "&&", "...", "+"}
\* The tokens whose text is s: a comparison of texts does not ask for the kind of token
Spelled(s) == {s, "\"" \o s}
Consts  == {"0", "1", "true", "false", "\";", "\",", "\"{", "\"}", "\"(", "\")"}
EndOfFile == "<eof>"
BaseTypes == {"void", "bool", "int", "char", "float", "double"}     \* g_baseTypes

-----------------------------------------------------------------------------
(* The cursor. *)

\* GetToken, without moving the cursor
Token(p) == IF p <= Len(input) THEN input[p] ELSE EndOfFile
IsConst(p)      == Token(p) \in Consts                               \* GetConst
IsIdentifier(p) == Token(p) \notin Symbols \cup Consts \cup {EndOfFile}  \* GetIdentifier

\* MatchSymbol and MatchIdentifier: step over one of the tokens in S
MatchAny(p, S) == IF Token(p) \in S THEN p + 1 ELSE p
Match(p, s)    == MatchAny(p, {s})

\* The first of the positions that stop a loop over GetToken; past the end if none does
FirstOf(stops) == IF stops = {} THEN Len(input) + 1 ELSE Min(stops)
After(i) == IF i > Len(input) THEN i ELSE i + 1

\* The loops that take "specifiers in any particular order", each at most once
MatchEach(p, S) ==
    FirstOf({i \in p .. Len(input) : input[i] \notin S \ {input[j] : j \in p .. i - 1}})
Given(p, q, s)  == \E i \in p .. q - 1 : input[i] = s

\* How many of the tokens S there are from p on
Count(p, S) == Cardinality({i \in p .. Len(input) : input[i] \in S})

\* Opening less closing brackets from p to i
Depth(p, i, open, close) ==
      Cardinality({j \in p .. i : input[j] \in open})
    - Cardinality({j \in p .. i : input[j] \in close})

SkipPastSemicolon(p) == After(FirstOf({i \in p .. Len(input) : input[i] \in Spelled(";")}))

\* Where a declaration that is skipped may end: a ";" or "}" that no brace is open at
DeclarationEnds(p) ==
    {i \in p .. Len(input) : /\ input[i] \in Spelled(";") \cup Spelled("}")
                             /\ Depth(p, i, Spelled("{"), Spelled("}")) = 0}

\* Wrong: the token behind the declaration is skipped as well
SkipDeclarationOneMore(p) == FirstOf(DeclarationEnds(p)) + 2
\* Wrong: the braces are not counted
SkipDeclarationFlat(p) == SkipPastSemicolon(p)
\* A block is skipped whole; a "}" that closes nothing takes the depth below zero
SkipDeclaration(p) == After(FirstOf(DeclarationEnds(p)))

\* The cursor behind UngetToken of a Token that no GetToken has filled: it may be anywhere
Nowhere == Len(input) + 2

-----------------------------------------------------------------------------
(* What a routine leaves behind. *)

Call(op, name, kind) == <<op, name, kind>>
Done(p, ev)      == [ok |-> TRUE,  p |-> p, err |-> FALSE, ev |-> ev]
Fail(p, ev)      == [ok |-> FALSE, p |-> p, err |-> FALSE, ev |-> ev]
FailError(p, ev) == [ok |-> FALSE, p |-> p, err |-> TRUE,  ev |-> ev]
\* r, done after the calls ev
Then(ev, r) == [ok |-> r.ok, p |-> r.p, err |-> r.err, ev |-> ev \o r.ev]

\* RequireSymbol, followed by the calls ev
RequireSymbol(p, s, ev) == IF Token(p) = s THEN Done(p + 1, ev) ELSE FailError(p, <<>>)

-----------------------------------------------------------------------------
(* Types.  The calls of a node are those TypeNodeWriter makes when it visits it. *)

Node(p, kind, name, ev) ==
    [ok |-> TRUE, p |-> p, err |-> FALSE, ev |-> ev, kind |-> kind, name |-> name]
NoNode(p, err) ==
    [ok |-> FALSE, p |-> p, err |-> err, ev |-> <<>>, kind |-> "none", name |-> ""]

\* VisitNode and Visit: a node brackets its name, if its kind has one, and the nodes below it
Visit(kind, name, below) ==
       <<Call("beginType", "", kind)>>
    \o (IF kind \in {"pointer", "reference", "lreference"} THEN <<>>
        ELSE <<Call("typeName", name, "")>>)
    \o below
    \o <<Call("endType", "", "")>>
\* VisitNode with the name of a function type's argument
VisitNamed(ev, name) ==
    IF name = "" THEN ev ELSE <<Head(ev), Call("typeName", name, "")>> \o Tail(ev)

Literal(p, name, ctor, variadic) ==
    LET kind == IF variadic THEN "variadic" ELSE IF name = ctor THEN "constructor" ELSE "literal"
    IN  Node(p, kind, name, Visit(kind, name, <<>>))

\* The tokens from p up to q, in a row and with blanks between them
Text(p, q)   == FlattenSeq(SubSeq(input, p, q - 1))
Joined(p, q) ==
    FlattenSeq([i \in 1 .. 2 * (q - p) - 1 |-> IF i % 2 = 1 THEN Token(p + i \div 2) ELSE " "])

IsConstructor(i, ctor) == IsIdentifier(i) /\ Token(i) = ctor /\ Token(i + 1) = "("

\* "~" and the name of the class, with which the cursor goes back to the "~"
Destructor(p, ctor) ==
    IF ~IsIdentifier(p + 1) THEN NoNode(p + 1, TRUE)
    ELSE IF Token(p + 1) # ctor \/ Token(p + 2) # "(" THEN NoNode(p + 2, TRUE)
    ELSE Node(p, "destructor", "~" \o ctor, Visit("destructor", "~" \o ctor, <<>>))

\* The qualified name a type starts with, names and "::" by turns up to e, where there is
\* neither or a constructor's name; a "..." or a destructor may follow.  It is written behind
\* specifier.
DeclaratorFrom(p, ctor, specifier) ==
    LET q == Match(p, "::")
        IsName(i) == (i - q) % 2 = 0
        e == FirstOf({i \in q .. Len(input) :
                         IF IsName(i) THEN IsConstructor(i, ctor) \/ ~(IsIdentifier(i) \/ IsConst(i))
                                      ELSE Token(i) # "::"})
        turn == e = p \/ ~IsName(e)       \* the loop is at its beginning
    IN  IF turn /\ Token(e) = "..." THEN Literal(e + 1, specifier \o Text(p, e + 1), ctor, TRUE)
        ELSE IF turn /\ Token(e) = "~" THEN Destructor(e, ctor)
        ELSE IF ~IsName(e) THEN Literal(e, specifier \o Text(p, e), ctor, FALSE)
        ELSE IF IsConstructor(e, ctor) THEN Literal(e, ctor, ctor, FALSE)
        ELSE NoNode(e, FALSE)

ParseTypeNodeDeclarator(p, ctor, checkSpecifier) ==
    IF Token(p) = EndOfFile THEN NoNode(p, FALSE)
    ELSE IF checkSpecifier /\ Token(p) \in {"class", "struct", "union", "enum", "typename"}
         THEN DeclaratorFrom(p + 1, ctor, Token(p))
         ELSE DeclaratorFrom(p, ctor, "")

\* "signed"/"unsigned", "short"/"long"/"long long" and then a base type, if any:
\* the cursor behind them, p itself if there is neither
ParseArithmetic(p) ==
    LET s == MatchAny(p, {"signed", "unsigned"})
        z == IF Token(s) = "long" THEN Match(s + 1, "long") ELSE Match(s, "short")
    IN  IF z = p THEN p ELSE MatchAny(z, BaseTypes)

\* "&", "&&" and "*" around node r, each with a "const" of its own
Indirected(r) ==
    LET kind == CASE Token(r.p) = "&"  -> "reference"
                  [] Token(r.p) = "&&" -> "lreference"
                  [] Token(r.p) = "*"  -> "pointer"
                  [] OTHER             -> "none"
    IN  IF kind = "none" THEN r
        ELSE Node(Match(r.p + 1, "const"), kind, "", Visit(kind, "", r.ev))
Indirections(r) ==
    LET rounds == Count(r.p, {"&", "&&", "*"})
        loop[n \in 0 .. rounds] == IF n = 0 THEN r ELSE Indirected(loop[n - 1])
    IN  loop[rounds]

-----------------------------------------------------------------------------
(* "do { item } while (MatchSymbol(","))" and the items there are.  An operator whose    *)
(* parameter is what another routine left behind goes on from there.  The types in an    *)
(* item are those of types: what ParseTypeNode leaves behind, as a function of its cursor *)
(* and its arguments.                                                                    *)

\* What follows r, unless r failed
IfOk(r, rest) == IF r.ok THEN Then(r.ev, rest) ELSE r

\* The name behind the type t, if there is one, and the position behind it
NameOf(t)   == IF IsIdentifier(t.p) THEN Token(t.p) ELSE ""
BehindName(t) == IF IsIdentifier(t.p) THEN t.p + 1 ELSE t.p

\* The default value of an argument runs to a "," or ")" outside parentheses
SkipDefault(p) ==
    FirstOf({i \in p .. Len(input) : /\ input[i] \in Spelled(",") \cup Spelled(")")
                                    /\ Depth(p, i - 1, Spelled("("), Spelled(")")) = 0})
\* That of an enumerator to a "," or "}"; at the end of the file the last token is put back
SkipValue(p) ==
    LET v == FirstOf({i \in p .. Len(input) : input[i] \in {",", "}"}})
    IN  IF v > Len(input) THEN Len(input) ELSE v
\* Behind a name at n - 1 that may have a value, which runs up to v.  If the file ends behind
\* the "=", the value is a view of no memory, of a length nobody has set.
Valued(n, v, ev) ==
    IF Token(n) # "=" THEN Done(n, ev)
    ELSE IF n = Len(input) THEN Fail(Nowhere, <<>>)
    ELSE Done(v, ev)

\* An argument of a function type
Parameter(t) ==
    IF ~t.ok THEN t
    ELSE IF Token(t.p) = EndOfFile THEN FailError(t.p, <<>>)
    ELSE Done(BehindName(t), VisitNamed(t.ev, NameOf(t)))

\* An argument of a function
Argument(t) ==
    LET n == BehindName(t)
    IN  IfOk(t, Valued(n, SkipDefault(n + 1), <<Call("functionArgument", NameOf(t), "")>>))

Access(token) == Call("access", "", token)
AccessSpecifiers == {"public", "protected", "private"}

\* A base class of a class
Base(t) == IfOk(t, Done(t.p, <<Call("baseType", "", "")>>))
ParseBase(p, types) ==
    LET b == MatchAny(p, AccessSpecifiers)
    IN  IF ~IsIdentifier(p) THEN FailError(p, <<>>)
        ELSE Then(<<Access(IF b > p THEN Token(p) ELSE "private")>>, Base(types[<<b, "", TRUE>>]))

\* An argument of a template declaration, with its default v
WithDefault(v, name, kind) == IfOk(v, Done(v.p, <<Call("templateArgument", name, kind)>>))
TemplateParameter(t, types) ==
    LET n == BehindName(t)
    IN  IF ~t.ok THEN FailError(t.p, <<>>)
        ELSE Then(t.ev, IF Token(n) = "="
                        THEN WithDefault(types[<<n + 1, "", TRUE>>], NameOf(t), "default")
                        ELSE WithDefault(Done(n, <<>>), NameOf(t), ""))

\* A value of an enumeration
Enumerator(p) ==
    IF IsIdentifier(p) THEN Valued(p + 1, SkipValue(p + 2), <<Call("enumValue", Token(p), "")>>)
                       ELSE Fail(p, <<>>)

ParseItem(item, p, ctor, types) ==
    CASE item = "templateType"      -> types[<<p, ctor, TRUE>>]
      [] item = "parameter"         -> Parameter(types[<<p, "", TRUE>>])
      [] item = "argument"          -> Argument(types[<<p, "", TRUE>>])
      [] item = "base"              -> ParseBase(p, types)
      [] item = "templateParameter" -> TemplateParameter(types[<<p, "", FALSE>>], types)
      [] item = "enumerator"        -> Enumerator(p)

MoreOfList(r, item, ctor, types) ==
    IF r.ok /\ Token(r.p) = "," THEN Then(r.ev, ParseItem(item, r.p + 1, ctor, types)) ELSE r
ParseList(item, p, ctor, types) ==
    LET rounds == Count(p, {","})
        loop[n \in 0 .. rounds] == IF n = 0 THEN ParseItem(item, p, ctor, types)
                                  ELSE MoreOfList(loop[n - 1], item, ctor, types)
    IN  loop[rounds]

-----------------------------------------------------------------------------
(* Type nodes. *)

\* The "::" selector behind a template
Selector(sel) == IF sel.ok THEN sel ELSE NoNode(sel.p, TRUE)
TemplateNode(args, name, types) ==
    IF ~args.ok THEN NoNode(args.p, args.err)
    ELSE IF Token(args.p) # ">" THEN NoNode(args.p, TRUE)
    ELSE IF Token(args.p + 1) = "::" THEN Selector(types[<<args.p + 2, "", TRUE>>])
    ELSE Node(args.p + 1, "template", name, Visit("template", name, args.ev))

\* A function type or function pointer that returns node r
FunctionNode(args, kind, name, r) ==
    IF ~args.ok THEN NoNode(args.p, args.err)
    ELSE IF Token(args.p) # ")" THEN NoNode(args.p, TRUE)
    ELSE Node(args.p + 1, kind, name, Visit(kind, name, r.ev \o args.ev))
\* Its arguments are in the second parentheses, if the first hold its name
ParseFunctionNode(p, r, types) ==
    LET star  == Match(p, "*")
        named == IsIdentifier(star)
        close == Match(star + 1, ")")
        open  == IF ~named THEN star
                 ELSE IF close > star + 1 THEN Match(close, "(") ELSE close
    IN  FunctionNode(IF Token(open) = ")" THEN Done(open, <<>>)
                        ELSE ParseList("parameter", open, "", types),
                     IF star > p THEN "functionPointer" ELSE "function",
                     IF named THEN Token(star) ELSE "",
                     r)

WithArguments(r, types) == IF Token(r.p) = "(" THEN ParseFunctionNode(r.p + 1, r, types) ELSE r
WithIndirections(r, types) == IF r.ok THEN WithArguments(Indirections(r), types) ELSE r

\* Behind the name d of a type, up to position c
Declared(d, c, ctor, types) ==
    IF ~d.ok THEN d
    ELSE IF Token(c) = "<"
         THEN WithIndirections(
                 TemplateNode(ParseList("templateType", c + 1, ctor, types), d.name, types), types)
    ELSE IF d.kind \in {"variadic", "constructor", "destructor"} THEN [d EXCEPT !.p = c]
    ELSE WithIndirections([d EXCEPT !.p = c], types)
Qualified(d, const, ctor, types) ==
    Declared(d, IF const THEN d.p ELSE Match(d.p, "const"), ctor, types)

ParseTypeNode(p, ctor, checkSpecifier, types) ==
    LET q == MatchEach(p, {"const", "volatile", "mutable"})
        a == ParseArithmetic(q)
    IN  Qualified(IF a > q THEN Literal(a, Joined(q, a), ctor, FALSE)
                  ELSE ParseTypeNodeDeclarator(q, ctor, checkSpecifier),
                  Given(p, q, "const"), ctor, types)

\* The recursion of ParseTypeNode, which hands on the name of the constructor or none: the
\* types in a type, behind its "<" or "(", are one level down
Types(ctor) ==
    LET levels == Count(1, {"<", "("}) + 1
        level[n \in 0 .. levels] ==
            [a \in (1 .. Len(input) + 1) \X {ctor, ""} \X BOOLEAN |->
                IF n = 0 THEN NoNode(a[1], FALSE) ELSE ParseTypeNode(a[1], a[2], a[3], level[n - 1])]
    IN  level[levels]

\* The calls of a node are made only when it is visited
ParseType(p, ctor, visit, inTemplate) ==
    [Types(ctor)[<<p, ctor, ~inTemplate>>] EXCEPT !.ev = IF visit THEN @ ELSE <<>>]
ParseItems(item, p) == ParseList(item, p, "", Types(""))

-----------------------------------------------------------------------------
(* Declarations. *)

\* Wrong: a structure writes it, a class does not
CurrentAccessOfStruct(scope) == IF scope.type = "struct" THEN <<Access(scope.access)>> ELSE <<>>
\* WriteCurrentAccessControlType: only a class writes it, a struct or union does not
CurrentAccess(scope) == IF scope.type = "class" THEN <<Access(scope.access)>> ELSE <<>>

\* The part of ParseProperty behind the name, begun by the call begin
ParseSubscript(p, ended) ==
    IF Token(p) # "[" THEN Done(SkipPastSemicolon(p), ended)
    ELSE IF ~IsConst(p + 1) /\ ~IsIdentifier(p + 1) THEN Fail(p + 1, <<>>)
    ELSE Then(<<Call("arraySubscript", Token(p + 1), "")>>,
              IF Token(p + 2) = "]" THEN Done(SkipPastSemicolon(p + 3), ended)
                                    ELSE Fail(p + 2, <<>>))

\* What is read through a view of a name that is gone: the memory still holds the name, or
\* by now another of the same length
Reads(name, gone) == IF Len(gone) = Len(name) THEN gone ELSE name

\* Behind the type t.  A function type brings the name with it, but ParseType returns a view
\* of the name in the node, and the node is gone.
PropertyOf(t, begin, end, gone) ==
    LET out  == t.kind \in {"function", "functionPointer"} /\ t.name # ""
        name == IF out THEN Reads(t.name, gone) ELSE Token(t.p)
    IN  IF ~t.ok THEN t
        ELSE IF ~out /\ ~IsIdentifier(t.p) THEN Fail(t.p, t.ev)
        ELSE Then(t.ev \o <<Call(begin, name, "")>>,
                  ParseSubscript(IF out THEN t.p ELSE t.p + 1, <<Call(end, name, "")>>))
ParseProperty(p, scope, isTypedef, skipType, gone) ==
    LET q == MatchEach(p, {"mutable", "static"})
    IN  Then(CurrentAccess(scope),
             PropertyOf(IF skipType THEN Node(q, "none", "", <<>>)
                                    ELSE ParseType(q, "", isTypedef, FALSE),
                        IF isTypedef THEN "beginTypedef" ELSE "beginProperty",
                        IF isTypedef THEN "endTypedef" ELSE "endProperty", gone))

\* Behind the last type t of a using
UsingOf(t, kind) == IfOk(t, Done(SkipPastSemicolon(t.p), <<Call("using_", "", kind)>>))
\* Wrong: a using without an alias fails and reports no error
ParseAliasOnly(t) ==
    IF t.ok /\ Token(t.p) # "=" THEN Fail(t.p, t.ev)
    ELSE IfOk(t, UsingOf(ParseType(t.p + 1, "", TRUE, FALSE), "="))
\* Behind the first type t of a using
ParseAlias(t) ==
    IF t.ok /\ Token(t.p) = "="
    THEN Then(t.ev, UsingOf(ParseType(t.p + 1, "", TRUE, FALSE), "="))
    ELSE UsingOf(t, "")
ParseUsing(p, scope) == Then(CurrentAccess(scope), ParseAlias(ParseType(p, "", TRUE, FALSE)))

FriendOf(t) ==
    IF t.ok THEN Done(SkipPastSemicolon(t.p), t.ev \o <<Call("friend_", "", "")>>)
            ELSE FailError(t.p, <<>>)
\* Wrong: the type is read and not visited
ParseFriendUnvisited(p) == FriendOf(ParseType(p, "", FALSE, FALSE))
ParseFriend(p) == FriendOf(ParseType(p, "", TRUE, FALSE))

TemplateOf(args) == IfOk(args, RequireSymbol(args.p, ">", <<Call("endTemplate", "", "")>>))
ParseTemplate(p) ==
    IF Token(p) # "<" THEN FailError(p, <<>>)
    ELSE Then(<<Call("beginTemplate", "", "")>>,
              TemplateOf(IF Token(p + 1) = ">" THEN Done(p + 1, <<>>)
                         ELSE ParseItems("templateParameter", p + 1)))

\* What must follow the values r of an enumeration
EnumEnd(r, ended) ==
    IF Token(r.p) = "}" THEN Then(r.ev, Done(Match(r.p + 1, ";"), ended)) ELSE FailError(r.p, r.ev)

\* unnamed is what is read through the view of a generated name, a string that is gone
ParseEnum(p, scope, unnamed) ==
    LET c == Match(p + 1, "class")
        n == IF IsIdentifier(c) THEN c + 1 ELSE c
        name == IF n > c THEN Token(c) ELSE unnamed
        colon == c > p + 1 /\ Token(n) = ":"
        b == IF colon THEN n + 2 ELSE n
        values == EnumEnd(ParseItems("enumerator", Match(b, "{")), <<Call("endEnum", name, "")>>)
    IN  Then(CurrentAccess(scope),
             IF colon /\ ~IsIdentifier(n + 1) THEN FailError(n + 1, <<>>)
             \* a missing "{" is an error that does not stop the routine
             ELSE Then(<<Call("beginEnum", name, "")>>,
                       [values EXCEPT !.err = @ \/ Token(b) # "{"]))

\* PeekConstructor: is this the constructor or the destructor of the scope?
PeekConstructor(p, scope) ==
    LET q == Match(p, "~")
    IN  Token(q) = scope.name /\ Token(q + 1) = "("

\* What follows the argument list: the qualifiers, "= 0" and its like, the body
ParseFunctionEnd(p, name) ==
    LET q == Match(Match(Match(p, "const"), "override"), "noexcept")
        e == Token(q) = "=" /\ Token(q + 1) # EndOfFile
    IN  IF e /\ Token(q + 1) \notin {"0", "default", "delete"} THEN FailError(q + 2, <<>>)
        ELSE Done(SkipDeclaration(IF e THEN q + 2 ELSE Match(q, "=")),
                  <<Call("endFunction", name, "")>>)

ParseArguments(args, name) == IfOk(args, ParseFunctionEnd(Match(args.p, ")"), name))

\* From the name at n on, for the function or, if there is no "(", the property at p
ParseNamed(p, n, tilde, scope, gone) ==
    LET op   == ~tilde /\ Token(n) = "operator"
        \* operator: one symbol more, or "(" and ")"
        open == IF ~op THEN n + 1 ELSE IF Token(n + 1) = "(" THEN n + 3 ELSE n + 2
        name ==    (IF tilde THEN "~" ELSE "") \o Token(n)
                \o (IF op THEN Token(n + 1) ELSE "") \o (IF open = n + 3 THEN ")" ELSE "")
    IN  IF ~IsIdentifier(n) THEN FailError(n, <<>>)
        ELSE IF op /\ Token(n + 1) = EndOfFile THEN Fail(n + 1, <<>>)
        ELSE IF op /\ Token(n + 1) \notin Symbols THEN Fail(n + 2, <<>>)
        ELSE IF open = n + 3 /\ Token(n + 2) = EndOfFile THEN Fail(n + 2, <<>>)
        ELSE IF open = n + 3 /\ Token(n + 2) \notin Spelled(")") THEN FailError(n + 3, <<>>)
        ELSE IF Token(open) # "(" THEN ParseProperty(p, scope, FALSE, FALSE, gone)
        ELSE Then(<<Call("beginFunction", name, "")>>,
                  ParseArguments(IF Token(open + 1) = ")" THEN Done(open + 1, <<>>)
                                 ELSE ParseItems("argument", open + 1), name))
\* Behind the type t
FunctionOf(t, p, scope, gone) ==
    LET tilde == t.kind = "destructor"
    IN  IfOk(t, ParseNamed(p, IF tilde THEN Match(t.p, "~") ELSE t.p, tilde, scope, gone))

ParseFunction(p, scope, gone) ==
    LET q == MatchEach(p, {"virtual", "inline", "constexpr", "explicit", "static"})
        special == /\ scope.type \in {"class", "struct", "union"}    \* CanHaveConstructor
                   /\ ~Given(p, q, "static")
                   /\ PeekConstructor(q, scope)
    IN  Then(CurrentAccess(scope),
             FunctionOf(ParseType(q, IF special THEN scope.name ELSE "", TRUE, FALSE), p, scope,
                        gone))
=============================================================================
