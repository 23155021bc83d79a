------------------------------ MODULE Parser ------------------------------
(***************************************************************************)
(* The parser of a file, parser.cc, with the synchronizer it writes to.   *)
(* One action is one declaration, or the opening or closing of a block:    *)
(* the activations of ParseNamespace and ParseClass that wait for a "}"    *)
(* are the scopes above the first.  Every backend call is recorded in      *)
(* m_queue and the whole record is sent when the file ends.                *)
(***************************************************************************)
EXTENDS Grammar, SequencesExt, TLC

CONSTANTS
    Files,        \* for each file that is parsed, in order, the token sequences it may be
    GoneNames     \* what the memory of a name that is gone may hold

ASSUME GoneNamesAssumption == GoneNames # {}

VARIABLES
    parsing,          \* a call of Parse is running
    cursorPos_,
    scopes_,
    hasError_,
    m_unnamedCnt,
    m_queue,          \* ParserInterfaceSynchronizer::m_queue
    m_resultQueue,    \* the results sent and not yet taken
    parsed,           \* history: per file, what Parse returned and what it left unread
    statements        \* history: the statements of the file that have been run

parserVars == <<input, parsing, cursorPos_, scopes_, hasError_, m_unnamedCnt, m_queue, parsed,
               statements>>
vars == <<parserVars, m_resultQueue>>

ScopeTypes == {"global", "namespace", "class", "struct", "union"}
Scope(type, name, access) == [type |-> type, name |-> name, access |-> access]
Back == Last(scopes_)
Next1 == Token(cursorPos_)          \* the token that starts the statement

\* Every state the parser can be in is of this form.
TypeOK ==
    /\ parsing \in BOOLEAN /\ hasError_ \in BOOLEAN
    /\ cursorPos_ \in 1 .. Len(input) + 1 \/ cursorPos_ = Nowhere
    /\ m_unnamedCnt \in Nat /\ statements \in Nat
    /\ scopes_ # <<>>
    /\ \A i \in DOMAIN scopes_ : scopes_[i].type \in ScopeTypes
                              /\ scopes_[i].access \in AccessSpecifiers
                              /\ (scopes_[i].type = "global" <=> i = 1)
    /\ \A i \in DOMAIN m_queue : DOMAIN m_queue[i] = 1 .. 3

Init ==
    /\ input = <<>> /\ parsing = FALSE /\ cursorPos_ = 1
    /\ scopes_ = <<Scope("global", "", "public")>>
    /\ hasError_ = FALSE /\ m_unnamedCnt = 0
    /\ m_queue = <<>> /\ m_resultQueue = <<>> /\ parsed = <<>> /\ statements = 0

-----------------------------------------------------------------------------
(* Parse, and begin and end of the synchronizer. *)

Source == ToString(Len(parsed) + 1)

\* Each file has a Parser and a synchronizer of its own
Begin ==
    /\ ~parsing /\ Len(parsed) < Len(Files)
    /\ \E f \in Files[Len(parsed) + 1] : input' = f
    /\ parsing' = TRUE /\ cursorPos_' = 1
    /\ scopes_' = <<Scope("global", "", "public")>>
    /\ hasError_' = FALSE /\ m_unnamedCnt' = 0 /\ statements' = 0
    /\ m_queue' = <<Call("begin", Source, "")>>
    /\ UNCHANGED <<m_resultQueue, parsed>>

\* The last statement returned false: write end, send the result
End(p, ev, err) ==
    /\ parsing' = FALSE /\ cursorPos_' = p /\ hasError_' = (hasError_ \/ err)
    /\ m_resultQueue' = Append(m_resultQueue, m_queue \o ev \o <<Call("end", Source, "")>>)
    /\ m_queue' = <<>> /\ statements' = statements + 1
    /\ parsed' = Append(parsed, [returned |-> ~(hasError_ \/ err), unread |-> p <= Len(input)])
    /\ UNCHANGED <<input, scopes_, m_unnamedCnt>>

\* enumValue or functionArgument copies a view of no memory, which ends the program: nothing
\* of the file is sent.  (A length that happens to be 0 would let it read on from anywhere;
\* that is left out.)
Crash == cursorPos_' = Nowhere /\ UNCHANGED <<input, parsing, scopes_, hasError_, m_unnamedCnt,
                                             m_queue, m_resultQueue, parsed, statements>>

\* A statement left r behind.  If it failed, the statements around it fail as well.
Leave(r, scopes, unnamed) ==
    \/ /\ r.ok
       /\ cursorPos_' = r.p /\ hasError_' = (hasError_ \/ r.err)
       /\ m_queue' = m_queue \o r.ev /\ statements' = statements + 1
       /\ scopes_' = scopes /\ m_unnamedCnt' = unnamed
       /\ UNCHANGED <<input, parsing, m_resultQueue, parsed>>
    \/ ~r.ok /\ r.p # Nowhere /\ End(r.p, r.ev, r.err)
    \/ ~r.ok /\ r.p = Nowhere /\ Crash

-----------------------------------------------------------------------------
(* ParseStatement and ParseDeclaration. *)

Reading == parsing /\ cursorPos_ # Nowhere      \* and Crash has not happened
\* A "}" ends the innermost block, if there is one
AtClose == Len(scopes_) > 1 /\ Next1 = "}"
Statement(token) == Reading /\ ~AtClose /\ Next1 = token

Unnamed(type) == "unnamed-" \o type \o ToString(m_unnamedCnt)    \* GenerateUnnamedIdentifier

EndOfInput == Statement(EndOfFile) /\ End(cursorPos_, <<>>, FALSE)

\* Wrong: the ";" is put back
EmptyStatementPutBack ==
    /\ Next1 \in {";", "\";"} /\ Statement(Next1)
    /\ Leave(Done(cursorPos_, <<>>), scopes_, m_unnamedCnt)
\* A string constant with the text ";" is one as well
EmptyStatement ==
    /\ Next1 \in {";", "\";"} /\ Statement(Next1)
    /\ Leave(Done(cursorPos_ + 1, <<>>), scopes_, m_unnamedCnt)
Typedef ==
    /\ Statement("typedef")
    /\ \E gone \in GoneNames :
          Leave(ParseProperty(cursorPos_ + 1, Back, TRUE, FALSE, gone), scopes_, m_unnamedCnt)
Using ==
    Statement("using") /\ Leave(ParseUsing(cursorPos_ + 1, Back), scopes_, m_unnamedCnt)
Friend ==
    Statement("friend") /\ Leave(ParseFriend(cursorPos_ + 1), scopes_, m_unnamedCnt)
Template ==
    Statement("template") /\ Leave(ParseTemplate(cursorPos_ + 1), scopes_, m_unnamedCnt)
Enum ==
    /\ Statement("enum")
    /\ LET unnamed == ~IsIdentifier(Match(cursorPos_ + 1, "class"))
       IN  \E gone \in GoneNames :
              Leave(ParseEnum(cursorPos_, Back, Reads(Unnamed("enum"), gone)), scopes_,
                    m_unnamedCnt + IF unnamed THEN 1 ELSE 0)

Namespace ==
    /\ Statement("namespace")
    /\ LET name == Token(cursorPos_ + 1)
           open == RequireSymbol(cursorPos_ + 2, "{", <<Call("beginNamespace", name, "")>>)
       IN  Leave(IF IsIdentifier(cursorPos_ + 1) THEN open ELSE FailError(cursorPos_ + 1, <<>>),
                 Append(scopes_, Scope("namespace", name, "public")), m_unnamedCnt)

\* ParseAccessControl, the access specifiers of a class
AccessControl ==
    /\ Next1 \in AccessSpecifiers /\ Statement(Next1)
    /\ Leave(RequireSymbol(cursorPos_ + 1, ":", <<>>),
             [scopes_ EXCEPT ![Len(scopes_)].access = Next1], m_unnamedCnt)

\* ParseClass up to the "{" of its body, or a forward declaration
Class ==
    /\ Next1 \in {"class", "struct", "union"} /\ Statement(Next1)
    /\ LET unnamed == ~IsIdentifier(cursorPos_ + 1)
           name  == IF unnamed THEN Unnamed(Next1) ELSE Token(cursorPos_ + 1)
           n     == IF unnamed THEN cursorPos_ + 1 ELSE cursorPos_ + 2
           bases == IF Token(n) = ":" THEN ParseItems("base", n + 1) ELSE Done(n, <<>>)
           forward == Token(bases.p) = ";"
           body  == IF forward
                    THEN Done(SkipDeclaration(cursorPos_), <<Call("endClass", name, "forward")>>)
                    ELSE RequireSymbol(bases.p, "{", <<>>)
           access == IF Next1 = "class" THEN "private" ELSE "public"
       IN  Leave(Then(CurrentAccess(Back) \o <<Call("beginClass", name, Next1)>>,
                      IfOk(bases, body)),
                 IF forward THEN scopes_ ELSE Append(scopes_, Scope(Next1, name, access)),
                 m_unnamedCnt + IF unnamed THEN 1 ELSE 0)

IfFailedSkip(r) ==
    IF r.ok \/ r.p = Nowhere THEN r ELSE [r EXCEPT !.ok = TRUE, !.p = SkipDeclaration(r.p)]

\* Anything else is a function or a property, and if it is neither it is skipped
FunctionOrSkip ==
    /\ Reading /\ ~AtClose
    /\ Next1 \notin {EndOfFile, ";", "\";", "typedef", "using", "friend", "template", "enum",
                     "namespace", "class", "struct", "union"} \cup AccessSpecifiers
    /\ \E gone \in GoneNames :
          Leave(IfFailedSkip(ParseFunction(cursorPos_, Back, gone)), scopes_, m_unnamedCnt)

CloseNamespace ==
    /\ Reading /\ AtClose /\ Back.type = "namespace"
    /\ Leave(Done(cursorPos_ + 1, <<Call("endNamespace", Back.name, "")>>),
             Front(scopes_), m_unnamedCnt)

\* The rest of ParseClass: the "}", and then a ";" or a property of the class's type
CloseClass ==
    /\ Reading /\ AtClose /\ Back.type \in {"class", "struct", "union"}
    /\ LET p     == cursorPos_ + 1
           outer == scopes_[Len(scopes_) - 1]
           rest  == IF IsIdentifier(p)
                    THEN Then(Visit("literal", Back.name, <<>>),
                              ParseProperty(p, outer, FALSE, TRUE, Back.name))
                    ELSE RequireSymbol(p, ";", <<>>)
       IN  Leave(Then(<<Call("endClass", Back.name, "defined")>>, rest),
                 Front(scopes_), m_unnamedCnt)

ParseStatement ==
    \/ EndOfInput \/ EmptyStatement \/ Typedef \/ Using \/ Friend \/ Template
    \/ Enum \/ Namespace \/ AccessControl \/ Class \/ FunctionOrSkip
    \/ CloseNamespace \/ CloseClass

Next == Begin \/ ParseStatement
Spec == Init /\ [][Next]_vars

-----------------------------------------------------------------------------

\* A statement that is not the last takes the cursor forward, the ones that put tokens
\* back with UngetToken and the ones that are skipped too: the loops of Parse and
\* ParseClass around ParseStatement (parser.cc:191, 598) have no other way to an end.
Advances ==
    [][parsing /\ parsing' /\ statements' # statements => cursorPos_' > cursorPos_]_vars

\* In a file whose braces match, the scope stack is the nesting of the braces read
\* so far: no declaration eats a brace of the block it stands in or leaves one of
\* its own behind for ParseNamespace or ParseClass to take as theirs.
ScopesFollowBraces == Reading => Len(scopes_) - 1 = Depth(1, cursorPos_ - 1, {"{"}, {"}"})

\* A file that Parse reports as parsed has been read to its end: ParseStatement
\* "Returns false if there are no more statements" (parser.h:37), and only then
\* or after an Error.
ReadToTheEnd == \A i \in DOMAIN parsed : parsed[i].returned => ~parsed[i].unread
=============================================================================
