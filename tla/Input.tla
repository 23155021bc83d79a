------------------------------- MODULE Input -------------------------------
(***************************************************************************)
(* What a worker reads: the files main() was started with, one by one,     *)
(* each turned into tokens for its parser.  Of the parser there is here    *)
(* how it uses the tokenizer: it reads tokens, asks for tokens of a kind,  *)
(* puts back the last one or goes back to one it has kept, and hands "#"   *)
(* to ParseDirective.  In which order it does so is Grammar's part.        *)
(***************************************************************************)
EXTENDS Startup, Tokenizer

CONSTANT Symbols    \* the symbols the parser asks for

VARIABLES
    wanted,     \* the names of the files the program was asked to read
    unended,    \* the name on a last line of the list that has no end, <<>> if there is none
    disk,       \* what each file holds, by its name: its text, and what the text means
    file,       \* the file being parsed, or the last one; NoFile at first
    handled,    \* history: the names taken from the file queue, and whether each file was read
    reading,    \* Parse is running
    s,          \* see Tokenizer
    defined,    \* the macros ParseDirective added
    token,      \* the token read last; NoToken once it is put back
    kept,       \* the start of a token the parser may go back to, or 0
    inBlock,    \* the last call was a MatchSymbol("}") of the loop over a block's statements
    told,       \* the token that was read by the last call, and what ParseComment writes for it
    included    \* the names given to writer_.include

asked == <<vars, wanted, unended, disk>>
inputVars == <<asked, input_, file, handled, reading, s, defined, token, kept,
               inBlock, told, included>>

\* The meaning of a text: its words in order, with the positions they start at, where
\* a comment with a text stands in front of a word, the names it includes, and whether a
\* double quote opens a string that nothing closes
NoFile == [text |-> "", words |-> <<>>, comments |-> {}, includes |-> <<>>, unclosed |-> FALSE]
Untold == [at |-> 0, comment |-> 0]
AtStart == [pos |-> 1, comment |-> [text |-> 0, endLine |-> 1], last |-> [text |-> 0, endLine |-> 1],
            error |-> FALSE, hung |-> FALSE]

InputInit ==
    /\ Init
    /\ input_ = "" /\ file = NoFile /\ handled = <<>> /\ reading = FALSE
    /\ s = AtStart /\ defined = {} /\ token = NoToken /\ kept = 0
    /\ inBlock = FALSE /\ told = Untold /\ included = <<>>

Start == Next /\ UNCHANGED <<wanted, unended, disk, input_, file, handled, reading, s, defined, token, kept,
                             inBlock, told, included>>

\* The files main and its workers have open: a file that is read is opened for nobody else
\* and never closed, the list as well
Open == {GetArgumentSwitch("list", "")} \cup {h.name : h \in {h \in Range(handled) : h.read}}

\* A file that is not there or is open cannot be opened, and an empty one cannot be mapped
LoadFile(name) == name \in DOMAIN disk \ Open /\ disk[name].text # ""

\* The next file is taken from the queue
OpenFile ==
    /\ starting = "started" /\ exit = "" /\ ~reading
    /\ Len(handled) < Len(fileList)
    /\ LET name == fileList[Len(handled) + 1]
       IN  /\ handled' = Append(handled, [name |-> name, read |-> LoadFile(name)])
           /\ reading' = LoadFile(name)
           /\ file' = IF LoadFile(name) THEN disk[name] ELSE file
    /\ input_' = file'.text
    /\ IF reading'
       THEN s' = AtStart /\ defined' = {} /\ token' = NoToken /\ kept' = 0 /\ included' = <<>>
       ELSE UNCHANGED <<s, defined, token, kept, included>>
    /\ inBlock' = FALSE /\ told' = Untold
    /\ UNCHANGED asked

-----------------------------------------------------------------------------
(* The parser's calls. *)

\* A name AddMacro was given with "#define" is a view of a string that is gone: the memory
\* may hold any name of that length, and find looks at it or not.
MayBeFound ==
    {file.words[i].text : i \in {j \in DOMAIN file.words :
        \E name \in defined : Len(name) = Len(file.words[j].text)}}
Known(found) == Range(macroList) \cup found

Parsing == reading /\ ~s.hung /\ token.text # "#"
Unchanged == UNCHANGED <<asked, input_, file, handled, defined, included>>

\* A token was read; the parser may want to come back to it
Take(r) ==
    /\ s' = r.s /\ inBlock' = FALSE
    /\ IF r.ok THEN token' = r.token /\ kept' \in {kept, r.token.from}
               ELSE UNCHANGED <<token, kept>>

\* GetToken of ParseStatement, ParseDeclaration and the loops.  If it fails the parser ends.
Read ==
    /\ Parsing
    /\ \E found \in SUBSET MayBeFound :
          LET r == GetToken(s, Known(found), FALSE, FALSE)
          IN  /\ Take(r)
              /\ reading' = (r.ok \/ r.s.hung)
              /\ told' = IF inBlock /\ r.ok
                         THEN [at |-> r.token.from, comment |-> ParseComment(r.s)] ELSE Untold
    /\ Unchanged

\* GetIdentifier, GetConst
Ask ==
    /\ Parsing
    /\ \E found \in SUBSET MayBeFound :
          \/ Take(GetIdentifier(s, Known(found)))
          \/ Take(GetConst(s, Known(found)))
    /\ told' = Untold
    /\ UNCHANGED reading /\ Unchanged

\* MatchSymbol.  The loops of ParseNamespace and ParseClass come to it with nothing put back.
Match ==
    /\ Parsing
    /\ \E found \in SUBSET MayBeFound, symbol \in Symbols :
          LET r == MatchSymbol(s, symbol, Known(found))
          IN  /\ s' = r.s
              /\ token' = IF r.ok THEN r.token ELSE token
              /\ inBlock' = (symbol = "}" /\ ~r.ok /\ (token # NoToken \/ kept = 0))
    /\ told' = Untold
    /\ UNCHANGED <<reading, kept>> /\ Unchanged

\* UngetToken
PutBack ==
    /\ Parsing
    /\ kept' \in {kept, token.from} \ {0}
    /\ s' = UngetToken(s, [from |-> kept'])
    /\ token' = NoToken /\ inBlock' = FALSE /\ told' = Untold
    /\ UNCHANGED reading /\ Unchanged

\* What was in front of the directive is not read again
Preprocess ==
    /\ reading /\ ~s.hung /\ token.text = "#"
    /\ LET d == ParseDirective(s)
       IN  /\ s' = d.s
           /\ reading' = d.ok
           /\ defined' = defined \cup ({d.defined} \ {""})
           /\ included' = IF d.included = "" THEN included ELSE Append(included, d.included)
    /\ token' = NoToken /\ kept' = 0 /\ inBlock' = FALSE /\ told' = Untold
    /\ UNCHANGED <<asked, input_, file, handled>>

\* No file is left, or the program has ended, or hangs
Done ==
    /\ exit # "" \/ s.hung \/ (starting = "started" /\ ~reading /\ Len(handled) = Len(fileList))
    /\ UNCHANGED inputVars

InputNext == Start \/ OpenFile \/ Read \/ Ask \/ Match \/ PutBack \/ Preprocess \/ Done

-----------------------------------------------------------------------------

WordsRead == Cardinality({i \in DOMAIN file.words : file.words[i].at < s.pos})

\* The first mentions, in order, of the names there is something to read of
FirstMentions(names) ==
    LET first == {i \in DOMAIN names : /\ names[i] \in DOMAIN disk /\ disk[names[i]].text # ""
                                      /\ \A j \in 1 .. i - 1 : names[j] # names[i]}
    IN  [n \in 1 .. Cardinality(first) |->
            names[CHOOSE i \in first : Cardinality({j \in first : j <= i}) = n]]
FilesRead ==
    LET read == SelectSeq(handled, LAMBDA h : h.read) IN [n \in DOMAIN read |-> read[n].name]

\* When no name is left, every file that was asked for and has anything in it has been read,
\* in the order of the names, also behind files that could not be; each once, although it
\* may be named again; and no other file, not one named in a comment of the list (main.cc,
\* LoadFile).  Of a last line without an end it is not said whether it is asked for: main
\* drops it.
ListedFiles ==
    exit = "" /\ starting = "started" /\ ~reading /\ Len(handled) = Len(fileList) =>
        FilesRead \in {FirstMentions(wanted), FirstMentions(wanted \o unended)}

\* However the parser reads, asks, matches and goes back, it gets the words of the file in
\* their order, each once, whole, and with nothing of comments, macros and directives
\* between them (GetToken, UngetToken).
tokens == INSTANCE TokenStream WITH
    stream <- [i \in DOMAIN file.words |-> <<file.words[i].text, file.words[i].defined>>],
    read <- WordsRead, taken <- token.text
ImplementsTokenStream == tokens!Spec

\* An annotation whose arguments are names, or that has none, is accepted wherever it stands:
\* ParseMacro never has an error.  One with a value is not (README.md:37).
AnnotationsAccepted == ~s.error

\* A routine loops for ever only where a double quote opens a string that nothing closes:
\* the loops of GetToken and ParseDirective end over escapes, comments, and definitions of
\* several lines.  In a file that compiles such a quote is a character literal, which
\* GetToken does not know (tokenizer.cc:405).
HangsOnlyUnclosed == s.hung => file.unclosed

\* When the file has been read, writer_.include has been called for each file it includes,
\* once and in their order, whichever delimiters the name has (ParseDirective).
IncludesTold ==
    ~reading /\ ~s.error => included = file.includes

\* In a block, the declaration behind a comment is told that comment, however many lines the
\* comment has and although the look for the "}" has read it before (GetLeadingChar,
\* ParseComment).
CommentInFront ==
    \A c \in file.comments : told.at = c.before => told.comment = c.at
=============================================================================
