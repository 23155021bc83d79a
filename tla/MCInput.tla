------------------------------ MODULE MCInput ------------------------------
(* Texts made of fragments, <<what it is, its characters>>, and the command lines that
   lead to them. *)
EXTENDS Input, TLC

W(word)    == <<"word", word>>
U(word)    == <<"used", word>>      \* a word of the use of a macro the file defines
Gap(chars) == <<"gap", chars>>
Note(c)    == <<"comment", c>>      \* a comment with a text, and blanks
Macro(m)   == <<"define", m>>       \* the name behind "#define"
Named(n)   == <<"include", n>>      \* the name behind "#include", with its delimiters
Unclosed(chars) == <<"unclosed", chars>>    \* a double quote without another behind it

-----------------------------------------------------------------------------
(* What fragments mean. *)

TextOf(f) == FoldLeft(LAMBDA text, x : text \o x[2], "", f)
Begins(f, i) == 1 + Len(TextOf(SubSeq(f, 1, i - 1)))
Unquoted(w) == IF SubSeq(w, 1, 1) = "\"" THEN SubSeq(w, 2, Len(w) - 1) ELSE w
Indices(f, kinds) == SelectSeq([i \in DOMAIN f |-> i], LAMBDA i : f[i][1] \in kinds)
FileOf(f) ==
    LET words == Indices(f, {"word", "used"})
        names == Indices(f, {"include"})
        macros == Range(Indices(f, {"define"}))
    IN  [text  |-> TextOf(f),
         words |-> [i \in DOMAIN words |->
                       [at |-> Begins(f, words[i]), text |-> Unquoted(f[words[i]][2]),
                        defined |-> \/ f[words[i]][1] = "used"
                                   \/ \E m \in macros : Len(f[m][2]) = Len(f[words[i]][2])]],
         comments |-> {[at |-> Begins(f, i) + 1, before |-> Begins(f, i + 1)] :
                          i \in {j \in Range(Indices(f, {"comment"})) :
                                    j < Len(f) /\ f[j + 1][1] = "word"}},
         includes |-> [i \in DOMAIN names |->
                          SubSeq(f[names[i]][2], 2, Len(f[names[i]][2]) - 1)],
         unclosed |-> Indices(f, {"unclosed"}) # <<>>]

-----------------------------------------------------------------------------
(* The texts. *)

\* Every two words with everything that may stand between them and behind them
SomeWords == {W("x_1"), W("true"), W(";"), W("::"), W("-1"), W("0x1F"), W("1.5f"), W("\"a\\\"b\""),
              W("..."), W(">"), W("}"), W("-")}
Blanks == {Gap(" "), Gap("\r\n\t"), Gap("/**/"), Gap("/* c */ "), Gap("//\n"),
           Note("/* c\r\n * d */ "), Note("// c\n"), Note("/// c\r\n  // d\n\t")}
Annotations == {Gap("\nM() "), Gap(" M(a, b)\n"), Gap(" N "), Gap("/* c\n */ N // c\n")}
Two == {<<v, g, w>> : v, w \in SomeWords, g \in Blanks \cup Annotations}
Surrounded == {<<g, W("x"), h>> : g \in Blanks \cup Annotations, h \in Blanks}

\* With nothing between the words
Tight == {<<W("std"), W("::"), W("y"), W(";")>>,
          <<W("v"), W("<"), W("w"), W("<"), W("x"), W(">"), W(">"), W("y"), W(";")>>,
          <<W("f"), W("("), W("-1"), W(","), W("..."), W(")"), W(";")>>,
          <<W("a"), W("["), W("2"), W("]"), W("="), W("{"), W("\"s\""), W(","), W("\"\""), W("}")>>,
          <<W("b"), W("<<"), W("c"), W(">="), W("d"), W("->"), W("e"), W("&&"), W("f")>>}

\* Character literals.  Their quotes are symbols to the tokenizer; a double quote in one
\* opens a string, up to that of the next.
Literals == {<<W("c"), W("="), W("'"), W("a"), W("'"), W(";")>>,
             <<W("c"), W("="), W("'"), W("\"';d='\""), W("'"), W(";")>>,
             <<W("c"), W("="), W("'"), Unclosed("\"';\ne();")>>}

\* Directives, and a macro that the file defines
Guarded(f) == <<W("#"), Gap("ifndef H_\n"), W("#"), Gap("define "), Macro("H_"), Gap("\n")>>
                \o f \o <<Gap("\n"), W("#"), Gap("endif // H_")>>
Class == <<Note("/* about\n * C\n */\n"), Gap("M(a)\n"), W("class"), Gap(" "), W("C"), Gap("\n"), W("{"),
           Gap("\n"), Note("// about x\n"), W("int"), Gap(" "), W("x"), W(";"), Gap("\n"), W("}"), W(";")>>
Includes == <<W("#"), Gap("include "), Named("<vector>"), Gap(" // \"c\"\n"),
              W("#"), Gap("include"), Named("\"a.h\""), Gap("\r\n"), W("#"), Gap("pragma once\n"), W(";")>>
Long == <<W("#"), Gap("define "), Macro("MXY"), Gap("(a) \\\n  a + \\\r\n 1\n"),
          W("y"), Gap(" "), W("="), Gap(" "), U("MXY"), U("("), U("z"), U(")"), W(";")>>
Whole == {Guarded(Class), Guarded(Includes), Long, Includes}

Texts == {FileOf(f \o <<Gap("\n")>>) : f \in Two \cup Surrounded \cup Tight \cup Literals \cup Whole}

-----------------------------------------------------------------------------
(* The command lines.  What a list says is, line by line, whether it is a comment, and
   its text. *)

Switches == <<"hp", "--macros=M,N", "--debug">>
ListedLines == {<<"", "\n">>, <<"a", "\n">>, <<"b", "\r\n">>, <<"c", "\n">>, <<"#a", "\n">>, <<"#", "\r\n">>}
ListText(lines) == FoldLeft(LAMBDA text, l : text \o l[1] \o l[2], "", lines)
ListNames(lines) ==
    SelectSeq([i \in DOMAIN lines |-> lines[i][1]], LAMBDA name : name \notin {"", "#", "#a"})
Started(arguments, list, files, names, last) ==
    [argv |-> arguments, list |-> list, disk |-> files, wanted |-> names, unended |-> last]

\* One file, named on the command line
Single == {Started(Switches \o <<"in", "out">>, "", "in" :> f, <<"in">>, <<>>) : f \in Texts}

\* The files of a list, which may name one twice; its last line may have no end
Short == FileOf(<<W(";"), Gap("\n")>>)
ListOf(lines, rest) ==
    Started(Switches \o <<"--list=l", "--generator=typedb">>, ListText(lines) \o rest,
            "a" :> Short @@ "#a" :> Short @@ "c" :> NoFile @@ "b" :> FileOf(<<Gap("\n")>>),
            ListNames(lines), IF rest = "" THEN <<>> ELSE <<rest>>)
Lists == {ListOf(lines, rest) : lines \in SeqOf(ListedLines, 3), rest \in {"", "a"}}

\* There is nothing to do
Others == {Started(<<"hp", "--generator=json", "in">>, "", "in" :> Short, <<>>, <<>>)}

Scenarios == Single \cup Lists \cup Others
Starting(scenarios) ==
    \E sc \in scenarios :
        /\ argv = sc.argv /\ fileListData = sc.list /\ disk = sc.disk
        /\ wanted = sc.wanted /\ unended = sc.unended
        /\ InputInit

AnyInit == Starting(Scenarios)
AnySpec == AnyInit /\ [][InputNext]_inputVars

\* The annotation of README.md:37
Annotated == <<Gap("TFUNC(Arg=3)\n"), W("bool"), Gap(" "), W("f"), W("("), W(")"), W(";"), Gap("\n")>>
AnnotatedSpec ==
    /\ Starting({Started(<<"hp", "--macros=TFUNC", "in">>, "", "in" :> FileOf(Annotated), <<"in">>, <<>>)})
    /\ [][InputNext]_inputVars
=============================================================================
