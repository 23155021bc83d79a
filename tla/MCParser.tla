------------------------------ MODULE MCParser ------------------------------
(* Files put together from declarations and blocks around them. *)
EXTENDS Parser

\* Declarations the grammar covers, and those of them that are only for a class,
\* and only for class A
Plain == {
    <<"int", "x", ";">>,
    <<"static", "vector", "<", "int", ">", "y", "[", "1", "]", ";">>,
    <<"bool", "f", "(", "int", "a", ",", "char", "*", "b", "=", "k", "(", "1", ",", "1", ")", ")", ";">>,
    <<"void", "g", "(", ")", "{", "x", "=", "0", ";", "{", "}", "}", ";">>,
    <<"typedef", "unsigned", "long", "T", ";">>,
    <<"typedef", "void", "(", "*", "F", ")", "(", "int", ")", ";">>,
    <<"using", "U", "=", "char", ";">>, <<"using", "N", "::", "x", ";">>, <<"class", "B", ";">>,
    <<"struct", "{", "int", "i", ";", "}", "u", ";">>,
    <<"enum", "class", "E", ":", "int", "{", "V", "=", "1", ",", "X", "}", ";">>}
Members == {
    <<"public", ":">>, <<"private", ":", "virtual", "void", "h", "(", ")", "const", "=", "0", ";">>,
    <<"bool", "operator", "(", ")", "(", "int", "a", ")", ";">>, <<"friend", "class", "C", ";">>}
MembersOfA == {
    <<"A", "(", "int", "a", ")", ";">>, <<"~", "A", "(", ")", "=", "default", ";">>}

\* Declarations of C++ it does not cover, or only in part
CutShort == <<"typedef", "struct", "{", "int", "i", ";", "}", "R", ";">>
Unusual == {
    CutShort,
    <<"int", "z", "[", "1", "+", "1", "]", ";">>,
    <<"namespace", "{", "}">>,
    <<"void", "(", "*", "c", ")", "(", "int", ")", ";">>,
    <<"template", "<", "class", "P", ">", "using", "V", "=", "P", ";">>}
\* A string constant with the text of a symbol
Quoted == {
    <<"void", "d", "(", "int", "a", "=", "\",", ",", "int", "b", ")", "{", "\";", ";", "}">>,
    <<"char", "*", "s", "=", "\";", ";">>}

\* Files of their own: one that ends behind a "=" or in a structure, and an enumeration
\* without a name
Alone == {
    <<"enum", "E", "{", "V", "=">>, <<"bool", "f", "(", "int", "a", "=">>,
    <<"struct", "S", "{", "int", "x", ";">>, <<"enum", "{", "V", "}", ";">>}

\* What a freed name may be read as: the name of the typedef of a function pointer and that
\* of another typedef, and a name as long as that of the enumeration
Gone == {"F", "T", "unnamed-enum1"}

\* Its body is not skipped: the "}" closes the class
InlineFriend == {<<"friend", "void", "k", "(", ")", "{", "x", ";", "}">>}

ClassA     == <<"class", "A", "{">>
Structures == {<<"struct", "S", "{">>,
               <<"template", "<", "typename", "P", ",", "class", "=", "int", ">",
                 "struct", "W", ":", "public", "A", "{">>}

AtMostTwo(items) == {<<>>} \cup items \cup {a \o b : a, b \in items}

\* Up to two declarations or blocks of one declaration, in no block or in one.  All
\* of them are made from the declarations in the three sets.
FilesOf(plain, members, ofA) ==
    LET inA   == plain \cup members \cup ofA
        inS   == plain \cup members
        blocks(a, s, n) ==
            {ClassA \o b \o <<"}", ";">> : b \in a}
            \cup {o \o b \o <<"}", ";">> : o \in Structures, b \in s}
            \cup {<<"namespace", "N", "{">> \o b \o <<"}">> : b \in n}
        small == blocks(inA, inS, plain)
        large == blocks(AtMostTwo(inA \cup small), AtMostTwo(inS \cup small),
                        AtMostTwo(plain \cup small))
    IN  AtMostTwo(plain \cup small) \cup large

\* Without the declaration that ends the parse
PlainFiles  == FilesOf(Plain \cup (Unusual \ {CutShort}) \cup Quoted, Members, MembersOfA)
               \cup Alone
AnyFiles    == AtMostTwo(Plain \cup Unusual \cup Quoted)
FriendFiles == FilesOf({}, InlineFriend, {})

OnePlain  == <<PlainFiles>>
OneAny    == <<AnyFiles>>
OneFriend == <<FriendFiles>>
=============================================================================
