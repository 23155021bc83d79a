---------------------------- MODULE TokenStream ----------------------------
(***************************************************************************)
(* What the tokenizer promises its parser (src/tokenizer.h): the file is a *)
(* sequence of tokens, read in order, each of them once.  "Returns a token *)
(* to the stream, effectively resetting the cursor to the start of the     *)
(* token": a token put back is read again.  Blanks, comments, directives   *)
(* and macros are not there, but whether a name the file defines itself is *)
(* a macro or an identifier is not promised.                               *)
(***************************************************************************)
EXTENDS Integers, Sequences

VARIABLES
    stream,     \* the tokens of the file, each <<text, whether its name is defined in the file>>
    read,       \* how many of them have been read
    taken       \* the text of the token read last, or "" if it has been put back

Text(i)    == stream[i][1]
Defined(i) == stream[i][2]

\* From the i-th token to the j-th there are only names the file defines
MayBePassed(i, j) == \A k \in i .. j : Defined(k)

Open == read' = 0 /\ taken' = ""

\* The next token is read, or two ">" as one
Take ==
    /\ UNCHANGED stream
    /\ \E i \in read + 1 .. Len(stream) :
          /\ MayBePassed(read + 1, i - 1)
          /\ \/ read' = i /\ taken' = Text(i)
             \/ /\ i < Len(stream) /\ Text(i) = ">" /\ Text(i + 1) = ">"
                /\ read' = i + 1 /\ taken' = ">>"

\* The token read last, or all of the declaration, is put back
PutBack == UNCHANGED stream /\ read' \in 0 .. read /\ taken' = ""

\* The next token is looked at, and is not the one that was asked for
Look ==
    /\ UNCHANGED <<stream, taken>>
    /\ read' \in read .. Len(stream) /\ MayBePassed(read + 1, read')

Init == stream = <<>> /\ read = 0 /\ taken = ""
Next == Open \/ Take \/ PutBack \/ Look
Spec == Init /\ [][Next]_<<stream, read, taken>>
=============================================================================
