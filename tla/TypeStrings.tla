---------------------------- MODULE TypeStrings ----------------------------
(***************************************************************************)
(* How a type is written in the document and by the debug backend:         *)
(* TypeData::ToString.  Specifiers, which come first, are left out.        *)
(***************************************************************************)
EXTENDS Sequences

RECURSIVE TypeString(_)

RECURSIVE CommaSeparated(_)
CommaSeparated(types) ==
    IF types = <<>> THEN ""
    ELSE IF Len(types) = 1 THEN TypeString(types[1])
    ELSE TypeString(types[1]) \o "," \o CommaSeparated(Tail(types))

\* children[0], which is read whether there is one or not
FirstChild(type) ==
    IF type.children = <<>> THEN "<undefined>" ELSE TypeString(type.children[1])

\* The type a function pointer points to: its own name is not written
Signature(type, pointer) ==
    FirstChild(type) \o "(" \o pointer
        \o (IF type.children = <<>> THEN "" ELSE CommaSeparated(Tail(type.children))) \o ")"

TypeString(type) ==
    CASE type.kind = "pointer"         -> FirstChild(type) \o "*" \o type.name
      [] type.kind = "reference"       -> FirstChild(type) \o "&" \o type.name
      [] type.kind = "lreference"      -> FirstChild(type) \o "&&" \o type.name
      [] type.kind = "literal"         -> IF type.children = <<>> THEN type.name
                                          ELSE FirstChild(type) \o "::" \o type.name
      [] type.kind \in {"variadic", "constructor"} -> type.name
      [] type.kind = "template"        -> type.name \o "<" \o CommaSeparated(type.children) \o ">"
      [] type.kind = "function"        -> Signature(type, "")
      [] type.kind = "functionPointer" -> Signature(type, "*)(")
      [] type.kind = "destructor"      -> "void"
      [] type.kind = "none"            -> ""
      [] OTHER                         -> "<unknown>"
=============================================================================
