------------------------------ MODULE SerialRun ------------------------------
(***************************************************************************)
(* What main.cc promises its backend (src/parser_interface.h): however many*)
(* threads parse, the backend is called as if one thread parsed one file   *)
(* after the other.  Each listed file is parsed, from begin to end with    *)
(* nothing of another file in between, or reported as unreadable, once;    *)
(* destroy() comes last.                                                   *)
(***************************************************************************)
CONSTANTS Files, None

VARIABLES
  todo,      \* the files the backend has heard nothing of
  current,   \* the file between begin and end, or None
  destroyed  \* destroy() has been called

vars == <<todo, current, destroyed>>

Init ==
  /\ todo = Files
  /\ current = None
  /\ destroyed = FALSE

Begin(f) ==
  /\ f \in todo /\ current = None /\ ~destroyed
  /\ todo' = todo \ {f}
  /\ current' = f
  /\ UNCHANGED destroyed

End ==
  /\ current # None
  /\ current' = None
  /\ UNCHANGED <<todo, destroyed>>

Unreadable(f) ==
  /\ f \in todo /\ current = None /\ ~destroyed
  /\ todo' = todo \ {f}
  /\ UNCHANGED <<current, destroyed>>

Destroy ==
  /\ todo = {} /\ current = None /\ ~destroyed
  /\ destroyed' = TRUE
  /\ UNCHANGED <<todo, current>>

Next ==
  \/ \E f \in Files : Begin(f) \/ Unreadable(f)
  \/ End
  \/ Destroy

Spec == Init /\ [][Next]_vars

=============================================================================
