------------------------------ MODULE MCTypeDb ------------------------------
(* The backend under calls in any order, the stray ones too. *)
EXTENDS TypeDbProofs

CONSTANTS MaxDepth, MaxTypes      \* bounds of the element and the type stacks

AnyCalls == {<<"begin", "f", "">>, <<"end", "f", "">>,
             <<"beginNamespace", "N", "">>, <<"endNamespace", "N", "">>,
             <<"beginTemplate", "", "">>, <<"endTemplate", "", "">>,
             <<"beginClass", "A", "class">>, <<"beginType", "", "literal">>,
             <<"typeName", "T", "">>, <<"endType", "", "">>, <<"friend_", "", "">>}

AllStrings == STRING

BoundedNext ==
    /\ Next
    /\ Len(m_nodeStack') <= MaxDepth
    /\ Len(m_typeStack') <= 1 /\ Len(m_doneTypes') <= MaxTypes
    /\ Len(m_doneTemplates') <= 1
BoundedSpec == Init /\ [][BoundedNext]_vars
=============================================================================
