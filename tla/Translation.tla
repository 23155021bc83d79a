---------------------------- MODULE Translation ----------------------------
(***************************************************************************)
(* From tokens to the document: the parser and its synchronizer, the loop  *)
(* of main.cc that runs the results, and the type database backend, behind *)
(* the debug backend if the switch "debug" is given.  The parsers of       *)
(* different files share nothing but the queue of results, so a file is    *)
(* parsed only after the result of the one before was run; the order of    *)
(* the files is the order of their results.                                *)
(***************************************************************************)
EXTENDS Parser, Backends

allVars == <<vars, backendVars>>

TranslationInit == Init /\ BackendsInit

Parse ==
    /\ m_resultQueue = <<>> /\ result = <<>> /\ ~aborted
    /\ Next
    /\ UNCHANGED backendVars

\* sharedQueue.try_pop(result)
TakeResult ==
    /\ result = <<>> /\ m_resultQueue # <<>>
    /\ result' = Head(m_resultQueue) /\ m_resultQueue' = Tail(m_resultQueue)
    /\ UNCHANGED <<parserVars, dbVars, debug, printerVars>>

Run == RunCall /\ UNCHANGED vars

TranslationNext == Parse \/ TakeResult \/ Run
TranslationSpec == TranslationInit /\ [][TranslationNext]_allVars

-----------------------------------------------------------------------------

\* The calls of every result the parser sends match, whatever declarations of the file it
\* has abandoned half-way: what they close they have opened, and what they take they have
\* written.  This is all the theorems about the backends assume.
ResultsMatch ==
    \A i \in DOMAIN m_resultQueue :
        /\ m_resultQueue[i] \in Seq(Strings \X Strings \X Strings)
        /\ Matched(m_resultQueue[i])
=============================================================================
