---------------------------- MODULE DurableTable ----------------------------
(***************************************************************************)
(* What the persistence of the plugin promises about a table and its file, *)
(* whatever the interleaving of the goroutines and wherever the process    *)
(* stops: the file is only ever replaced as a whole, and only by a table   *)
(* that was the table in memory at some moment; a restart goes on with the *)
(* table of the file, or with an empty one when the file cannot be read.   *)
(***************************************************************************)
CONSTANTS Tables, Empty

VARIABLES memory, stored, past
vars == <<memory, stored, past>>

Init ==
    /\ memory = Empty
    /\ stored = Empty
    /\ past = {Empty}

Change ==
    /\ memory' \in Tables
    /\ past' = past \cup {memory'}
    /\ UNCHANGED stored

Store ==
    /\ stored' \in past
    /\ UNCHANGED <<memory, past>>

Recover ==
    /\ memory' \in {stored, Empty}
    /\ UNCHANGED <<stored, past>>

Next == Change \/ Store \/ Recover
Spec == Init /\ [][Next]_vars
=============================================================================
