------------------------ MODULE ExclusiveMaintenance ------------------------
(***************************************************************************)
(* What the gate, the coordinator and the queues promise together, without *)
(* saying how: writers come and go while nobody maintains the program; an  *)
(* operation first takes the building, then waits until it is empty, and   *)
(* only then works; nobody enters before it leaves.                        *)
(***************************************************************************)

CONSTANTS Writer, Operation, NoOperation

VARIABLES holder, writers, working

vars == <<holder, writers, working>>

TypeOK ==
    /\ holder \in Operation \union {NoOperation}
    /\ writers \subseteq Writer
    /\ working \in BOOLEAN

Init ==
    /\ holder = NoOperation
    /\ writers = {}
    /\ working = FALSE

Enter(w) ==
    /\ holder = NoOperation
    /\ w \notin writers
    /\ writers' = writers \union {w}
    /\ UNCHANGED <<holder, working>>

Leave(w) ==
    /\ w \in writers
    /\ writers' = writers \ {w}
    /\ UNCHANGED <<holder, working>>

Close(o) ==
    /\ holder = NoOperation
    /\ holder' = o
    /\ UNCHANGED <<writers, working>>

Work ==
    /\ holder # NoOperation
    /\ writers = {}
    /\ ~ working
    /\ working' = TRUE
    /\ UNCHANGED <<holder, writers>>

Open ==
    /\ holder # NoOperation
    /\ writers = {}
    /\ holder' = NoOperation
    /\ working' = FALSE
    /\ UNCHANGED writers

\* The process dies and a new one starts: its writers are gone, and it comes
\* up closed when the operation it was stopped for is not over yet.
Restart ==
    /\ writers' = {}
    /\ working' = FALSE
    /\ holder' \in Operation \union {NoOperation}

Next ==
    \/ \E w \in Writer : Enter(w) \/ Leave(w)
    \/ \E o \in Operation : Close(o)
    \/ Work
    \/ Open
    \/ Restart

Spec == Init /\ [][Next]_vars
=============================================================================
