---------------------------- MODULE AtomicRelease ----------------------------
(***************************************************************************)
(* What an update of the installed modules promises, without saying how:   *)
(* at every moment exactly one release is installed; users are served by   *)
(* no other; the installed release is replaced in one step, by a newer     *)
(* operation's and never back, while nobody is served; and what users      *)
(* wrote stays as it is, unless an operation restores a copy that was made *)
(* of it.  A copy is not always of less: after an older one was restored a *)
(* later one brings back what the first restoration gave up.               *)
(***************************************************************************)
EXTENDS Naturals

CONSTANTS Release, Write, Nobody

VARIABLES
    release,   \* the installed release, numbered by the operation that installed it
    served,    \* the release that serves users, or Nobody
    writes,    \* what users wrote and will find again
    copies     \* what was kept of it, at some time, to be restored

vars == <<release, served, writes, copies>>

Init ==
    /\ release = 0 /\ served \in {0, Nobody}
    /\ writes = {} /\ copies = {}

Serve ==
    /\ served' \in {release, Nobody}
    /\ UNCHANGED <<release, writes, copies>>

Accept(w) ==
    /\ served # Nobody
    /\ writes' = writes \union {w}
    /\ UNCHANGED <<release, served, copies>>

Copy ==
    /\ copies' = copies \union {writes}
    /\ UNCHANGED <<release, served, writes>>

\* An acknowledged restoration replaces the data too, by a copy.
Replace ==
    /\ served = Nobody
    /\ release' \in {r \in Release : r > release}
    /\ writes' \in {writes} \union copies
    /\ UNCHANGED <<served, copies>>

Next ==
    \/ Serve
    \/ \E w \in Write : Accept(w)
    \/ Copy
    \/ Replace

Spec == Init /\ [][Next]_vars
=============================================================================
