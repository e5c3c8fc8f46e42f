--------------------------- MODULE StateRegister ---------------------------
(***************************************************************************)
(* What a store of one document promises when saves take time and nobody   *)
(* locks: a save that was alone from its beginning to its end is atomic.   *)
(* It takes effect in one step or not at all, and every load returns it    *)
(* until the next save takes effect.  Saves that overlapped promise        *)
(* nothing.                                                                *)
(***************************************************************************)
CONSTANTS
    Procs,    \* who saves and loads
    Docs,     \* the documents
    Initial,  \* the document before the first save
    NoDoc,    \* no save under way
    Unknown   \* the value after saves that overlapped

VARIABLES
    value,  \* the document stored, or Unknown
    want,   \* the document each process is saving, or NoDoc
    alone,  \* no other save has been under way since this one began
    seen    \* what each process's last load returned

register == <<value, want, alone, seen>>

Init ==
    /\ value = Initial
    /\ want = [p \in Procs |-> NoDoc]
    /\ alone = [p \in Procs |-> FALSE]
    /\ seen = [p \in Procs |-> Initial]

Idle(p) == want[p] = NoDoc

Ask(p) ==
    /\ Idle(p)
    /\ \E d \in Docs : want' = [want EXCEPT ![p] = d]
    /\ alone' = [q \in Procs |-> q = p /\ \A r \in Procs \ {p} : Idle(r)]
    /\ UNCHANGED <<value, seen>>

Store(p) ==
    /\ ~Idle(p)
    /\ value' = IF alone[p] THEN want[p] ELSE Unknown
    /\ want' = [want EXCEPT ![p] = NoDoc]
    /\ UNCHANGED <<alone, seen>>

(* It raises, or its process dies, and nothing is stored. *)
Fail(p) ==
    /\ ~Idle(p)
    /\ want' = [want EXCEPT ![p] = NoDoc]
    /\ UNCHANGED <<value, alone, seen>>

Load(p) ==
    /\ Idle(p)
    /\ \E d \in (IF value = Unknown THEN Docs ELSE {value}) :
           seen' = [seen EXCEPT ![p] = d]
    /\ UNCHANGED <<value, want, alone>>

Next == \E p \in Procs : Ask(p) \/ Store(p) \/ Fail(p) \/ Load(p)

Spec == Init /\ [][Next]_register
=============================================================================
