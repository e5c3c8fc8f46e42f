----------------------------- MODULE StateFile -----------------------------
(***************************************************************************)
(* app/agent/strategy.py: load_state and save_state, on the file system    *)
(* they run on.                                                            *)
(*                                                                         *)
(* save_state writes the whole document to a .tmp file and renames it over *)
(* the state file.  The name of the .tmp file is the same for everybody,   *)
(* and most operations save without a lock (pause, emergency_stop, resume, *)
(* reset, activate, update_grid, each in a thread of the REST service or   *)
(* in a process of its own), so that two saves may meet in one file: an    *)
(* inode that both have open, or that one renames while the other writes.  *)
(***************************************************************************)
EXTENDS Integers

CONSTANTS
    Procs,   \* the threads of control, in whatever process
    Docs,    \* the states that are saved, as JSON documents
    Empty,   \* the document of _EMPTY
    Size,    \* Size[d]: the length of d's text
    Inodes,  \* the files the file system can hold
    NoFile,  \* no such name
    NoDoc,   \* no save under way
    Unknown  \* the value after saves that overlapped

ASSUME EmptyIsADoc == Empty \in Docs
ASSUME SizesArePositive == Size \in [Docs -> Nat \ {0}]
ASSUME NoneOfTheseExist == NoFile \notin Inodes /\ NoDoc \notin Docs /\ Unknown \notin Docs

VARIABLES
    file,   \* the inode that .grid_state.<network>.json names, or NoFile
    tmp,    \* the inode that the .tmp name names, or NoFile
    data,   \* what each inode holds
    fd,     \* the inode each process has open for writing, or NoFile
    want,   \* the document each process is saving, or NoDoc
    seen,   \* what each process's last load returned
    (* history variables: read by no guard of the program *)
    alone,  \* no other save has been under way since this one began
    saved,  \* the document of the last save that took effect
    clean   \* that save was alone

vars == <<file, tmp, data, fd, want, seen, alone, saved, clean>>

-----------------------------------------------------------------------------
(* What an inode holds: the text of `doc` from the start; `size` is the    *)
(* length of all it holds, and `whole` that this is the one text and       *)
(* nothing else.                                                           *)
Content == [doc : Docs, size : Nat, whole : BOOLEAN]

Blank == [doc |-> Empty, size |-> 0, whole |-> FALSE]

(* One write from the start of the file: what was longer keeps its tail.   *)
WriteOver(c, d) ==
    [doc |-> d, size |-> IF c.size > Size[d] THEN c.size ELSE Size[d],
     whole |-> c.size <= Size[d]]

(* A write that stops after n bytes. *)
WriteSome(c, d, n) ==
    [doc |-> d, size |-> IF c.size > n THEN c.size ELSE n, whole |-> FALSE]

(* load_state: no file is an empty state, and so is one that is no JSON.   *)
Parsed(inode) ==
    IF inode # NoFile /\ data[inode].whole THEN data[inode].doc ELSE Empty

Idle(p)   == want[p] = NoDoc
InUse(i)  == i \in {file, tmp} \/ \E p \in Procs : fd[p] = i

(* A file that neither a name nor a process refers to any more is gone.    *)
Kept(d) == [i \in Inodes |-> IF InUse(i)' THEN d[i] ELSE Blank]

Init ==
    /\ file = NoFile
    /\ tmp = NoFile
    /\ data = [i \in Inodes |-> Blank]
    /\ fd = [p \in Procs |-> NoFile]
    /\ want = [p \in Procs |-> NoDoc]
    /\ seen = [p \in Procs |-> Empty]
    /\ alone = [p \in Procs |-> FALSE]
    /\ saved = Empty
    /\ clean = TRUE

-----------------------------------------------------------------------------
(* The save is over, by return, by exception or by the death of p. *)
Ends(p) ==
    /\ fd' = [fd EXCEPT ![p] = NoFile]
    /\ want' = [want EXCEPT ![p] = NoDoc]

Loads(p) ==
    /\ Idle(p)
    /\ seen' = [seen EXCEPT ![p] = Parsed(file)]
    /\ UNCHANGED <<file, tmp, data, fd, want, alone, saved, clean>>

(* Faulty variants: the .tmp file is opened without cutting it off; the    *)
(* state file itself is opened.                                            *)
OpenUncut(p) ==
    \E i \in Inodes :
        /\ i = tmp \/ (tmp = NoFile /\ ~InUse(i))
        /\ tmp' = i
        /\ fd' = [fd EXCEPT ![p] = i]
        /\ data' = [data EXCEPT ![i] = IF i = tmp THEN @ ELSE Blank]
OpenInPlace(p) ==
    \E i \in Inodes :
        /\ i = file \/ (file = NoFile /\ i = tmp) \/ ({file, tmp} = {NoFile} /\ ~InUse(i))
        /\ tmp' = IF i = file THEN tmp ELSE i
        /\ fd' = [fd EXCEPT ![p] = i]
        /\ data' = [data EXCEPT ![i] = Blank]

(* open(tmp, "w"): the file of that name, or a new one, cut to nothing.    *)
Open(p) ==
    \E i \in Inodes :
        /\ i = tmp \/ (tmp = NoFile /\ ~InUse(i))
        /\ tmp' = i
        /\ fd' = [fd EXCEPT ![p] = i]
        /\ data' = [data EXCEPT ![i] = Blank]

(* A state to save: whatever an operation made of what it loaded. *)
SaveOpens(p) ==
    /\ Idle(p)
    /\ Open(p)
    /\ \E d \in Docs : want' = [want EXCEPT ![p] = d]
    /\ alone' = [q \in Procs |-> q = p /\ \A r \in Procs \ {p} : Idle(r)]
    /\ UNCHANGED <<file, seen, saved, clean>>

(* write_text: the text in one write, and the file is closed. *)
SaveWrites(p) ==
    /\ fd[p] # NoFile
    /\ fd' = [fd EXCEPT ![p] = NoFile]
    /\ UNCHANGED <<file, tmp, want, seen, alone, saved, clean>>
    /\ data' = Kept([data EXCEPT ![fd[p]] = WriteOver(@, want[p])])

(* Faulty variant: the new file is linked, its old name stays. *)
Linked == file' = tmp /\ tmp' = tmp

(* os.replace: the state file's name is moved to the new file. *)
Moved == file' = tmp /\ tmp' = NoFile

SaveRenames(p) ==
    /\ ~Idle(p) /\ fd[p] = NoFile
    /\ tmp # NoFile
    /\ Moved
    /\ Ends(p)
    /\ saved' = want[p]
    /\ clean' = alone[p]
    /\ data' = Kept(data)
    /\ UNCHANGED <<seen, alone>>

(* FileNotFoundError: another save has taken the .tmp file away. *)
SaveFindsNothing(p) ==
    /\ ~Idle(p) /\ fd[p] = NoFile
    /\ tmp = NoFile
    /\ Ends(p)
    /\ UNCHANGED <<file, tmp, data, seen, alone, saved, clean>>

(* The disk is full, or the process dies in the middle of the write, or    *)
(* before it, or before the rename.                                        *)
SaveBreaks(p) ==
    /\ ~Idle(p)
    /\ Ends(p)
    /\ UNCHANGED <<file, tmp, seen, alone, saved, clean>>
    /\ \/ data' = Kept(data)
       \/ /\ fd[p] # NoFile
          /\ \E n \in 1 .. Size[want[p]] - 1 :
                 data' = Kept([data EXCEPT ![fd[p]] = WriteSome(@, want[p], n)])

Next ==
    \E p \in Procs :
        \/ Loads(p) \/ SaveOpens(p) \/ SaveWrites(p)
        \/ SaveRenames(p) \/ SaveFindsNothing(p) \/ SaveBreaks(p)

Spec == Init /\ [][Next]_vars

-----------------------------------------------------------------------------
TypeOK ==
    /\ file \in Inodes \cup {NoFile} /\ tmp \in Inodes \cup {NoFile}
    /\ tmp # NoFile => tmp # file
    /\ data \in [Inodes -> Content]
    /\ fd \in [Procs -> Inodes \cup {NoFile}]
    /\ want \in [Procs -> Docs \cup {NoDoc}]
    /\ \A p \in Procs : fd[p] # NoFile => ~Idle(p)
    /\ seen \in [Procs -> Docs]
    /\ alone \in [Procs -> BOOLEAN]
    /\ saved \in Docs
    /\ clean \in BOOLEAN

(* save_state: "a torn state file loses the inventory ledger".  After a    *)
(* save that met no other the file is that document whole, whatever        *)
(* leftovers of dead processes the .tmp file held, and whoever begins to   *)
(* save meanwhile.                                                         *)
CleanFileIsLastSave ==
    clean => Parsed(file) = saved

(* save_state and load_state against the register: a save that meets no    *)
(* other is atomic, through crashes and full disks; what Strategy assumes  *)
(* of a load and a save holds as long as no two saves overlap.             *)
Promise == INSTANCE StateRegister WITH
               Initial <- Empty, value <- IF clean THEN saved ELSE Unknown
ImplementsRegister == Promise!Spec

-----------------------------------------------------------------------------
(* What the documentation says of save_state *)

(* save_state: "Write state atomically".  Whatever overlaps, the state     *)
(* file is never a torn one.                                               *)
FileIsNeverTorn ==
    file # NoFile => data[file].whole
=============================================================================
