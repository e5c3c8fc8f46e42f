--------------------------- MODULE StateFileProofs --------------------------
(* Saves and loads of the state file, for any number of threads, any       *)
(* documents of any length, and crashes and full disks at any moment.      *)
EXTENDS StateFile, TLAPS

LEMMA BlankIsContent == Blank \in Content
  BY EmptyIsADoc DEF Blank, Content

LEMMA WritesAreContent ==
    ASSUME NEW c \in Content, NEW d \in Docs, NEW n \in Nat
    PROVE  WriteOver(c, d) \in Content /\ WriteSome(c, d, n) \in Content
<1>1. c.size \in Nat /\ Size[d] \in Nat
  BY SizesArePositive DEF Content
<1> QED  BY <1>1 DEF Content, WriteOver, WriteSome

(* A write into a file that was just cut to nothing leaves one whole text. *)
LEMMA FreshWriteIsWhole ==
    ASSUME NEW d \in Docs
    PROVE  WriteOver(Blank, d).whole /\ WriteOver(Blank, d).doc = d
<1>1. (Blank.size <= Size[d]) = TRUE
  BY SizesArePositive DEF Blank
<1> QED  BY <1>1, Zenon DEF WriteOver

LEMMA ParsedIsADoc == TypeOK => Parsed(file) \in Docs
  BY EmptyIsADoc DEF TypeOK, Parsed, Content

(* What is kept of the disk is of the disk, and a file in use is kept.     *)
LEMMA KeptIsData ==
    ASSUME NEW d \in [Inodes -> Content]
    PROVE  /\ Kept(d) \in [Inodes -> Content]
           /\ \A i \in Inodes : InUse(i)' => Kept(d)[i] = d[i]
  BY BlankIsContent DEF Kept

-----------------------------------------------------------------------------
(* The invariant: nobody writes into the file of a clean save, and a save  *)
(* that is alone has the .tmp file for itself.                             *)
FileIsLeftAlone ==
    clean => \A p \in Procs : fd[p] # NoFile => fd[p] # file

OwnsTmp(p) ==
    /\ \A q \in Procs \ {p} : Idle(q)
    /\ tmp # NoFile
    /\ fd[p] # NoFile => fd[p] = tmp /\ data[tmp] = Blank
    /\ fd[p] = NoFile => data[tmp].whole /\ data[tmp].doc = want[p]

AloneOwnsTmp == \A p \in Procs : alone[p] /\ ~Idle(p) => OwnsTmp(p)

FileInv == TypeOK /\ CleanFileIsLastSave /\ FileIsLeftAlone /\ AloneOwnsTmp

LEMMA InitFileInv == Init => FileInv
<1> SUFFICES ASSUME Init  PROVE FileInv
  OBVIOUS
<1>1. TypeOK
  BY EmptyIsADoc, BlankIsContent DEF Init, TypeOK
<1>2. CleanFileIsLastSave /\ FileIsLeftAlone /\ AloneOwnsTmp
  BY DEF Init, CleanFileIsLastSave, Parsed, FileIsLeftAlone, AloneOwnsTmp
<1> QED  BY <1>1, <1>2 DEF FileInv

-----------------------------------------------------------------------------
LEMMA LoadsKeepsInv ==
    ASSUME FileInv, NEW p \in Procs, Loads(p)  PROVE FileInv'
<1>1. Parsed(file) \in Docs
  BY ParsedIsADoc DEF FileInv
<1>2. TypeOK'
  BY <1>1 DEF FileInv, TypeOK, Loads, Idle
<1>3. CleanFileIsLastSave' /\ FileIsLeftAlone' /\ AloneOwnsTmp'
  BY DEF FileInv, Loads, CleanFileIsLastSave, FileIsLeftAlone, AloneOwnsTmp,
         OwnsTmp, Parsed, Idle
<1> QED  BY <1>2, <1>3 DEF FileInv

LEMMA SaveOpensKeepsInv ==
    ASSUME FileInv, NEW p \in Procs, SaveOpens(p)  PROVE FileInv'
<1> USE DEF FileInv
<1>1. PICK i \in Inodes :
          /\ i = tmp \/ (tmp = NoFile /\ ~InUse(i))
          /\ tmp' = i
          /\ fd' = [fd EXCEPT ![p] = i]
          /\ data' = [data EXCEPT ![i] = Blank]
  BY DEF SaveOpens, Open
<1>2. PICK d \in Docs : want' = [want EXCEPT ![p] = d]
  BY DEF SaveOpens
<1>3. i # file /\ i # NoFile
  BY <1>1, NoneOfTheseExist DEF TypeOK, InUse
<1>4. TypeOK'
  <2>1. data' \in [Inodes -> Content]
    BY <1>1, BlankIsContent DEF TypeOK
  <2>2. alone' \in [Procs -> BOOLEAN]
    BY DEF SaveOpens
  <2>3. want' \in [Procs -> Docs \cup {NoDoc}] /\ fd' \in [Procs -> Inodes \cup {NoFile}]
    BY <1>1, <1>2 DEF TypeOK
  <2>4. \A q \in Procs : fd'[q] # NoFile => want'[q] # NoDoc
    BY <1>1, <1>2, NoneOfTheseExist DEF TypeOK, Idle
  <2> QED  BY <1>1, <1>3, <2>1, <2>2, <2>3, <2>4 DEF TypeOK, SaveOpens, Idle
<1>5. CleanFileIsLastSave'
  BY <1>1, <1>3 DEF CleanFileIsLastSave, Parsed, SaveOpens, TypeOK
<1>6. FileIsLeftAlone'
  BY <1>1, <1>3 DEF FileIsLeftAlone, SaveOpens, TypeOK
<1>7. AloneOwnsTmp'
  <2> SUFFICES ASSUME NEW q \in Procs, alone'[q]  PROVE OwnsTmp(q)'
    BY DEF AloneOwnsTmp
  <2>1. q = p /\ \A r \in Procs \ {p} : Idle(r)
    BY DEF SaveOpens
  <2>2. \A r \in Procs \ {p} : Idle(r)'
    BY <1>2, <2>1 DEF TypeOK, Idle
  <2>3. fd'[p] = i /\ data'[i] = Blank
    BY <1>1 DEF TypeOK
  <2> QED  BY <1>1, <1>3, <2>1, <2>2, <2>3 DEF OwnsTmp
<1> QED  BY <1>4, <1>5, <1>6, <1>7

LEMMA SaveWritesKeepsInv ==
    ASSUME FileInv, NEW p \in Procs, SaveWrites(p)  PROVE FileInv'
<1> USE DEF FileInv
<1> DEFINE over == [data EXCEPT ![fd[p]] = WriteOver(@, want[p])]
<1>1. fd[p] \in Inodes /\ want[p] \in Docs
  BY DEF SaveWrites, TypeOK, Idle
<1>2. over \in [Inodes -> Content]
  BY <1>1, WritesAreContent, SMT DEF TypeOK
<1>3. data' = Kept(over)
  BY DEF SaveWrites
<1>4. data' \in [Inodes -> Content] /\ \A i \in Inodes : InUse(i)' => data'[i] = over[i]
  <2> HIDE DEF over
  <2> QED  BY <1>2, <1>3, KeptIsData
<1>5. TypeOK'
  BY <1>4 DEF TypeOK, SaveWrites, Idle
<1>6. CleanFileIsLastSave'
  BY <1>1, <1>4 DEF CleanFileIsLastSave, FileIsLeftAlone, Parsed, SaveWrites, TypeOK, InUse
<1>7. FileIsLeftAlone'
  BY DEF FileIsLeftAlone, SaveWrites, TypeOK
<1>8. AloneOwnsTmp'
  <2> SUFFICES ASSUME NEW q \in Procs, alone'[q], ~Idle(q)'  PROVE OwnsTmp(q)'
    BY DEF AloneOwnsTmp
  <2>1. alone[q] /\ ~Idle(q) /\ ~Idle(p)
    BY DEF SaveWrites, TypeOK, Idle
  <2>2. q = p /\ OwnsTmp(p)
    BY <2>1 DEF AloneOwnsTmp, OwnsTmp
  <2>3. fd[p] = tmp /\ tmp' = tmp /\ want' = want /\ fd'[p] = NoFile
    BY <2>2 DEF OwnsTmp, SaveWrites, TypeOK
  <2>4. data'[tmp] = WriteOver(Blank, want[p])
    BY <1>1, <1>4, <2>2, <2>3 DEF OwnsTmp, InUse, SaveWrites, TypeOK
  <2>5. data'[tmp].whole /\ data'[tmp].doc = want[p]
    BY <1>1, <2>4, FreshWriteIsWhole
  <2> QED  BY <2>2, <2>3, <2>5 DEF OwnsTmp, Idle
<1> QED  BY <1>5, <1>6, <1>7, <1>8

LEMMA SaveRenamesKeepsInv ==
    ASSUME FileInv, NEW p \in Procs, SaveRenames(p)  PROVE FileInv'
<1> USE DEF FileInv
<1>1. tmp \in Inodes /\ file' = tmp /\ tmp' = NoFile
  BY DEF SaveRenames, Moved, TypeOK
<1>2. want[p] \in Docs /\ ~Idle(p) /\ fd[p] = NoFile
  BY DEF SaveRenames, TypeOK, Idle
<1>3. /\ want' = [want EXCEPT ![p] = NoDoc] /\ fd' = [fd EXCEPT ![p] = NoFile]
      /\ saved' = want[p] /\ clean' = alone[p] /\ alone' = alone /\ seen' = seen
  BY DEF SaveRenames, Ends
<1>4. data' \in [Inodes -> Content] /\ \A i \in Inodes : InUse(i)' => data'[i] = data[i]
  BY KeptIsData DEF SaveRenames, TypeOK
<1>5. TypeOK'
  BY <1>1, <1>2, <1>3, <1>4 DEF TypeOK, Idle
<1>6. alone[p] => OwnsTmp(p)
  BY <1>2 DEF AloneOwnsTmp
<1>7. data'[tmp] = data[tmp]
  BY <1>1, <1>4 DEF InUse
<1>8. CleanFileIsLastSave'
  BY <1>1, <1>2, <1>3, <1>6, <1>7, NoneOfTheseExist DEF CleanFileIsLastSave, Parsed, OwnsTmp
<1>9. FileIsLeftAlone'
  BY <1>3, <1>6 DEF FileIsLeftAlone, OwnsTmp, TypeOK, Idle
<1>10. AloneOwnsTmp'
  <2> SUFFICES ASSUME NEW q \in Procs, alone[q], ~Idle(q)'  PROVE FALSE
    BY <1>3 DEF AloneOwnsTmp
  <2>1. q # p /\ ~Idle(q)
    BY <1>3 DEF Idle, TypeOK
  <2> QED  BY <1>2, <2>1 DEF AloneOwnsTmp, OwnsTmp
<1> QED  BY <1>5, <1>8, <1>9, <1>10

(* The save ends and nothing takes effect. *)
LEMMA EndingKeepsInv ==
    ASSUME FileInv, NEW p \in Procs, ~Idle(p), Ends(p),
           UNCHANGED <<file, tmp, seen, alone, saved, clean>>,
           data' \in [Inodes -> Content],
           \A i \in Inodes : InUse(i)' /\ i # fd[p] => data'[i] = data[i]
    PROVE  FileInv'
<1> USE DEF FileInv
<1>1. want' = [want EXCEPT ![p] = NoDoc] /\ fd' = [fd EXCEPT ![p] = NoFile]
  BY DEF Ends
<1>2. TypeOK'
  BY <1>1 DEF TypeOK, Idle
<1>3. CleanFileIsLastSave'
  <2>1. clean /\ file # NoFile => data'[file] = data[file]
    BY DEF FileIsLeftAlone, InUse, TypeOK
  <2> QED  BY <2>1 DEF CleanFileIsLastSave, Parsed
<1>4. FileIsLeftAlone'
  BY <1>1 DEF FileIsLeftAlone, TypeOK
<1>5. AloneOwnsTmp'
  <2> SUFFICES ASSUME NEW q \in Procs, alone[q], ~Idle(q)'  PROVE FALSE
    BY DEF AloneOwnsTmp
  <2>1. q # p /\ ~Idle(q)
    BY <1>1 DEF Idle, TypeOK
  <2> QED  BY <2>1 DEF AloneOwnsTmp, OwnsTmp
<1> QED  BY <1>2, <1>3, <1>4, <1>5

LEMMA SaveBreaksKeepsInv ==
    ASSUME FileInv, NEW p \in Procs, SaveFindsNothing(p) \/ SaveBreaks(p)
    PROVE  FileInv'
<1> USE DEF FileInv
<1>1. /\ ~Idle(p) /\ Ends(p) /\ UNCHANGED <<file, tmp, seen, alone, saved, clean>>
      /\ want[p] \in Docs
  BY DEF SaveFindsNothing, SaveBreaks, TypeOK, Idle
<1>2. data \in [Inodes -> Content]
  BY DEF TypeOK
<1>3. /\ data' \in [Inodes -> Content]
      /\ \A i \in Inodes : InUse(i)' /\ i # fd[p] => data'[i] = data[i]
  <2>1. CASE SaveFindsNothing(p)
    BY <1>2, <2>1 DEF SaveFindsNothing
  <2>2. CASE data' = Kept(data)
    BY <1>2, <2>2, KeptIsData
  <2>3. ASSUME fd[p] # NoFile, NEW n \in 1 .. Size[want[p]] - 1,
               data' = Kept([data EXCEPT ![fd[p]] = WriteSome(@, want[p], n)])
        PROVE  /\ data' \in [Inodes -> Content]
               /\ \A i \in Inodes : InUse(i)' /\ i # fd[p] => data'[i] = data[i]
    <3> DEFINE some == [data EXCEPT ![fd[p]] = WriteSome(@, want[p], n)]
    <3>1. fd[p] \in Inodes /\ n \in Nat /\ data[fd[p]] \in Content
      BY <1>1, <1>2, <2>3, SizesArePositive DEF TypeOK
    <3>2. WriteSome(data[fd[p]], want[p], n) \in Content
      BY <1>1, <3>1, WritesAreContent
    <3>3. some \in [Inodes -> Content] /\ \A i \in Inodes : i # fd[p] => some[i] = data[i]
      BY <1>2, <3>1, <3>2
    <3> HIDE DEF some
    <3>4. data' = Kept(some)
      BY <2>3 DEF some
    <3> QED  BY <3>3, <3>4, KeptIsData
  <2> QED  BY <2>1, <2>2, <2>3 DEF SaveBreaks
<1> QED  BY <1>1, <1>3, EndingKeepsInv

LEMMA NextKeepsFileInv == FileInv /\ [Next]_vars => FileInv'
<1> SUFFICES ASSUME FileInv, [Next]_vars  PROVE FileInv'
  OBVIOUS
<1>1. ASSUME NEW p \in Procs, Loads(p)  PROVE FileInv'
  BY <1>1, LoadsKeepsInv
<1>2. ASSUME NEW p \in Procs, SaveOpens(p)  PROVE FileInv'
  BY <1>2, SaveOpensKeepsInv
<1>3. ASSUME NEW p \in Procs, SaveWrites(p)  PROVE FileInv'
  BY <1>3, SaveWritesKeepsInv
<1>4. ASSUME NEW p \in Procs, SaveRenames(p)  PROVE FileInv'
  BY <1>4, SaveRenamesKeepsInv
<1>5. ASSUME NEW p \in Procs, SaveFindsNothing(p) \/ SaveBreaks(p)  PROVE FileInv'
  BY <1>5, SaveBreaksKeepsInv
<1>6. CASE UNCHANGED vars
  BY <1>6 DEF vars, FileInv, TypeOK, CleanFileIsLastSave, FileIsLeftAlone, AloneOwnsTmp,
              OwnsTmp, Parsed, Idle
<1> QED  BY <1>1, <1>2, <1>3, <1>4, <1>5, <1>6 DEF Next

LEMMA FileInvAlways == Spec => []FileInv
  BY InitFileInv, NextKeepsFileInv, PTL DEF Spec

-----------------------------------------------------------------------------
(* The variables of the store have the values their declarations say. *)
THEOREM StateFileTypeCorrect == Spec => []TypeOK
<1>1. FileInv => TypeOK
  BY DEF FileInv
<1> QED  BY <1>1, FileInvAlways, PTL

(* After a save that met no other, the state file is that document, whole, *)
(* until the next save takes effect: leftovers in the .tmp file, crashes,  *)
(* full disks and saves that have begun do not touch it.                   *)
THEOREM CleanSavesStay == Spec => []CleanFileIsLastSave
<1>1. FileInv => CleanFileIsLastSave
  BY DEF FileInv
<1> QED  BY <1>1, FileInvAlways, PTL

LEMMA StepsAreOnTheRegister ==
    FileInv /\ [Next]_vars => [Promise!Next]_(Promise!register)
<1> SUFFICES ASSUME FileInv, [Next]_vars
             PROVE  [Promise!Next]_(Promise!register)
  OBVIOUS
<1> USE DEF Promise!Next, Promise!Idle, Idle
<1>1. ASSUME NEW p \in Procs, Loads(p)  PROVE Promise!Load(p)
  <2>1. Parsed(file) \in Docs /\ (clean => Parsed(file) = saved /\ saved # Unknown)
    BY ParsedIsADoc, NoneOfTheseExist DEF FileInv, CleanFileIsLastSave, TypeOK
  <2> QED  BY <1>1, <2>1 DEF Loads, Promise!Load
<1>2. ASSUME NEW p \in Procs, SaveOpens(p)  PROVE Promise!Ask(p)
  BY <1>2 DEF SaveOpens, Promise!Ask
<1>3. ASSUME NEW p \in Procs, SaveWrites(p)  PROVE UNCHANGED Promise!register
  BY <1>3 DEF SaveWrites, Promise!register
<1>4. ASSUME NEW p \in Procs, SaveRenames(p)  PROVE Promise!Store(p)
  BY <1>4 DEF SaveRenames, Ends, Promise!Store
<1>5. ASSUME NEW p \in Procs, SaveFindsNothing(p) \/ SaveBreaks(p)  PROVE Promise!Fail(p)
  BY <1>5 DEF SaveFindsNothing, SaveBreaks, Ends, Promise!Fail
<1>6. CASE UNCHANGED vars
  BY <1>6 DEF vars, Promise!register
<1> QED  BY <1>1, <1>2, <1>3, <1>4, <1>5, <1>6 DEF Next

(* load_state and save_state implement the register: a save that overlaps  *)
(* no other is atomic, whatever breaks, and a load returns the last one.   *)
THEOREM StateFileImplementsRegister == Spec => ImplementsRegister
<1>1. Init => Promise!Init
  BY DEF Init, Promise!Init
<1> QED
  BY <1>1, FileInvAlways, StepsAreOnTheRegister, PTL DEF Spec, ImplementsRegister, Promise!Spec
=============================================================================
